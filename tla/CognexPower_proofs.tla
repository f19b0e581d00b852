-------------------------- MODULE CognexPower_proofs --------------------------
(***************************************************************************)
(* Proofs about CognexPower: its type invariant, how much a loss of power  *)
(* takes back, and that a restart serves what was left.                    *)
(***************************************************************************)
EXTENDS CognexPower, CognexText_proofs

(* The contents that the logs can have, and their records. *)
ValueRecord == [keySize : Nat, value : Value]
Logs        == Seq(Write)
ValueLogs   == Seq(ValueRecord)
Offsets     == [Key -> Nat]

(* What put(), del() and replay change. *)
Stores ==
  [valueLog : FileOf(ValueLogs), writes : 0 .. ValueLogFsyncEveryNWrites - 1, index : Offsets]

-----------------------------------------------------------------------------
(* Files *)

(* The fsync intervals are positive, and a counter can start at 0. *)
LEMMA IntervalTypes ==
  /\ KeySize \in [Key -> Nat]
  /\ WalFsyncEveryNWrites \in Nat \ {0}
  /\ ValueLogFsyncEveryNWrites \in Nat \ {0}
  /\ 0 \in 0 .. WalFsyncEveryNWrites - 1
  /\ 0 \in 0 .. ValueLogFsyncEveryNWrites - 1
<1>1. /\ KeySize \in [Key -> Nat]
      /\ WalFsyncEveryNWrites \in Nat \ {0}
      /\ ValueLogFsyncEveryNWrites \in Nat \ {0}
  BY PowerAssumption
<1>2. \A m \in Nat \ {0} : 0 \in 0 .. m - 1
  OBVIOUS
<1> QED
  BY <1>1, <1>2

LEMMA FileTypes ==
  ASSUME NEW S, NEW file \in FileOf(S), NEW content \in S
  PROVE  /\ File(content) \in FileOf(S)
         /\ Wrote(file, content) \in FileOf(S)
         /\ file.cache \in S /\ file.disk \subseteq S
BY DEF FileOf, File, Wrote

(* A counted write makes the new contents the ones that are read. *)
LEMMA WroteAndCountedType ==
  ASSUME NEW S, NEW file \in FileOf(S), NEW content \in S,
         NEW m \in Nat \ {0}, NEW n \in 1 .. m
  PROVE  LET done == WroteAndCounted(file, content, n, m)
         IN  /\ done.file \in FileOf(S) /\ done.writes \in 0 .. m - 1
             /\ done.file.cache = content /\ content \in done.file.disk
             /\ done.file.disk \subseteq file.disk \cup {content}
<1>1. CASE n >= m
  BY <1>1, FileTypes DEF WroteAndCounted, File
<1>2. CASE ~(n >= m)
  BY <1>2, FileTypes DEF WroteAndCounted, Wrote
<1> QED
  BY <1>1, <1>2

LEMMA WriteParts ==
  ASSUME NEW write \in Write
  PROVE  /\ write.key \in Key
         /\ write.to # {} => \E v \in Value : write.to = {v} /\ (CHOOSE x \in write.to : TRUE) = v
BY DEF Write

(* The value log gets one record more, to which the index leads. *)
LEMMA StoringIs ==
  ASSUME NEW s \in Stores, NEW write \in Write, write.to # {}
  PROVE  /\ Storing(s, write) \in Stores
         /\ \E v \in Value :
              LET log == Append(s.valueLog.cache, [keySize |-> KeySize[write.key], value |-> v])
              IN  /\ write.to = {v}
                  /\ log \in ValueLogs
                  /\ Storing(s, write).valueLog.cache = log
                  /\ Storing(s, write).valueLog.disk \subseteq s.valueLog.disk \cup {log}
                  /\ Storing(s, write).index = [s.index EXCEPT ![write.key] = Len(log)]
<1>1. PICK v \in Value : write.to = {v} /\ (CHOOSE x \in write.to : TRUE) = v
  BY WriteParts
<1> DEFINE r    == [keySize |-> KeySize[write.key], value |-> v]
           log  == Append(s.valueLog.cache, r)
           done == WroteAndCounted(s.valueLog, log, s.writes + 1, ValueLogFsyncEveryNWrites)
<1>2. s.valueLog \in FileOf(ValueLogs) /\ s.writes \in 0 .. ValueLogFsyncEveryNWrites - 1
      /\ s.index \in Offsets
  BY DEF Stores
<1>3. r \in ValueRecord
  BY WriteParts, IntervalTypes DEF ValueRecord
<1>4. log \in ValueLogs /\ Len(log) \in Nat
  <2>1. s.valueLog.cache \in Seq(ValueRecord)
    BY <1>2 DEF FileOf, ValueLogs
  <2> HIDE DEF r
  <2> QED
    BY <1>3, <2>1, AppendLog, LenProperties DEF ValueLogs
<1>5. Storing(s, write) = [valueLog |-> done.file, writes |-> done.writes,
                           index |-> [s.index EXCEPT ![write.key] = Len(log)]]
  BY <1>1 DEF Storing
<1>6. s.writes + 1 \in 1 .. ValueLogFsyncEveryNWrites /\ ValueLogFsyncEveryNWrites \in Nat \ {0}
  <2>1. ASSUME NEW m \in Nat \ {0}, NEW n \in 0 .. m - 1
        PROVE  n + 1 \in 1 .. m
    OBVIOUS
  <2> QED
    BY <1>2, <2>1, IntervalTypes
<1>7. /\ done.file \in FileOf(ValueLogs)
      /\ done.writes \in 0 .. ValueLogFsyncEveryNWrites - 1
      /\ done.file.cache = log /\ done.file.disk \subseteq s.valueLog.disk \cup {log}
  <2> HIDE DEF log
  <2> QED
    BY <1>2, <1>4, <1>6, WroteAndCountedType
<1>8. [s.index EXCEPT ![write.key] = Len(log)] \in Offsets
  <2> HIDE DEF log
  <2> QED
    BY <1>2, <1>4 DEF Offsets
<1> HIDE DEF log, done
<1>9. Storing(s, write) \in Stores
  BY <1>5, <1>7, <1>8 DEF Stores
<1>10. /\ Storing(s, write).valueLog = done.file
       /\ Storing(s, write).index = [s.index EXCEPT ![write.key] = Len(log)]
  BY <1>5
<1> QED
  BY <1>1, <1>4, <1>7, <1>9, <1>10 DEF log

LEMMA ApplyingType ==
  ASSUME NEW s \in Stores, NEW write \in Write
  PROVE  Applying(s, write) \in Stores
<1>1. CASE write.to = {}
  <2>1. Applying(s, write) = [s EXCEPT !.index = [s.index EXCEPT ![write.key] = Absent]]
    BY <1>1 DEF Applying
  <2>2. [s.index EXCEPT ![write.key] = Absent] \in Offsets
    BY DEF Stores, Offsets, Absent
  <2> QED
    BY <2>1, <2>2 DEF Stores
<1>2. CASE write.to # {}
  BY <1>2, StoringIs DEF Applying
<1> QED
  BY <1>1, <1>2

(* Replay applies the writes of the log one after the other. *)
LEMMA ReplayedSteps ==
  ASSUME NEW values \in FileOf(ValueLogs), NEW map \in Offsets, NEW log \in Logs
  PROVE  \E f \in [0 .. Len(log) -> Stores] :
           /\ f[0] = [valueLog |-> values, writes |-> 0, index |-> map]
           /\ \A i \in 1 .. Len(log) : f[i] = Applying(f[i - 1], log[i])
           /\ Replayed(values, map, log) = f[Len(log)]
<1> DEFINE first  == [valueLog |-> values, writes |-> 0, index |-> map]
           D      == 0 .. Len(log)
           Def(f, n) == IF n = 0 THEN first ELSE Applying(f[n - 1], log[n])
           replayed == CHOOSE f : f = [n \in D |-> Def(f, n)]
           step   == [n \in 1 .. Len(log) |-> [s \in Stores |-> Applying(s, log[n])]]
           l      == Len(log)
<1>0. Len(log) \in Nat
  BY LenProperties DEF Logs
<1>1. Replayed(values, map, log) = replayed[Len(log)]
  BY DEF Replayed
<1>2. first \in Stores
  BY IntervalTypes, Zenon DEF Stores
<1>3. step \in [1 .. Len(log) -> [Stores -> Stores]]
  <2>1. ASSUME NEW n \in 1 .. Len(log), NEW s \in Stores
        PROVE  Applying(s, log[n]) \in Stores
    <3>1. log[n] \in Write
      BY ElementOfSeq DEF Logs
    <3> QED
      BY <3>1, ApplyingType
  <2> QED
    BY <2>1
<1>4. PICK g \in [D -> Stores] :
        \A n \in D : g[n] = IF n = 0 THEN first ELSE step[n][g[n - 1]]
  <2>1. Counted(l, Stores, first, step)
    BY <1>0, <1>2, <1>3 DEF Counted
  <2> HIDE DEF step, first, l
  <2>2. \E g \in [0 .. l -> Stores] :
          \A n \in 0 .. l : g[n] = IF n = 0 THEN first ELSE step[n][g[n - 1]]
    BY <2>1, CountedRecursion
  <2> QED
    BY <2>2 DEF l
<1>5. \A n \in D : n # 0 => n \in 1 .. Len(log) /\ n - 1 \in D
  BY <1>0
<1>6. g = [n \in D |-> Def(g, n)]
  <2>1. ASSUME NEW n \in D
        PROVE  g[n] = Def(g, n)
    <3> HIDE DEF D, first
    <3> QED
      BY <1>4, <1>5
  <2> HIDE DEF Def, D
  <2> QED
    BY <1>4, <2>1
<1>7. replayed = [n \in D |-> Def(replayed, n)]
  <2> HIDE DEF Def
  <2> QED
    BY <1>6
<1> HIDE DEF replayed
<1>8. \A n \in D : replayed[n] = Def(replayed, n)
  <2> HIDE DEF Def
  <2> QED
    BY <1>7
<1>9. /\ replayed[0] = first
      /\ \A i \in 1 .. Len(log) : replayed[i] = Applying(replayed[i - 1], log[i])
  <2> HIDE DEF first
  <2> QED
    BY <1>0, <1>8
<1> DEFINE T == {n \in D : replayed[n] \in Stores}
<1>10. D \subseteq T
  <2>1. 0 \in T
    BY <1>0, <1>2, <1>9
  <2>2. ASSUME NEW i \in 1 .. Len(log), i - 1 \in T
        PROVE  i \in T
    <3>1. log[i] \in Write /\ replayed[i - 1] \in Stores /\ i \in D
      BY <1>0, <2>2, ElementOfSeq DEF Logs
    <3>2. replayed[i] \in Stores
      BY <1>9, <3>1, ApplyingType
    <3> QED
      BY <3>1, <3>2
  <2> HIDE DEF T
  <2> QED
    BY <1>0, <2>1, <2>2, CountedInduction
<1>11. replayed \in [D -> Stores]
  <2> HIDE DEF Def, D
  <2>1. \A n \in D : replayed[n] \in Stores
    BY <1>10
  <2> QED
    BY <1>7, <2>1
<1> HIDE DEF first
<1> QED
  BY <1>1, <1>9, <1>11 DEF first

LEMMA ReplayedType ==
  ASSUME NEW values \in FileOf(ValueLogs), NEW map \in Offsets, NEW log \in Logs
  PROVE  Replayed(values, map, log) \in Stores
<1>1. PICK f \in [0 .. Len(log) -> Stores] :
        /\ f[0] = [valueLog |-> values, writes |-> 0, index |-> map]
        /\ \A i \in 1 .. Len(log) : f[i] = Applying(f[i - 1], log[i])
        /\ Replayed(values, map, log) = f[Len(log)]
  BY ReplayedSteps
<1>2. Len(log) \in 0 .. Len(log)
  BY LenProperties DEF Logs
<1> QED
  BY <1>1, <1>2

-----------------------------------------------------------------------------
(* What a log says of a key *)

Mentions(log, k) == \E i \in DOMAIN log : log[i].key = k

(* The last write to a key that the log mentions. *)
Latest(log, k) == log[Max({i \in DOMAIN log : log[i].key = k})].to

Optional == {{}} \cup {{v} : v \in Value}

LEMMA RecoveredIs ==
  ASSUME NEW log, NEW values, NEW map, NEW k
  PROVE  Recovered(log, values, map, k) =
           IF Mentions(log, k) THEN Latest(log, k) ELSE Stored(map, values, k)
BY DEF Recovered, Mentions, Latest

LEMMA LatestUnique ==
  ASSUME NEW log \in Logs, NEW k, NEW i \in 1 .. Len(log), log[i].key = k,
         \A j \in 1 .. Len(log) : log[j].key = k => j <= i
  PROVE  Latest(log, k) = log[i].to
<1> DEFINE S == {j \in DOMAIN log : log[j].key = k}
<1>0. DOMAIN log = 1 .. Len(log) /\ Len(log) \in Nat
  BY LenProperties DEF Logs
<1>1. i \in S /\ S \subseteq Nat /\ \A j \in S : j <= i
  BY <1>0
<1>2. Max(S) = i
  <2> HIDE DEF S
  <2>1. Max(S) \in S /\ \A j \in S : Max(S) >= j
    BY <1>1 DEF Max
  <2>2. Max(S) \in Nat /\ i \in Nat /\ Max(S) >= i /\ Max(S) <= i
    BY <1>1, <2>1
  <2> HIDE DEF Max
  <2> QED
    BY <2>2
<1> QED
  BY <1>2 DEF Latest

LEMMA LatestIs ==
  ASSUME NEW log \in Logs, NEW k, Mentions(log, k)
  PROVE  \E i \in 1 .. Len(log) :
           /\ log[i].key = k
           /\ Latest(log, k) = log[i].to
           /\ \A j \in 1 .. Len(log) : log[j].key = k => j <= i
<1> DEFINE S == {j \in DOMAIN log : log[j].key = k}
<1>0. DOMAIN log = 1 .. Len(log) /\ Len(log) \in Nat
  BY LenProperties DEF Logs
<1>1. S # {} /\ S \in SUBSET (0 .. Len(log))
  BY <1>0 DEF Mentions
<1>2. PICK i \in S : \A j \in S : j <= i
  <2> HIDE DEF S
  <2> QED
    BY <1>0, <1>1, NatMax
<1>3. i \in 1 .. Len(log) /\ log[i].key = k /\ \A j \in 1 .. Len(log) : log[j].key = k => j <= i
  BY <1>0, <1>2
<1> QED
  BY <1>3, LatestUnique

LEMMA AppendMentions ==
  ASSUME NEW log \in Logs, NEW write \in Write, NEW k
  PROVE  /\ Append(log, write) \in Logs
         /\ Mentions(Append(log, write), k) <=> (Mentions(log, k) \/ write.key = k)
         /\ write.key = k => Latest(Append(log, write), k) = write.to
         /\ write.key # k /\ Mentions(log, k) =>
              Latest(Append(log, write), k) = Latest(log, k)
<1> DEFINE new == Append(log, write)
           l   == Len(log)
<1>1. /\ new \in Logs /\ Len(new) = l + 1 /\ l \in Nat
      /\ \A i \in 1 .. l : new[i] = log[i]
      /\ new[l + 1] = write
  BY AppendLog, LenProperties DEF Logs
<1>2. DOMAIN new = 1 .. l + 1 /\ DOMAIN log = 1 .. l
  BY <1>1, LenProperties DEF Logs
<1> HIDE DEF new, l
<1>3. Mentions(new, k) <=> (Mentions(log, k) \/ write.key = k)
  <2>1. \A i \in 1 .. l + 1 : i \in 1 .. l \/ i = l + 1
    BY <1>1
  <2>2. l + 1 \in 1 .. l + 1 /\ 1 .. l \subseteq 1 .. l + 1
    BY <1>1
  <2> QED
    BY <1>1, <1>2, <2>1, <2>2 DEF Mentions
<1>4. ASSUME write.key = k
      PROVE  Latest(new, k) = write.to
  <2>1. /\ l + 1 \in 1 .. Len(new) /\ new[l + 1].key = k
        /\ \A j \in 1 .. Len(new) : new[j].key = k => j <= l + 1
    BY <1>1, <1>4
  <2>2. Latest(new, k) = new[l + 1].to
    BY <1>1, <2>1, LatestUnique
  <2> QED
    BY <1>1, <2>2
<1>5. ASSUME write.key # k, Mentions(log, k)
      PROVE  Latest(new, k) = Latest(log, k)
  <2>1. PICK i \in 1 .. l : /\ log[i].key = k /\ Latest(log, k) = log[i].to
                            /\ \A j \in 1 .. l : log[j].key = k => j <= i
    BY <1>5, LatestIs DEF l
  <2>2. i \in 1 .. Len(new) /\ new[i].key = k /\ new[i].to = log[i].to
    BY <1>1, <2>1
  <2>3. ASSUME NEW j \in 1 .. Len(new), new[j].key = k
        PROVE  j <= i
    <3>1. j \in 1 .. l
      BY <1>1, <1>5, <2>3
    <3> QED
      BY <1>1, <2>1, <2>3, <3>1
  <2>4. Latest(new, k) = new[i].to
    BY <1>1, <2>2, <2>3, LatestUnique
  <2> QED
    BY <2>1, <2>2, <2>4
<1> QED
  BY <1>1, <1>3, <1>4, <1>5 DEF new

(* After one write more, recovery gives its key what it wrote. *)
LEMMA RecoveredAppend ==
  ASSUME NEW log \in Logs, NEW write \in Write, NEW values, NEW map, NEW k
  PROVE  Recovered(Append(log, write), values, map, k) =
           IF k = write.key THEN write.to ELSE Recovered(log, values, map, k)
BY AppendMentions, RecoveredIs

LEMMA NothingMentioned ==
  ASSUME NEW k
  PROVE  ~Mentions(<<>>, k) /\ <<>> \in Logs
BY DEF Mentions, Logs

LEMMA StoredType ==
  ASSUME NEW map \in Offsets, NEW values \in ValueLogs, NEW k \in Key
  PROVE  Stored(map, values, k) \in Optional
<1>1. CASE map[k] \in 1 .. Len(values)
  <2>1. values[map[k]] \in ValueRecord
    BY <1>1, ElementOfSeq DEF ValueLogs
  <2>2. values[map[k]].value \in Value
    BY <2>1 DEF ValueRecord
  <2> QED
    BY <1>1, <2>2 DEF Stored, Optional
<1>2. CASE map[k] \notin 1 .. Len(values)
  BY <1>2 DEF Stored, Optional
<1> QED
  BY <1>1, <1>2

LEMMA RecoveredType ==
  ASSUME NEW log \in Logs, NEW map \in Offsets, NEW values \in ValueLogs, NEW k \in Key
  PROVE  Recovered(log, values, map, k) \in Optional
<1>1. CASE Mentions(log, k)
  <2>1. PICK i \in 1 .. Len(log) : Latest(log, k) = log[i].to
    BY <1>1, LatestIs
  <2>2. log[i] \in Write
    BY ElementOfSeq DEF Logs
  <2>3. log[i].to \in Optional
    BY <2>2 DEF Write, Optional
  <2> QED
    BY <1>1, <2>1, <2>3, RecoveredIs
<1>2. CASE ~Mentions(log, k)
  BY <1>2, RecoveredIs, StoredType
<1> QED
  BY <1>1, <1>2

-----------------------------------------------------------------------------
(* The type invariant *)

FilesTyped ==
  /\ wal \in FileOf(Logs)
  /\ valueLog \in FileOf(ValueLogs)
  /\ snapshot \in FileOf(Offsets)
  /\ index \in Offsets

CountersTyped ==
  /\ walWrites \in 0 .. WalFsyncEveryNWrites - 1
  /\ valueLogWrites \in 0 .. ValueLogFsyncEveryNWrites - 1
  /\ snapshotWriteOps \in Nat
  /\ op \subseteq Write
  /\ killed \in Nat

ControlTyped ==
  /\ pc \in {"down", "ready", "logged", "snapshot", "renamed", "synced"}
  /\ calls \in 0 .. MaxCalls
  /\ starts \in 0 .. MaxStarts
  /\ exposed \in BOOLEAN

(* There are contents to begin with. *)
PastTyped == past \in Seq(Contents) /\ past # <<>>

Typed == FilesTyped /\ CountersTyped /\ ControlTyped /\ PastTyped

LEMMA NoOffsetsType == NoOffsets \in Offsets
BY DEF NoOffsets, Offsets, Absent

(* A sequence of one element, and one of one element more. *)
LEMMA PastType ==
  /\ \A c \in Contents : <<c>> \in Seq(Contents) /\ <<c>> # <<>>
  /\ \A p \in Seq(Contents), c \in Contents : Append(p, c) \in Seq(Contents) /\ Append(p, c) # <<>>
<1>1. ASSUME NEW S, NEW p \in Seq(S), NEW c \in S
      PROVE  Append(p, c) \in Seq(S) /\ Append(p, c) # <<>>
  <2>1. Append(p, c) \in Seq(S) /\ Len(Append(p, c)) = Len(p) + 1 /\ Len(p) \in Nat
    BY AppendLog, LenProperties
  <2>2. Len(Append(p, c)) # 0
    BY <2>1
  <2> QED
    BY <2>1, <2>2
<1>2. \A c : <<c>> # <<>>
  OBVIOUS
<1>3. \A c \in Contents : <<c>> \in Seq(Contents)
  <2> DEFINE C == Contents
  <2> HIDE DEF C
  <2>1. \A c \in C : <<c>> \in Seq(C)
    OBVIOUS
  <2> QED
    BY <2>1 DEF C
<1> QED
  BY <1>1, <1>2, <1>3

LEMMA LastContents == PastTyped => past[Len(past)] \in Contents /\ Len(past) \in Nat \ {0}
<1> SUFFICES ASSUME PastTyped
             PROVE  past[Len(past)] \in Contents /\ Len(past) \in Nat \ {0}
  OBVIOUS
<1>1. Len(past) \in Nat /\ Len(past) # 0
  BY LenProperties, EmptySeq DEF PastTyped
<1>2. Len(past) \in 1 .. Len(past)
  BY <1>1
<1> QED
  BY <1>1, <1>2, ElementOfSeq DEF PastTyped

LEMMA TypedInit == Init => Typed
<1> SUFFICES ASSUME Init
             PROVE  Typed
  OBVIOUS
<1>1. <<>> \in Logs /\ <<>> \in ValueLogs
  BY DEF Logs, ValueLogs
<1>2. FilesTyped
  BY <1>1, NoOffsetsType DEF Init, FilesTyped, File, FileOf
<1>3. CountersTyped
  BY IntervalTypes DEF Init, CountersTyped
<1>4. ControlTyped
  <2>1. \A n \in Nat : 0 \in 0 .. n
    OBVIOUS
  <2>2. MaxCalls \in Nat /\ MaxStarts \in Nat
    BY PowerAssumption
  <2> QED
    BY <2>1, <2>2 DEF Init, ControlTyped
<1>5. PastTyped
  <2>1. [k \in Key |-> {}] \in Contents
    BY DEF Contents
  <2> QED
    BY <2>1, PastType DEF Init, PastTyped
<1> QED
  BY <1>2, <1>3, <1>4, <1>5 DEF Typed

LEMMA GoneTyped == ProcessGone => index' \in Offsets /\ op' = {}
BY NoOffsetsType DEF ProcessGone

LEMMA FilesTypedStep == Typed /\ [Next]_vars => FilesTyped'
<1> SUFFICES ASSUME Typed, [Next]_vars
             PROVE  FilesTyped'
  OBVIOUS
<1> USE DEF Typed
<1> USE DEF FilesTyped
<1>1. CASE Start
  <2> DEFINE s == Replayed(valueLog, snapshot.cache, wal.cache)
  <2>1. s \in Stores
    <3>1. wal.cache \in Logs /\ snapshot.cache \in Offsets
      BY DEF FileOf
    <3> QED
      BY <3>1, ReplayedType
  <2> HIDE DEF s
  <2>2. s.valueLog \in FileOf(ValueLogs) /\ s.index \in Offsets
    BY <2>1 DEF Stores
  <2>3. valueLog' = s.valueLog /\ (index' = s.index \/ index' = NoOffsets) /\ UNCHANGED <<wal, snapshot>>
    BY <1>1 DEF Start, s, ProcessGone
  <2> QED
    BY <2>2, <2>3, NoOffsetsType
<1>2. ASSUME NEW write \in Write, Call(write)
      PROVE  FilesTyped'
  <2>1. wal.cache \in Logs
    BY DEF FileOf
  <2>2. Append(wal.cache, write) \in Logs
    BY <2>1, AppendMentions
  <2>3. walWrites + 1 \in 1 .. WalFsyncEveryNWrites
    BY IntervalTypes DEF CountersTyped
  <2>4. wal' \in FileOf(Logs)
    <3> DEFINE done == WroteAndCounted(wal, Append(wal.cache, write), walWrites + 1,
                                       WalFsyncEveryNWrites)
    <3>1. done.file \in FileOf(Logs)
      BY <2>2, <2>3, IntervalTypes, WroteAndCountedType
    <3>2. wal' = done.file
      BY <1>2 DEF Call
    <3> QED
      BY <3>1, <3>2
  <2> QED
    BY <1>2, <2>4 DEF Call
<1>3. CASE Apply
  <2> DEFINE s == [valueLog |-> valueLog, writes |-> valueLogWrites, index |-> index]
  <2>1. PICK write \in op : valueLog' = Applying(s, write).valueLog /\ index' = Applying(s, write).index
    BY <1>3 DEF Apply
  <2>2. s \in Stores
    BY Zenon DEF Stores, CountersTyped
  <2>3. Applying(s, write) \in Stores
    <3>1. write \in Write
      BY DEF CountersTyped
    <3> HIDE DEF s
    <3> QED
      BY <2>2, <3>1, ApplyingType
  <2> HIDE DEF s
  <2> QED
    BY <1>3, <2>1, <2>3 DEF Apply, Stores
<1>4. CASE SnapshotCall \/ Kill
  BY <1>4, GoneTyped DEF SnapshotCall, Kill, files, memory
<1>5. CASE SnapshotRename
  BY <1>5, FileTypes DEF SnapshotRename, memory
<1>6. CASE SnapshotSync
  <2>1. Synced(snapshot) \in FileOf(Offsets)
    BY FileTypes DEF Synced
  <2> QED
    BY <1>6, <2>1 DEF SnapshotSync, memory
<1>7. CASE SnapshotTruncate
  <2>1. File(<<>>) \in FileOf(Logs) /\ Wrote(wal, <<>>) \in FileOf(Logs)
    BY NothingMentioned, FileTypes
  <2> QED
    BY <1>7, <2>1 DEF SnapshotTruncate
<1>8. CASE PowerFailure
  <2>1. PICK log \in wal.disk, values \in valueLog.disk, map \in snapshot.disk :
          wal' = File(log) /\ valueLog' = File(values) /\ snapshot' = File(map)
    BY <1>8 DEF PowerFailure
  <2>2. log \in Logs /\ values \in ValueLogs /\ map \in Offsets
    BY DEF FileOf
  <2>3. index' \in Offsets
    BY <1>8, GoneTyped DEF PowerFailure
  <2> QED
    BY <2>1, <2>2, <2>3, FileTypes
<1>9. CASE UNCHANGED vars
  BY <1>9 DEF vars, files, memory
<1> QED
  BY <1>1, <1>2, <1>3, <1>4, <1>5, <1>6, <1>7, <1>8, <1>9 DEF Next

LEMMA CountersTypedStep == Typed /\ [Next]_vars => CountersTyped'
<1> SUFFICES ASSUME Typed, [Next]_vars
             PROVE  CountersTyped'
  OBVIOUS
<1> USE DEF Typed
<1> USE DEF CountersTyped
<1>1. CASE Start
  <2> DEFINE s == Replayed(valueLog, snapshot.cache, wal.cache)
  <2>1. s.writes \in 0 .. ValueLogFsyncEveryNWrites - 1
    <3>1. valueLog \in FileOf(ValueLogs) /\ wal.cache \in Logs /\ snapshot.cache \in Offsets
      BY DEF FilesTyped, FileOf
    <3>2. s \in Stores
      BY <3>1, ReplayedType
    <3> HIDE DEF s
    <3> QED
      BY <3>2 DEF Stores
  <2> HIDE DEF s
  <2>2. CASE ProcessGone
    BY <1>1, <2>2, IntervalTypes DEF Start, ProcessGone, observed
  <2>3. CASE valueLogWrites' = s.writes /\ UNCHANGED <<walWrites, snapshotWriteOps, op>>
    BY <1>1, <2>1, <2>3 DEF Start, observed
  <2> QED
    BY <1>1, <2>2, <2>3 DEF Start, s
<1>2. ASSUME NEW write \in Write, Call(write)
      PROVE  CountersTyped'
  <2> DEFINE done == WroteAndCounted(wal, Append(wal.cache, write), walWrites + 1,
                                     WalFsyncEveryNWrites)
  <2>1. done.writes \in 0 .. WalFsyncEveryNWrites - 1
    <3>1. wal \in FileOf(Logs) /\ wal.cache \in Logs
      BY DEF FilesTyped, FileOf
    <3>2. Append(wal.cache, write) \in Logs
      BY <3>1, AppendMentions
    <3>3. walWrites + 1 \in 1 .. WalFsyncEveryNWrites
      BY IntervalTypes
    <3> QED
      BY <3>1, <3>2, <3>3, IntervalTypes, WroteAndCountedType
  <2>2. walWrites' = done.writes
    BY <1>2 DEF Call
  <2> HIDE DEF done
  <2>3. killed' \in Nat /\ op' \subseteq Write /\ UNCHANGED <<valueLogWrites, snapshotWriteOps>>
    BY <1>2 DEF Call
  <2> QED
    BY <2>1, <2>2, <2>3
<1>3. CASE Apply
  <2> DEFINE s == [valueLog |-> valueLog, writes |-> valueLogWrites, index |-> index]
  <2>1. PICK write \in op : valueLogWrites' = Applying(s, write).writes
    BY <1>3 DEF Apply
  <2>2. s \in Stores
    BY Zenon DEF Stores, FilesTyped
  <2>3. Applying(s, write) \in Stores
    <3>1. write \in Write
      OBVIOUS
    <3> HIDE DEF s
    <3> QED
      BY <2>2, <3>1, ApplyingType
  <2> HIDE DEF s
  <2>4. valueLogWrites' \in 0 .. ValueLogFsyncEveryNWrites - 1
    BY <2>1, <2>3 DEF Stores
  <2>5. /\ snapshotWriteOps' \in Nat /\ op' \subseteq Write
        /\ UNCHANGED <<walWrites, killed>>
    BY <1>3 DEF Apply, observed
  <2> QED
    BY <2>4, <2>5
<1>4. CASE SnapshotCall \/ SnapshotRename
  BY <1>4 DEF SnapshotCall, SnapshotRename, memory, counters, observed
<1>5. CASE SnapshotSync \/ SnapshotTruncate
  <2>1. CASE SnapshotSync
    BY <2>1 DEF SnapshotSync, memory, counters
  <2>2. CASE SnapshotTruncate
    <3>1. /\ UNCHANGED <<walWrites, valueLogWrites>>
          /\ op' = {} /\ killed' \in {0, killed} /\ snapshotWriteOps' \in {0, snapshotWriteOps}
      BY <2>2 DEF SnapshotTruncate
    <3> QED
      BY <3>1
  <2> QED
    BY <1>5, <2>1, <2>2
<1>6. CASE Kill \/ PowerFailure
  BY <1>6, IntervalTypes DEF Kill, PowerFailure, ProcessGone
<1>7. CASE UNCHANGED vars
  BY <1>7 DEF vars, memory, counters, observed
<1> QED
  BY <1>1, <1>2, <1>3, <1>4, <1>5, <1>6, <1>7 DEF Next

LEMMA ControlTypedStep == Typed /\ [Next]_vars => ControlTyped'
<1> SUFFICES ASSUME Typed, [Next]_vars
             PROVE  ControlTyped'
  OBVIOUS
<1> USE DEF Typed
<1> USE DEF ControlTyped
<1>0. /\ \A n \in 0 .. MaxCalls : n < MaxCalls => n + 1 \in 0 .. MaxCalls
      /\ \A n \in 0 .. MaxStarts : n < MaxStarts => n + 1 \in 0 .. MaxStarts
  <2>1. \A m \in Nat : \A n \in 0 .. m : n < m => n + 1 \in 0 .. m
    OBVIOUS
  <2>2. MaxCalls \in Nat /\ MaxStarts \in Nat
    BY PowerAssumption
  <2> QED
    BY <2>1, <2>2
<1>1. CASE Start
  BY <1>0, <1>1 DEF Start, ProcessGone, observed
<1>2. ASSUME NEW write \in Write, Call(write)
      PROVE  ControlTyped'
  BY <1>0, <1>2 DEF Call
<1>3. CASE Apply
  BY <1>3 DEF Apply, observed
<1>4. CASE SnapshotCall \/ SnapshotRename
  BY <1>0, <1>4 DEF SnapshotCall, SnapshotRename, observed
<1>5. CASE SnapshotSync \/ SnapshotTruncate
  BY <1>5 DEF SnapshotSync, SnapshotTruncate
<1>6. CASE Kill
  BY <1>6 DEF Kill, ProcessGone
<1>7. CASE PowerFailure
  <2>1. exposed' \in BOOLEAN
    BY <1>7 DEF PowerFailure
  <2> QED
    BY <1>7, <2>1 DEF PowerFailure, ProcessGone
<1>8. CASE UNCHANGED vars
  BY <1>8 DEF vars, observed
<1> QED
  BY <1>1, <1>2, <1>3, <1>4, <1>5, <1>6, <1>7, <1>8 DEF Next

LEMMA PastTypedStep == Typed /\ [Next]_vars => PastTyped'
<1> SUFFICES ASSUME Typed, [Next]_vars
             PROVE  PastTyped'
  OBVIOUS
<1> USE DEF Typed
<1>1. ASSUME NEW write \in Write, Call(write)
      PROVE  PastTyped'
  <2>1. write.key \in Key /\ write.to \in Optional
    BY DEF Write, Optional
  <2>2. [past[Len(past)] EXCEPT ![write.key] = write.to] \in Contents
    <3>1. past[Len(past)] \in [Key -> Optional]
      BY LastContents DEF Contents, Optional
    <3>2. Contents = [Key -> Optional]
      BY DEF Contents, Optional
    <3> QED
      BY <2>1, <3>1, <3>2
  <2> DEFINE c == [past[Len(past)] EXCEPT ![write.key] = write.to]
  <2>3. past' = Append(past, c)
    BY <1>1 DEF Call
  <2>4. c \in Contents
    BY <2>2
  <2> HIDE DEF c
  <2> QED
    BY <2>3, <2>4, PastType DEF PastTyped
<1>2. CASE PowerFailure
  <2>1. PICK log \in wal.disk, values \in valueLog.disk, map \in snapshot.disk :
          past' = <<[k \in Key |-> Recovered(log, values, map, k)]>>
    BY <1>2 DEF PowerFailure
  <2> DEFINE c == [k \in Key |-> Recovered(log, values, map, k)]
  <2>2. log \in Logs /\ values \in ValueLogs /\ map \in Offsets
    BY DEF FilesTyped, FileOf
  <2>3. c \in Contents
    <3>1. \A k \in Key : Recovered(log, values, map, k) \in Optional
      BY <2>2, RecoveredType
    <3> QED
      BY <3>1 DEF Contents, Optional
  <2>4. past' = <<c>>
    BY <2>1
  <2> HIDE DEF c
  <2> QED
    BY <2>3, <2>4, PastType DEF PastTyped
<1>3. CASE UNCHANGED past
  BY <1>3 DEF PastTyped
<1>4. CASE Start \/ Apply \/ SnapshotCall \/ SnapshotRename \/ SnapshotSync \/ SnapshotTruncate
           \/ Kill \/ UNCHANGED vars
  <2>1. UNCHANGED past
    BY <1>4 DEF Start, Apply, SnapshotCall, SnapshotRename, SnapshotSync, SnapshotTruncate,
                Kill, vars, observed
  <2> QED
    BY <1>3, <2>1
<1> QED
  BY <1>1, <1>2, <1>4 DEF Next

LEMMA TypedStep == Typed /\ [Next]_vars => Typed'
BY FilesTypedStep, CountersTypedStep, ControlTypedStep, PastTypedStep DEF Typed

(* The files and counters of the model that loses power keep their types (wal.cpp:12-39). *)
THEOREM TypeCorrect == Spec => []TypeOK
<1>1. Typed => TypeOK
  BY DEF Typed, FilesTyped, CountersTyped, ControlTyped, PastTyped, TypeOK,
         Logs, ValueLogs, ValueRecord, Offsets
<1> QED
  BY <1>1, TypedInit, TypedStep, PTL DEF Spec

-----------------------------------------------------------------------------
(* The value log only grows *)

(* Log a is how log b begins. *)
IsStart(a, b) == Len(a) <= Len(b) /\ \A i \in 1 .. Len(a) : b[i] = a[i]

LEMMA StartsJoin ==
  ASSUME NEW a \in ValueLogs, NEW b \in ValueLogs, NEW c \in ValueLogs,
         IsStart(a, b), IsStart(b, c)
  PROVE  IsStart(a, c)
<1>1. Len(a) \in Nat /\ Len(b) \in Nat /\ Len(c) \in Nat
  BY LenProperties DEF ValueLogs
<1>2. Len(a) <= Len(c) /\ \A i \in 1 .. Len(a) : i \in 1 .. Len(b)
  BY <1>1 DEF IsStart
<1> QED
  BY <1>2 DEF IsStart

LEMMA StartsSame ==
  ASSUME NEW a \in ValueLogs
  PROVE  IsStart(a, a)
<1>1. Len(a) \in Nat
  BY LenProperties DEF ValueLogs
<1> QED
  BY <1>1 DEF IsStart

(* What leads to a record goes on leading to it. *)
LEMMA StartStored ==
  ASSUME NEW a \in ValueLogs, NEW b \in ValueLogs, IsStart(a, b),
         NEW map \in Offsets, Resolves(map, a)
  PROVE  /\ Resolves(map, b)
         /\ \A k \in Key : Stored(map, b, k) = Stored(map, a, k)
<1>1. Len(a) \in Nat /\ Len(b) \in Nat
  BY LenProperties DEF ValueLogs
<1>2. ASSUME NEW k \in Key
      PROVE  /\ map[k] # Absent =>
                  map[k] \in 1 .. Len(b) /\ b[map[k]].keySize = KeySize[k]
             /\ Stored(map, b, k) = Stored(map, a, k)
  <2>1. CASE map[k] = Absent
    BY <1>1, <2>1 DEF Stored, Absent
  <2>2. CASE map[k] # Absent
    <3>1. map[k] \in 1 .. Len(a) /\ a[map[k]].keySize = KeySize[k]
      BY <2>2 DEF Resolves
    <3>2. map[k] \in 1 .. Len(b) /\ b[map[k]] = a[map[k]]
      BY <1>1, <3>1 DEF IsStart
    <3> QED
      BY <3>1, <3>2 DEF Stored
  <2> QED
    BY <2>1, <2>2
<1> QED
  BY <1>2 DEF Resolves

(* What a power failure can leave of the value log is how it begins. *)
StartsOnly(file) == \A values \in file.disk : IsStart(values, file.cache)

(* A write that is applied is the one that is read. *)
LEMMA ApplyingGives ==
  ASSUME NEW s \in Stores, NEW write \in Write, NEW t, t = Applying(s, write)
  PROVE  /\ IsStart(s.valueLog.cache, t.valueLog.cache)
         /\ StartsOnly(s.valueLog) => StartsOnly(t.valueLog)
         /\ Resolves(s.index, s.valueLog.cache) =>
              /\ Resolves(t.index, t.valueLog.cache)
              /\ \A k \in Key : Stored(t.index, t.valueLog.cache, k) =
                   IF k = write.key THEN write.to ELSE Stored(s.index, s.valueLog.cache, k)
<1> DEFINE a == s.valueLog.cache
<1>0. /\ s.valueLog \in FileOf(ValueLogs) /\ s.index \in Offsets
      /\ a \in ValueLogs /\ s.valueLog.disk \subseteq ValueLogs /\ Len(a) \in Nat
  <2>1. s.valueLog \in FileOf(ValueLogs) /\ s.index \in Offsets
    BY DEF Stores
  <2> QED
    BY <2>1, LenProperties DEF FileOf, ValueLogs
<1>1. CASE write.to = {}
  <2>1. /\ t.valueLog = s.valueLog
        /\ t.index = [s.index EXCEPT ![write.key] = Absent]
    BY <1>1 DEF Applying, Stores
  <2>2. ASSUME NEW k \in Key
        PROVE  t.index[k] = IF k = write.key THEN Absent ELSE s.index[k]
    BY <1>0, <2>1 DEF Offsets
  <2>3. ASSUME Resolves(s.index, a)
        PROVE  /\ Resolves(t.index, a)
               /\ \A k \in Key : Stored(t.index, a, k) =
                    IF k = write.key THEN write.to ELSE Stored(s.index, a, k)
    <3> HIDE DEF a
    <3>1. Resolves(t.index, a)
      BY <2>2, <2>3 DEF Resolves
    <3>2. Absent \notin 1 .. Len(a)
      BY <1>0 DEF Absent
    <3>3. ASSUME NEW k \in Key
          PROVE  Stored(t.index, a, k) =
                   IF k = write.key THEN write.to ELSE Stored(s.index, a, k)
      BY <1>1, <2>2, <3>2 DEF Stored
    <3> QED
      BY <3>1, <3>3
  <2>4. IsStart(a, a)
    BY <1>0, StartsSame
  <2> QED
    BY <2>1, <2>3, <2>4
<1>2. CASE write.to # {}
  <2>1. PICK v \in Value :
          LET log == Append(a, [keySize |-> KeySize[write.key], value |-> v])
          IN  /\ write.to = {v}
              /\ log \in ValueLogs
              /\ Storing(s, write).valueLog.cache = log
              /\ Storing(s, write).valueLog.disk \subseteq s.valueLog.disk \cup {log}
              /\ Storing(s, write).index = [s.index EXCEPT ![write.key] = Len(log)]
    BY <1>2, StoringIs
  <2> DEFINE r == [keySize |-> KeySize[write.key], value |-> v]
             b == Append(a, r)
             l == Len(a)
  <2>2. /\ write.to = {v} /\ b \in ValueLogs
        /\ t.valueLog.cache = b /\ t.valueLog.disk \subseteq s.valueLog.disk \cup {b}
        /\ t.index = [s.index EXCEPT ![write.key] = Len(b)]
    BY <1>2, <2>1 DEF Applying
  <2>3. r \in ValueRecord
    BY WriteParts, IntervalTypes DEF ValueRecord
  <2>4. /\ Len(b) = l + 1 /\ b[l + 1] = r /\ l \in Nat
        /\ \A i \in 1 .. l : b[i] = a[i]
    <3> HIDE DEF r
    <3> QED
      BY <1>0, <2>3, AppendLog DEF ValueLogs
  <2>5. r.keySize = KeySize[write.key] /\ r.value = v
    OBVIOUS
  <2> HIDE DEF r, b
  <2>6. IsStart(a, b)
    BY <2>4 DEF IsStart
  <2>7. ASSUME StartsOnly(s.valueLog)
        PROVE  StartsOnly(t.valueLog)
    <3>1. ASSUME NEW values \in t.valueLog.disk
          PROVE  IsStart(values, b)
      <4>1. CASE values = b
        BY <2>2, <4>1, StartsSame
      <4>2. CASE values \in s.valueLog.disk
        <5>1. IsStart(values, a) /\ values \in ValueLogs
          BY <1>0, <2>7, <4>2 DEF StartsOnly
        <5> HIDE DEF a
        <5> QED
          BY <1>0, <2>2, <2>6, <5>1, StartsJoin
      <4> QED
        BY <2>2, <4>1, <4>2
    <3> QED
      BY <2>2, <3>1 DEF StartsOnly
  <2>8. ASSUME Resolves(s.index, a)
        PROVE  /\ Resolves(t.index, b)
               /\ \A k \in Key : Stored(t.index, b, k) =
                    IF k = write.key THEN write.to ELSE Stored(s.index, a, k)
    <3>1. write.key \in Key
      BY WriteParts
    <3>2. \A k \in Key : t.index[k] = IF k = write.key THEN l + 1 ELSE s.index[k]
      BY <1>0, <2>2, <2>4 DEF Offsets
    <3> HIDE DEF a, l
    <3>3. Resolves(s.index, b) /\ \A k \in Key : Stored(s.index, b, k) = Stored(s.index, a, k)
      BY <1>0, <2>2, <2>6, <2>8, StartStored
    <3>4. l + 1 \in 1 .. Len(b)
      BY <2>4
    <3>5. Resolves(t.index, b)
      BY <2>4, <2>5, <3>2, <3>3, <3>4 DEF Resolves
    <3>6. ASSUME NEW k \in Key
          PROVE  Stored(t.index, b, k) =
                   IF k = write.key THEN write.to ELSE Stored(s.index, a, k)
      <4>1. CASE k = write.key
        BY <2>2, <2>4, <2>5, <3>2, <3>4, <4>1 DEF Stored
      <4>2. CASE k # write.key
        <5>1. Stored(t.index, b, k) = Stored(s.index, b, k)
          BY <3>2, <4>2 DEF Stored
        <5> QED
          BY <3>3, <4>2, <5>1
      <4> QED
        BY <4>1, <4>2
    <3> QED
      BY <3>5, <3>6
  <2> QED
    BY <2>2, <2>6, <2>7, <2>8
<1> QED
  BY <1>1, <1>2

(***************************************************************************)
(* Replay of a log over a snapshot whose values are there: the index gives *)
(* every key what recovery from these files gives it.                      *)
(***************************************************************************)
LEMMA ReplayedGives ==
  ASSUME NEW values \in FileOf(ValueLogs), NEW map \in Offsets, NEW log \in Logs,
         NEW s, s = Replayed(values, map, log)
  PROVE  /\ IsStart(values.cache, s.valueLog.cache)
         /\ StartsOnly(values) => StartsOnly(s.valueLog)
         /\ Resolves(map, values.cache) =>
              /\ Resolves(s.index, s.valueLog.cache)
              /\ \A k \in Key : Stored(s.index, s.valueLog.cache, k) =
                                  Recovered(log, values.cache, map, k)
<1> DEFINE Upto(n) == SubSeq(log, 1, n)
           Good(n, t) ==
             /\ IsStart(values.cache, t.valueLog.cache)
             /\ StartsOnly(values) => StartsOnly(t.valueLog)
             /\ Resolves(map, values.cache) =>
                  /\ Resolves(t.index, t.valueLog.cache)
                  /\ \A k \in Key : Stored(t.index, t.valueLog.cache, k) =
                                      Recovered(Upto(n), values.cache, map, k)
<1>1. PICK f \in [0 .. Len(log) -> Stores] :
        /\ f[0] = [valueLog |-> values, writes |-> 0, index |-> map]
        /\ \A i \in 1 .. Len(log) : f[i] = Applying(f[i - 1], log[i])
        /\ Replayed(values, map, log) = f[Len(log)]
  BY ReplayedSteps
<1>2. Len(log) \in Nat /\ values.cache \in ValueLogs
  BY LenProperties DEF Logs, FileOf
<1>3. Good(0, f[0])
  <2>1. Upto(0) = <<>>
    BY SubSeqEmpty
  <2>2. \A k : Recovered(Upto(0), values.cache, map, k) = Stored(map, values.cache, k)
    BY <2>1, NothingMentioned, RecoveredIs
  <2>3. f[0].valueLog = values /\ f[0].index = map
    BY <1>1
  <2> HIDE DEF Upto
  <2> QED
    BY <1>2, <2>2, <2>3, StartsSame
<1>4. ASSUME NEW i \in 1 .. Len(log), Good(i - 1, f[i - 1])
      PROVE  Good(i, f[i])
  <2>1. log[i] \in Write /\ i - 1 \in 0 .. Len(log) /\ i \in 0 .. Len(log)
    BY <1>2, ElementOfSeq DEF Logs
  <2>2. Upto(i - 1) \in Logs /\ Upto(i) = Append(Upto(i - 1), log[i])
    <3>1. \A j \in 1 .. i - 1 : log[j] \in Write
      BY <1>2, ElementOfSeq DEF Logs
    <3>2. Upto(i - 1) \in Seq(Write)
      <4>1. 1 \in Int /\ i - 1 \in Int
        BY <1>2
      <4> QED
        BY <3>1, <4>1, SubSeqProperties
    <3>3. Upto(i) = Upto(i - 1) \o <<log[i]>>
      <4>1. 1 \in 1 .. Len(log) /\ i \in 1 .. Len(log)
        BY <1>2
      <4> QED
        BY <4>1, SubSeqRecursiveSecond DEF Logs
    <3> HIDE DEF Upto
    <3> QED
      BY <2>1, <3>2, <3>3, AppendIsConcat DEF Logs
  <2> DEFINE t == f[i]
             u == f[i - 1]
  <2>3. t = Applying(u, log[i]) /\ u \in Stores /\ t \in Stores
    BY <1>1, <2>1
  <2> HIDE DEF t, u, Upto
  <2>4. /\ IsStart(u.valueLog.cache, t.valueLog.cache)
        /\ StartsOnly(u.valueLog) => StartsOnly(t.valueLog)
        /\ Resolves(u.index, u.valueLog.cache) =>
             /\ Resolves(t.index, t.valueLog.cache)
             /\ \A k \in Key : Stored(t.index, t.valueLog.cache, k) =
                  IF k = log[i].key THEN log[i].to ELSE Stored(u.index, u.valueLog.cache, k)
    BY <2>1, <2>3, ApplyingGives
  <2>5. IsStart(values.cache, t.valueLog.cache)
    <3>1. u.valueLog.cache \in ValueLogs /\ t.valueLog.cache \in ValueLogs
      BY <2>3 DEF Stores, FileOf
    <3>2. IsStart(values.cache, u.valueLog.cache)
      BY <1>4 DEF u
    <3> QED
      BY <1>2, <2>4, <3>1, <3>2, StartsJoin
  <2>6. ASSUME Resolves(map, values.cache)
        PROVE  /\ Resolves(t.index, t.valueLog.cache)
               /\ \A k \in Key : Stored(t.index, t.valueLog.cache, k) =
                                   Recovered(Upto(i), values.cache, map, k)
    <3>1. /\ Resolves(u.index, u.valueLog.cache)
          /\ \A k \in Key : Stored(u.index, u.valueLog.cache, k) =
                              Recovered(Upto(i - 1), values.cache, map, k)
      BY <1>4, <2>6 DEF u
    <3>2. \A k \in Key : Recovered(Upto(i), values.cache, map, k) =
            IF k = log[i].key THEN log[i].to ELSE Recovered(Upto(i - 1), values.cache, map, k)
      BY <2>1, <2>2, RecoveredAppend
    <3> QED
      BY <2>4, <3>1, <3>2
  <2>7. StartsOnly(values) => StartsOnly(t.valueLog)
    BY <1>4, <2>4 DEF u
  <2>8. Good(i, t)
    BY <2>5, <2>6, <2>7
  <2> HIDE DEF Good
  <2> QED
    BY <2>8 DEF t
<1> HIDE DEF Good
<1> DEFINE T == {n \in 0 .. Len(log) : Good(n, f[n])}
<1>5. 0 .. Len(log) \subseteq T
  <2>1. 0 \in T
    BY <1>2, <1>3
  <2>2. ASSUME NEW i \in 1 .. Len(log), i - 1 \in T
        PROVE  i \in T
    <3>1. i \in 0 .. Len(log)
      BY <1>2
    <3> QED
      BY <1>4, <2>2, <3>1
  <2> HIDE DEF T
  <2> QED
    BY <1>2, <2>1, <2>2, CountedInduction
<1>6. Good(Len(log), s)
  <2>1. Len(log) \in 0 .. Len(log)
    BY <1>2
  <2> QED
    BY <1>1, <1>5, <2>1
<1>7. Upto(Len(log)) = log
  BY SubSeqFull DEF Logs
<1> QED
  BY <1>6, <1>7 DEF Good

-----------------------------------------------------------------------------
(* What a power failure leaves *)

(* Recovery from these files gives the contents c. *)
Gives(log, values, map, c) == \A k \in Key : Recovered(log, values, map, k) = c[k]

(***************************************************************************)
(* What a log that is cut short leaves: its keys as they were after one of *)
(* the writes that are sure to stay, the others, from the snapshot, as of  *)
(* that write or a later one.                                              *)
(***************************************************************************)
Left(log, values, map, p, risk) ==
  \E t \in 1 .. Len(p) :
    /\ t + risk >= Len(p)
    /\ \A k \in Key :
         IF Mentions(log, k)
           THEN Latest(log, k) = p[t][k]
           ELSE \E n \in t .. Len(p) : Stored(map, values, k) = p[n][k]

LEMMA LeftNow ==
  ASSUME NEW log, NEW values, NEW map, NEW p, Len(p) \in Nat \ {0}, NEW risk \in Nat,
         Gives(log, values, map, p[Len(p)])
  PROVE  Left(log, values, map, p, risk)
<1> DEFINE l == Len(p)
<1>1. l \in 1 .. l /\ l + risk >= l /\ l \in l .. l
  OBVIOUS
<1>2. ASSUME NEW k \in Key
      PROVE  IF Mentions(log, k)
               THEN Latest(log, k) = p[l][k]
               ELSE \E n \in l .. l : Stored(map, values, k) = p[n][k]
  <2>1. Recovered(log, values, map, k) = p[l][k]
    BY DEF Gives
  <2> HIDE DEF l
  <2> QED
    BY <1>1, <2>1, RecoveredIs
<1> HIDE DEF l
<1> QED
  BY <1>1, <1>2 DEF Left, l

LEMMA LeftMore ==
  ASSUME NEW log, NEW values, NEW map, NEW p, Len(p) \in Nat, NEW r \in Nat, NEW risk \in Nat,
         r <= risk, Left(log, values, map, p, r)
  PROVE  Left(log, values, map, p, risk)
<1>1. \A t \in 1 .. Len(p) : t + r >= Len(p) => t + risk >= Len(p)
  OBVIOUS
<1> QED
  BY <1>1 DEF Left

(* As many writes more, as many writes more at risk. *)
LEMMA LeftAppend ==
  ASSUME NEW log, NEW values, NEW map, NEW p \in Seq(Contents), NEW c \in Contents,
         NEW risk \in Nat, Left(log, values, map, p, risk)
  PROVE  Left(log, values, map, Append(p, c), risk + 1)
<1> DEFINE q == Append(p, c)
           l == Len(p)
<1>1. l \in Nat /\ Len(q) = l + 1 /\ \A i \in 1 .. l : q[i] = p[i]
  BY AppendLog, LenProperties
<1>2. PICK t \in 1 .. l :
        /\ t + risk >= l
        /\ \A k \in Key :
             IF Mentions(log, k)
               THEN Latest(log, k) = p[t][k]
               ELSE \E n \in t .. l : Stored(map, values, k) = p[n][k]
  BY DEF Left
<1> HIDE DEF q, l
<1>3. t \in 1 .. Len(q) /\ t + (risk + 1) >= Len(q)
  BY <1>1, <1>2
<1>4. q[t] = p[t] /\ \A n \in t .. l : n \in t .. Len(q) /\ q[n] = p[n]
  BY <1>1
<1>5. \A k \in Key :
        IF Mentions(log, k)
          THEN Latest(log, k) = q[t][k]
          ELSE \E n \in t .. Len(q) : Stored(map, values, k) = q[n][k]
  BY <1>2, <1>4
<1> QED
  BY <1>3, <1>5 DEF Left, q

(* A snapshot or a value log that gives the same, or what is stored now. *)
LEMMA LeftStored ==
  ASSUME NEW log, NEW values, NEW map, NEW p, Len(p) \in Nat, NEW risk,
         Left(log, values, map, p, risk), NEW v, NEW m,
         \A k \in Key : \/ Stored(m, v, k) = Stored(map, values, k)
                        \/ Stored(m, v, k) = p[Len(p)][k]
  PROVE  Left(log, v, m, p, risk)
<1>1. PICK t \in 1 .. Len(p) :
        /\ t + risk >= Len(p)
        /\ \A k \in Key :
             IF Mentions(log, k)
               THEN Latest(log, k) = p[t][k]
               ELSE \E n \in t .. Len(p) : Stored(map, values, k) = p[n][k]
  BY DEF Left
<1>2. Len(p) \in t .. Len(p)
  OBVIOUS
<1>3. \A k \in Key :
        IF Mentions(log, k)
          THEN Latest(log, k) = p[t][k]
          ELSE \E n \in t .. Len(p) : Stored(m, v, k) = p[n][k]
  BY <1>1, <1>2
<1> QED
  BY <1>1, <1>3 DEF Left

-----------------------------------------------------------------------------
(* The invariant *)

Current == past[Len(past)]

(***************************************************************************)
(* What is read is among what can be left, and all that can be left of the *)
(* value log is how it begins; a process starts its count afresh.          *)
(***************************************************************************)
CachesInv ==
  /\ pc = "down" => walWrites = 0
  /\ wal.cache \in wal.disk
  /\ snapshot.cache \in snapshot.disk
  /\ StartsOnly(valueLog)

(* Each snapshot that can be left is good for the log that is read and for each that can be left. *)
SnapshotInv ==
  \A map \in snapshot.disk :
    /\ Resolves(map, valueLog.cache)
    /\ Gives(wal.cache, valueLog.cache, map, Current)
    /\ \A log \in wal.disk : Left(log, valueLog.cache, map, past, AtRisk)

Holds(map, c) == \A k \in Key : Stored(map, valueLog.cache, k) = c[k]

(***************************************************************************)
(* The index has the current contents, but for the call that is logged;    *)
(* and, once it has been renamed, so has the new snapshot.                 *)
(***************************************************************************)
IndexInv ==
  /\ pc # "down" => Resolves(index, valueLog.cache)
  /\ pc \in {"ready", "snapshot", "renamed", "synced"} => Holds(index, Current)
  /\ pc = "logged" =>
       \A write \in op : \A k \in Key :
         Current[k] = IF k = write.key THEN write.to ELSE Stored(index, valueLog.cache, k)
  /\ pc \in {"renamed", "synced"} => Holds(snapshot.cache, Current)
  /\ pc = "synced" => snapshot.disk = {snapshot.cache}

PowerInv == Typed /\ CachesInv /\ (~exposed => SnapshotInv /\ IndexInv)

LEMMA PowerInit == Init => PowerInv
<1> SUFFICES ASSUME Init
             PROVE  PowerInv
  OBVIOUS
<1>1. Typed
  BY TypedInit
<1>2. StartsOnly(valueLog)
  <2>1. <<>> \in ValueLogs /\ valueLog = [cache |-> <<>>, disk |-> {<<>>}]
    BY DEF Init, ValueLogs, File
  <2>2. IsStart(<<>>, <<>>)
    BY <2>1, StartsSame
  <2> QED
    BY <2>1, <2>2 DEF StartsOnly
<1>3. CachesInv
  BY <1>2 DEF Init, CachesInv, File
<1>4. \A k \in Key : Stored(NoOffsets, <<>>, k) = {}
  BY DEF Stored, NoOffsets, Absent
<1>5. Len(past) = 1 /\ \A k \in Key : Current[k] = {}
  BY DEF Init, Current
<1>6. wal.disk = {<<>>} /\ wal.cache = <<>> /\ snapshot.disk = {NoOffsets} /\ valueLog.cache = <<>>
  BY DEF Init, File
<1>7. Gives(<<>>, <<>>, NoOffsets, Current)
  BY <1>4, <1>5, NothingMentioned, RecoveredIs DEF Gives
<1>8. Left(<<>>, <<>>, NoOffsets, past, AtRisk)
  <2>1. AtRisk \in Nat
    <3>1. AtRisk = 0 + 0 * (WalFsyncEveryNWrites - 1)
      BY DEF Init, AtRisk
    <3> QED
      BY <3>1, IntervalTypes
  <2> QED
    BY <1>5, <1>7, <2>1, LeftNow DEF Current
<1>9. Resolves(NoOffsets, <<>>)
  BY DEF Resolves, NoOffsets, Absent
<1>10. SnapshotInv
  BY <1>6, <1>7, <1>8, <1>9 DEF SnapshotInv
<1>11. IndexInv
  BY DEF Init, IndexInv
<1> QED
  BY <1>1, <1>3, <1>10, <1>11 DEF PowerInv

LEMMA RiskNumbers == \A w \in Nat, n \in Nat : w + n * (WalFsyncEveryNWrites - 1) \in Nat
<1>1. \A c \in Nat \ {0}, w \in Nat, n \in Nat : w + n * (c - 1) \in Nat
  <2>1. \A c \in Nat, n \in Nat : n * c \in Nat
    OBVIOUS
  <2>2. \A c \in Nat \ {0} : c - 1 \in Nat
    OBVIOUS
  <2> QED
    BY <2>1, <2>2
<1> QED
  BY <1>1, IntervalTypes

LEMMA RiskType == (Typed => AtRisk \in Nat) /\ (Typed' => AtRisk' \in Nat)
<1>1. /\ Typed => walWrites \in Nat /\ killed \in Nat
      /\ Typed' => walWrites' \in Nat /\ killed' \in Nat
  BY IntervalTypes DEF Typed, CountersTyped
<1> QED
  BY <1>1, RiskNumbers DEF AtRisk

(* One process more that was killed is one interval more at risk. *)
LEMMA RiskOfKill ==
  Typed /\ walWrites' = 0 /\ killed' = killed + 1 => AtRisk' \in Nat /\ AtRisk <= AtRisk'
<1> SUFFICES ASSUME Typed, walWrites' = 0, killed' = killed + 1
             PROVE  AtRisk' \in Nat /\ AtRisk <= AtRisk'
  OBVIOUS
<1> DEFINE c == WalFsyncEveryNWrites - 1
<1>1. c \in Nat /\ walWrites \in Nat /\ walWrites <= c /\ killed \in Nat
  BY IntervalTypes DEF Typed, CountersTyped
<1>2. AtRisk = walWrites + killed * c /\ AtRisk' = 0 + (killed + 1) * c
  BY DEF AtRisk
<1> HIDE DEF c
<1>3. \A n \in Nat, m \in Nat : n * m \in Nat /\ (n + 1) * m = n * m + m
  OBVIOUS
<1>4. killed * c \in Nat /\ (killed + 1) * c = killed * c + c
  BY <1>1, <1>3
<1> DEFINE product == killed * c
<1>5. product \in Nat /\ AtRisk = walWrites + product /\ AtRisk' = 0 + (product + c)
  BY <1>2, <1>4
<1> HIDE DEF product
<1> QED
  BY <1>1, <1>5

LEMMA RiskOfCall ==
  Typed /\ walWrites' = walWrites + 1 /\ killed' = killed => AtRisk' = AtRisk + 1
<1> SUFFICES ASSUME Typed, walWrites' = walWrites + 1, killed' = killed
             PROVE  AtRisk' = AtRisk + 1
  OBVIOUS
<1> DEFINE product == killed * (WalFsyncEveryNWrites - 1)
<1>1. AtRisk = walWrites + product /\ AtRisk' = walWrites + 1 + product
  BY DEF AtRisk
<1>2. product \in Int /\ walWrites \in Nat
  <2>1. killed \in Nat /\ WalFsyncEveryNWrites \in Nat /\ walWrites \in Nat
    BY IntervalTypes DEF Typed, CountersTyped
  <2>2. \A a \in Int, b \in Int : a * b \in Int
    OBVIOUS
  <2> QED
    BY <2>1, <2>2
<1> HIDE DEF product
<1> QED
  BY <1>1, <1>2

LEMMA RiskOfSync ==
  walWrites' \in Nat /\ killed' = 0 => AtRisk' = walWrites'
<1>1. \A c \in Int : 0 * c = 0
  OBVIOUS
<1>2. WalFsyncEveryNWrites - 1 \in Int
  BY IntervalTypes
<1> SUFFICES ASSUME killed' = 0, walWrites' \in Nat
             PROVE  AtRisk' = walWrites'
  OBVIOUS
<1>3. AtRisk' = walWrites' + 0 * (WalFsyncEveryNWrites - 1)
  BY DEF AtRisk
<1> QED
  BY <1>1, <1>2, <1>3

LEMMA FilesAre ==
  Typed => /\ wal.cache \in Logs /\ wal.disk \subseteq Logs
           /\ valueLog.cache \in ValueLogs /\ valueLog.disk \subseteq ValueLogs
           /\ snapshot.cache \in Offsets /\ snapshot.disk \subseteq Offsets
           /\ index \in Offsets
           /\ Len(past) \in Nat \ {0} /\ Current \in Contents
BY LastContents DEF Typed, FilesTyped, FileOf, Current

(* Values that are appended change nothing in what can be left. *)
LEMMA GrownSnapshot ==
  ASSUME Typed, SnapshotInv, UNCHANGED <<wal, snapshot, past>>, AtRisk' = AtRisk,
         valueLog'.cache \in ValueLogs, IsStart(valueLog.cache, valueLog'.cache)
  PROVE  SnapshotInv'
<1> DEFINE a == valueLog.cache
           b == valueLog'.cache
<1>1. ASSUME NEW map \in snapshot.disk
      PROVE  /\ Resolves(map, b)
             /\ Gives(wal.cache, b, map, Current)
             /\ \A log \in wal.disk : Left(log, b, map, past, AtRisk)
  <2>1. /\ Resolves(map, a)
        /\ Gives(wal.cache, a, map, Current)
        /\ \A log \in wal.disk : Left(log, a, map, past, AtRisk)
    BY DEF SnapshotInv
  <2>2. a \in ValueLogs /\ b \in ValueLogs /\ map \in Offsets /\ IsStart(a, b)
        /\ Len(past) \in Nat \ {0}
    BY FilesAre
  <2> HIDE DEF a, b
  <2>3. Resolves(map, b) /\ \A k \in Key : Stored(map, b, k) = Stored(map, a, k)
    BY <2>1, <2>2, StartStored
  <2>4. Gives(wal.cache, b, map, Current)
    <3>1. \A k \in Key : Recovered(wal.cache, b, map, k) = Recovered(wal.cache, a, map, k)
      BY <2>3, RecoveredIs
    <3> QED
      BY <2>1, <3>1 DEF Gives
  <2>5. ASSUME NEW log \in wal.disk
        PROVE  Left(log, b, map, past, AtRisk)
    <3>1. Left(log, a, map, past, AtRisk)
      BY <2>1
    <3> QED
      BY <2>2, <2>3, <3>1, LeftStored
  <2> QED
    BY <2>3, <2>4, <2>5
<1>2. Current' = Current
  BY DEF Current
<1> HIDE DEF b
<1>3. SnapshotInv' = \A map \in snapshot.disk :
        /\ Resolves(map, b)
        /\ Gives(wal.cache, b, map, Current)
        /\ \A log \in wal.disk : Left(log, b, map, past, AtRisk)
  BY <1>2 DEF SnapshotInv, b
<1> QED
  BY <1>1, <1>3

LEMMA PowerStart ==
  ASSUME PowerInv, Typed', Start
  PROVE  CachesInv' /\ (~exposed' => SnapshotInv' /\ IndexInv')
<1> DEFINE s == Replayed(valueLog, snapshot.cache, wal.cache)
<1>1. /\ valueLog' = s.valueLog /\ UNCHANGED <<wal, snapshot, past, killed, exposed>>
      /\ pc = "down"
  BY DEF Start, observed
<1>2. valueLog \in FileOf(ValueLogs) /\ Typed /\ CachesInv
  BY DEF PowerInv, Typed, FilesTyped
<1>3. s \in Stores
  BY <1>2, FilesAre, ReplayedType
<1>4. /\ IsStart(valueLog.cache, s.valueLog.cache)
      /\ StartsOnly(s.valueLog)
      /\ Resolves(snapshot.cache, valueLog.cache) =>
           /\ Resolves(s.index, s.valueLog.cache)
           /\ \A k \in Key : Stored(s.index, s.valueLog.cache, k) =
                               Recovered(wal.cache, valueLog.cache, snapshot.cache, k)
  <2>1. wal.cache \in Logs /\ snapshot.cache \in Offsets /\ StartsOnly(valueLog)
    BY <1>2, FilesAre DEF CachesInv
  <2> HIDE DEF s
  <2>2. s = Replayed(valueLog, snapshot.cache, wal.cache)
    BY DEF s
  <2> QED
    BY <1>2, <2>1, <2>2, ReplayedGives
<1>5. walWrites' = walWrites /\ (walWrites = 0)
  BY <1>1, <1>2 DEF Start, ProcessGone, CachesInv
<1>6. IF Resolves(s.index, s.valueLog.cache)
        THEN pc' = "ready" /\ index' = s.index
        ELSE pc' = "down"
  BY DEF Start, ProcessGone
<1> HIDE DEF s
<1>7. CachesInv'
  BY <1>1, <1>2, <1>4, <1>5 DEF CachesInv
<1>8. ASSUME ~exposed'
      PROVE  SnapshotInv' /\ IndexInv'
  <2>1. SnapshotInv
    BY <1>1, <1>8 DEF PowerInv
  <2>2. SnapshotInv'
    <3>1. AtRisk' = AtRisk
      BY <1>1, <1>5 DEF AtRisk
    <3>2. valueLog'.cache \in ValueLogs
      BY <1>1, <1>3 DEF Stores, FileOf
    <3> QED
      BY <1>1, <1>2, <1>4, <2>1, <3>1, <3>2, GrownSnapshot
  <2>3. /\ Resolves(snapshot.cache, valueLog.cache)
        /\ Gives(wal.cache, valueLog.cache, snapshot.cache, Current)
    BY <1>2, <2>1 DEF SnapshotInv, CachesInv
  <2>4. Resolves(s.index, s.valueLog.cache) /\ pc' = "ready" /\ index' = s.index
    BY <1>4, <1>6, <2>3
  <2>5. Current' = Current
    BY <1>1 DEF Current
  <2>6. \A k \in Key : Stored(index', valueLog'.cache, k) = Current'[k]
    BY <1>1, <1>4, <2>3, <2>4, <2>5 DEF Gives
  <2>7. IndexInv'
    BY <1>1, <2>4, <2>6 DEF IndexInv, Holds
  <2> QED
    BY <2>2, <2>7
<1> QED
  BY <1>7, <1>8

LEMMA PowerApply ==
  ASSUME PowerInv, Typed', Apply
  PROVE  CachesInv' /\ (~exposed' => SnapshotInv' /\ IndexInv')
<1> DEFINE s == [valueLog |-> valueLog, writes |-> valueLogWrites, index |-> index]
<1>1. PICK write \in op :
        /\ valueLog' = Applying(s, write).valueLog
        /\ index' = Applying(s, write).index
        /\ pc' \in {"snapshot", "ready"}
  BY DEF Apply
<1>2. pc = "logged" /\ UNCHANGED <<wal, snapshot, walWrites, past, killed, exposed>>
  BY DEF Apply, observed
<1>3. s \in Stores
  BY Zenon DEF Stores, PowerInv, Typed, FilesTyped, CountersTyped
<1>4. write \in Write
  BY DEF PowerInv, Typed, CountersTyped
<1> DEFINE t == Applying(s, write)
<1>5. s.valueLog = valueLog /\ s.index = index
  OBVIOUS
<1> HIDE DEF s
<1>6. t \in Stores
  BY <1>3, <1>4, ApplyingType
<1> HIDE DEF t
<1>7. /\ IsStart(valueLog.cache, t.valueLog.cache)
      /\ StartsOnly(valueLog) => StartsOnly(t.valueLog)
      /\ Resolves(index, valueLog.cache) =>
           /\ Resolves(t.index, t.valueLog.cache)
           /\ \A k \in Key : Stored(t.index, t.valueLog.cache, k) =
                IF k = write.key THEN write.to ELSE Stored(index, valueLog.cache, k)
  <2>1. t = Applying(s, write)
    BY DEF t
  <2> QED
    BY <1>3, <1>4, <1>5, <2>1, ApplyingGives
<1>8. valueLog' = t.valueLog /\ index' = t.index
  BY <1>1 DEF t
<1>9. CachesInv'
  BY <1>1, <1>2, <1>7, <1>8 DEF PowerInv, CachesInv
<1>10. ASSUME ~exposed'
       PROVE  SnapshotInv' /\ IndexInv'
  <2>1. Typed /\ SnapshotInv /\ IndexInv
    BY <1>2, <1>10 DEF PowerInv
  <2>2. SnapshotInv'
    <3>1. AtRisk' = AtRisk
      BY <1>2 DEF AtRisk
    <3>2. valueLog'.cache \in ValueLogs
      BY <1>6, <1>8 DEF Stores, FileOf
    <3> QED
      BY <1>2, <1>7, <1>8, <2>1, <3>1, <3>2, GrownSnapshot
  <2>3. Current' = Current
    BY <1>2 DEF Current
  <2>4. Resolves(index', valueLog'.cache)
    BY <1>2, <1>7, <1>8, <2>1 DEF IndexInv
  <2>5. \A k \in Key : Stored(index', valueLog'.cache, k) = Current'[k]
    BY <1>2, <1>7, <1>8, <2>1, <2>3 DEF IndexInv
  <2>6. IndexInv'
    BY <1>1, <2>4, <2>5 DEF IndexInv, Holds
  <2> QED
    BY <2>2, <2>6
<1> QED
  BY <1>9, <1>10

LEMMA PowerCall ==
  ASSUME PowerInv, Typed', NEW write \in Write, Call(write)
  PROVE  CachesInv' /\ (~exposed' => SnapshotInv' /\ IndexInv')
<1> DEFINE new  == Append(wal.cache, write)
           done == WroteAndCounted(wal, new, walWrites + 1, WalFsyncEveryNWrites)
           c    == [past[Len(past)] EXCEPT ![write.key] = write.to]
           v    == valueLog.cache
<1>1. /\ wal' = done.file /\ walWrites' = done.writes
      /\ killed' = IF walWrites + 1 >= WalFsyncEveryNWrites THEN 0 ELSE killed
      /\ past' = Append(past, c)
      /\ pc = "ready" /\ pc' = "logged" /\ op' = {write}
      /\ UNCHANGED <<valueLog, snapshot, index, exposed>>
  BY DEF Call
<1>2. Typed /\ CachesInv
  BY DEF PowerInv
<1>3. wal.cache \in Logs /\ wal.disk \subseteq Logs /\ v \in ValueLogs
      /\ Len(past) \in Nat \ {0} /\ Current \in Contents
  BY <1>2, FilesAre
<1>4. new \in Logs
  BY <1>3, AppendMentions
<1>5. \A k \in Key : c[k] = IF k = write.key THEN write.to ELSE Current[k]
  BY <1>3 DEF Current, Contents
<1>6. \/ wal' = File(new) /\ walWrites' = 0 /\ killed' = 0
      \/ wal' = Wrote(wal, new) /\ walWrites' = walWrites + 1 /\ killed' = killed
  BY <1>1 DEF WroteAndCounted
<1>7. /\ wal'.cache = new /\ new \in wal'.disk
      /\ wal'.disk \subseteq wal.disk \cup {new}
  <2> HIDE DEF new
  <2> QED
    BY <1>6 DEF File, Wrote
<1>8. CachesInv'
  BY <1>1, <1>2, <1>7 DEF CachesInv
<1>9. c \in Contents
  <2>1. Contents = [Key -> Optional] /\ Current = past[Len(past)]
    BY DEF Contents, Optional, Current
  <2>2. write.to \in Optional
    BY DEF Write, Optional
  <2> QED
    BY <1>3, <2>1, <2>2
<1> HIDE DEF new, done, c, v
<1>10. past \in Seq(Contents)
  BY <1>2 DEF Typed, PastTyped
<1>11. Len(past') = Len(past) + 1 /\ past'[Len(past')] = c /\ Current' = c
  BY <1>1, <1>9, <1>10, AppendLog DEF Current
<1>12. AtRisk' \in Nat /\ AtRisk \in Nat
  BY <1>2, RiskType
<1>13. ASSUME ~exposed'
       PROVE  SnapshotInv'
  <2>1. SnapshotInv
    BY <1>1, <1>13 DEF PowerInv
  <2>2. ASSUME NEW map \in snapshot.disk
        PROVE  /\ Resolves(map, v)
               /\ Gives(new, v, map, c)
               /\ \A log \in wal'.disk : Left(log, v, map, past', AtRisk')
    <3>1. /\ Resolves(map, v)
          /\ Gives(wal.cache, v, map, Current)
          /\ \A log \in wal.disk : Left(log, v, map, past, AtRisk)
      BY <2>1 DEF SnapshotInv, v
    <3>2. Gives(new, v, map, c)
      <4>1. \A k \in Key : Recovered(new, v, map, k) =
              IF k = write.key THEN write.to ELSE Recovered(wal.cache, v, map, k)
        BY <1>3, RecoveredAppend DEF new
      <4> QED
        BY <1>5, <3>1, <4>1 DEF Gives
    <3>3. Left(new, v, map, past', AtRisk')
      <4>1. Len(past') \in Nat \ {0}
        BY <1>3, <1>11
      <4> QED
        BY <1>11, <1>12, <3>2, <4>1, LeftNow
    <3>4. ASSUME NEW log \in wal'.disk, log # new
          PROVE  Left(log, v, map, past', AtRisk')
      <4>1. log \in wal.disk /\ walWrites' = walWrites + 1 /\ killed' = killed
        BY <1>6, <3>4 DEF File, Wrote
      <4>2. AtRisk' = AtRisk + 1
        BY <1>2, <4>1, RiskOfCall
      <4>3. Left(log, v, map, past, AtRisk)
        BY <3>1, <4>1
      <4>4. Left(log, v, map, Append(past, c), AtRisk + 1)
        BY <1>9, <1>10, <1>12, <4>3, LeftAppend
      <4> QED
        BY <1>1, <4>2, <4>4
    <3> QED
      BY <3>1, <3>2, <3>3, <3>4
  <2>3. SnapshotInv' = \A map \in snapshot.disk :
          /\ Resolves(map, v)
          /\ Gives(new, v, map, c)
          /\ \A log \in wal'.disk : Left(log, v, map, past', AtRisk')
    BY <1>1, <1>7, <1>11 DEF SnapshotInv, v
  <2> QED
    BY <2>2, <2>3
<1>14. ASSUME ~exposed'
       PROVE  IndexInv'
  <2>1. IndexInv
    BY <1>1, <1>14 DEF PowerInv
  <2>2. Resolves(index, v) /\ \A k \in Key : Stored(index, v, k) = Current[k]
    BY <1>1, <2>1 DEF IndexInv, Holds, v
  <2>3. \A k \in Key : c[k] = IF k = write.key THEN write.to ELSE Stored(index, v, k)
    BY <1>5, <2>2
  <2> QED
    BY <1>1, <1>11, <2>2, <2>3 DEF IndexInv, v
<1> QED
  BY <1>8, <1>13, <1>14

(* Steps of snapshot() leave the value log alone and change no contents. *)
LEMMA PowerSnapshotCall ==
  ASSUME PowerInv, SnapshotCall
  PROVE  CachesInv' /\ (~exposed' => SnapshotInv' /\ IndexInv')
<1>1. /\ pc = "ready" /\ pc' = "snapshot"
      /\ UNCHANGED <<wal, valueLog, snapshot, index, walWrites, op, past, killed, exposed>>
  BY DEF SnapshotCall, files, memory, counters, observed
<1>2. Current' = Current /\ AtRisk' = AtRisk
  BY <1>1 DEF Current, AtRisk
<1>3. CachesInv'
  BY <1>1 DEF PowerInv, CachesInv
<1>4. ASSUME ~exposed
      PROVE  SnapshotInv' /\ IndexInv'
  <2>1. SnapshotInv /\ IndexInv
    BY <1>4 DEF PowerInv
  <2>2. SnapshotInv'
    BY <1>1, <1>2, <2>1 DEF SnapshotInv
  <2>3. IndexInv'
    BY <1>1, <1>2, <2>1 DEF IndexInv, Holds
  <2> QED
    BY <2>2, <2>3
<1> QED
  BY <1>1, <1>3, <1>4

LEMMA PowerRename ==
  ASSUME PowerInv, SnapshotRename
  PROVE  CachesInv' /\ (~exposed' => SnapshotInv' /\ IndexInv')
<1> DEFINE v == valueLog.cache
<1>1. /\ pc = "snapshot" /\ pc' = "renamed" /\ snapshot' = Wrote(snapshot, index)
      /\ UNCHANGED <<wal, valueLog, index, walWrites, past, killed, exposed>>
  BY DEF SnapshotRename, memory, counters, observed
<1>2. Current' = Current /\ AtRisk' = AtRisk
  BY <1>1 DEF Current, AtRisk
<1>3. snapshot'.cache = index /\ snapshot'.disk = snapshot.disk \cup {index}
  BY <1>1 DEF Wrote
<1>4. CachesInv'
  BY <1>1, <1>3 DEF PowerInv, CachesInv
<1>5. ASSUME ~exposed
      PROVE  SnapshotInv' /\ IndexInv'
  <2>1. SnapshotInv /\ IndexInv /\ Typed /\ CachesInv
    BY <1>5 DEF PowerInv
  <2>2. Resolves(index, v) /\ \A k \in Key : Stored(index, v, k) = Current[k]
    BY <1>1, <2>1 DEF IndexInv, Holds
  <2>3. snapshot.cache \in snapshot.disk /\ Len(past) \in Nat \ {0}
    BY <2>1, FilesAre DEF CachesInv
  <2>4. /\ Gives(wal.cache, v, snapshot.cache, Current)
        /\ \A log \in wal.disk : Left(log, v, snapshot.cache, past, AtRisk)
    BY <2>1, <2>3 DEF SnapshotInv
  <2>5. Gives(wal.cache, v, index, Current)
    <3>1. ASSUME NEW k \in Key
          PROVE  Recovered(wal.cache, v, index, k) = Current[k]
      BY <2>2, <2>4, RecoveredIs DEF Gives
    <3> QED
      BY <3>1 DEF Gives
  <2>6. ASSUME NEW log \in wal.disk
        PROVE  Left(log, v, index, past, AtRisk)
    <3>1. Left(log, v, snapshot.cache, past, AtRisk)
      BY <2>4
    <3>2. \A k \in Key : Stored(index, v, k) = past[Len(past)][k]
      BY <2>2 DEF Current
    <3> QED
      BY <2>3, <3>1, <3>2, LeftStored
  <2> HIDE DEF v
  <2>7. ASSUME NEW map \in snapshot'.disk
        PROVE  /\ Resolves(map, v)
               /\ Gives(wal.cache, v, map, Current)
               /\ \A log \in wal.disk : Left(log, v, map, past, AtRisk)
    <3>1. CASE map = index
      BY <2>2, <2>5, <2>6, <3>1
    <3>2. CASE map \in snapshot.disk
      BY <2>1, <3>2 DEF SnapshotInv, v
    <3> QED
      BY <1>3, <3>1, <3>2
  <2>8. SnapshotInv'
    BY <1>1, <1>2, <2>7 DEF SnapshotInv, v
  <2>9. IndexInv'
    BY <1>1, <1>2, <1>3, <2>2 DEF IndexInv, Holds, v
  <2> QED
    BY <2>8, <2>9
<1> QED
  BY <1>1, <1>4, <1>5

LEMMA PowerSync ==
  ASSUME PowerInv, SnapshotSync
  PROVE  CachesInv' /\ (~exposed' => SnapshotInv' /\ IndexInv')
<1>1. /\ pc = "renamed" /\ pc' = "synced"
      /\ UNCHANGED <<wal, valueLog, index, walWrites, past, killed>>
      /\ \/ snapshot' = Synced(snapshot) /\ exposed' = exposed
         \/ snapshot' = snapshot /\ exposed' = TRUE
  BY DEF SnapshotSync, memory, counters
<1>2. Current' = Current /\ AtRisk' = AtRisk
  BY <1>1 DEF Current, AtRisk
<1>3. snapshot'.cache = snapshot.cache /\ snapshot.cache \in snapshot'.disk
  BY <1>1 DEF PowerInv, CachesInv, Synced, File
<1>4. CachesInv'
  BY <1>1, <1>3 DEF PowerInv, CachesInv
<1>5. ASSUME ~exposed'
      PROVE  SnapshotInv' /\ IndexInv'
  <2>1. snapshot'.disk = {snapshot.cache} /\ ~exposed
    <3>1. snapshot' = Synced(snapshot) /\ exposed' = exposed
      BY <1>1, <1>5, Zenon
    <3>2. ~exposed
      BY <1>5, <3>1, Zenon
    <3> QED
      BY <3>1, <3>2 DEF Synced, File
  <2>2. SnapshotInv /\ IndexInv /\ snapshot.cache \in snapshot.disk
    BY <2>1 DEF PowerInv, CachesInv
  <2>3. SnapshotInv'
    BY <1>1, <1>2, <2>1, <2>2 DEF SnapshotInv
  <2>4. IndexInv'
    BY <1>1, <1>2, <1>3, <2>1, <2>2 DEF IndexInv, Holds
  <2> QED
    BY <2>3, <2>4
<1> QED
  BY <1>4, <1>5

LEMMA PowerKill ==
  ASSUME PowerInv, Typed', Kill
  PROVE  CachesInv' /\ (~exposed' => SnapshotInv' /\ IndexInv')
<1>1. /\ pc' = "down" /\ walWrites' = 0 /\ killed' = killed + 1
      /\ UNCHANGED <<wal, valueLog, snapshot, past, exposed>>
  BY DEF Kill, ProcessGone, files
<1>2. CachesInv'
  BY <1>1 DEF PowerInv, CachesInv
<1>3. ASSUME ~exposed
      PROVE  SnapshotInv'
  <2>1. SnapshotInv /\ Typed
    BY <1>3 DEF PowerInv
  <2>2. AtRisk \in Nat /\ AtRisk' \in Nat /\ AtRisk <= AtRisk' /\ Len(past) \in Nat
    BY <1>1, <2>1, RiskType, RiskOfKill, FilesAre
  <2>3. \A map \in snapshot.disk, log \in wal.disk :
          Left(log, valueLog.cache, map, past, AtRisk')
    BY <2>1, <2>2, LeftMore DEF SnapshotInv
  <2>4. Current' = Current
    BY <1>1 DEF Current
  <2> QED
    BY <1>1, <2>1, <2>3, <2>4 DEF SnapshotInv
<1>4. IndexInv'
  BY <1>1 DEF IndexInv
<1> QED
  BY <1>1, <1>2, <1>3, <1>4

LEMMA PowerTruncate ==
  ASSUME PowerInv, Typed', SnapshotTruncate
  PROVE  CachesInv' /\ (~exposed' => SnapshotInv' /\ IndexInv')
<1> DEFINE v == valueLog.cache
<1>1. /\ pc = "synced" /\ pc' = "ready"
      /\ UNCHANGED <<valueLog, snapshot, index, walWrites, past, exposed>>
      /\ \/ wal' = File(<<>>) /\ killed' = 0
         \/ wal' = wal /\ killed' = killed
         \/ wal' = Wrote(wal, <<>>) /\ killed' = killed
  BY DEF SnapshotTruncate
<1>2. Current' = Current
  BY <1>1 DEF Current
<1>3. wal'.cache \in wal'.disk /\ wal'.cache \in {<<>>, wal.cache}
      /\ \A log \in wal'.disk : log = <<>> \/ (log \in wal.disk /\ AtRisk' = AtRisk)
  BY <1>1 DEF PowerInv, CachesInv, File, Wrote, AtRisk
<1>4. CachesInv'
  BY <1>1, <1>3 DEF PowerInv, CachesInv
<1>5. ASSUME ~exposed
      PROVE  SnapshotInv' /\ IndexInv'
  <2>1. SnapshotInv /\ IndexInv /\ Typed
    BY <1>5 DEF PowerInv
  <2>2. /\ snapshot.disk = {snapshot.cache} /\ snapshot.cache \in snapshot.disk
        /\ \A k \in Key : Stored(snapshot.cache, v, k) = Current[k]
    BY <1>1, <2>1 DEF IndexInv, Holds
  <2>3. /\ Resolves(snapshot.cache, v)
        /\ Gives(wal.cache, v, snapshot.cache, Current)
        /\ \A log \in wal.disk : Left(log, v, snapshot.cache, past, AtRisk)
    BY <2>1, <2>2 DEF SnapshotInv
  <2>4. Gives(<<>>, v, snapshot.cache, Current)
    BY <2>2, NothingMentioned, RecoveredIs DEF Gives
  <2>5. Left(<<>>, v, snapshot.cache, past, AtRisk')
    <3>1. AtRisk' \in Nat
      BY RiskType
    <3>2. Len(past) \in Nat \ {0}
      BY <2>1, FilesAre
    <3> QED
      BY <2>4, <3>1, <3>2, LeftNow DEF Current
  <2> HIDE DEF v
  <2>6. /\ Gives(wal'.cache, v, snapshot.cache, Current)
        /\ \A log \in wal'.disk : Left(log, v, snapshot.cache, past, AtRisk')
    BY <1>3, <2>3, <2>4, <2>5
  <2>7. SnapshotInv'
    BY <1>1, <1>2, <2>2, <2>3, <2>6 DEF SnapshotInv, v
  <2>8. IndexInv'
    BY <1>1, <1>2, <2>1 DEF IndexInv, Holds
  <2> QED
    BY <2>7, <2>8
<1> QED
  BY <1>1, <1>4, <1>5

LEMMA PowerLost ==
  ASSUME PowerInv, PowerFailure
  PROVE  CachesInv' /\ (~exposed' => SnapshotInv' /\ IndexInv')
<1>1. PICK log \in wal.disk, values \in valueLog.disk, map \in snapshot.disk :
        /\ wal' = File(log) /\ valueLog' = File(values) /\ snapshot' = File(map)
        /\ past' = <<[k \in Key |-> Recovered(log, values, map, k)]>>
        /\ exposed' = (exposed \/ ~Resolves(map, values))
  BY DEF PowerFailure
<1>2. pc' = "down" /\ walWrites' = 0 /\ killed' = 0
  BY DEF PowerFailure, ProcessGone
<1>3. /\ wal'.cache = log /\ wal'.disk = {log}
      /\ valueLog'.cache = values /\ valueLog'.disk = {values}
      /\ snapshot'.cache = map /\ snapshot'.disk = {map}
  BY <1>1 DEF File
<1>4. values \in ValueLogs
  BY FilesAre DEF PowerInv
<1>5. CachesInv'
  BY <1>2, <1>3, <1>4, StartsSame DEF CachesInv, StartsOnly
<1> DEFINE c == [k \in Key |-> Recovered(log, values, map, k)]
<1>6. \A k \in Key : c[k] = Recovered(log, values, map, k)
  OBVIOUS
<1>7. past' = <<c>>
  BY <1>1
<1> HIDE DEF c
<1>8. Len(past') = 1 /\ past'[1] = c /\ Current' = c
  BY <1>7 DEF Current
<1>9. Gives(log, values, map, Current')
  BY <1>6, <1>8 DEF Gives
<1>10. Left(log, values, map, past', AtRisk')
  <2>1. AtRisk' \in Nat
    BY <1>2, RiskOfSync
  <2>2. Len(past') \in Nat \ {0} /\ Gives(log, values, map, past'[Len(past')])
    BY <1>8, <1>9
  <2> QED
    BY <2>1, <2>2, LeftNow
<1>11. ASSUME ~exposed'
       PROVE  SnapshotInv'
  <2>1. Resolves(map, values)
    BY <1>1, <1>11, Zenon
  <2> QED
    BY <1>3, <1>9, <1>10, <2>1 DEF SnapshotInv
<1>12. IndexInv'
  BY <1>2 DEF IndexInv
<1> QED
  BY <1>5, <1>11, <1>12

LEMMA PowerStep == PowerInv /\ [Next]_vars => PowerInv'
<1> SUFFICES ASSUME PowerInv, [Next]_vars
             PROVE  PowerInv'
  OBVIOUS
<1>1. Typed'
  BY TypedStep DEF PowerInv
<1>2. CASE UNCHANGED vars
  <2>1. UNCHANGED <<wal, valueLog, snapshot, index, walWrites, pc, op, past, killed, exposed>>
    BY <1>2 DEF vars, files, memory, counters, observed
  <2>2. Current' = Current /\ AtRisk' = AtRisk
    BY <2>1 DEF Current, AtRisk
  <2>3. CachesInv'
    BY <2>1 DEF PowerInv, CachesInv
  <2>4. SnapshotInv => SnapshotInv'
    BY <2>1, <2>2 DEF SnapshotInv
  <2>5. IndexInv => IndexInv'
    BY <2>1, <2>2 DEF IndexInv, Holds
  <2> QED
    BY <1>1, <2>1, <2>3, <2>4, <2>5 DEF PowerInv
<1>3. CASE Next
  <2>1. CachesInv' /\ (~exposed' => SnapshotInv' /\ IndexInv')
    BY <1>1, <1>3, PowerStart, PowerCall, PowerApply, PowerSnapshotCall, PowerRename,
       PowerSync, PowerTruncate, PowerKill, PowerLost DEF Next
  <2> QED
    BY <1>1, <2>1 DEF PowerInv
<1> QED
  BY <1>2, <1>3

(***************************************************************************)
(* However calls, snapshots, kills and losses of power follow each other,  *)
(* and whatever the intervals: a loss of power takes back no more than the *)
(* writes of this process since its last sync of the log and, from each    *)
(* process killed since then, less than an interval, while the snapshot's  *)
(* values are there (wal.cpp:27-37, snapshot.cpp:72-81).                   *)
(***************************************************************************)
THEOREM PowerFailureAlwaysBounded == Spec => []PowerFailureIsBounded
<1>1. PowerInv => PowerFailureIsBounded
  <2> SUFFICES ASSUME PowerInv, ~exposed,
                      NEW log \in wal.disk, NEW values \in valueLog.disk,
                      NEW map \in snapshot.disk, Resolves(map, values), NEW k \in Key
               PROVE  \E n \in 1 .. Len(past) :
                        n + AtRisk >= Len(past) /\ Recovered(log, values, map, k) = past[n][k]
    BY DEF PowerFailureIsBounded
  <2>1. Typed /\ CachesInv /\ SnapshotInv
    BY DEF PowerInv
  <2>2. AtRisk \in Nat /\ Len(past) \in Nat
    BY <2>1, RiskType, FilesAre
  <2>3. PICK t \in 1 .. Len(past) :
          /\ t + AtRisk >= Len(past)
          /\ \A key \in Key :
               IF Mentions(log, key)
                 THEN Latest(log, key) = past[t][key]
                 ELSE \E n \in t .. Len(past) : Stored(map, valueLog.cache, key) = past[n][key]
    BY <2>1 DEF SnapshotInv, Left
  <2>4. CASE Mentions(log, k)
    BY <2>3, <2>4, RecoveredIs
  <2>5. CASE ~Mentions(log, k)
    <3>1. PICK n \in t .. Len(past) : Stored(map, valueLog.cache, k) = past[n][k]
      BY <2>3, <2>5
    <3>2. n \in 1 .. Len(past) /\ n + AtRisk >= Len(past)
      BY <2>2, <2>3, <3>1
    <3>3. Stored(map, values, k) = Stored(map, valueLog.cache, k)
      <4>1. values \in ValueLogs /\ valueLog.cache \in ValueLogs /\ map \in Offsets
        BY <2>1, FilesAre
      <4>2. IsStart(values, valueLog.cache)
        BY <2>1 DEF CachesInv, StartsOnly
      <4> QED
        BY <4>1, <4>2, StartStored
    <3> QED
      BY <2>5, <3>1, <3>2, <3>3, RecoveredIs
  <2> QED
    BY <2>4, <2>5
<1> QED
  BY <1>1, PowerInit, PowerStep, PTL DEF Spec

(***************************************************************************)
(* While the snapshot's values are there, the process starts after any     *)
(* losses of power and kills, and get() answers what the last write of     *)
(* each key says, of those that were left (cognex.cpp:82-111).             *)
(***************************************************************************)
THEOREM AlwaysServesWhatWasLeft == Spec => []ServesWhatWasLeft
<1>1. PowerInv => ServesWhatWasLeft
  <2> SUFFICES ASSUME PowerInv, ~exposed
               PROVE  /\ Resolves(snapshot.cache, valueLog.cache)
                      /\ pc = "ready" =>
                           \A k \in Key : Stored(index, valueLog.cache, k) = past[Len(past)][k]
    BY DEF ServesWhatWasLeft
  <2>1. CachesInv /\ SnapshotInv /\ IndexInv
    BY DEF PowerInv
  <2> QED
    BY <2>1 DEF CachesInv, SnapshotInv, IndexInv, Holds, Current
<1> QED
  BY <1>1, PowerInit, PowerStep, PTL DEF Spec
=============================================================================
