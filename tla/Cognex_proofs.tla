---------------------------- MODULE Cognex_proofs ----------------------------
(***************************************************************************)
(* Proofs about the whole program: QUERY and GET go by the same contents,  *)
(* before and after a restart, and the REPL's count covers the log. They   *)
(* build on what is proved of the files (CognexStorage_proofs) and of the  *)
(* search structures (CognexIndex_proofs).                                 *)
(***************************************************************************)
EXTENDS Cognex, CognexStorage_proofs, CognexIndex_proofs

-----------------------------------------------------------------------------
(* The storage side takes the steps of CognexStorage *)

LEMMA EnterSteps ==
  ASSUME NEW line \in Line, Enter(line)
  PROVE  \/ (\E k \in Key : (\E v \in Value : Put(k, v)) \/ Del(k)) /\ search' = search
         \/ SnapshotCall /\ search' = search
         \/ UNCHANGED vars /\ search' = Compacted(search)
<1> DEFINE command == Cli!ParseLine(line)
<1>1. /\ command.name = <<"PUT">> /\ Len(command.args) = 2 =>
           command.args[1] \in Key /\ command.args[2] \in Value
      /\ command.name = <<"DEL">> /\ Len(command.args) = 1 => command.args[1] \in Key
  BY LineAssumption
<1>2. \/ /\ command.name = <<"PUT">> /\ Len(command.args) = 2
         /\ Put(command.args[1], command.args[2])
         /\ UNCHANGED search
      \/ /\ command.name = <<"DEL">> /\ Len(command.args) = 1
         /\ Del(command.args[1])
         /\ UNCHANGED search
      \/ SnapshotCall /\ UNCHANGED search
      \/ UNCHANGED vars /\ search' = Compacted(search)
  BY DEF Enter
<1> HIDE DEF command
<1> QED
  BY <1>1, <1>2

(* All but the snapshot that the REPL takes is a step of CognexStorage. *)
LEMMA StorageSteps ==
  ASSUME [AllNext]_allVars
  PROVE  [Next]_vars \/ AutoSnapshot
<1>1. ASSUME NEW line \in Line, Enter(line)
      PROVE  [Next]_vars
  BY <1>1, EnterSteps DEF Next
<1>2. CASE UNCHANGED allVars
  BY <1>2 DEF allVars
<1>3. CASE ProgramStep \/ Open \/ Die
  BY <1>3 DEF ProgramStep, Open, Die, Replay, RebuildSearch, PutBegin, PutEnd, DelEnd,
              SnapshotBegin, SnapshotEnd, Next, EngineStep
<1> QED
  BY <1>1, <1>2, <1>3 DEF AllNext

LEMMA AutoSnapshotKeeps == KVInv /\ AutoSnapshot => KVInv'
<1> SUFFICES ASSUME KVInv, AutoSnapshot
             PROVE  KVInv'
  OBVIOUS
<1>1. /\ pc = "ready" /\ pc' = "snapshot"
      /\ wal' = wal /\ vlog' = vlog /\ snapshot' = snapshot /\ tmp' = tmp /\ index' = index
      /\ snapshotWriteOps' = snapshotWriteOps /\ op' = op /\ cursor' = cursor
      /\ calls' = calls /\ starts' = starts
  BY DEF AutoSnapshot, files, memory
<1>2. View' = View /\ Durable' = Durable /\ LogTorn' = LogTorn
  BY <1>1 DEF View, Durable, Stored, LogTorn
<1> QED
  BY <1>1, <1>2
     DEF KVInv, FilesInv, OffsetsInv, Typed, TypeOK, CallOK, InCall, PendingValue, OffsetsResolve,
         Resolves, Readable, PendingRecord, PendingSnapshot, FilesMatchIndex, ValuesInv

LEMMA StorageInit == AllInit => KVInv
BY FilesInit, ValuesInit DEF AllInit, KVInv

LEMMA StorageKept ==
  ASSUME RoundTrip, KVInv, [AllNext]_allVars
  PROVE  KVInv'
<1>1. CASE [Next]_vars
  <2>1. FilesInv'
    BY <1>1, FilesStep DEF KVInv
  <2>2. ValuesInv'
    BY <1>1, ValuesStep DEF KVInv, FilesInv, OffsetsInv
  <2> QED
    BY <2>1, <2>2 DEF KVInv
<1>2. CASE AutoSnapshot
  BY <1>2, AutoSnapshotKeeps
<1> QED
  BY <1>1, <1>2, StorageSteps

-----------------------------------------------------------------------------
(* There are only so many keys in a map *)

Support(map) == {k \in Key : map[k] # Absent}

FiniteInv ==
  IsFiniteSet(Support(index)) /\ IsFiniteSet(Support(snapshot)) /\ IsFiniteSet(Support(tmp))

LEMMA NoneSupported == Support(NoOffsets) = {}
BY DEF Support, NoOffsets

LEMMA SupportChanged ==
  ASSUME NEW map, NEW key \in Key, NEW n, IsFiniteSet(Support(map)), map \in [Key -> Nat]
  PROVE  IsFiniteSet(Support([map EXCEPT ![key] = n]))
<1>1. IsFiniteSet(Support(map) \cup {key})
  BY FS_AddElement
<1>2. Support([map EXCEPT ![key] = n]) \subseteq Support(map) \cup {key}
  BY DEF Support
<1> QED
  BY <1>1, <1>2, FS_Subset

LEMMA FiniteInit == AllInit => FiniteInv
BY NoneSupported, FS_EmptySet DEF AllInit, Init, FiniteInv

LEMMA FiniteStep ==
  ASSUME KVInv, FiniteInv, [AllNext]_allVars
  PROVE  FiniteInv'
<1>0. /\ index \in [Key -> Nat] /\ tmp \in [Key -> Nat] /\ TypeOK
      /\ pc \in InCall => op \in Ops
      /\ pc = "replayPut" => MoreToReplay
  BY DEF KVInv, FilesInv, OffsetsInv, Typed, TypeOK, CallOK
<1>1. IsFiniteSet(Support(index)')
  <2>1. CASE index' = index
    BY <2>1 DEF FiniteInv, Support
  <2>2. CASE index' = snapshot
    BY <2>2 DEF FiniteInv, Support
  <2>3. CASE index' = NoOffsets
    <3>1. Support(index)' = Support(NoOffsets)
      BY <2>3 DEF Support
    <3> QED
      BY <3>1, NoneSupported, FS_EmptySet
  <2>4. ASSUME NEW key \in Key, NEW n, index' = [index EXCEPT ![key] = n]
        PROVE  IsFiniteSet(Support(index)')
    <3>1. Support(index)' = Support([index EXCEPT ![key] = n])
      BY <2>4 DEF Support
    <3> QED
      BY <1>0, <3>1, SupportChanged DEF FiniteInv
  <2>5. ASSUME ReplayPutEnd \/ ReplayDel
        PROVE  Replayed.key \in Key
    BY <1>0, <2>5, ReplayedType DEF ReplayPutEnd, ReplayDel, Ops
  <2>6. ASSUME PutApply \/ DelApply
        PROVE  op.key \in Key
    BY <1>0, <2>6 DEF PutApply, DelApply, InCall, Ops
  <2>7. \/ index' = index \/ index' = snapshot \/ index' = NoOffsets
        \/ \E key \in Key : \E n \in {Absent, Len(vlog)} : index' = [index EXCEPT ![key] = n]
    <3>1. CASE ReplayPutEnd \/ ReplayDel \/ PutApply \/ DelApply
      BY <2>5, <2>6, <3>1 DEF ReplayPutEnd, ReplayDel, PutApply, DelApply
    <3>2. CASE AutoSnapshot
      BY <3>2 DEF AutoSnapshot, memory
    <3>3. CASE [Next]_vars /\ ~(ReplayPutEnd \/ ReplayDel \/ PutApply \/ DelApply)
      BY <3>3 DEF Next, EngineStep, Start, ReplayPutBegin, ReplayEnd, Rebuild, ProcessGone, Put, Del,
                  Call, WalComplete, PutStoreBegin, SnapshotCall, SnapshotOpen, SnapshotLine,
                  SnapshotRename, SnapshotTruncate, Kill, vars, memory
    <3> QED
      BY <3>1, <3>2, <3>3, StorageSteps
  <2> QED
    BY <2>1, <2>2, <2>3, <2>4, <2>7
<1>2. IsFiniteSet(Support(snapshot)') /\ IsFiniteSet(Support(tmp)')
  <2>1. ASSUME NEW k \in Key, tmp' = [tmp EXCEPT ![k] = index[k]]
        PROVE  IsFiniteSet(Support(tmp)')
    <3>1. Support(tmp)' = Support([tmp EXCEPT ![k] = index[k]])
      BY <2>1 DEF Support
    <3> QED
      BY <1>0, <3>1, SupportChanged DEF FiniteInv
  <2>2. ASSUME tmp' = NoOffsets
        PROVE  IsFiniteSet(Support(tmp)')
    <3>1. Support(tmp)' = Support(NoOffsets)
      BY <2>2 DEF Support
    <3> QED
      BY <3>1, NoneSupported, FS_EmptySet
  <2>3. /\ snapshot' = snapshot \/ snapshot' = tmp
        /\ \/ tmp' = tmp \/ tmp' = NoOffsets
           \/ \E k \in Key : tmp' = [tmp EXCEPT ![k] = index[k]]
    <3>1. CASE AutoSnapshot
      BY <3>1 DEF AutoSnapshot, files
    <3>2. CASE [Next]_vars
      BY <3>2 DEF Next, EngineStep, Start, ReplayPutBegin, ReplayPutEnd, ReplayDel, ReplayEnd, Rebuild,
                  Put, Del, Call, WalComplete, PutStoreBegin, PutApply, DelApply, SnapshotCall,
                  SnapshotOpen, SnapshotLine, SnapshotRename, SnapshotTruncate, Kill, vars, files
    <3> QED
      BY <3>1, <3>2, StorageSteps
  <2>4. snapshot' = snapshot \/ snapshot' = tmp => IsFiniteSet(Support(snapshot)')
    BY DEF FiniteInv, Support
  <2>5. tmp' = tmp => IsFiniteSet(Support(tmp)')
    BY DEF FiniteInv, Support
  <2> QED
    BY <2>1, <2>2, <2>3, <2>4, <2>5
<1> QED
  BY <1>1, <1>2 DEF FiniteInv

-----------------------------------------------------------------------------
(* The search structures go with what the index stores *)

LEMMA ViewType ==
  ASSUME KVInv
  PROVE  /\ View \in Contents
         /\ \A k \in Key : View[k] = Stored(index, k) /\ (View[k] = {} <=> index[k] = Absent)
<1>1. ValuesInv /\ Resolves(index)
  BY DEF KVInv, FilesInv, OffsetsInv, OffsetsResolve
<1>2. \A k \in Key : Stored(index, k) \in {{}} \cup {{v} : v \in Value}
  BY <1>1 DEF ValuesInv, Resolves, Readable, Stored
<1> QED
  BY <1>2 DEF View, Contents, Stored

(* What a step does to the contents, in the terms of CognexIndex_proofs. *)
LEMMA ViewSame ==
  ASSUME KVInv, [AllNext]_allVars, index' = index
  PROVE  View' = View
<1>1. CASE [Next]_vars
  BY <1>1, MeaningKept DEF KVInv, FilesInv
<1>2. CASE AutoSnapshot
  BY <1>2 DEF AutoSnapshot, files, memory, View, Stored
<1> QED
  BY <1>1, <1>2, StorageSteps

LEMMA ViewApplied ==
  ASSUME KVInv, PutApply \/ DelApply
  PROVE  /\ op \in ValueOps
         /\ Stores(View, View', op.key, Written(op))
<1>1. op \in Ops /\ View' = [View EXCEPT ![op.key] = Written(op)]
  BY EffectOnView DEF KVInv, FilesInv
<1>2. op \in ValueOps
  BY DEF KVInv, ValuesInv, InCall, PutApply, DelApply
<1> QED
  BY <1>1, <1>2 DEF Stores, View

LEMMA ViewReplayed ==
  ASSUME RoundTrip, KVInv, ReplayPutEnd \/ ReplayDel
  PROVE  /\ Replayed \in ValueOps
         /\ Stores(View, View', Replayed.key, Written(Replayed))
<1>1. TypeOK /\ MoreToReplay /\ OffsetsInv
  BY DEF KVInv, FilesInv, OffsetsInv, Typed, CallOK, ReplayPutEnd, ReplayDel
<1>2. Replayed \in ValueOps /\ Replayed \in Ops
  BY <1>1, ReplayedIsValueOp, ReplayedType
<1>3. \A k \in Key :
        Stored(index, k)' = IF k = Replayed.key THEN Written(Replayed) ELSE Stored(index, k)
  <2>1. CASE ReplayPutEnd
    <3>1. LastValueIs(Replayed) /\ Written(Replayed) = {Replayed.value}
      BY <1>1, <2>1 DEF ReplayPutEnd, OffsetsInv, PendingValue, LastValueIs, Written
    <3> QED
      BY <1>1, <1>2, <2>1, <3>1, PointedResolves
         DEF ReplayPutEnd, OffsetsInv, TypeOK, OffsetsResolve
  <2>2. CASE ReplayDel
    <3>1. Written(Replayed) = {} /\ Replayed.key \in Key
      BY <1>2, <2>2 DEF ReplayDel, Written, Ops
    <3> QED
      BY <1>1, <2>2, <3>1, ErasedResolves
         DEF ReplayDel, OffsetsInv, TypeOK, OffsetsResolve, files
  <2> QED
    BY <2>1, <2>2
<1> QED
  BY <1>2, <1>3 DEF Stores, View

(* The value that is read for a key of the index. *)
Read(k) == vlog[index[k]].value

(* An order in which the first l keys of the hash map can come. *)
Readings(order, l) ==
  /\ l \in Nat /\ Len(order) = l
  /\ \A n \in 1 .. l : order[n] \in Key /\ Read(order[n]) \in Value

(* The rebuild enters one key after the other. *)
LEMMA ReenteringIs ==
  ASSUME Consistent(search), NEW order, NEW l, Readings(order, l)
  PROVE  LET b == Reentering(order)
         IN  /\ b[0] = search
             /\ \A n \in 1 .. l : b[n] = Inserted(b[n - 1], order[n], Read(order[n]))
<1> DEFINE D == 0 .. l
           Enter1(c, n) == Inserted(c, order[n], Read(order[n]))
           Def(f, n) == IF n = 0 THEN search ELSE Enter1(f[n - 1], n)
           built == CHOOSE f : f = [n \in D |-> Def(f, n)]
           S == {c \in Searches : Consistent(c)}
           step == [n \in 1 .. l |-> [c \in S |-> Enter1(c, n)]]
           first == search
<1>0. l \in Nat /\ Len(order) = l
  BY DEF Readings
<1>1. Reentering(order) = built
  BY <1>0 DEF Reentering, Read
<1>3. \A n \in 1 .. l, c \in S : Enter1(c, n) \in S
  <2> SUFFICES ASSUME NEW n \in 1 .. l, NEW c \in S
               PROVE  Enter1(c, n) \in S
    OBVIOUS
  <2>1. order[n] \in Key /\ Read(order[n]) \in Value
    BY DEF Readings
  <2>2. Words[Read(order[n])] \in Seq(Token)
    BY <2>1, WordsType
  <2>3. Consistent(c)
    OBVIOUS
  <2>4. Consistent(Enter1(c, n))
    BY <2>1, <2>2, <2>3, EnteredConsistent DEF Inserted
  <2> HIDE DEF Enter1
  <2> QED
    BY <2>4 DEF Consistent
<1> HIDE DEF Enter1
<1>4. first \in S
  BY DEF Consistent
<1>5. step \in [1 .. l -> [S -> S]]
  <2> HIDE DEF S
  <2> QED
    BY <1>3
<1>6. PICK g \in [D -> S] : \A n \in D : g[n] = IF n = 0 THEN first ELSE step[n][g[n - 1]]
  <2>1. Counted(l, S, first, step)
    <3> HIDE DEF S, first, step
    <3> QED
      BY <1>0, <1>4, <1>5 DEF Counted
  <2> HIDE DEF S, first, step
  <2> QED
    BY <2>1, CountedRecursion
<1>7. g = [n \in D |-> Def(g, n)]
  <2>1. \A n \in D : n # 0 => n \in 1 .. l /\ n - 1 \in D
    BY <1>0
  <2>2. ASSUME NEW n \in D
        PROVE  g[n] = Def(g, n)
    <3>1. CASE n = 0
      BY <1>6, <3>1
    <3>2. CASE n # 0
      <4>1. n \in 1 .. l /\ g[n - 1] \in S /\ g[n] = step[n][g[n - 1]]
        <5> HIDE DEF step, D, S, first
        <5> QED
          BY <1>6, <2>1, <3>2
      <4>2. g[n] = Enter1(g[n - 1], n)
        <5> HIDE DEF D, S, first
        <5> QED
          BY <4>1
      <4> QED
        BY <3>2, <4>2
    <3> QED
      BY <3>1, <3>2
  <2> HIDE DEF Def, D
  <2> QED
    BY <1>6, <2>2
<1>8. built = [n \in D |-> Def(built, n)]
  <2> HIDE DEF Def
  <2> QED
    BY <1>7
<1> HIDE DEF built
<1>9. \A n \in D : built[n] = Def(built, n)
  <2> HIDE DEF Def
  <2> QED
    BY <1>8
<1>10. built[0] = search
  <2>1. 0 \in D
    BY <1>0
  <2> HIDE DEF D
  <2> QED
    BY <1>9, <2>1
<1>11. \A n \in 1 .. l : built[n] = Enter1(built[n - 1], n)
  <2> SUFFICES ASSUME NEW n \in 1 .. l
               PROVE  built[n] = Enter1(built[n - 1], n)
    OBVIOUS
  <2>1. n \in D /\ n # 0
    BY <1>0
  <2>2. built[n] = Def(built, n)
    <3> HIDE DEF Def, D
    <3> QED
      BY <1>9, <2>1
  <2> QED
    BY <2>1, <2>2
<1> QED
  BY <1>1, <1>10, <1>11 DEF Enter1

(* The keys that have been entered after n of them. *)
Before(order, n) == {order[i] : i \in 1 .. n}

(***************************************************************************)
(* In whatever order the keys come, the rebuild enters each of them once   *)
(* and ends with what the index stores.                                    *)
(***************************************************************************)
LEMMA RebuildMatches ==
  ASSUME KVInv, FiniteInv, Reentered(search, View, {}),
         NEW order \in Bijection(1 .. Cardinality(Support(index)), Support(index))
  PROVE  LET s == Reentering(order)[Len(order)]
         IN  Consistent(s) /\ Matches(s, View)
<1> DEFINE l == Cardinality(Support(index))
           b == Reentering(order)
           T == {n \in 0 .. l : Reentered(b[n], View, Before(order, n))}
<1>0. l \in Nat
  BY FS_CardinalityType DEF FiniteInv
<1>1. /\ order \in [1 .. l -> Support(index)]
      /\ \A i, j \in 1 .. l : order[i] = order[j] => i = j
      /\ \A k \in Support(index) : \E i \in 1 .. l : order[i] = k
  <2> HIDE DEF l
  <2>1. order \in Bijection(1 .. l, Support(index))
    BY DEF l
  <2>2. order \in Injection(1 .. l, Support(index)) /\ order \in Surjection(1 .. l, Support(index))
    BY <2>1 DEF Bijection
  <2> QED
    BY <2>2 DEF Injection, Surjection, IsInjective
<1> HIDE DEF l
<1>2. Len(order) = l
  BY <1>0, <1>1, LenProperties
<1>3. ASSUME NEW k \in Support(index)
      PROVE  Read(k) \in Value /\ View[k] = {Read(k)} /\ k \in Key
  <2>1. ValuesInv /\ Resolves(index)
    BY DEF KVInv, FilesInv, OffsetsInv, OffsetsResolve
  <2>2. k \in Key /\ index[k] # Absent
    BY DEF Support
  <2> QED
    BY <2>1, <2>2 DEF ValuesInv, Resolves, Readable, View, Stored, Read
<1>4. Readings(order, l)
  BY <1>0, <1>1, <1>2, <1>3 DEF Readings
<1>5. /\ b[0] = search
      /\ \A n \in 1 .. l : b[n] = Inserted(b[n - 1], order[n], Read(order[n]))
  BY <1>4, ReenteringIs DEF Reentered
<1> HIDE DEF b
<1>6. 0 \in T
  <2>1. Before(order, 0) = {}
    BY DEF Before
  <2> QED
    BY <1>0, <1>5, <2>1
<1>7. ASSUME NEW n \in 1 .. l, n - 1 \in T
      PROVE  n \in T
  <2>1. Reentered(b[n - 1], View, Before(order, n - 1))
    BY <1>7
  <2>2. order[n] \in Support(index)
    BY <1>1
  <2>3. order[n] \in Key \ Before(order, n - 1)
    BY <1>0, <1>1, <1>3, <2>2 DEF Before
  <2>4. Reentered(b[n], View, Before(order, n - 1) \cup {order[n]})
    BY <1>3, <1>5, <2>1, <2>2, <2>3, InsertedReenters
  <2>5. Before(order, n - 1) \cup {order[n]} = Before(order, n)
    <3>1. 1 .. n = (1 .. n - 1) \cup {n}
      BY <1>0
    <3> QED
      BY <3>1 DEF Before
  <2>6. Reentered(b[n], View, Before(order, n))
    BY <2>4, <2>5, Zenon
  <2>7. n \in 0 .. l
    BY <1>0
  <2> QED
    BY <2>6, <2>7
<1>8. 0 .. l \subseteq T
  <2> HIDE DEF T
  <2> QED
    BY <1>0, <1>6, <1>7, CountedInduction
<1>9. Reentered(b[l], View, Before(order, l))
  BY <1>0, <1>8
<1>10. Found(b[l], View, Key)
  <2>1. \A k \in Key : View[k] # {} => k \in Before(order, l)
    <3>1. \A k \in Support(index) : k \in Before(order, l)
      BY <1>1 DEF Before
    <3>2. \A k \in Key : View[k] # {} => k \in Support(index)
      BY ViewType DEF Support
    <3> QED
      BY <3>1, <3>2
  <2> QED
    BY <1>9, <2>1 DEF Reentered, Found
<1> QED
  BY <1>2, <1>9, <1>10 DEF Reentered, Matches, b

(* Where the entries match what the index stores. *)
Settled == {"ready", "walTorn", "logged", "snapshot", "writing", "renamed"}

(***************************************************************************)
(* While the log is replayed only keyToEntry_ is told to make sense;       *)
(* between the two halves of a put() the old entry of the key is marked    *)
(* and the new one is not there yet.                                       *)
(***************************************************************************)
SearchPhase ==
  /\ pc = "down" => search = EmptySearch
  /\ pc \in {"replay", "replayPut"} => Leads(search, View)
  /\ pc = "rebuild" => Reentered(search, View, {})
  /\ pc \in Settled => Matches(search, View)
  /\ pc = "vlogTorn" => MatchesBut(search, View, op.key) /\ NoneFor(search, View)

SearchOK == Consistent(search) /\ SearchPhase

(* The search side and what it goes by are left alone. *)
LEMMA PhaseKept ==
  ASSUME SearchOK, search' = search, View' = View,
         \/ pc' = pc /\ op' = op
         \/ pc \in Settled /\ pc' \in Settled
         \/ pc \in {"replay", "replayPut"} /\ pc' \in {"replay", "replayPut"}
  PROVE  SearchOK'
<1>1. CASE pc' = pc /\ op' = op
  BY <1>1 DEF SearchOK, SearchPhase
<1>2. CASE pc \in Settled /\ pc' \in Settled
  BY <1>2 DEF SearchOK, SearchPhase, Settled
<1>3. CASE pc \in {"replay", "replayPut"} /\ pc' \in {"replay", "replayPut"}
  BY <1>3 DEF SearchOK, SearchPhase, Settled
<1> QED
  BY <1>1, <1>2, <1>3

LEMMA InsertedConsistent ==
  ASSUME NEW s, Consistent(s), NEW k \in Key, NEW v \in Value
  PROVE  Consistent(Inserted(s, k, v))
BY WordsType, EnteredConsistent DEF Inserted

(* recover() up to the rebuild. *)
LEMMA ReplaySearch ==
  ASSUME RoundTrip, KVInv, SearchOK, [AllNext]_allVars, Open \/ Replay
  PROVE  SearchOK'
<1>0. Consistent(search) /\ search \in Searches
  BY DEF SearchOK, Consistent
<1>1. CASE Open
  <2>1. pc = "down" /\ pc' = "replay" /\ search' = search /\ search = EmptySearch
    BY <1>1 DEF Open, Start, SearchOK, SearchPhase
  <2>2. \A k \in Key : search'.keyToEntry[k] = NoEntry /\ Len(search'.entries) = 0
    BY <2>1, EmptyConsistent DEF EmptySearch
  <2>3. Leads(search', View')
    BY <2>2 DEF Leads, NoneFor, NoEntry
  <2> QED
    BY <1>0, <2>1, <2>3 DEF SearchOK, SearchPhase, Settled
<1>2. CASE ReplayPutBegin /\ UNCHANGED search
  <2>1. View' = View
    BY <1>2, ViewSame DEF ReplayPutBegin, memory
  <2> QED
    BY <1>2, <2>1, PhaseKept DEF ReplayPutBegin
<1>3. CASE ReplayPutEnd /\ search' = Inserted(search, Replayed.key, Replayed.value)
  <2>1. Replayed \in ValueOps /\ Stores(View, View', Replayed.key, Written(Replayed))
    BY <1>3, ViewReplayed
  <2>2. Replayed.type = "PUT"
    BY <1>3 DEF ReplayPutEnd, KVInv, FilesInv, OffsetsInv, PendingValue, LastValueIs
  <2>3. Replayed.key \in Key /\ Replayed.value \in Value /\ Written(Replayed) = {Replayed.value}
    BY <2>1, <2>2 DEF ValueOps, Ops, Written
  <2>4. Leads(search, View) /\ pc' = "replay"
    BY <1>3 DEF ReplayPutEnd, SearchOK, SearchPhase
  <2>5. Consistent(search')
    BY <1>0, <1>3, <2>3, InsertedConsistent
  <2>6. Leads(search', View')
    BY <1>0, <1>3, <2>1, <2>3, <2>4, InsertedLeads
  <2> QED
    BY <2>4, <2>5, <2>6 DEF SearchOK, SearchPhase, Settled
<1>4. CASE ReplayDel /\ search' = Forgotten(search, Replayed.key)
  <2>1. Replayed \in ValueOps /\ Stores(View, View', Replayed.key, Written(Replayed))
    BY <1>4, ViewReplayed
  <2>2. Replayed.key \in Key /\ Written(Replayed) = {}
    BY <1>4, <2>1 DEF ReplayDel, ValueOps, Ops, Written
  <2>3. Leads(search, View) /\ pc' = "replay"
    BY <1>4 DEF ReplayDel, SearchOK, SearchPhase
  <2>4. Kept(search, search') /\ Leads(search', View')
    BY <1>0, <1>4, <2>1, <2>2, <2>3, ForgottenLeads
  <2>5. Consistent(search')
    BY <1>0, <2>4, KeptConsistent
  <2> QED
    BY <2>3, <2>4, <2>5 DEF SearchOK, SearchPhase, Settled
<1>5. CASE ReplayEnd /\ search' = Dropped(search)
  <2>1. View' = View /\ pc' = "rebuild" /\ Leads(search, View)
    BY <1>5, ViewSame DEF ReplayEnd, SearchOK, SearchPhase
  <2>2. /\ Consistent(search') /\ Len(search'.entries) = 0
        /\ search'.keyToEntry = search.keyToEntry
    BY <1>0, <1>5, DroppedIs
  <2>3. Reentered(search', View', {})
    BY <2>1, <2>2 DEF Reentered, EntriesStored, Found, Unused, Leads, NoneFor
  <2> QED
    BY <2>1, <2>2, <2>3 DEF SearchOK, SearchPhase, Settled
<1> QED
  BY <1>1, <1>2, <1>3, <1>4, <1>5 DEF Replay

(* The rebuild. *)
LEMMA RebuildSearchOK ==
  ASSUME KVInv, FiniteInv, SearchOK, [AllNext]_allVars, RebuildSearch
  PROVE  SearchOK'
<1>1. pc = "rebuild" /\ Resolves(index) /\ pc' = "ready" /\ index' = index
  BY DEF RebuildSearch, Rebuild, memory, KVInv, FilesInv, OffsetsInv, OffsetsResolve
<1>2. View' = View
  BY <1>1, ViewSame
<1>3. PICK order \in Bijection(1 .. Cardinality(Support(index)), Support(index)) :
        search' = Reentering(order)[Len(order)]
  BY <1>1 DEF RebuildSearch, Support
<1>4. Reentered(search, View, {})
  BY <1>1 DEF SearchOK, SearchPhase
<1>5. Consistent(search') /\ Matches(search', View)
  BY <1>3, <1>4, RebuildMatches
<1> QED
  BY <1>1, <1>2, <1>5 DEF SearchOK, SearchPhase, Settled

(* put() and del(), and a compaction. *)
LEMMA CallSearch ==
  ASSUME KVInv, SearchOK, [AllNext]_allVars,
         \/ PutBegin \/ PutEnd \/ DelEnd
         \/ pc = "ready" /\ UNCHANGED vars /\ search' = Compacted(search)
  PROVE  SearchOK'
<1>0. Consistent(search) /\ search \in Searches
  BY DEF SearchOK, Consistent
<1>1. CASE WalComplete /\ UNCHANGED search
  <2>1. View' = View
    BY <1>1, ViewSame DEF WalComplete, memory
  <2> QED
    BY <1>1, <2>1, PhaseKept DEF WalComplete, Settled
<1>2. CASE PutStoreBegin /\ search' = Tombstoned(search, op.key)
  <2>1. View' = View /\ pc' = "vlogTorn" /\ op' = op /\ op.key \in Key
    BY <1>2, ViewSame
       DEF PutStoreBegin, memory, KVInv, FilesInv, OffsetsInv, Typed, CallOK, InCall, Ops
  <2>2. Matches(search, View)
    BY <1>2 DEF PutStoreBegin, SearchOK, SearchPhase, Settled
  <2>3. search.keyToEntry[op.key] \in 0 .. Len(search.entries)
    BY <1>0, <2>1, <2>2, MatchesInRange
  <2>4. Kept(search, search') /\ MatchesBut(search', View, op.key) /\ NoneFor(search', View)
    BY <1>0, <1>2, <2>1, <2>2, <2>3, TombstonedMatches
  <2>5. Consistent(search')
    BY <1>0, <2>4, KeptConsistent
  <2> QED
    BY <2>1, <2>4, <2>5 DEF SearchOK, SearchPhase, Settled
<1>3. CASE PutEnd
  <2>1. op \in ValueOps /\ Stores(View, View', op.key, Written(op))
    BY <1>3, ViewApplied DEF PutEnd
  <2>2. op.type = "PUT"
    BY <1>3 DEF PutEnd, PutApply, KVInv, FilesInv, OffsetsInv, PendingValue, LastValueIs
  <2>3. op.key \in Key /\ op.value \in Value /\ Written(op) = {op.value}
    BY <2>1, <2>2 DEF ValueOps, Ops, Written
  <2>4. MatchesBut(search, View, op.key) /\ NoneFor(search, View) /\ pc' \in Settled /\ pc' # "vlogTorn"
    BY <1>3 DEF PutEnd, PutApply, SearchOK, SearchPhase, Settled
  <2>5. search' = Inserted(search, op.key, op.value)
    BY <1>3 DEF PutEnd
  <2>6. Matches(search', View')
    BY <1>0, <2>1, <2>3, <2>4, <2>5, RefilledMatches
  <2>7. Consistent(search')
    BY <1>0, <2>3, <2>5, InsertedConsistent
  <2> QED
    BY <2>4, <2>6, <2>7 DEF SearchOK, SearchPhase, Settled
<1>4. CASE DelEnd
  <2>1. op \in ValueOps /\ Stores(View, View', op.key, Written(op))
    BY <1>4, ViewApplied DEF DelEnd
  <2>2. op.key \in Key /\ Written(op) = {} /\ pc = "logged" /\ pc' = "ready"
    BY <1>4, <2>1 DEF DelEnd, DelApply, ValueOps, Ops, Written
  <2>3. Matches(search, View)
    BY <2>2 DEF SearchOK, SearchPhase, Settled
  <2>4. CASE View[op.key] = {}
    <3>1. search' = search
      BY <1>4, <2>4 DEF DelEnd
    <3>2. View' = View
      <4>1. \A k \in Key : View'[k] = View[k]
        BY <2>1, <2>2, <2>4 DEF Stores
      <4> QED
        BY <4>1 DEF View
    <3> QED
      BY <1>0, <2>2, <2>3, <3>1, <3>2 DEF SearchOK, SearchPhase, Settled
  <2>5. CASE View[op.key] # {}
    <3> DEFINE n == Forgotten(search, op.key)
    <3>1. search' \in {n, Compacted(n)}
      BY <1>4, <2>5 DEF DelEnd
    <3>2. search.keyToEntry[op.key] \in 0 .. Len(search.entries)
      BY <1>0, <2>2, <2>3, MatchesInRange
    <3>3. Kept(search, n)
      BY <1>0, <2>2, <3>2, ForgottenIs DEF Marked
    <3>4. Matches(n, View')
      BY <1>0, <2>1, <2>2, <2>3, <3>2, ForgottenMatches
    <3> HIDE DEF n
    <3>5. Consistent(n) /\ n \in Searches
      BY <1>0, <3>3, KeptConsistent DEF Kept
    <3>6. Consistent(Compacted(n)) /\ Matches(Compacted(n), View')
      BY <3>4, <3>5, CompactedIs
    <3>7. Consistent(search') /\ Matches(search', View')
      BY <3>1, <3>4, <3>5, <3>6
    <3> QED
      BY <2>2, <3>7 DEF SearchOK, SearchPhase, Settled
  <2> QED
    BY <2>4, <2>5
<1>5. CASE pc = "ready" /\ UNCHANGED vars /\ search' = Compacted(search)
  <2>1. View' = View /\ pc' = "ready"
    BY <1>5, ViewSame DEF vars, memory
  <2>2. Matches(search, View)
    BY <1>5 DEF SearchOK, SearchPhase, Settled
  <2>3. Consistent(search') /\ Matches(search', View')
    BY <1>0, <1>5, <2>1, <2>2, CompactedIs
  <2> QED
    BY <2>1, <2>3 DEF SearchOK, SearchPhase, Settled
<1> QED
  BY <1>1, <1>2, <1>3, <1>4, <1>5 DEF PutBegin

LEMMA SearchOKInit == AllInit => SearchOK
BY EmptyConsistent DEF AllInit, Init, SearchOK, SearchPhase, Settled

LEMMA SearchOKStep ==
  ASSUME RoundTrip, KVInv, FiniteInv, SearchOK, [AllNext]_allVars
  PROVE  SearchOK'
<1>1. CASE Open \/ Replay
  BY <1>1, ReplaySearch
<1>2. CASE RebuildSearch
  BY <1>2, RebuildSearchOK
<1>3. CASE PutBegin \/ PutEnd \/ DelEnd
  BY <1>3, CallSearch
<1>4. ASSUME NEW line \in Line, Enter(line)
      PROVE  SearchOK'
  <2>1. CASE (\E k \in Key : (\E v \in Value : Put(k, v)) \/ Del(k)) /\ search' = search
    <3>1. pc = "ready" /\ pc' = "walTorn" /\ index' = index
      BY <2>1 DEF Put, Del, Call
    <3>2. View' = View
      BY <3>1, ViewSame
    <3> QED
      BY <2>1, <3>1, <3>2, PhaseKept DEF Settled
  <2>2. CASE SnapshotCall /\ search' = search
    <3>1. pc = "ready" /\ pc' = "snapshot" /\ index' = index
      BY <2>2 DEF SnapshotCall, memory
    <3>2. View' = View
      BY <3>1, ViewSame
    <3> QED
      BY <2>2, <3>1, <3>2, PhaseKept DEF Settled
  <2>3. CASE UNCHANGED vars /\ search' = Compacted(search)
    <3>1. pc = "ready"
      BY <1>4 DEF Enter, Prompt
    <3> QED
      BY <2>3, <3>1, CallSearch
  <2> QED
    BY <1>4, <2>1, <2>2, <2>3, EnterSteps
<1>5. CASE AutoSnapshot \/ SnapshotBegin \/ SnapshotEnd
  <2>1. pc \in Settled /\ pc' \in Settled /\ index' = index /\ search' = search
    BY <1>5 DEF AutoSnapshot, SnapshotBegin, SnapshotEnd, SnapshotOpen, SnapshotLine, SnapshotRename,
                SnapshotTruncate, memory, Settled
  <2>2. View' = View
    BY <2>1, ViewSame
  <2> QED
    BY <2>1, <2>2, PhaseKept
<1>6. CASE Die
  BY <1>6, EmptyConsistent DEF Die, Kill, ProcessGone, MemoryGone, SearchOK, SearchPhase, Settled
<1>7. CASE UNCHANGED allVars
  <2>1. index' = index /\ search' = search /\ pc' = pc /\ op' = op
    BY <1>7 DEF allVars, vars, memory
  <2>2. View' = View
    BY <2>1, ViewSame
  <2> QED
    BY <2>1, <2>2, PhaseKept
<1> QED
  BY <1>1, <1>2, <1>3, <1>4, <1>5, <1>6, <1>7 DEF AllNext, ProgramStep

-----------------------------------------------------------------------------
(* The counts *)

(* No call is under way while the REPL's count is full. *)
BoundsInv ==
  /\ deleteOpsSinceLastCompaction \in 0 .. CompactionDeleteThreshold - 1
  /\ writeCount \in 0 .. SNAPSHOT_THRESHOLD
  /\ inherited \in 0 .. Len(wal)
  /\ op.type # "NONE" => writeCount < SNAPSHOT_THRESHOLD

LEMMA BoundsInit == AllInit => BoundsInv
<1> SUFFICES ASSUME AllInit
             PROVE  BoundsInv
  OBVIOUS
<1>1. Len(wal) = 0 /\ op.type = "NONE"
  BY DEF AllInit, Init, NoOp, NoRecord
<1> QED
  BY <1>1, ReplAssumption DEF AllInit, BoundsInv

LEMMA LogGrows ==
  ASSUME KVInv, [AllNext]_allVars
  PROVE  /\ Len(wal) \in Nat
         /\ \/ Len(wal') = Len(wal)
            \/ Len(wal') = Len(wal) + 1
            \/ SnapshotTruncate /\ Len(wal') = 0
<1>1. wal \in Seq(WalRecords) /\ Len(wal) \in Nat
  BY LenProperties DEF KVInv, FilesInv, OffsetsInv, Typed, TypeOK
<1>2. ASSUME NEW o, NEW text \in LogText, Call(o, text)
      PROVE  Len(wal') = Len(wal) + 1
  <2>1. Torn(WalRecord(text)) \in WalRecords
    BY DEF Torn, WalRecord, WalRecords
  <2> QED
    BY <1>1, <1>2, <2>1, AppendLog DEF Call
<1>3. CASE \E k \in Key : (\E v \in Value : Put(k, v)) \/ Del(k)
  BY <1>2, <1>3, CallTypes DEF Put, Del
<1>4. CASE WalComplete
  BY <1>1, <1>4, CompletedLog, WholeTypes DEF WalComplete
<1>5. CASE SnapshotTruncate
  <2>1. Len(wal') = 0
    BY <1>5 DEF SnapshotTruncate
  <2> QED
    BY <1>1, <1>5, <2>1
<1>6. CASE wal' = wal
  BY <1>1, <1>6
<1>7. \/ \E k \in Key : (\E v \in Value : Put(k, v)) \/ Del(k)
      \/ WalComplete \/ SnapshotTruncate \/ wal' = wal
  <2>1. CASE AutoSnapshot
    BY <2>1 DEF AutoSnapshot, files
  <2>2. CASE [Next]_vars
    BY <2>2 DEF Next, EngineStep, Start, ReplayPutBegin, ReplayPutEnd, ReplayDel, ReplayEnd, Rebuild,
                PutStoreBegin, PutApply, DelApply, SnapshotCall, SnapshotOpen, SnapshotLine,
                SnapshotRename, Kill, vars, files
  <2> QED
    BY <2>1, <2>2, StorageSteps
<1> QED
  BY <1>3, <1>4, <1>5, <1>6, <1>7

LEMMA BoundsStep ==
  ASSUME KVInv, BoundsInv, [AllNext]_allVars
  PROVE  BoundsInv'
<1> USE DEF BoundsInv
<1>0. NoOp.type = "NONE"
  BY DEF NoOp, NoRecord
<1>1. Len(wal) \in Nat /\ writeCount \in Nat /\ inherited \in Nat
  BY LogGrows, ReplAssumption
<1>2. inherited' \in 0 .. Len(wal')
  <2>1. CASE Open
    BY <1>1, <2>1 DEF Open, Start, files
  <2>2. CASE SnapshotEnd
    <3>1. inherited' = 0 /\ Len(wal') = 0
      BY <2>2 DEF SnapshotEnd, SnapshotTruncate
    <3> QED
      BY <3>1
  <2>3. CASE ~Open /\ ~SnapshotEnd
    <3>1. inherited' = inherited
      BY <2>3 DEF AllNext, ProgramStep, Replay, RebuildSearch, Enter, PutBegin, PutEnd, DelEnd,
                  AutoSnapshot, SnapshotBegin, Die, repl, allVars
    <3>2. ~SnapshotTruncate
      <4> SUFFICES ASSUME SnapshotTruncate
                   PROVE  FALSE
        OBVIOUS
      <4>1. pc = "renamed" /\ pc' = "ready"
        BY DEF SnapshotTruncate
      <4>2. ~UNCHANGED allVars /\ ~Die /\ ~Open /\ \A line \in Line : ~Enter(line)
        BY <4>1 DEF allVars, vars, Die, Kill, ProcessGone, Open, Start, Enter, Prompt
      <4>3. ~ProgramStep
        BY <2>3, <4>1
           DEF ProgramStep, Replay, ReplayPutBegin, ReplayPutEnd, ReplayDel, ReplayEnd, RebuildSearch,
               Rebuild, PutBegin, WalComplete, PutStoreBegin, PutEnd, PutApply, DelEnd, DelApply,
               AutoSnapshot, SnapshotBegin, SnapshotOpen, SnapshotLine, SnapshotRename
      <4> QED
        BY <4>2, <4>3 DEF AllNext
    <3> QED
      BY <1>1, <3>1, <3>2, LogGrows
  <2> QED
    BY <2>1, <2>2, <2>3
<1>3. deleteOpsSinceLastCompaction' \in 0 .. CompactionDeleteThreshold - 1
  <2>1. CASE DelEnd
    BY <2>1, ReplAssumption DEF DelEnd
  <2>2. CASE ~DelEnd
    <3>1. deleteOpsSinceLastCompaction' \in {0, deleteOpsSinceLastCompaction}
      BY <2>2 DEF AllNext, ProgramStep, Open, Replay, RebuildSearch, MemoryGone, Enter, PutBegin,
                  PutEnd, AutoSnapshot, SnapshotBegin, SnapshotEnd, Die, allVars
    <3> QED
      BY <3>1, ReplAssumption
  <2> QED
    BY <2>1, <2>2
<1> DEFINE Fits == /\ writeCount' \in 0 .. SNAPSHOT_THRESHOLD
                   /\ op'.type # "NONE" => writeCount' < SNAPSHOT_THRESHOLD
<1> SUFFICES Fits
  BY <1>2, <1>3
<1>4. CASE writeCount' = writeCount /\ op' = op
  BY <1>4
<1>5. CASE writeCount' = 0
  BY <1>5, ReplAssumption
<1>6. ASSUME NEW line \in Line, Enter(line)
      PROVE  Fits
  BY <1>1, <1>6 DEF Enter, Prompt, repl
<1>7. CASE PutEnd
  <2>1. op.type # "NONE"
    BY <1>7 DEF PutEnd, PutApply, KVInv, FilesInv, OffsetsInv, PendingValue, LastValueIs
  <2>2. CASE pc' = "ready"
    <3>1. writeCount' = writeCount + 1 /\ op' = NoOp
      BY <1>7, <2>2 DEF PutEnd, PutApply
    <3> QED
      BY <1>0, <1>1, <2>1, <3>1, ReplAssumption
  <2>3. CASE pc' # "ready"
    <3>1. writeCount' = writeCount + 0 /\ op' = op
      BY <1>7, <2>3 DEF PutEnd, PutApply
    <3> QED
      BY <1>1, <3>1
  <2> QED
    BY <2>2, <2>3
<1>8. CASE DelEnd
  <2>1. op.type # "NONE" /\ op' = NoOp
    BY <1>8 DEF DelEnd, DelApply
  <2>2. writeCount' \in {writeCount, writeCount + 1}
    BY <1>8 DEF DelEnd
  <2> QED
    BY <1>0, <1>1, <2>1, <2>2, ReplAssumption
<1>9. CASE SnapshotEnd
  <2>1. op' = NoOp /\ (op.type = "PUT" => writeCount' = writeCount + 1)
        /\ (op.type # "PUT" => writeCount' = 0)
    BY <1>9 DEF SnapshotEnd, SnapshotTruncate
  <2> QED
    BY <1>0, <1>1, <2>1, ReplAssumption
<1> QED
  <2>1. CASE Open \/ Replay \/ PutBegin \/ AutoSnapshot \/ SnapshotBegin \/ UNCHANGED allVars
    <3>1. writeCount' = writeCount /\ op' = op
      BY <2>1 DEF Open, Start, Replay, ReplayPutBegin, ReplayPutEnd, ReplayDel, ReplayEnd, PutBegin,
                  WalComplete, PutStoreBegin, AutoSnapshot, SnapshotBegin, SnapshotOpen, SnapshotLine,
                  SnapshotRename, memory, vars, repl, allVars
    <3> QED
      BY <1>4, <3>1
  <2>2. CASE RebuildSearch \/ Die
    <3>1. writeCount' = 0 \/ (writeCount' = writeCount /\ op' = op)
      BY <2>2 DEF RebuildSearch, Rebuild, MemoryGone, Die, ProcessGone, memory
    <3> QED
      BY <1>4, <1>5, <3>1
  <2> QED
    BY <1>6, <1>7, <1>8, <1>9, <2>1, <2>2 DEF AllNext, ProgramStep

-----------------------------------------------------------------------------
(* The records that the REPL's count covers *)

(* The records of this process that do something. *)
Counting == {i \in inherited + 1 .. Len(wal) : Effective(i)}

(* All that is in the log when a process has just been started is inherited. *)
InheritedInv == pc \in {"replay", "replayPut", "rebuild"} => inherited = Len(wal)

(* The last record is that of the call, and the others give what get() answers. *)
LoggedInv ==
  pc = "logged" =>
    /\ Len(wal) \in 1 .. Len(wal)
    /\ Parsed[wal[Len(wal)].text] = op
    /\ ~LogTorn =>
         AfterReplay(wal, Len(wal) - 1, op.key, Stored(snapshot, op.key)) = View[op.key]

(* The record of the call under way is counted when the call is back. *)
CountedInv ==
  ~LogTorn =>
    /\ pc = "ready" => Cardinality(Counting) <= writeCount
    /\ pc \in InCall => Cardinality(Counting \ {Len(wal)}) <= writeCount

CountInv == InheritedInv /\ LoggedInv /\ CountedInv

LEMMA CountingIsFinite ==
  ASSUME inherited \in Nat, Len(wal) \in Nat
  PROVE  IsFiniteSet(Counting)
<1>1. IsFiniteSet(inherited + 1 .. Len(wal))
  BY FS_Interval
<1>2. Counting \subseteq inherited + 1 .. Len(wal)
  BY DEF Counting
<1> QED
  BY <1>1, <1>2, FS_Subset

(* What a record does depends on the texts before it, and on the snapshot. *)
LEMMA EffectiveKept ==
  ASSUME KVInv, [Next]_vars, snapshot' = snapshot, SameTexts(wal', wal, Len(wal)),
         NEW i \in 1 .. Len(wal)
  PROVE  Effective(i)' <=> Effective(i)
<1>1. wal \in Seq(WalRecords) /\ OffsetsInv
  BY DEF KVInv, FilesInv, OffsetsInv, Typed, TypeOK
<1>2. Len(wal) \in Nat
  BY <1>1, LenProperties
<1>3. wal'[i].text = wal[i].text /\ SameTexts(wal', wal, i - 1) /\ i - 1 \in Nat
  BY <1>2 DEF SameTexts
<1>4. PICK k \in Key : k = Parsed[wal[i].text].key
  <2>1. wal[i] \in WalRecords
    BY <1>1, ElementOfSeq
  <2> QED
    BY <2>1, ReplayAssumption DEF WalRecords
<1>5. Stored(snapshot, k)' = Stored(snapshot, k)
  BY <1>1, <1>4, MeaningKept DEF KVInv
<1>6. \A base : AfterReplay(wal', i - 1, k, base) = AfterReplay(wal, i - 1, k, base)
  BY <1>3, ReplaySame
<1> QED
  BY <1>3, <1>4, <1>5, <1>6 DEF Effective, Stored

(* So the records that are there go on to count or not. *)
LEMMA CountingKept ==
  ASSUME KVInv, [Next]_vars, snapshot' = snapshot, SameTexts(wal', wal, Len(wal)),
         Len(wal') \in {Len(wal), Len(wal) + 1}, inherited' = inherited, inherited \in Nat
  PROVE  /\ Len(wal') = Len(wal) => Counting' = Counting
         /\ Len(wal') = Len(wal) + 1 => Counting' \ {Len(wal')} = Counting
<1>1. Len(wal) \in Nat
  BY LenProperties DEF KVInv, FilesInv, OffsetsInv, Typed, TypeOK
<1>2. \A i \in 1 .. Len(wal) : Effective(i)' <=> Effective(i)
  BY EffectiveKept
<1>3. Counting \subseteq 1 .. Len(wal)
  BY <1>1 DEF Counting
<1>4. ASSUME NEW i \in 1 .. Len(wal)
      PROVE  i \in Counting' <=> i \in Counting
  <2>1. i \in inherited' + 1 .. Len(wal') <=> i \in inherited + 1 .. Len(wal)
    BY <1>1
  <2> QED
    BY <1>2, <2>1 DEF Counting
<1>5. Counting' \subseteq 1 .. Len(wal') /\ Counting' \subseteq Int
  BY <1>1 DEF Counting
<1>6. CASE Len(wal') = Len(wal)
  <2>1. Len(wal') # Len(wal) + 1
    BY <1>1, <1>6
  <2>2. Counting' \subseteq 1 .. Len(wal)
    BY <1>5, <1>6
  <2>3. Counting' = Counting
    BY <1>3, <1>4, <2>2
  <2> QED
    BY <2>1, <2>3
<1>7. CASE Len(wal') = Len(wal) + 1
  <2>1. \A i \in 1 .. Len(wal') : i # Len(wal') <=> i \in 1 .. Len(wal)
    BY <1>1, <1>7
  <2>2. Len(wal') \notin 1 .. Len(wal) /\ 1 .. Len(wal) \subseteq 1 .. Len(wal')
    BY <1>1, <1>7
  <2>3. Counting' \ {Len(wal')} \subseteq Counting
    BY <1>4, <1>5, <2>1
  <2>4. Counting \subseteq Counting' \ {Len(wal')}
    BY <1>3, <1>4, <2>2
  <2>5. Len(wal') # Len(wal)
    BY <1>1, <1>7
  <2> QED
    BY <2>3, <2>4, <2>5
<1>8. Len(wal') = Len(wal) \/ Len(wal') = Len(wal) + 1
  OBVIOUS
<1> QED
  BY <1>6, <1>7, <1>8

(* Before the record of a call is complete, the log says what get() answers. *)
LEMMA LoggedOver ==
  ASSUME KVInv, pc = "walTorn", ~LogTorn, NEW k \in Key
  PROVE  AfterReplay(wal, Len(wal) - 1, k, Stored(snapshot, k)) = View[k]
<1> DEFINE m == Len(wal) - 1
<1>1. /\ wal \in Seq(WalRecords) /\ Len(wal) \in Nat
      /\ Len(wal) \in 1 .. Len(wal) /\ ~wal[Len(wal)].whole
  BY LenProperties DEF KVInv, FilesInv, OffsetsInv, Typed, TypeOK, PendingRecord
<1>2. m \in Nat /\ m + 1 = Len(wal)
  BY <1>1
<1> HIDE DEF m
<1>3. \A i \in 1 .. m : wal[i].whole
  BY <1>1, <1>2 DEF LogTorn
<1>4. StopsAfter(wal, m)
  BY <1>1, <1>2, <1>3 DEF StopsAfter
<1>5. ReplayLen(wal) = m
  BY <1>1, <1>4, ReplayStopsOnce
<1>6. Durable = View
  BY DEF KVInv, FilesInv, FilesMatchIndex
<1>7. Durable[k] = AfterReplay(wal, m, k, Stored(snapshot, k))
  BY <1>5 DEF Durable
<1> QED
  BY <1>6, <1>7 DEF m

LEMMA LogCompleted ==
  ASSUME KVInv, WalComplete
  PROVE  /\ wal' \in Seq(WalRecords)
         /\ Len(wal') = Len(wal)
         /\ SameTexts(wal', wal, Len(wal))
         /\ LogTorn' => LogTorn
         /\ LogTorn => LogTorn'
<1>1. wal \in Seq(WalRecords) /\ Len(wal) \in Nat
  BY LenProperties DEF KVInv, FilesInv, OffsetsInv, Typed, TypeOK
<1>2. pc = "walTorn" /\ pc' = "logged" /\ wal' = Completed(wal)
  BY DEF WalComplete
<1>3. /\ wal' \in Seq(WalRecords)
      /\ Len(wal') = Len(wal)
      /\ \A i \in 1 .. Len(wal) : wal'[i] = IF i = Len(wal) THEN Whole(wal[i]) ELSE wal[i]
  BY <1>1, <1>2, CompletedLog, WholeTypes
<1>4. \A r \in WalRecords : Whole(r).text = r.text /\ Whole(r).whole
  BY DEF WalRecords, Whole
<1>5. \A i \in 1 .. Len(wal) : wal[i] \in WalRecords
  BY <1>1, ElementOfSeq
<1>6. SameTexts(wal', wal, Len(wal))
  BY <1>3, <1>4, <1>5 DEF SameTexts
<1>7. \A i \in 1 .. Len(wal) : wal'[i].whole <=> (i = Len(wal) \/ wal[i].whole)
  BY <1>3, <1>4, <1>5
<1>8. LogTorn <=> \E i \in 1 .. Len(wal) : ~wal[i].whole /\ i < Len(wal)
  BY <1>1, <1>2 DEF LogTorn
<1>9. LogTorn' <=> \E i \in 1 .. Len(wal) : ~wal'[i].whole
  BY <1>2, <1>3 DEF LogTorn
<1>10. \A i \in 1 .. Len(wal) : i # Len(wal) <=> i < Len(wal)
  BY <1>1
<1> QED
  BY <1>3, <1>6, <1>7, <1>8, <1>9, <1>10

LEMMA CountInit == AllInit => CountInv
BY DEF AllInit, Init, CountInv, InheritedInv, LoggedInv, CountedInv, InCall

(* One record more counts for one at most. *)
LEMMA OneLess ==
  ASSUME NEW S, IsFiniteSet(S), NEW x, NEW n \in Nat, Cardinality(S \ {x}) <= n
  PROVE  Cardinality(S) <= n + 1
<1>1. Cardinality(S) \in Nat
  BY FS_CardinalityType
<1>2. Cardinality(S \ {x}) = IF x \in S THEN Cardinality(S) - 1 ELSE Cardinality(S)
  BY FS_RemoveElement
<1> QED
  BY <1>1, <1>2

(* A step to a place where no count is claimed. *)
LEMMA Unclaimed ==
  ASSUME pc' \in {"down", "snapshot", "writing", "renamed"}
  PROVE  CountInv'
BY DEF CountInv, InheritedInv, LoggedInv, CountedInv, InCall

(* A start, a replay and a rebuild: nothing counts. *)
LEMMA CountRecovered ==
  ASSUME KVInv, BoundsInv, CountInv, Open \/ Replay \/ RebuildSearch
  PROVE  CountInv'
<1>0. Len(wal) \in Nat /\ writeCount \in Nat
  BY LenProperties, ReplAssumption DEF KVInv, FilesInv, OffsetsInv, Typed, TypeOK, BoundsInv
<1>1. CASE Open
  <2>1. pc' = "replay" /\ wal' = wal /\ inherited' = Len(wal)
    BY <1>1 DEF Open, Start, files
  <2> QED
    BY <2>1 DEF CountInv, InheritedInv, LoggedInv, CountedInv, InCall
<1>2. CASE Replay
  <2>1. pc \in {"replay", "replayPut"} /\ wal' = wal /\ inherited' = inherited
    BY <1>2 DEF Replay, ReplayPutBegin, ReplayPutEnd, ReplayDel, ReplayEnd, repl, files
  <2>2. pc' \in {"replay", "replayPut", "rebuild"}
    BY <1>2 DEF Replay, ReplayPutBegin, ReplayPutEnd, ReplayDel, ReplayEnd
  <2> QED
    BY <2>1, <2>2 DEF CountInv, InheritedInv, LoggedInv, CountedInv, InCall
<1>3. CASE RebuildSearch /\ pc' = "down"
  BY <1>3, Unclaimed
<1>4. CASE RebuildSearch /\ pc' # "down"
  <2>1. pc = "rebuild" /\ pc' = "ready" /\ wal' = wal
    BY <1>4 DEF RebuildSearch, Rebuild, ProcessGone, files
  <2>2. inherited' = inherited /\ writeCount' = writeCount
    BY <1>4 DEF RebuildSearch
  <2>3. inherited = Len(wal)
    BY <2>1 DEF CountInv, InheritedInv
  <2>4. Counting' = {}
    <3>1. inherited' + 1 .. Len(wal') = {}
      BY <1>0, <2>1, <2>2, <2>3
    <3> QED
      BY <3>1 DEF Counting
  <2>5. Cardinality(Counting') = 0
    BY <2>4, FS_EmptySet
  <2> QED
    BY <1>0, <2>1, <2>2, <2>5 DEF CountInv, InheritedInv, LoggedInv, CountedInv, InCall
<1> QED
  BY <1>1, <1>2, <1>3, <1>4

(* A call appends its record, and completes it. *)
LEMMA CountCalled ==
  ASSUME KVInv, BoundsInv, CountInv, [Next]_vars, NEW o, NEW text \in LogText, Call(o, text),
         writeCount' = writeCount, inherited' = inherited
  PROVE  CountInv'
<1>1. wal \in Seq(WalRecords) /\ Len(wal) \in Nat /\ inherited \in Nat
  BY LenProperties DEF KVInv, FilesInv, OffsetsInv, Typed, TypeOK, BoundsInv
<1>2. pc = "ready" /\ pc' = "walTorn" /\ snapshot' = snapshot
  BY DEF Call
<1>3. /\ Len(wal') = Len(wal) + 1
      /\ \A i \in 1 .. Len(wal) : wal'[i] = wal[i]
  <2>1. Torn(WalRecord(text)) \in WalRecords
    BY DEF Torn, WalRecord, WalRecords
  <2>2. wal' = Append(wal, Torn(WalRecord(text)))
    BY DEF Call
  <2> QED
    BY <1>1, <2>1, <2>2, AppendLog
<1>4. Counting' \ {Len(wal')} = Counting
  <2>1. SameTexts(wal', wal, Len(wal))
    BY <1>3 DEF SameTexts
  <2> QED
    BY <1>1, <1>2, <1>3, <2>1, CountingKept
<1>5. LogTorn => LogTorn'
  BY <1>1, <1>2, <1>3 DEF LogTorn
<1>6. ~LogTorn => Cardinality(Counting) <= writeCount
  BY <1>2 DEF CountInv, CountedInv
<1> QED
  BY <1>2, <1>4, <1>5, <1>6 DEF CountInv, InheritedInv, LoggedInv, CountedInv

LEMMA CountLogged ==
  ASSUME KVInv, BoundsInv, CountInv, [Next]_vars, WalComplete,
         writeCount' = writeCount, inherited' = inherited
  PROVE  CountInv'
<1>1. inherited \in Nat /\ Len(wal) \in 1 .. Len(wal) /\ Parsed[wal[Len(wal)].text] = op
  BY DEF KVInv, FilesInv, PendingRecord, WalComplete, BoundsInv
<1>2. /\ pc = "walTorn" /\ pc' = "logged"
      /\ snapshot' = snapshot /\ op' = op /\ index' = index
  BY DEF WalComplete, memory
<1>3. /\ wal' \in Seq(WalRecords)
      /\ Len(wal') = Len(wal)
      /\ SameTexts(wal', wal, Len(wal))
      /\ LogTorn' => LogTorn
      /\ LogTorn => LogTorn'
  BY LogCompleted
<1>4. Counting' = Counting
  BY <1>1, <1>2, <1>3, CountingKept
<1>5. CountedInv'
  BY <1>2, <1>3, <1>4 DEF CountInv, CountedInv, InCall
<1>6. wal'[Len(wal)].text = wal[Len(wal)].text
  BY <1>1, <1>3 DEF SameTexts
<1>7. ASSUME ~LogTorn'
      PROVE  (AfterReplay(wal, Len(wal) - 1, op.key, Stored(snapshot, op.key)) = View[op.key])'
  <2>1. PICK k \in Key : k = op.key
    BY <1>2 DEF KVInv, FilesInv, OffsetsInv, Typed, CallOK, InCall, Ops
  <2>2. AfterReplay(wal, Len(wal) - 1, k, Stored(snapshot, k)) = View[k]
    BY <1>2, <1>3, <1>7, LoggedOver
  <2>3. Stored(snapshot, k)' = Stored(snapshot, k) /\ View' = View
    BY <1>2, MeaningKept DEF KVInv, FilesInv
  <2>4. SameTexts(wal', wal, Len(wal) - 1) /\ Len(wal) - 1 \in Nat
    BY <1>1, <1>3 DEF SameTexts
  <2>5. \A base : AfterReplay(wal', Len(wal) - 1, k, base) = AfterReplay(wal, Len(wal) - 1, k, base)
    BY <2>4, ReplaySame
  <2> QED
    BY <1>2, <1>3, <2>1, <2>2, <2>3, <2>5 DEF Stored
<1>8. LoggedInv'
  BY <1>1, <1>2, <1>3, <1>6, <1>7 DEF LoggedInv
<1> QED
  BY <1>2, <1>5, <1>8 DEF CountInv, InheritedInv

(* put() and del() come to their end. *)
LEMMA CountReturned ==
  ASSUME KVInv, BoundsInv, CountInv, [Next]_vars, (PutBegin /\ ~WalComplete) \/ PutEnd \/ DelEnd
  PROVE  CountInv'
<1>1. /\ wal' = wal /\ snapshot' = snapshot /\ inherited' = inherited
      /\ pc \in InCall /\ pc # "walTorn" /\ pc' # "walTorn"
  BY DEF PutBegin, PutEnd, DelEnd, PutStoreBegin, PutApply, DelApply, files, repl, InCall
<1>2. wal \in Seq(WalRecords) /\ Len(wal) \in Nat /\ inherited \in Nat /\ writeCount \in Nat
  BY LenProperties, ReplAssumption DEF KVInv, FilesInv, OffsetsInv, Typed, TypeOK, BoundsInv
<1>3. Counting' = Counting
  <2>1. SameTexts(wal', wal, Len(wal))
    BY <1>1 DEF SameTexts
  <2> QED
    BY <1>1, <1>2, <2>1, CountingKept
<1>4. LogTorn' = LogTorn
  BY <1>1, TornKept
<1>5. ~LogTorn => Cardinality(Counting \ {Len(wal)}) <= writeCount
  BY <1>1 DEF CountInv, CountedInv
<1>6. ~LogTorn => Cardinality(Counting) <= writeCount + 1
  BY <1>2, <1>5, CountingIsFinite, OneLess
<1>7. CASE PutBegin /\ ~WalComplete
  <2>1. pc' = "vlogTorn" /\ writeCount' = writeCount
    BY <1>7 DEF PutBegin, PutStoreBegin, repl
  <2> QED
    BY <1>1, <1>3, <1>4, <1>5, <2>1 DEF CountInv, InheritedInv, LoggedInv, CountedInv
<1>8. CASE PutEnd
  <2>1. CASE pc' = "ready"
    <3>1. writeCount' = writeCount + 1
      BY <1>8, <2>1 DEF PutEnd
    <3> QED
      BY <1>3, <1>4, <1>6, <2>1, <3>1 DEF CountInv, InheritedInv, LoggedInv, CountedInv, InCall
  <2>2. CASE pc' # "ready"
    <3>1. pc' = "snapshot"
      BY <1>8, <2>2 DEF PutEnd, PutApply
    <3> QED
      BY <3>1, Unclaimed
  <2> QED
    BY <2>1, <2>2
<1>9. CASE DelEnd
  <2>1. pc = "logged" /\ pc' = "ready" /\ op.type = "DEL"
    BY <1>9 DEF DelEnd, DelApply
  <2>2. CASE View[op.key] # {}
    <3>1. writeCount' = writeCount + 1
      BY <1>9, <2>2 DEF DelEnd
    <3> QED
      BY <1>3, <1>4, <1>6, <2>1, <3>1 DEF CountInv, InheritedInv, LoggedInv, CountedInv, InCall
  <2>3. CASE View[op.key] = {}
    <3>1. writeCount' = writeCount
      BY <1>9, <2>3 DEF DelEnd
    <3>2. ASSUME ~LogTorn
          PROVE  Counting \ {Len(wal)} = Counting
      <4>1. /\ Parsed[wal[Len(wal)].text] = op
            /\ AfterReplay(wal, Len(wal) - 1, op.key, Stored(snapshot, op.key)) = {}
        BY <2>1, <2>3, <3>2 DEF CountInv, LoggedInv
      <4>2. ~Effective(Len(wal))
        BY <2>1, <4>1 DEF Effective
      <4> QED
        BY <4>2 DEF Counting
    <3> QED
      BY <1>3, <1>4, <1>5, <2>1, <3>1, <3>2
         DEF CountInv, InheritedInv, LoggedInv, CountedInv, InCall
  <2> QED
    BY <2>2, <2>3
<1> QED
  BY <1>7, <1>8, <1>9

LEMMA CountStep ==
  ASSUME KVInv, BoundsInv, CountInv, [AllNext]_allVars
  PROVE  CountInv'
<1>1. CASE Open \/ Replay \/ RebuildSearch
  BY <1>1, CountRecovered
<1>2. ASSUME PutBegin \/ PutEnd \/ DelEnd
      PROVE  CountInv'
  <2>1. [Next]_vars
    BY <1>2 DEF PutBegin, PutEnd, DelEnd, Next, EngineStep
  <2>2. CASE WalComplete
    <3>1. writeCount' = writeCount /\ inherited' = inherited
      BY <1>2, <2>2 DEF PutBegin, PutEnd, DelEnd, WalComplete, PutApply, DelApply, repl
    <3> QED
      BY <2>1, <2>2, <3>1, CountLogged
  <2>3. CASE ~WalComplete
    BY <1>2, <2>1, <2>3, CountReturned
  <2> QED
    BY <2>2, <2>3
<1>3. ASSUME UNCHANGED vars, writeCount' = writeCount, inherited' = inherited
      PROVE  CountInv'
  <2>1. wal' = wal /\ vlog' = vlog /\ snapshot' = snapshot /\ index' = index /\ pc' = pc /\ op' = op
    BY <1>3 DEF vars, files, memory
  <2>2. LogTorn' = LogTorn /\ Counting' = Counting /\ View' = View
    BY <1>3, <2>1 DEF LogTorn, Counting, Effective, Stored, View
  <2> QED
    BY <1>3, <2>1, <2>2 DEF CountInv, InheritedInv, LoggedInv, CountedInv, Stored
<1>4. ASSUME NEW line \in Line, Enter(line)
      PROVE  CountInv'
  <2>1. writeCount' = writeCount /\ inherited' = inherited
    BY <1>4 DEF Enter, repl
  <2>2. CASE \E k \in Key : (\E v \in Value : Put(k, v)) \/ Del(k)
    <3>1. [Next]_vars
      BY <2>2 DEF Next
    <3> QED
      BY <2>1, <2>2, <3>1, CallTypes, CountCalled DEF Put, Del
  <2>3. CASE SnapshotCall
    BY <2>3, Unclaimed DEF SnapshotCall
  <2>4. CASE UNCHANGED vars
    BY <1>3, <2>1, <2>4
  <2> QED
    BY <1>4, <2>2, <2>3, <2>4, EnterSteps
<1>5. CASE AutoSnapshot \/ SnapshotBegin \/ Die
  <2>1. pc' \in {"down", "snapshot", "writing", "renamed"}
    BY <1>5 DEF AutoSnapshot, SnapshotBegin, SnapshotOpen, SnapshotLine, SnapshotRename, Die, Kill,
                ProcessGone
  <2> QED
    BY <2>1, Unclaimed
<1>6. CASE SnapshotEnd
  <2>1. /\ wal' = <<>> /\ inherited' = 0 /\ pc' = "ready"
        /\ writeCount' = IF op.type = "PUT" THEN writeCount + 1 ELSE 0
    BY <1>6 DEF SnapshotEnd, SnapshotTruncate
  <2>2. Counting' = {}
    <3>1. inherited' + 1 .. Len(wal') = {}
      BY <2>1
    <3> QED
      BY <3>1 DEF Counting
  <2>3. Cardinality(Counting') = 0 /\ writeCount \in Nat
    BY <2>2, FS_EmptySet, ReplAssumption DEF BoundsInv
  <2> QED
    BY <2>1, <2>3 DEF CountInv, InheritedInv, LoggedInv, CountedInv, InCall
<1>7. CASE UNCHANGED allVars
  BY <1>3, <1>7 DEF allVars, repl
<1> QED
  BY <1>1, <1>2, <1>4, <1>5, <1>6, <1>7 DEF AllNext, ProgramStep

-----------------------------------------------------------------------------
(* The theorems *)

(***************************************************************************)
(* The inductive invariant: the files and the key index agree, every map   *)
(* has finitely many keys, the search structures are as far as the process *)
(* is with them, and the counters cover what they should.                  *)
(***************************************************************************)
AllInv == KVInv /\ FiniteInv /\ SearchOK /\ BoundsInv /\ CountInv

LEMMA AllInvInit == AllInit => AllInv
BY StorageInit, FiniteInit, SearchOKInit, BoundsInit, CountInit DEF AllInv

LEMMA AllInvStep ==
  ASSUME RoundTrip
  PROVE  AllInv /\ [AllNext]_allVars => AllInv'
BY StorageKept, FiniteStep, SearchOKStep, BoundsStep, CountStep DEF AllInv

LEMMA AlwaysAllInv ==
  ASSUME \A k \in Key : Plain(k)
  PROVE  AllSpec => []AllInv
<1>1. RoundTrip
  BY PlainRoundTrip
<1>2. AllInv /\ [AllNext]_allVars => AllInv'
  BY <1>1, AllInvStep
<1> QED
  BY <1>2, AllInvInit, PTL DEF AllSpec

(* What QUERY can find is what get() answers, when the entries match it. *)
LEMMA FindableIs ==
  ASSUME KVInv, Consistent(search), Matches(search, View)
  PROVE  Findable = View
<1> DEFINE l == Len(search.entries)
<1>1. search \in Searches /\ search.entries \in Seq(Entry)
  BY DEF Consistent, Searches
<1>2. Range(search.entries) = {search.entries[i] : i \in 1 .. l}
  BY <1>1, LenProperties DEF Range
<1>3. ASSUME NEW k \in Key
      PROVE  Findable[k] = View[k]
  <2> DEFINE F == {f \in Range(search.entries) : f.key = k /\ ~f.isDeleted}
             V == {e.value : e \in F}
  <2>1. V = {search.entries[i].value : i \in InUse(search, l, k)}
    <3>1. \A x : x \in V => \E i \in InUse(search, l, k) : x = search.entries[i].value
      BY <1>2, Zenon DEF InUse
    <3>2. \A i \in InUse(search, l, k) : search.entries[i].value \in V
      BY <1>2, Zenon DEF InUse
    <3> HIDE DEF V
    <3> QED
      BY <3>1, <3>2
  <2>2. UpTo(search, l)[k] = {search.entries[i].value : i \in InUse(search, l, k)}
    BY DEF UpTo
  <2>3. UpTo(search, l)[k] = View[k]
    BY <1>1, UpToIs
  <2> QED
    BY <2>1, <2>2, <2>3 DEF Findable
<1> HIDE DEF l
<1> QED
  BY <1>3 DEF Findable, View

(* The type invariant of the whole program. *)
THEOREM AllTypeCorrect ==
  ASSUME \A k \in Key : Plain(k)
  PROVE  AllSpec => []AllTypeOK
<1>1. AllInv => AllTypeOK
  BY DEF AllInv, KVInv, FilesInv, OffsetsInv, Typed, SearchOK, Consistent, BoundsInv, AllTypeOK
<1> QED
  BY <1>1, AlwaysAllInv, PTL

(***************************************************************************)
(* At the prompt QUERY and GET go by the same contents, and so they will   *)
(* after a restart, as long as no torn record is in the log                *)
(* (cognex.cpp:82-111, 210-283, repl.cpp:21-45).                           *)
(***************************************************************************)
THEOREM SearchAlwaysSurvives ==
  ASSUME \A k \in Key : Plain(k)
  PROVE  AllSpec => []SearchSurvives
<1>1. AllInv => SearchSurvives
  <2> SUFFICES ASSUME AllInv, pc = "ready"
               PROVE  /\ FindsStored(search, View) /\ PostingsMatch(search) /\ Findable = View
                      /\ ~LogTorn => Findable = Durable
    BY DEF SearchSurvives
  <2>1. KVInv /\ Consistent(search) /\ Matches(search, View)
    BY DEF AllInv, SearchOK, SearchPhase, Settled
  <2>2. FindsStored(search, View) /\ PostingsMatch(search)
    BY <2>1, MatchesFinds, ConsistentPostings DEF Consistent
  <2>3. Findable = View
    BY <2>1, FindableIs
  <2>4. ~LogTorn => Durable = View
    BY <2>1 DEF KVInv, FilesInv, FilesMatchIndex
  <2> QED
    BY <2>2, <2>3, <2>4
<1> QED
  BY <1>1, AlwaysAllInv, PTL

(***************************************************************************)
(* write_count covers every record that this process added to the log and  *)
(* that does something (repl.cpp:23-43, cognex.cpp:261-263).               *)
(***************************************************************************)
THEOREM LogIsAlwaysCounted ==
  ASSUME \A k \in Key : Plain(k)
  PROVE  AllSpec => []LogIsCounted
<1>1. AllInv => LogIsCounted
  BY DEF AllInv, CountInv, CountedInv, Counting, LogIsCounted
<1> QED
  BY <1>1, AlwaysAllInv, PTL

(***************************************************************************)
(* What holds of the files under an arbitrary caller holds of them under   *)
(* the REPL, with the snapshots it takes of its own (repl.cpp:38-43).      *)
(***************************************************************************)
THEOREM FilesAlwaysHold ==
  ASSUME \A k \in Key : Plain(k)
  PROVE  AllSpec => [](OffsetsResolve /\ FilesMatchIndex)
<1>1. AllInv => OffsetsResolve /\ FilesMatchIndex
  BY DEF AllInv, KVInv, FilesInv, OffsetsInv
<1> QED
  BY <1>1, AlwaysAllInv, PTL

(***************************************************************************)
(* The whole program keeps the promise of CognexKV: nothing that the REPL  *)
(* or the search side adds gets between a call and its effect              *)
(* (cognex.cpp:82-111, 210-283, repl.cpp:21-45).                           *)
(***************************************************************************)
THEOREM ProgramKeepsThePromise ==
  ASSUME \A k \in Key : Plain(k)
  PROVE  AllSpec => RefinesKV
<1>1. RoundTrip
  BY PlainRoundTrip
<1>2. AllInit => KV!Init
  BY InitRefines DEF AllInit
<1>3. AllInv => KVInv /\ DurableTyped
  BY <1>1, DurableIsTyped DEF AllInv
<1>4. ASSUME KVInv, KVInv', DurableTyped', AutoSnapshot
      PROVE  [KV!Next]_KV!vars
  <2>1. /\ pc = "ready" /\ pc' = "snapshot"
        /\ wal' = wal /\ vlog' = vlog /\ snapshot' = snapshot /\ index' = index /\ op' = op
    BY <1>4 DEF AutoSnapshot, files, memory
  <2>2. View' = View /\ Durable' = Durable /\ LogTorn' = LogTorn
    BY <2>1 DEF View, Durable, Stored, LogTorn
  <2>3. Stutter
    BY <2>1, <2>2 DEF Stutter, kvBar, callBar, Recovering
  <2> QED
    BY <2>3, StutterMeans
<1>5. KVInv /\ KVInv' /\ DurableTyped' /\ [AllNext]_allVars => [KV!Next]_KV!vars
  BY <1>4, StorageSteps, NextRefines
<1> QED
  BY <1>2, <1>3, <1>5, AlwaysAllInv, PTL DEF AllSpec, RefinesKV, KV!Spec
=============================================================================
