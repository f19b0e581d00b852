------------------------------- MODULE Cognex -------------------------------
(***************************************************************************)
(* The whole program: the REPL reads lines and calls the engine, which     *)
(* keeps its files (CognexStorage) and its search structures (CognexIndex).*)
(*                                                                         *)
(* Each step of the storage side takes the search side along. All that is  *)
(* in memory goes with a kill; an exception is caught nowhere and ends the *)
(* process. A line that is refused, GET, HELP and an unknown command       *)
(* change nothing; QUERY answers as in CognexSearch; EXIT is a kill.       *)
(*                                                                         *)
(* Two counters decide when a snapshot is taken: the engine's own          *)
(* (snapshotWriteOps) and the REPL's write_count, which know nothing of    *)
(* each other.                                                             *)
(***************************************************************************)
EXTENDS CognexStorage, CognexIndex

CONSTANTS
  Line,                        \* the lines that are typed
  SizeModulus,                 \* 2^64: the numbers of CognexCommands wrap here
  CompactionDeleteThreshold,   \* compactionDeleteThreshold_
  SNAPSHOT_THRESHOLD           \* in run_repl()

ASSUME ReplAssumption ==
  /\ Line \subseteq Text
  /\ CompactionDeleteThreshold \in Nat \ {0}
  /\ SNAPSHOT_THRESHOLD \in Nat \ {0}

VARIABLES
  search,                         \* entries_, postings_, keyToEntry_, totalTokens_
  deleteOpsSinceLastCompaction,   \* deleteOpsSinceLastCompaction_
  writeCount,                     \* write_count in run_repl()
  inherited                       \* observed: the records an earlier process left in the log

repl    == <<writeCount, inherited>>
allVars == <<vars, search, deleteOpsSinceLastCompaction, repl>>

Cli == INSTANCE CognexCommands

(* Key and Value hold what the lines put and delete. *)
ASSUME LineAssumption ==
  \A line \in Line :
    LET command == Cli!ParseLine(line)
    IN  /\ command.name = <<"PUT">> /\ Len(command.args) = 2 =>
             command.args[1] \in Key /\ command.args[2] \in Value
        /\ command.name = <<"DEL">> /\ Len(command.args) = 1 => command.args[1] \in Key

AllInit ==
  /\ Init
  /\ search = EmptySearch
  /\ deleteOpsSinceLastCompaction = 0
  /\ writeCount = 0
  /\ inherited = 0

MemoryGone ==
  /\ search' = EmptySearch
  /\ deleteOpsSinceLastCompaction' = 0
  /\ writeCount' = 0

-----------------------------------------------------------------------------
(* recover() *)

Open ==
  /\ Start
  /\ inherited' = Len(wal)
  /\ UNCHANGED <<search, deleteOpsSinceLastCompaction, writeCount>>

Replay ==
  /\ \/ ReplayPutBegin /\ UNCHANGED search
     \/ ReplayPutEnd /\ search' = Inserted(search, Replayed.key, Replayed.value)
     \/ ReplayDel /\ search' = Forgotten(search, Replayed.key)
     \/ ReplayEnd /\ search' = Dropped(search)
  /\ UNCHANGED <<deleteOpsSinceLastCompaction, repl>>

(* The search side when the values of the first n keys have been entered. *)
Reentering(order) ==
  LET built[n \in 0 .. Len(order)] ==
        IF n = 0 THEN search
        ELSE Inserted(built[n - 1], order[n], vlog[index[order[n]]].value)
  IN  built

(* The values are read in the order the hash map has the keys. *)
RebuildSearch ==
  /\ Rebuild
  /\ IF pc' = "down" THEN MemoryGone
     ELSE /\ LET stored == {k \in Key : index[k] # Absent}
             IN  \E order \in Bijection(1 .. Cardinality(stored), stored) :
                   search' = Reentering(order)[Len(order)]
          /\ UNCHANGED <<deleteOpsSinceLastCompaction, writeCount>>
  /\ UNCHANGED inherited

-----------------------------------------------------------------------------
(* Lines *)

(* A mutant of Prompt: a line is read though a snapshot is due. *)
PromptAlways == pc = "ready"

(* The REPL reads no line while a snapshot is due. *)
Prompt == pc = "ready" /\ writeCount < SNAPSHOT_THRESHOLD

(* The handlers look at the number of arguments, and at nothing else. *)
Enter(line) ==
  LET command == Cli!ParseLine(line)
  IN  /\ Prompt
      /\ \/ /\ command.name = <<"PUT">> /\ Len(command.args) = 2
            /\ Put(command.args[1], command.args[2])
            /\ UNCHANGED search
         \/ /\ command.name = <<"DEL">> /\ Len(command.args) = 1
            /\ Del(command.args[1])
            /\ UNCHANGED search
         \/ /\ command.name = <<"SNAPSHOT">>
            /\ SnapshotCall
            /\ UNCHANGED search
         \/ /\ command.name = <<"COMPACT">>
            /\ search' = Compacted(search)
            /\ UNCHANGED vars
      /\ UNCHANGED <<deleteOpsSinceLastCompaction, repl>>

(* put() marks the old entry deleted before it stores the value ... *)
PutBegin ==
  /\ \/ WalComplete /\ UNCHANGED search
     \/ PutStoreBegin /\ search' = Tombstoned(search, op.key)
  /\ UNCHANGED <<deleteOpsSinceLastCompaction, repl>>

(* A mutant of PutEnd: PutCommand does not count. *)
PutEndUncounted ==
  /\ PutApply
  /\ search' = Inserted(search, op.key, op.value)
  /\ UNCHANGED <<deleteOpsSinceLastCompaction, repl>>

(* ... and enters the new one; PutCommand counts it when put() is back. *)
PutEnd ==
  /\ PutApply
  /\ search' = Inserted(search, op.key, op.value)
  /\ writeCount' = writeCount + (IF pc' = "ready" THEN 1 ELSE 0)
  /\ UNCHANGED <<deleteOpsSinceLastCompaction, inherited>>

(* A mutant of DelEnd: the entry is marked, but its key goes on to lead to it. *)
DelEndKeepsKey ==
  /\ DelApply
  /\ search' = Tombstoned(search, op.key)
  /\ writeCount' = writeCount + (IF View[op.key] = {} THEN 0 ELSE 1)
  /\ UNCHANGED <<deleteOpsSinceLastCompaction, inherited>>

(* Of a key that is not there del() returns false, and nothing is counted. *)
DelEnd ==
  /\ DelApply
  /\ IF View[op.key] = {}
       THEN UNCHANGED <<search, deleteOpsSinceLastCompaction, writeCount>>
       ELSE LET deletes == deleteOpsSinceLastCompaction + 1
                marked  == Forgotten(search, op.key)
            IN  /\ IF deletes >= CompactionDeleteThreshold
                     THEN /\ deleteOpsSinceLastCompaction' = 0
                          /\ search' = Compacted(marked)
                     ELSE /\ deleteOpsSinceLastCompaction' = deletes
                          /\ search' = marked
                /\ writeCount' = writeCount + 1
  /\ UNCHANGED inherited

(* A mutant of AutoSnapshot: the count has to be above the threshold. *)
AutoSnapshotLate ==
  /\ pc = "ready"
  /\ writeCount > SNAPSHOT_THRESHOLD
  /\ pc' = "snapshot"
  /\ UNCHANGED <<files, memory, calls, starts, search, deleteOpsSinceLastCompaction, repl>>

(* The REPL takes a snapshot after a command that filled its count. *)
AutoSnapshot ==
  /\ pc = "ready"
  /\ writeCount >= SNAPSHOT_THRESHOLD
  /\ pc' = "snapshot"
  /\ UNCHANGED <<files, memory, calls, starts, search, deleteOpsSinceLastCompaction, repl>>

SnapshotBegin ==
  /\ SnapshotOpen \/ (\E k \in Key : SnapshotLine(k)) \/ SnapshotRename
  /\ UNCHANGED <<search, deleteOpsSinceLastCompaction, repl>>

(* One that the engine took on its own is still inside a put(). *)
SnapshotEnd ==
  /\ SnapshotTruncate
  /\ writeCount' = IF op.type = "PUT" THEN writeCount + 1 ELSE 0
  /\ inherited' = 0
  /\ UNCHANGED <<search, deleteOpsSinceLastCompaction>>

Die ==
  /\ Kill
  /\ MemoryGone
  /\ UNCHANGED inherited

(* What goes on without anybody typing. *)
ProgramStep ==
  \/ Replay \/ RebuildSearch
  \/ PutBegin \/ PutEnd \/ DelEnd
  \/ AutoSnapshot \/ SnapshotBegin \/ SnapshotEnd

AllNext ==
  \/ ProgramStep
  \/ Open
  \/ \E line \in Line : Enter(line)
  \/ Die

(* The program goes on with what it is doing; nobody has to type or to kill. *)
AllSpec == AllInit /\ [][AllNext]_allVars /\ WF_allVars(ProgramStep)

-----------------------------------------------------------------------------
(* Properties *)

(* The type invariant, beside that of CognexStorage. *)
AllTypeOK ==
  /\ TypeOK
  /\ search \in Searches
  /\ deleteOpsSinceLastCompaction \in 0 .. CompactionDeleteThreshold - 1
  /\ writeCount \in 0 .. SNAPSHOT_THRESHOLD
  /\ inherited \in 0 .. Len(wal)

(* What QUERY can find: the entries that are not deleted. *)
Findable ==
  [k \in Key |-> {e.value : e \in {f \in Range(search.entries) :
                                     f.key = k /\ ~f.isDeleted}}]

(***************************************************************************)
(* At the prompt QUERY and GET go by the same contents, with the search    *)
(* structures consistent among themselves; and so they will after a        *)
(* restart, whatever the REPL and the engine have snapshotted, replayed    *)
(* or compacted, as long as no torn record is in the log                   *)
(* (cognex.cpp:82-111, 210-283, repl.cpp:21-45).                           *)
(***************************************************************************)
SearchSurvives ==
  /\ pc = "ready" => FindsStored(search, View) /\ PostingsMatch(search) /\ Findable = View
  /\ pc = "ready" /\ ~LogTorn => Findable = Durable

(* Replay of the i-th record of the log would change what is stored. *)
Effective(i) ==
  LET record == Parsed[wal[i].text]
  IN  record.type = "PUT"
        \/ AfterReplay(wal, i - 1, record.key, Stored(snapshot, record.key)) # {}

(***************************************************************************)
(* write_count covers every record that this process added to the log and  *)
(* that does something, so there are never more of them than               *)
(* SNAPSHOT_THRESHOLD. It does not cover the others, deletes of keys that  *)
(* were not there and what earlier processes left: those the log keeps     *)
(* without a bound until some snapshot (repl.cpp:23-43, del_command.cpp:   *)
(* 14-19, cognex.cpp:261-263).                                             *)
(***************************************************************************)
LogIsCounted ==
  pc = "ready" /\ ~LogTorn =>
    Cardinality({i \in inherited + 1 .. Len(wal) : Effective(i)}) <= writeCount

(***************************************************************************)
(* When the REPL's count is full, the log is emptied, unless the process   *)
(* ends before: snapshot() comes to its end, and no line comes in between. *)
(***************************************************************************)
FullCountEmptiesLog ==
  pc = "ready" /\ writeCount >= SNAPSHOT_THRESHOLD ~> wal = <<>> \/ pc = "down"
=============================================================================
