---------------------------- MODULE CognexLogFile ----------------------------
(***************************************************************************)
(* The bytes of the two log files: how a record is framed, and what the    *)
(* readers make of a file that was cut short anywhere and appended to.     *)
(*                                                                         *)
(* A byte is a symbol. A size has two bytes here (four in the code), the   *)
(* low one first, and a checksum one, which no other bytes give by chance. *)
(***************************************************************************)
EXTENDS CognexNumbers

CONSTANT Crc(_)   \* zlib's crc32() of some bytes; of none it is 0

SizeField(n) == <<Digits[(n % 10) + 1], Digits[((n \div 10) % 10) + 1]>>

(* A byte that is no digit is as large as any. *)
SizeAt(file, pos) ==
  LET Byte(c) == IF c \in Range(Digits) THEN Digit(c) ELSE 9
  IN  Byte(file[pos]) + 10 * Byte(file[pos + 1])

(* read_all() and pread_all(): n bytes, or {} if the file ends before. *)
ReadAll(file, pos, n) ==
  IF pos + n - 1 > Len(file) THEN {} ELSE {SubSeq(file, pos, pos + n - 1)}

-----------------------------------------------------------------------------
(* wal.log: [size][record][checksum] *)

LogFrame(record) == SizeField(Len(record)) \o record \o <<Crc(record)>>

LogFile(records) == FlattenSeq([i \in DOMAIN records |-> LogFrame(records[i])])

(* A mutant of RecordAt: the checksum is read and not compared. *)
RecordAtUnchecked(file, pos) ==
  UNION {{record \in ReadAll(file, pos + 2, SizeAt(file, pos)) :
            ReadAll(file, pos + 2 + Len(record), 1) # {}} :
         size \in ReadAll(file, pos, 2)}

RecordAt(file, pos) ==
  UNION {{record \in ReadAll(file, pos + 2, SizeAt(file, pos)) :
            ReadAll(file, pos + 2 + Len(record), 1) = {<<Crc(record)>>}} :
         size \in ReadAll(file, pos, 2)}

(* wal_replay(): the records up to the first place that has none. *)
Replay(file) ==
  LET recordsFrom[pos \in 1 .. Len(file) + 1] ==
        IF RecordAt(file, pos) = {} THEN <<>>
        ELSE LET record == CHOOSE r \in RecordAt(file, pos) : TRUE
             IN  <<record>> \o recordsFrom[pos + Len(LogFrame(record))]
  IN  recordsFrom[1]

-----------------------------------------------------------------------------
(* value.log: [key size][value size][value][checksum of all that] *)

Header(keySize, value) == SizeField(keySize) \o SizeField(Len(value))

ValueFrame(keySize, value) ==
  Header(keySize, value) \o value \o <<Crc(Header(keySize, value) \o value)>>

(* A mutant of ValueAt: the key size is not compared. *)
ValueAtAnyKey(file, pos, keySize) ==
  UNION {{value \in ReadAll(file, pos + 4, SizeAt(file, pos + 2)) :
            ReadAll(file, pos + 4 + Len(value), 1) = {<<Crc(header \o value)>>}} :
         header \in ReadAll(file, pos, 4)}

(* read_from_log_(): {} if it throws. *)
ValueAt(file, pos, keySize) ==
  UNION {{value \in ReadAll(file, pos + 4, SizeAt(file, pos + 2)) :
            ReadAll(file, pos + 4 + Len(value), 1) = {<<Crc(header \o value)>>}} :
         header \in {h \in ReadAll(file, pos, 4) : SizeAt(h, 1) = keySize}}
=============================================================================
