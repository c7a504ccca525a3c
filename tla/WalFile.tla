------------------------------ MODULE WalFile -------------------------------
(***************************************************************************)
(* The bytes of current.log, the write-ahead log of DB (src/src/engine):   *)
(* batches are encoded (db_write_batch.cc, coding.cc), framed and written  *)
(* through a stream buffer (log_writer.cc), cut anywhere by a crash or a   *)
(* full disk, and read back (log_reader.cc, DB::Recover).  LsmDB, which    *)
(* takes a record for one thing, is about what DB does with them.          *)
(*                                                                         *)
(* A byte is a number below 2 * VarintBase, so that a length below         *)
(* VarintBase has the top bit clear; in the code VarintBase is 128.  A     *)
(* string is a sequence of bytes.  The CRC is taken for perfect: its four  *)
(* bytes name what it was computed from.                                   *)
(***************************************************************************)
EXTENDS Integers, Sequences, FiniteSets, SequencesExt

CONSTANTS
    Strings,        \* the keys and values of calls
    VarintBase,     \* lengths from here on take more than one byte (128)
    MaxOps,         \* operations in a batch; DB puts one in each
    MaxBatches,     \* bound: batches between two truncations of the log
    MaxCrashes      \* bound: crashes

ASSUME WalAssumption ==
    /\ VarintBase \in Nat \ {0, 1}
    /\ \A s \in Strings : s \in Seq(0..(2 * VarintBase - 1))
    /\ MaxOps \in Nat \ {0} /\ MaxBatches \in Nat /\ MaxCrashes \in Nat

VARIABLES
    file,       \* current.log on disk
    buffer,     \* the buffer of the stream
    good,       \* the state of the stream
    ok,         \* ok_ of the LogWriter
    pc,         \* "idle", "added" (AddRecord returned, Sync is next) or "down"
    batch,      \* the operations of the WriteBatch, and rep_
    crashes,
    acked       \* history: the batches of calls that returned true

vars == <<file, buffer, good, ok, pc, batch, crashes, acked>>

-----------------------------------------------------------------------------
(* coding.cc.                                                              *)

Base == 2 * VarintBase

\* EncodeFixed32 and EncodeFixed64: n bytes, the lowest first.
EncodeFixed(n, value) == [i \in 1..n |-> (value \div Base^(i - 1)) % Base]

DecodeFixed(bytes) ==
    FoldLeft(LAMBDA x, i : x + bytes[i] * Base^(i - 1), 0, [i \in 1..Len(bytes) |-> i])

\* EncodeVarint32 ends only for a value of one byte: for any other the shift is
\* lost and the loop writes past its buffer.
Encodable(s) == Len(s) < VarintBase

\* EncodeString: PutVarint32 and the bytes.
EncodeString(s) == <<Len(s)>> \o s

\* DecodeVarint32: up to five bytes, of which the last has the top bit clear;
\* how many they are, 0 for an error, and the value.
DecodeVarint32(bytes) ==
    LET last == {i \in 1..(IF Len(bytes) < 5 THEN Len(bytes) ELSE 5) : bytes[i] < VarintBase}
        n == IF last = {} THEN 0 ELSE Min(last)
    IN  [consumed |-> n,
         value |-> FoldLeft(LAMBDA x, i : x + (bytes[i] % VarintBase) * VarintBase^(i - 1),
                            0, [i \in 1..n |-> i])]

Failed == [ok |-> FALSE, value |-> <<>>, rest |-> <<>>]

\* DecodeString: fails if the length is wrong or leaves the buffer.
DecodeString(bytes) ==
    LET v == DecodeVarint32(bytes)
        end == v.consumed + v.value
    IN  IF v.consumed = 0 \/ end > Len(bytes) THEN Failed
        ELSE [ok |-> TRUE, value |-> SubSeq(bytes, v.consumed + 1, end),
              rest |-> SubSeq(bytes, end + 1, Len(bytes))]

-----------------------------------------------------------------------------
(* db_write_batch.cc.                                                      *)

kTypeDeletion == 0
kTypeValue == 1
kBatchHeaderSize == 12

Put(k, v) == [type |-> kTypeValue, key |-> k, value |-> v]
Delete(k) == [type |-> kTypeDeletion, key |-> k, value |-> <<>>]

\* WriteBatch::Clear: a sequence number, which DB never sets, and a count of 0.
ClearedRep == EncodeFixed(kBatchHeaderSize, 0)

\* WriteBatch::Put and WriteBatch::Delete.
Appended(rep, op) ==
    LET count == DecodeFixed(SubSeq(rep, 9, kBatchHeaderSize))
        strings == EncodeString(op.key) \o
                   (IF op.type = kTypeValue THEN EncodeString(op.value) ELSE <<>>)
    IN  SubSeq(rep, 1, 8) \o EncodeFixed(4, count + 1)
        \o SubSeq(rep, kBatchHeaderSize + 1, Len(rep)) \o <<op.type>> \o strings

\* One turn of the loop of Iterate: the operation at the start of the bytes.
FirstOp(bytes) ==
    LET type == bytes[1]
        k == DecodeString(Tail(bytes))
        v == DecodeString(k.rest)
    IN  CASE type = kTypeValue /\ k.ok /\ v.ok ->
                 [ok |-> TRUE, value |-> Put(k.value, v.value), rest |-> v.rest]
          [] type = kTypeDeletion /\ k.ok ->
                 [ok |-> TRUE, value |-> Delete(k.value), rest |-> k.rest]
          [] OTHER -> Failed

\* Iterate: the operations given to the handler after the header, up to the first
\* that is broken.
Iterate(rep) ==
    LET body == SubSeq(rep, kBatchHeaderSize + 1, Len(rep))
        from[i \in 1..(Len(body) + 1)] ==
            LET op == FirstOp(SubSeq(body, i, Len(body)))
            IN  IF i > Len(body) \/ ~ op.ok THEN <<>>
                ELSE <<op.value>> \o from[Len(body) + 1 - Len(op.rest)]
    IN  IF Len(rep) < kBatchHeaderSize THEN <<>> ELSE from[1]

-----------------------------------------------------------------------------
(* log_writer.cc and log_reader.cc.                                        *)

kHeaderSize == 7
kFullType == 1

\* ValueCRC32 over the type and the data.
CRC(type, data) == [i \in 1..4 |-> <<i, type, data>>]

\* EmitPhysicalRecord: the length is cut to two bytes.
PhysicalRecord(data) ==
    CRC(kFullType, data) \o EncodeFixed(2, Len(data)) \o <<kFullType>> \o data

\* Mutant of Intact: neither the length read nor the CRC is checked.
IntactHeader(header, data) == Len(header) = kHeaderSize

\* The checks of ReadPhysicalRecord on what its two reads returned.
Intact(header, data) ==
    /\ Len(header) = kHeaderSize
    /\ Len(data) = DecodeFixed(SubSeq(header, 5, 6))
    /\ SubSeq(header, 1, 4) = CRC(header[7], data)

\* At most n bytes after the first i.
Read(bytes, i, n) == SubSeq(bytes, i + 1, Min({i + n, Len(bytes)}))

\* ReadPhysicalRecord at the start of the bytes: a header, and as many bytes as it
\* says.
ReadPhysicalRecord(bytes) ==
    LET header == Read(bytes, 0, kHeaderSize)
        data == Read(bytes, kHeaderSize, DecodeFixed(SubSeq(header, 5, 6)))
    IN  IF Intact(header, data)
        THEN [ok |-> TRUE, value |-> data,
              rest |-> SubSeq(bytes, kHeaderSize + Len(data) + 1, Len(bytes))]
        ELSE Failed

\* Recover: ReadRecord until it fails, and Iterate over every record.
Recovered(bytes) ==
    LET from[i \in 1..(Len(bytes) + 1)] ==
            LET r == ReadPhysicalRecord(SubSeq(bytes, i, Len(bytes)))
            IN  IF i > Len(bytes) \/ ~ r.ok THEN <<>>
                ELSE <<Iterate(r.value)>> \o from[Len(bytes) + 1 - Len(r.rest)]
    IN  from[1]

-----------------------------------------------------------------------------
EmptyBatch == [ops |-> <<>>, rep |-> ClearedRep]

\* A new LogWriter with truncate.
NewLog ==
    /\ file' = <<>> /\ buffer' = <<>> /\ good' = TRUE /\ ok' = TRUE
    /\ batch' = EmptyBatch
    /\ acked' = <<>>

Init ==
    /\ file = <<>> /\ buffer = <<>> /\ good = TRUE /\ ok = TRUE
    /\ pc = "idle"
    /\ batch = EmptyBatch
    /\ crashes = 0
    /\ acked = <<>>

Calls == {Put(k, v) : k, v \in Strings} \cup {Delete(k) : k \in Strings}

\* An operation joins the batch; a string that is too long kills the process.
AddOp(op) ==
    /\ pc = "idle" /\ Len(batch.ops) < MaxOps /\ Len(acked) < MaxBatches
    /\ IF Encodable(op.key) /\ Encodable(op.value)
       THEN /\ batch' = [ops |-> Append(batch.ops, op), rep |-> Appended(batch.rep, op)]
            /\ UNCHANGED <<pc, crashes>>
       ELSE /\ crashes < MaxCrashes
            /\ crashes' = crashes + 1
            /\ pc' = "down"
            /\ UNCHANGED batch
    /\ UNCHANGED <<file, buffer, good, ok, acked>>

\* Mutant of StaysOk: ok_ is not taken from the stream.
StaysOkAlways == TRUE

\* EmitPhysicalRecord leaves ok_ as good as the stream.
StaysOk == good

\* AddRecord: the record is in the buffer, or the call returns false.
AddRecord ==
    /\ pc = "idle" /\ batch.ops # <<>>
    /\ IF ok /\ StaysOk
       THEN /\ buffer' = IF good THEN PhysicalRecord(batch.rep) ELSE <<>>
            /\ pc' = "added"
            /\ UNCHANGED <<ok, batch>>
       ELSE /\ ok' = FALSE
            /\ batch' = EmptyBatch
            /\ UNCHANGED <<buffer, pc>>
    /\ UNCHANGED <<file, good, crashes, acked>>

\* Sync writes the buffer out, or as much of it as the disk takes.  Put and
\* Delete do not look at its result: the call goes on and returns true.
Sync ==
    /\ pc = "added"
    /\ \E n \in 0..Len(buffer) :
        /\ file' = file \o SubSeq(buffer, 1, n)
        /\ good' = (good /\ n = Len(buffer))
    /\ buffer' = <<>>
    /\ pc' = "idle"
    /\ acked' = Append(acked, batch.ops)
    /\ batch' = EmptyBatch
    /\ UNCHANGED <<ok, crashes>>

\* The MemTable is flushed and the log starts again.
SwitchLog ==
    /\ pc = "idle" /\ acked # <<>>
    /\ NewLog
    /\ UNCHANGED <<pc, crashes>>

\* The process dies; some of the buffer may have reached the file.
Crash ==
    /\ pc # "down" /\ crashes < MaxCrashes
    /\ crashes' = crashes + 1
    /\ \E n \in 0..Len(buffer) : file' = file \o SubSeq(buffer, 1, n)
    /\ buffer' = <<>>
    /\ pc' = "down"
    /\ UNCHANGED <<good, ok, batch, acked>>

\* The constructor of DB: Recover, and a new log.
Open ==
    /\ pc = "down"
    /\ pc' = "idle"
    /\ NewLog
    /\ UNCHANGED crashes

Next ==
    \/ \E op \in Calls : AddOp(op)
    \/ AddRecord
    \/ Sync
    \/ SwitchLog
    \/ Crash
    \/ Open

Spec == Init /\ [][Next]_vars

-----------------------------------------------------------------------------
(* Properties.                                                             *)

\* Wherever a crash or a full disk cut the file, Recover replays the batches of
\* the calls that returned true, in order; only the last one may be missing, if
\* its Sync failed, because the LogWriter refuses every record after that
\* (AddRecord, Sync, ReadRecord).
AckedBatchesRecovered ==
    LET durable == IF good THEN acked ELSE Front(acked)
    IN  IsPrefix(durable, Recovered(file))

\* What Recover replays are batches as they were written, operation by
\* operation, and at most the one that was being written on top of those that
\* returned: a torn record never counts and no string is cut or shifted
\* (WriteBatch::Put, Iterate, EmitPhysicalRecord, ReadPhysicalRecord).
RecoveredBatchesWritten ==
    IsPrefix(Recovered(file), Append(acked, batch.ops))
=============================================================================
