----------------------------- MODULE WalProofs -----------------------------
(***************************************************************************)
(* Type correctness of Wal and its LSN discipline, for any number of       *)
(* callers, records, restarts and failed system calls.                     *)
(***************************************************************************)
EXTENDS Wal, SequenceTheorems, TLAPS

USE DEF diskVars, lsnVars, fileVars, writerVars, callerVars, ghostVars, vars

-----------------------------------------------------------------------------
(* The operators the actions are built from. *)

\* Larger returns one of its arguments and is below neither.
LEMMA LargerFacts ==
    ASSUME NEW a \in Nat, NEW b \in Nat
    PROVE  Larger(a, b) \in Nat /\ Larger(a, b) >= a /\ Larger(a, b) >= b
  BY DEF Larger

\* Writing cells anywhere in a body gives a body (to_bytes and write_all keep a
\* file a file, holes included).
LEMMA OverwriteType ==
    ASSUME NEW body \in Seq(Cell), NEW at \in Nat, NEW cells \in Seq(Cell)
    PROVE  Overwrite(body, at, cells) \in Seq(Cell)
  <1> DEFINE n == Larger(Len(body), at + Len(cells))
  <1>1. Len(body) \in Nat /\ Len(cells) \in Nat
    OBVIOUS
  <1>2. n \in Nat
    BY <1>1 DEF Larger
  <1>3. Hole \in Cell
    BY DEF Hole, Cell, NoRecord, Record
  <1>4. ASSUME NEW i \in 1 .. n
        PROVE  (IF i \in at + 1 .. at + Len(cells) THEN cells[i - at]
                ELSE IF i <= Len(body) THEN body[i] ELSE Hole) \in Cell
    <2>1. CASE i \in at + 1 .. at + Len(cells)
      <3>1. i - at \in 1 .. Len(cells)
        BY <2>1, <1>1
      <3> QED BY <3>1, <2>1
    <2>2. CASE i \notin at + 1 .. at + Len(cells)
      BY <2>2, <1>1, <1>2, <1>3
    <2> QED BY <2>1, <2>2
  <1> HIDE DEF n
  <1>5. [i \in 1 .. n |->
            IF i \in at + 1 .. at + Len(cells) THEN cells[i - at]
            ELSE IF i <= Len(body) THEN body[i] ELSE Hole] \in [1 .. n -> Cell]
    BY <1>4
  <1>6. ASSUME NEW f \in [1 .. n -> Cell] PROVE f \in Seq(Cell)
    BY <1>2, SeqDef
  <1>7. Overwrite(body, at, cells) \in [1 .. n -> Cell]
    BY <1>5 DEF Overwrite, n
  <1> QED BY <1>6, <1>7

\* A record is encoded in as many cells as it is long.
LEMMA EncodeType ==
    ASSUME NEW r \in Record
    PROVE  Encode(r) \in Seq(Cell) /\ Len(Encode(r)) = r.size
  <1>1. r.size \in Nat
    BY DEF Record
  <1>2. Encode(r) \in [1 .. r.size -> Cell]
    BY <1>1 DEF Encode, Cell
  <1>3. Encode(r) \in Seq(Cell)
    BY <1>1, <1>2, SeqDef
  <1>4. DOMAIN Encode(r) = 1 .. r.size
    BY DEF Encode
  <1> QED BY <1>1, <1>3, <1>4, LenProperties

\* A checkpoint record is a record.
LEMMA CkptRecordType == ASSUME NEW l \in Nat PROVE CkptRecord(l) \in Record
  BY DEF CkptRecord, Record

\* Removing segments and emptying the file keep their types.
LEMMA WithoutType ==
    ASSUME NEW ss, NEW ids, DOMAIN ss \subseteq Nat,
           \A i \in DOMAIN ss : ss[i] \in [st : FileStates, ckpt : Nat, body : Seq(Cell)]
    PROVE  /\ DOMAIN Without(ss, ids) \subseteq Nat
           /\ \A i \in DOMAIN Without(ss, ids) :
                 Without(ss, ids)[i] \in [st : FileStates, ckpt : Nat, body : Seq(Cell)]
  BY DEF Without

\* The file before WriteAheadLog::new, and after rotate renamed it, is a file.
LEMMA NoFileType ==
    NoFile \in [st : FileStates, ckpt : Nat, cur : Nat, body : Seq(Cell)]
  BY DEF NoFile, FileStates

-----------------------------------------------------------------------------
(* Type correctness. *)

\* The first state is well typed.
LEMMA TypeInit == Init => TypeOK
  <1> SUFFICES ASSUME Init PROVE TypeOK
    OBVIOUS
  <1>1. NoRecord \in Record
    BY DEF NoRecord, Record
  <1>2. DOMAIN segs = {}
    BY DEF Init, NoSegs
  <1>3. chan \in Seq([kind : Kinds, from : Clients, rec : Record])
    BY DEF Init
  <1>4. cpc \in [Clients -> CallerStates] /\ rec \in [Clients -> Record]
    <2>1. cpc = [c \in Clients |-> "idle"] /\ rec = [c \in Clients |-> NoRecord]
      BY DEF Init
    <2>2. "idle" \in CallerStates
      BY DEF CallerStates
    <2> QED BY <1>1, <2>1, <2>2
  <1>5. wal \in [st : FileStates, ckpt : Nat, cur : Nat, body : Seq(Cell)]
    BY NoFileType DEF Init
  <1>6. /\ nextLsn \in Nat /\ lastWritten \in Nat /\ lastCkpt \in Nat
        /\ handle \in {"wal", "null", "header"} /\ cursor \in Nat /\ curSize \in Nat /\ nextSegId \in Nat
        /\ wpc \in WriterStates /\ result \in {"Ok", "Err"} /\ loop \in {"run", "drain"}
        /\ phase \in {"closed", "creating", "recovering", "up"}
        /\ made \in Nat /\ acked \subseteq Nat /\ dataLsns \subseteq Nat /\ ckptLsns \subseteq Nat
        /\ opens \in Nat /\ faults \in Nat
    BY DEF Init, WriterStates
  <1>7. \A i \in DOMAIN segs : segs[i] \in [st : FileStates, ckpt : Nat, body : Seq(Cell)]
    BY <1>2
  <1>8. DOMAIN segs \subseteq Nat
    BY <1>2
  <1> QED BY <1>3, <1>4, <1>5, <1>6, <1>7, <1>8 DEF TypeOK

\* new() and the load before recovery keep the types.
LEMMA TypeOpening == TypeOK /\ Opening => TypeOK'
  <1> SUFFICES ASSUME TypeOK, Opening PROVE TypeOK'
    OBVIOUS
  <1>1. CASE CreateFile
    <2>1. [NoFile EXCEPT !.st = "bad"]
            \in [st : FileStates, ckpt : Nat, cur : Nat, body : Seq(Cell)]
      BY NoFileType DEF FileStates
    <2> QED BY <1>1, <2>1 DEF CreateFile, TypeOK
  <1>2. CASE CreateHeader
    <2>0. wal' = [wal EXCEPT !.st = "ok"] \/ wal' = wal
      BY <1>2 DEF CreateHeader
    <2>1. wal' \in [st : FileStates, ckpt : Nat, cur : Nat, body : Seq(Cell)]
      BY <2>0 DEF TypeOK, FileStates
    <2>2. faults' \in Nat
      BY <1>2 DEF CreateHeader, TypeOK
    <2> QED BY <1>2, <2>1, <2>2 DEF CreateHeader, TypeOK
  <1>3. CASE Open
    BY <1>3 DEF Open, TypeOK, WriterStates
  <1>4. CASE OpenFails \/ StaysClosed
    BY <1>4 DEF OpenFails, StaysClosed, TypeOK
  <1> QED BY <1>1, <1>2, <1>3, <1>4 DEF Opening

\* make_record, send_record, checkpoint, clear and shutdown keep the types.
LEMMA TypeCaller == ASSUME TypeOK, NEW c \in Clients, Caller(c) PROVE TypeOK'
  <1> DEFINE Msg == [kind : Kinds, from : Clients, rec : Record]
  <1>1. ASSUME NEW kind \in Kinds, NEW waiting \in CallerStates, Send(c, kind, waiting)
        PROVE  chan' \in Seq(Msg) /\ cpc' \in [Clients -> CallerStates]
    <2>1. Message(kind, c, rec[c]) \in Msg
      BY DEF TypeOK, Message
    <2>2. chan \in Seq(Msg) /\ cpc \in [Clients -> CallerStates]
      BY DEF TypeOK
    <2>3. "idle" \in CallerStates
      BY DEF CallerStates
    <2> HIDE DEF Msg
    <2>4. chan' \in Seq(Msg)
      BY <1>1, <2>1, <2>2, AppendProperties DEF Send
    <2>5. cpc' \in [Clients -> CallerStates]
      BY <1>1, <2>2, <2>3 DEF Send
    <2> QED BY <2>4, <2>5
  <1> HIDE DEF Msg
  <1>2. ASSUME NEW size \in Sizes, MakeRecord(c, size) PROVE TypeOK'
    <2>1. [uid |-> made + 1, lsn |-> nextLsn, size |-> size] \in Record
      BY SizesAssumption DEF TypeOK, Record
    <2>2. rec' \in [Clients -> Record]
      BY <1>2, <2>1 DEF MakeRecord, TypeOK
    <2>3. cpc' \in [Clients -> CallerStates]
      BY <1>2 DEF MakeRecord, TypeOK, CallerStates
    <2> QED BY <1>2, <2>2, <2>3 DEF MakeRecord, TypeOK
  <1>3. CASE SendRecord(c)
    <2>1. chan' \in Seq(Msg) /\ cpc' \in [Clients -> CallerStates]
      BY <1>1, <1>3 DEF SendRecord, Kinds, CallerStates
    <2> QED BY <1>3, <2>1 DEF SendRecord, TypeOK, Msg
  <1>4. CASE SendCheckpoint(c)
    <2>1. chan' \in Seq(Msg) /\ cpc' \in [Clients -> CallerStates]
      BY <1>1, <1>4 DEF SendCheckpoint, Kinds, CallerStates
    <2> QED BY <1>4, <2>1 DEF SendCheckpoint, TypeOK, Msg
  <1>5. CASE SendTruncate(c)
    <2>1. chan' \in Seq(Msg) /\ cpc' \in [Clients -> CallerStates]
      BY <1>1, <1>5 DEF SendTruncate, Kinds, CallerStates
    <2> QED BY <1>5, <2>1 DEF SendTruncate, TypeOK, Msg
  <1>6. CASE SendShutdown(c)
    <2>1. chan' \in Seq(Msg) /\ cpc' \in [Clients -> CallerStates]
      BY <1>1, <1>6 DEF SendShutdown, Kinds, CallerStates
    <2> QED BY <1>6, <2>1 DEF SendShutdown, TypeOK, Msg
  <1> QED BY <1>2, <1>3, <1>4, <1>5, <1>6 DEF Caller

\* The message in progress carries a record.
LEMMA HeadRecordType ==
    ASSUME TypeOK, chan # <<>>
    PROVE  Head(chan) \in [kind : Kinds, from : Clients, rec : Record] /\ Head(chan).rec \in Record
  <1> DEFINE Msg == [kind : Kinds, from : Clients, rec : Record]
  <1>1. chan \in Seq(Msg)
    BY DEF TypeOK
  <1>2. \A m \in Msg : m.rec \in Record
    OBVIOUS
  <1> HIDE DEF Msg
  <1>3. Head(chan) \in Msg
    BY <1>1, HeadTailProperties
  <1> QED BY <1>2, <1>3 DEF Msg

\* Changing fields of the active file keeps its type.
LEMMA FileUpdates ==
    ASSUME NEW w \in [st : FileStates, ckpt : Nat, cur : Nat, body : Seq(Cell)],
           NEW l \in Nat, NEW m \in Nat
    PROVE  [w EXCEPT !.ckpt = l, !.cur = m]
                \in [st : FileStates, ckpt : Nat, cur : Nat, body : Seq(Cell)]
  OBVIOUS

\* Cells behind a header, or over it, leave a file.
LEMMA PutType ==
    ASSUME NEW w \in [st : FileStates, ckpt : Nat, cur : Nat, body : Seq(Cell)], cursor \in Nat,
           NEW cells \in Seq(Cell)
    PROVE  Put(w, cells) \in [st : FileStates, ckpt : Nat, cur : Nat, body : Seq(Cell)]
  <1> DEFINE n == cursor + Len(cells)
             holes == [i \in 1 .. n - 1 |-> Hole]
  <1>1. n \in Nat
    OBVIOUS
  <1>2. holes \in Seq(Cell)
    <2>1. Hole \in Cell
      BY DEF Hole, Cell, NoRecord, Record
    <2> HIDE DEF n
    <2>2. CASE n = 0
      <3>1. holes = <<>>
        BY <2>2, SMT
      <3>2. <<>> \in Seq(Cell)
        OBVIOUS
      <3> HIDE DEF holes
      <3> QED BY <3>1, <3>2
    <2>3. CASE n # 0
      <3>1. n - 1 \in Nat
        BY <1>1, <2>3
      <3>2. holes \in [1 .. n - 1 -> Cell]
        BY <2>1
      <3> HIDE DEF holes
      <3> QED BY <3>1, <3>2, SeqDef
    <2> QED BY <2>2, <2>3
  <1> HIDE DEF holes
  <1>3. Overwrite(w.body, 0, holes) \in Seq(Cell) /\ Overwrite(w.body, cursor, cells) \in Seq(Cell)
    BY <1>2, OverwriteType
  <1>4. Put(w, cells) = IF handle = "header"
                        THEN [w EXCEPT !.st = "bad", !.body = Overwrite(w.body, 0, holes)]
                        ELSE [w EXCEPT !.body = Overwrite(w.body, cursor, cells)]
    <2>1. [i \in 1 .. cursor + Len(cells) - 1 |-> Hole] = holes
      BY DEF holes
    <2> QED BY <2>1, Zenon DEF Put
  <1> QED BY <1>3, <1>4 DEF FileStates

\* The steps of the writer that write cells into the active file.
LEMMA TypeWrite == ASSUME TypeOK, WriteRecord \/ WriteFails \/ CheckpointRecord \/ CheckpointRecordFails
                   PROVE  TypeOK'
  <1> DEFINE FileType == [st : FileStates, ckpt : Nat, cur : Nat, body : Seq(Cell)]
  <1>1. ASSUME NEW cells \in Seq(Cell)
        PROVE  Put(wal, cells) \in FileType
    BY PutType DEF TypeOK
  <1> HIDE DEF FileType
  <1>2. CkptRecord(lastWritten) \in Record
    BY CkptRecordType DEF TypeOK
  <1>3. ASSUME chan # <<>> PROVE Head(chan).rec \in Record
    BY <1>3, HeadRecordType
  <1>4. ASSUME NEW r \in Record, TornWrite(Encode(r)) \/ NullWrite
        PROVE  wal' \in FileType /\ cursor' \in Nat /\ faults' \in Nat
    <2>1. CASE TornWrite(Encode(r))
      <3>0. CASE UNCHANGED <<wal, cursor>>
        BY <2>1, <3>0 DEF TornWrite, TypeOK, FileType
      <3> SUFFICES ASSUME ~UNCHANGED <<wal, cursor>> PROVE wal' \in FileType /\ cursor' \in Nat /\ faults' \in Nat
        BY <3>0
      <3>1. PICK k \in 0 .. Len(Encode(r)) - 1 :
              /\ wal' = Put(wal, SubSeq(Encode(r), 1, k))
              /\ cursor' = cursor + k
        BY <2>1 DEF TornWrite
      <3>2. SubSeq(Encode(r), 1, k) \in Seq(Cell)
        BY EncodeType, SubSeqProperties
      <3>3. k \in Nat
        BY EncodeType
      <3>4. cursor' \in Nat /\ faults' \in Nat
        <4>1. cursor' = cursor + k
          BY <3>1
        <4>2. faults' = faults + 1
          BY <2>1 DEF TornWrite
        <4> QED BY <3>3, <4>1, <4>2 DEF TypeOK
      <3> QED BY <1>1, <3>1, <3>2, <3>4
    <2>2. CASE NullWrite
      BY <2>2 DEF NullWrite, TypeOK, FileType
    <2> QED BY <1>4, <2>1, <2>2
  <1>5. CASE WriteRecord
    <2> DEFINE r == Head(chan).rec
    <2>0. r \in Record
      BY <1>3, <1>5 DEF WriteRecord, Receives
    <2>7. /\ lastWritten' = Larger(lastWritten, PastLsn(r))
          /\ dataLsns' = dataLsns \cup {r.lsn}
          /\ wpc' = IF MustRotate(curSize') THEN "rotate" ELSE "done"
      BY <1>5 DEF WriteRecord
    <2>9. cursor' = cursor + r.size /\ curSize' = curSize + r.size
      BY <1>5 DEF WriteRecord
    <2>8. wal' = Put(wal, Encode(r))
      BY <1>5 DEF WriteRecord
    <2> HIDE DEF r
    <2>1. r.size \in Nat /\ r.lsn \in Nat
      BY <2>0 DEF Record
    <2>2. wal' \in FileType
      <3>1. Encode(r) \in Seq(Cell)
        BY <2>0, EncodeType
      <3>2. Put(wal, Encode(r)) \in FileType
        BY <1>1, <3>1
      <3> QED BY <2>8, <3>2
    <2>3. lastWritten' \in Nat
      <3>1. lastWritten \in Nat /\ PastLsn(r) \in Nat
        BY <2>1 DEF TypeOK, PastLsn
      <3> QED BY <3>1, <2>7, LargerFacts
    <2>4. dataLsns' \subseteq Nat
      BY <2>1, <2>7 DEF TypeOK
    <2>5. cursor' \in Nat /\ curSize' \in Nat
      BY <2>1, <2>9 DEF TypeOK
    <2>6. wpc' \in WriterStates
      BY <2>7 DEF WriterStates
    <2> QED BY <1>5, <2>2, <2>3, <2>4, <2>5, <2>6 DEF WriteRecord, TypeOK, FileType
  <1>6. CASE WriteFails
    <2>1. Head(chan).rec \in Record
      BY <1>3, <1>6 DEF WriteFails, Receives
    <2>2. wal' \in FileType /\ cursor' \in Nat /\ faults' \in Nat
      BY <1>4, <1>6, <2>1 DEF WriteFails
    <2>3. result' = "Err" /\ wpc' = "done"
      BY <1>6 DEF WriteFails, TornWrite, NullWrite, Fails
    <2> QED BY <1>6, <2>2, <2>3 DEF WriteFails, TypeOK, FileType, WriterStates
  <1>7. CASE CheckpointRecord
    <2>1. wal' \in FileType
      BY <1>1, <1>2, <1>7, EncodeType DEF CheckpointRecord
    <2>2. cursor' \in Nat /\ curSize' \in Nat /\ wpc' \in WriterStates /\ ckptLsns' \subseteq Nat
      BY <1>7, SMTT(30) DEF CheckpointRecord, TypeOK, WriterStates
    <2> QED BY <1>7, <2>1, <2>2 DEF CheckpointRecord, TypeOK, FileType
  <1>8. CASE CheckpointRecordFails
    <2>1. wal' \in FileType /\ cursor' \in Nat /\ faults' \in Nat
      BY <1>2, <1>4, <1>8 DEF CheckpointRecordFails
    <2>2. result' = "Err" /\ wpc' = "done"
      BY <1>8 DEF CheckpointRecordFails, TornWrite, NullWrite, Fails
    <2> QED BY <1>8, <2>1, <2>2 DEF CheckpointRecordFails, TypeOK, FileType, WriterStates
  <1> QED BY <1>5, <1>6, <1>7, <1>8

\* rotate keeps the types, whichever of its system calls fails.
LEMMA TypeRotate == ASSUME TypeOK, RotateRename \/ RotateCreate \/ RotateHeader \/ RotateFails
                    PROVE  TypeOK'
  <1>1. CASE RotateRename
    <2>1. [st |-> wal.st, ckpt |-> wal.ckpt, body |-> wal.body] \in [st : FileStates, ckpt : Nat, body : Seq(Cell)]
      BY DEF TypeOK
    <2>2. /\ DOMAIN segs' \subseteq Nat
          /\ \A i \in DOMAIN segs' : segs'[i] \in [st : FileStates, ckpt : Nat, body : Seq(Cell)]
      BY <1>1, <2>1 DEF RotateRename, TypeOK
    <2> QED BY <1>1, <2>2, NoFileType DEF RotateRename, TypeOK, WriterStates
  <1>2. CASE RotateCreate
    <2>1. wal' \in [st : FileStates, ckpt : Nat, cur : Nat, body : Seq(Cell)]
      BY <1>2, NoFileType DEF RotateCreate, FileStates
    <2> QED BY <1>2, <2>1 DEF RotateCreate, TypeOK, WriterStates
  <1>3. CASE RotateHeader
    BY <1>3 DEF RotateHeader, RotateHeaderOf, TypeOK, WriterStates, FileStates
  <1>4. CASE RotateFails
    <2>1. handle' \in {"wal", "null", "header"} /\ faults' \in Nat /\ result' = "Err" /\ wpc' = "done"
      BY <1>4 DEF RotateFails, Fails, TypeOK
    <2> QED BY <1>4, <2>1 DEF RotateFails, TypeOK, WriterStates
  <1> QED BY <1>1, <1>2, <1>3, <1>4

\* So do the second half of do_checkpoint, with its cleanup, and do_truncate.
LEMMA TypeCheckpointAndTruncate ==
    ASSUME TypeOK,
           \/ CheckpointHeader \/ Cleanup \/ TruncateSegment \/ TruncateLen \/ TruncateHeader
           \/ HeaderWriteFails \/ HeaderSyncFails
    PROVE  TypeOK'
  <1>2. ASSUME NEW ids, segs' = segs \/ segs' = Without(segs, ids)
        PROVE  /\ DOMAIN segs' \subseteq Nat
               /\ \A i \in DOMAIN segs' : segs'[i] \in [st : FileStates, ckpt : Nat, body : Seq(Cell)]
    <2>1. /\ DOMAIN segs \subseteq Nat
          /\ \A i \in DOMAIN segs : segs[i] \in [st : FileStates, ckpt : Nat, body : Seq(Cell)]
      BY DEF TypeOK
    <2> QED BY <1>2, <2>1, WithoutType
  <1> DEFINE FileType == [st : FileStates, ckpt : Nat, cur : Nat, body : Seq(Cell)]
  <1>8. /\ CheckpointHeaderOf(wal) \in FileType /\ TruncateHeaderOf(wal) \in FileType
        /\ RotateHeaderOf(wal) \in FileType /\ [wal EXCEPT !.st = "bad"] \in FileType
    <2> USE DEF TypeOK, FileStates
    <2>1. CheckpointHeaderOf(wal) \in FileType
      <3>1. lastWritten + 1 \in Nat
        OBVIOUS
      <3>2. [wal EXCEPT !.st = "ok", !.ckpt = lastWritten, !.cur = lastWritten + 1] \in FileType
        BY <3>1
      <3> QED BY <3>2 DEF CheckpointHeaderOf
    <2>2. TruncateHeaderOf(wal) \in FileType
      BY DEF TruncateHeaderOf
    <2>3. RotateHeaderOf(wal) \in FileType
      BY DEF RotateHeaderOf
    <2>4. [wal EXCEPT !.st = "bad"] \in FileType
      OBVIOUS
    <2> QED BY <2>1, <2>2, <2>3, <2>4
  <1> HIDE DEF FileType
  <1>3. CASE CheckpointHeader
    <2>2. nextLsn' \in Nat
      BY <1>3, LargerFacts DEF CheckpointHeader, NextLsnAfterCheckpoint, TypeOK
    <2>3. wal' \in FileType /\ wpc' \in WriterStates
      BY <1>3, <1>8 DEF CheckpointHeader, WriterStates
    <2> QED BY <1>3, <2>2, <2>3 DEF CheckpointHeader, TypeOK, FileType
  <1>4. CASE Cleanup
    <2> DEFINE doomed == Doomed(segs, curSize)
    <2>0. segs' = segs \/ segs' = Without(segs, {Min(doomed)})
      BY <1>4 DEF Cleanup
    <2> HIDE DEF doomed
    <2>1. /\ DOMAIN segs' \subseteq Nat
          /\ \A i \in DOMAIN segs' : segs'[i] \in [st : FileStates, ckpt : Nat, body : Seq(Cell)]
      BY <1>2, <2>0
    <2>2. wpc' \in WriterStates
      BY <1>4 DEF Cleanup, WriterStates
    <2> QED BY <1>4, <2>1, <2>2 DEF Cleanup, TypeOK
  <1>9. CASE HeaderWriteFails
    <2>1. PICK new \in FileType : HeaderFails(new)
      BY <1>8, <1>9 DEF HeaderWriteFails, TypeOK, FileType
    <2>3. wal \in FileType /\ faults \in Nat
      BY DEF TypeOK, FileType
    <2>4. wal' \in FileType
      BY <2>1, <2>3, <1>8 DEF HeaderFails
    <2>2. wal' \in FileType /\ cursor' \in Nat /\ faults' \in Nat /\ handle' = "header"
          /\ result' = "Err" /\ wpc' = "done"
      BY <2>1, <2>3, <2>4 DEF HeaderFails, Fails
    <2> QED BY <1>9, <2>2 DEF HeaderWriteFails, TypeOK, WriterStates, FileType
  <1>10. CASE HeaderSyncFails
    <2>1. wal' \in FileType /\ cursor' \in Nat
      BY <1>8, <1>10 DEF HeaderSyncFails, TypeOK
    <2>2. faults' \in Nat /\ result' = "Err" /\ wpc' = "done" /\ handle' = "wal"
      BY <1>10 DEF HeaderSyncFails, Fails, TypeOK
    <2> QED BY <1>10, <2>1, <2>2 DEF HeaderSyncFails, TypeOK, WriterStates, FileType
  <1>5. CASE TruncateSegment
    <2>1. /\ DOMAIN segs' \subseteq Nat
          /\ \A i \in DOMAIN segs' : segs'[i] \in [st : FileStates, ckpt : Nat, body : Seq(Cell)]
      BY <1>2, <1>5 DEF TruncateSegment
    <2> QED BY <1>5, <2>1 DEF TruncateSegment, TypeOK
  <1>6. CASE TruncateLen
    <2>1. wal' \in [st : FileStates, ckpt : Nat, cur : Nat, body : Seq(Cell)]
      <3>1. <<>> \in Seq(Cell)
        OBVIOUS
      <3>2. wal' = wal \/ wal' = [wal EXCEPT !.body = <<>>]
        BY <1>6 DEF TruncateLen
      <3>3. [wal EXCEPT !.body = <<>>] \in [st : FileStates, ckpt : Nat, cur : Nat, body : Seq(Cell)]
        BY <3>1 DEF TypeOK
      <3> QED BY <3>2, <3>3 DEF TypeOK
    <2>2. faults' \in Nat /\ result' \in {"Ok", "Err"} /\ wpc' \in WriterStates
      BY <1>6 DEF TruncateLen, Fails, TypeOK, WriterStates
    <2> QED BY <1>6, <2>1, <2>2 DEF TruncateLen, TypeOK
  <1>7. CASE TruncateHeader
    <2>1. wal' \in FileType /\ wpc' \in WriterStates /\ handle' = "wal"
      BY <1>7, <1>8 DEF TruncateHeader, WriterStates
    <2> QED BY <1>7, <2>1 DEF TruncateHeader, TypeOK, FileType
  <1> QED BY <1>3, <1>4, <1>5, <1>6, <1>7, <1>9, <1>10

-----------------------------------------------------------------------------
(* The channel: every message is of a caller that waits for its answer, each *)
(* caller has at most one, and the message in progress is at the head.       *)

Busy == wpc \notin {"recv", "exiting", "exit"}

WaitsAs(kind) == IF kind = "record" THEN "logging"
                 ELSE IF kind = "checkpoint" THEN "checkpointing"
                 ELSE IF kind = "truncate" THEN "clearing" ELSE "closing"

ChannelInv ==
    /\ Busy => chan # <<>>
    /\ \A i \in DOMAIN chan : cpc[chan[i].from] = WaitsAs(chan[i].kind)
    /\ \A i \in DOMAIN chan : chan[i].kind = "record" => chan[i].rec = rec[chan[i].from]
    /\ \A i, j \in DOMAIN chan : chan[i].from = chan[j].from => i = j

(* The LSNs: those written are below last_written_lsn, which is not above     *)
(* next_lsn; the records not yet acknowledged hold different ones below       *)
(* next_lsn, and only the record in progress may be written already.          *)
Pending == {c \in Clients : cpc[c] \in {"made", "logging"}}

LsnInv ==
    /\ lastWritten <= nextLsn
    /\ \A l \in dataLsns : l < lastWritten
    /\ \A c \in Pending : rec[c].lsn < nextLsn
    /\ \A c, d \in Pending : rec[c].lsn = rec[d].lsn => c = d
    /\ \A c \in Pending : rec[c].lsn \in dataLsns => Busy /\ Head(chan).from = c

Inv == TypeOK /\ ChannelInv /\ LsnInv

\* So do the end of a message, the receipt of a Shutdown and the writer's exit.
LEMMA TypeMessages ==
    ASSUME TypeOK, ChannelInv, Acknowledge \/ ReceiveShutdown \/ Drained \/ Exit
    PROVE  TypeOK'
  <1> DEFINE Msg == [kind : Kinds, from : Clients, rec : Record]
  <1>1. ASSUME chan # <<>> PROVE Tail(chan) \in Seq(Msg)
    <2>1. chan \in Seq(Msg)
      BY DEF TypeOK
    <2> HIDE DEF Msg
    <2> QED BY <1>1, <2>1, HeadTailProperties
  <1>2. CASE Acknowledge
    <2> DEFINE m == Head(chan)
    <2>0. chan # <<>>
      BY <1>2 DEF Acknowledge, ChannelInv, Busy
    <2>1. m \in Msg /\ m.rec \in Record
      BY <2>0, HeadRecordType
    <2>2. /\ chan' = Tail(chan) /\ wpc' = "recv"
          /\ cpc' = [cpc EXCEPT ![m.from] = AfterAck(m.kind, result = "Ok")]
          /\ acked' = IF m.kind = "record" /\ result = "Ok" THEN acked \cup {m.rec.uid} ELSE acked
          /\ phase' = IF m.kind = "truncate" /\ result = "Ok" THEN "up" ELSE phase
      BY <1>2 DEF Acknowledge
    <2>3. chan' \in Seq(Msg)
      BY <1>1, <2>0, <2>2
    <2>4. cpc' \in [Clients -> CallerStates]
      <3>1. AfterAck(m.kind, result = "Ok") \in CallerStates
        BY DEF AfterAck, CallerStates
      <3>2. cpc' = [cpc EXCEPT ![m.from] = AfterAck(m.kind, result = "Ok")]
        BY <2>2
      <3> HIDE DEF m
      <3> QED BY <3>1, <3>2 DEF TypeOK
    <2>5. acked' \subseteq Nat
      <3>1. m.rec.uid \in Nat
        BY <2>1 DEF Record
      <3>2. acked' = acked \/ acked' = acked \cup {m.rec.uid}
        BY <2>2
      <3> QED BY <3>1, <3>2 DEF TypeOK
    <2>6. phase' \in {"closed", "creating", "recovering", "up"} /\ wpc' \in WriterStates
      BY <2>2 DEF TypeOK, WriterStates
    <2> QED BY <1>2, <2>3, <2>4, <2>5, <2>6 DEF Acknowledge, TypeOK
  <1>3. CASE ReceiveShutdown
    <2>1. chan' \in Seq(Msg)
      BY <1>1, <1>3 DEF ReceiveShutdown, Receives
    <2> QED BY <1>3, <2>1 DEF ReceiveShutdown, TypeOK
  <1>4. CASE Exit
    <2>1. cpc' \in [Clients -> CallerStates] /\ chan' \in Seq(Msg)
      BY <1>4 DEF Exit, TypeOK, CallerStates
    <2> QED BY <1>4, <2>1 DEF Exit, TypeOK, WriterStates
  <1>5. CASE Drained
    BY <1>5 DEF Drained, TypeOK, WriterStates
  <1> QED BY <1>2, <1>3, <1>4, <1>5

\* A crash leaves well-typed files behind.
LEMMA TypeCrash == TypeOK /\ Crash => TypeOK'
  <1> SUFFICES ASSUME TypeOK, Crash PROVE TypeOK'
    OBVIOUS
  <1>1. cpc' \in [Clients -> CallerStates]
    BY DEF Crash, CallerStates
  <1>2. chan' \in Seq([kind : Kinds, from : Clients, rec : Record])
    BY DEF Crash
  <1> QED BY <1>1, <1>2 DEF Crash, TypeOK, WriterStates

\* Every step keeps the types; the end of a message needs a message to end.
LEMMA TypeStep == TypeOK /\ ChannelInv /\ [Next]_vars => TypeOK'
  <1> SUFFICES ASSUME TypeOK, ChannelInv, [Next]_vars PROVE TypeOK'
    OBVIOUS
  <1>1. CASE Opening
    BY <1>1, TypeOpening
  <1>2. CASE \E c \in Clients : Caller(c)
    BY <1>2, TypeCaller
  <1>3. CASE WriterStep
    BY <1>3, TypeWrite, TypeRotate, TypeCheckpointAndTruncate, TypeMessages DEF WriterStep
  <1>4. CASE Crash
    BY <1>4, TypeCrash
  <1>5. CASE UNCHANGED vars
    BY <1>5 DEF TypeOK
  <1> QED BY <1>1, <1>2, <1>3, <1>4, <1>5 DEF Next

-----------------------------------------------------------------------------
(* Preservation of the channel invariant. *)

\* What a queue holds after its head is taken and after an append.
LEMMA QueueFacts ==
    ASSUME NEW M, NEW q \in Seq(M), NEW x \in M
    PROVE  /\ Append(q, x) # <<>> /\ DOMAIN Append(q, x) = 1 .. Len(q) + 1
           /\ DOMAIN q = 1 .. Len(q) /\ Len(q) \in Nat
           /\ \A i \in DOMAIN q : Append(q, x)[i] = q[i]
           /\ Append(q, x)[Len(q) + 1] = x
           /\ q # <<>> => /\ Head(Append(q, x)) = Head(q) /\ 1 \in DOMAIN q /\ Head(q) = q[1]
                          /\ DOMAIN Tail(q) = 1 .. Len(q) - 1
                          /\ \A i \in DOMAIN Tail(q) : Tail(q)[i] = q[i + 1] /\ i + 1 \in DOMAIN q
  <1>1. DOMAIN q = 1 .. Len(q) /\ Len(q) \in Nat
    BY LenProperties
  <1>2. /\ DOMAIN Append(q, x) = 1 .. Len(q) + 1
        /\ \A i \in 1 .. Len(q) : Append(q, x)[i] = q[i]
        /\ Append(q, x)[Len(q) + 1] = x
    BY <1>1, AppendProperties, LenProperties
  <1>3. Append(q, x) # <<>>
    BY AppendProperties
  <1>4. ASSUME q # <<>>
        PROVE  /\ Head(Append(q, x)) = Head(q) /\ 1 \in DOMAIN q /\ Head(q) = q[1]
               /\ DOMAIN Tail(q) = 1 .. Len(q) - 1
               /\ \A i \in DOMAIN Tail(q) : Tail(q)[i] = q[i + 1] /\ i + 1 \in DOMAIN q
    <2>1. Len(q) # 0
      BY <1>4, EmptySeq
    <2>2. 1 \in DOMAIN q /\ Head(q) = q[1]
      BY <1>1, <2>1
    <2>3. Head(Append(q, x)) = Append(q, x)[1]
      OBVIOUS
    <2>4. Tail(q) \in Seq(M) /\ Len(Tail(q)) = Len(q) - 1
      BY <1>4, HeadTailProperties
    <2>5. DOMAIN Tail(q) = 1 .. Len(q) - 1
      BY <2>4, LenProperties
    <2>6. \A i \in 1 .. Len(q) - 1 : Tail(q)[i] = q[i + 1] /\ i + 1 \in DOMAIN q
      BY <1>1, <1>4, <2>4, HeadTailProperties
    <2> QED BY <1>1, <1>2, <2>2, <2>3, <2>5, <2>6
  <1> QED BY <1>1, <1>2, <1>3, <1>4

\* The writer's steps on files leave queue, callers and LSNs alone and do not
\* return to recv or exit.
QuietStep ==
    \/ CreateFile \/ CreateHeader \/ OpenFails \/ StaysClosed
    \/ WriteFails \/ RotateRename \/ RotateCreate \/ RotateHeader \/ RotateFails
    \/ CheckpointRecord \/ CheckpointRecordFails \/ Cleanup
    \/ TruncateSegment \/ TruncateLen \/ TruncateHeader
    \/ HeaderWriteFails \/ HeaderSyncFails \/ Drained
    \/ UNCHANGED vars

\* A quiet step changes neither the queue nor an LSN, and an operation in progress
\* has its message at the head of the queue.
LEMMA QuietFacts ==
    ASSUME TypeOK, ChannelInv, QuietStep
    PROVE  /\ UNCHANGED <<chan, cpc, rec, nextLsn, lastWritten, dataLsns>>
           /\ Busy => Busy'
           /\ Busy' => chan # <<>>
  <1>1. UNCHANGED <<chan, cpc, rec, nextLsn, lastWritten, dataLsns>>
    BY DEF QuietStep, CreateFile, CreateHeader, OpenFails, StaysClosed, WriteFails, RotateRename, RotateCreate,
           RotateHeader, RotateFails, CheckpointRecord, CheckpointRecordFails, Cleanup,
           TruncateSegment, TruncateLen, TruncateHeader, HeaderWriteFails, HeaderSyncFails, Drained
  <1>2. CASE CreateFile \/ CreateHeader \/ OpenFails \/ StaysClosed \/ TruncateSegment \/ Drained \/ UNCHANGED vars
    <2>1. wpc' = wpc \/ (wpc = "recv" /\ wpc' = "exiting")
      BY <1>2 DEF CreateFile, CreateHeader, OpenFails, StaysClosed, TruncateSegment, Drained
    <2> QED BY <1>1, <2>1 DEF ChannelInv, Busy
  <1>3. CASE \/ WriteFails \/ RotateRename \/ RotateCreate \/ RotateHeader \/ RotateFails
             \/ CheckpointRecord \/ CheckpointRecordFails \/ Cleanup
             \/ TruncateLen \/ TruncateHeader \/ HeaderWriteFails \/ HeaderSyncFails
    <2>1. wpc' \in {"done", "rotate_create", "rotate_header", "checkpoint_header", "cleanup", "truncate_header"}
      BY <1>3 DEF WriteFails, RotateRename, RotateCreate, RotateHeader, RotateFails, CheckpointRecord,
           CheckpointRecordFails, Cleanup, TruncateLen, TruncateHeader, HeaderWriteFails, HeaderSyncFails,
           HeaderFails, TornWrite, NullWrite, Fails
    <2>2. Busy \/ chan # <<>>
      BY <1>3 DEF WriteFails, RotateRename, RotateCreate, RotateHeader, RotateFails, CheckpointRecord,
           CheckpointRecordFails, Cleanup, TruncateLen, TruncateHeader, HeaderWriteFails, HeaderSyncFails,
           Receives, Busy
    <2> QED BY <1>1, <2>1, <2>2 DEF ChannelInv, Busy
  <1> QED BY <1>2, <1>3 DEF QuietStep

\* Appending the message of a caller that had none.
LEMMA ChannelSend ==
    ASSUME TypeOK, ChannelInv, NEW c \in Clients, NEW kind \in Kinds,
           cpc[c] \in {"idle", "made", "checkpointed", "failed"},
           Send(c, kind, WaitsAs(kind)), UNCHANGED <<rec, wpc>>
    PROVE  ChannelInv'
  <1> DEFINE Msg == [kind : Kinds, from : Clients, rec : Record]
             m == Message(kind, c, rec[c])
  <1>1. chan \in Seq(Msg) /\ m \in Msg
    BY DEF TypeOK, Message
  <1>2. m.kind = kind /\ m.from = c /\ m.rec = rec[c]
    BY DEF Message
  <1>3. \A i \in DOMAIN chan : chan[i].from # c /\ cpc'[chan[i].from] = cpc[chan[i].from]
    <2>1. \A i \in DOMAIN chan : chan[i].from # c
      BY DEF ChannelInv, WaitsAs
    <2>2. \A i \in DOMAIN chan : chan[i].from \in Clients
      <3>1. \A x \in Msg : x.from \in Clients
        OBVIOUS
      <3> HIDE DEF Msg
      <3>2. \A i \in DOMAIN chan : chan[i] \in Msg
        BY <1>1
      <3> QED BY <3>1, <3>2
    <2> QED BY <2>1, <2>2 DEF Send, TypeOK
  <1> HIDE DEF Msg, m
  <1>4. CASE ~Writing
    <2>1. chan' = chan
      BY <1>4 DEF Send
    <2> QED BY <1>3, <2>1 DEF ChannelInv, Busy
  <1>5. CASE Writing
    <2>1. chan' = Append(chan, m) /\ cpc'[c] = WaitsAs(kind)
      BY <1>5 DEF Send, TypeOK, m
    <2>2. /\ DOMAIN chan' = 1 .. Len(chan) + 1 /\ DOMAIN chan = 1 .. Len(chan) /\ Len(chan) \in Nat
          /\ chan' # <<>> /\ chan'[Len(chan) + 1] = m
          /\ \A i \in DOMAIN chan : chan'[i] = chan[i]
      BY <1>1, <2>1, QueueFacts
    <2>3. \A i \in DOMAIN chan' : i \in DOMAIN chan \/ i = Len(chan) + 1
      BY <2>2
    <2>4. \A i \in DOMAIN chan' : cpc'[chan'[i].from] = WaitsAs(chan'[i].kind)
      BY <1>2, <1>3, <2>1, <2>2, <2>3 DEF ChannelInv
    <2>5. \A i \in DOMAIN chan' : chan'[i].kind = "record" => chan'[i].rec = rec'[chan'[i].from]
      BY <1>2, <2>2, <2>3 DEF ChannelInv
    <2>6. \A i, j \in DOMAIN chan' : chan'[i].from = chan'[j].from => i = j
      BY <1>2, <1>3, <2>2, <2>3 DEF ChannelInv
    <2> QED BY <2>2, <2>4, <2>5, <2>6 DEF ChannelInv
  <1> QED BY <1>4, <1>5

\* Taking the head of the queue; at most its sender changes state.
LEMMA ChannelTail ==
    ASSUME TypeOK, ChannelInv, chan # <<>>, chan' = Tail(chan), wpc' = "recv", rec' = rec,
           \A c \in Clients : c # Head(chan).from => cpc'[c] = cpc[c]
    PROVE  ChannelInv'
  <1> DEFINE Msg == [kind : Kinds, from : Clients, rec : Record]
  <1>1. chan \in Seq(Msg)
    BY DEF TypeOK
  <1>2. \A i \in DOMAIN chan : chan[i].from \in Clients
    <2>1. \A x \in Msg : x.from \in Clients
      OBVIOUS
    <2> HIDE DEF Msg
    <2>2. \A i \in DOMAIN chan : chan[i] \in Msg
      BY <1>1
    <2> QED BY <2>1, <2>2
  <1> HIDE DEF Msg
  <1>3. PICK x : x \in Msg
    <2>1. Head(chan) \in Msg
      BY <1>1, HeadTailProperties
    <2> QED BY <2>1
  <1>4. /\ 1 \in DOMAIN chan /\ Head(chan) = chan[1]
        /\ Len(chan) \in Nat /\ DOMAIN chan' = 1 .. Len(chan) - 1
        /\ \A i \in DOMAIN chan' : chan'[i] = chan[i + 1] /\ i + 1 \in DOMAIN chan
    BY <1>1, <1>3, QueueFacts
  <1>5. \A i \in DOMAIN chan' : chan'[i].from # Head(chan).from /\ chan'[i].from \in Clients
    <2>1. \A i \in DOMAIN chan' : i + 1 # 1
      BY <1>4
    <2> QED BY <1>2, <1>4, <2>1 DEF ChannelInv
  <1>6. \A i \in DOMAIN chan' : cpc'[chan'[i].from] = WaitsAs(chan'[i].kind)
    BY <1>4, <1>5 DEF ChannelInv
  <1>7. \A i \in DOMAIN chan' : chan'[i].kind = "record" => chan'[i].rec = rec'[chan'[i].from]
    BY <1>4, <1>5 DEF ChannelInv
  <1>8. ASSUME NEW i \in DOMAIN chan', NEW j \in DOMAIN chan', chan'[i].from = chan'[j].from
        PROVE  i = j
    <2>1. i + 1 = j + 1
      BY <1>4, <1>8 DEF ChannelInv
    <2>2. i \in Nat /\ j \in Nat
      BY <1>4
    <2> QED BY <2>1, <2>2
  <1> QED BY <1>6, <1>7, <1>8 DEF ChannelInv, Busy

\* The queue stays well formed in every step.
LEMMA ChannelStep == TypeOK /\ ChannelInv /\ [Next]_vars => ChannelInv'
  <1> SUFFICES ASSUME TypeOK, ChannelInv, [Next]_vars PROVE ChannelInv'
    OBVIOUS
  <1>1. CASE QuietStep
    BY <1>1, QuietFacts DEF ChannelInv
  <1>2. CASE Open
    BY <1>2 DEF Open, ChannelInv, Busy
  <1>3. ASSUME NEW c \in Clients, Caller(c) PROVE ChannelInv'
    <2>1. ASSUME NEW size \in Sizes, MakeRecord(c, size) PROVE ChannelInv'
      <3>1. /\ cpc[c] = "idle" /\ UNCHANGED <<chan, wpc>>
            /\ \A d \in Clients : d # c => cpc'[d] = cpc[d] /\ rec'[d] = rec[d]
        BY <2>1 DEF MakeRecord, TypeOK
      <3>2. \A i \in DOMAIN chan : chan[i].from # c /\ chan[i].from \in Clients
        <4> DEFINE Msg == [kind : Kinds, from : Clients, rec : Record]
        <4>1. \A x \in Msg : x.from \in Clients
          OBVIOUS
        <4>2. chan \in Seq(Msg)
          BY DEF TypeOK
        <4> HIDE DEF Msg
        <4>3. \A i \in DOMAIN chan : chan[i].from \in Clients
          BY <4>1, <4>2
        <4> QED BY <3>1, <4>3 DEF ChannelInv, WaitsAs
      <3> QED BY <3>1, <3>2 DEF ChannelInv, Busy
    <2>2. CASE SendRecord(c)
      BY <2>2, ChannelSend DEF SendRecord, WaitsAs, Kinds
    <2>3. CASE SendCheckpoint(c)
      BY <2>3, ChannelSend DEF SendCheckpoint, WaitsAs, Kinds
    <2>4. CASE SendTruncate(c)
      BY <2>4, ChannelSend DEF SendTruncate, WaitsAs, Kinds
    <2>5. CASE SendShutdown(c)
      BY <2>5, ChannelSend DEF SendShutdown, WaitsAs, Kinds
    <2> QED BY <1>3, <2>1, <2>2, <2>3, <2>4, <2>5 DEF Caller
  <1>4. CASE WriteRecord \/ CheckpointHeader
    <2>1. UNCHANGED <<chan, cpc, rec>> /\ chan # <<>>
      BY <1>4 DEF WriteRecord, CheckpointHeader, Receives, ChannelInv, Busy
    <2> QED BY <2>1 DEF ChannelInv
  <1>5. CASE Acknowledge
    <2>1. chan # <<>>
      BY <1>5 DEF Acknowledge, ChannelInv, Busy
    <2>2. /\ chan' = Tail(chan) /\ wpc' = "recv" /\ rec' = rec
          /\ cpc' = [cpc EXCEPT ![Head(chan).from] = AfterAck(Head(chan).kind, result = "Ok")]
      BY <1>5 DEF Acknowledge
    <2>3. \A c \in Clients : c # Head(chan).from => cpc'[c] = cpc[c]
      BY <2>2 DEF TypeOK
    <2> QED BY <2>1, <2>2, <2>3, ChannelTail
  <1>6. CASE ReceiveShutdown
    BY <1>6, ChannelTail DEF ReceiveShutdown, Receives
  <1>7. CASE Exit
    BY <1>7 DEF Exit, ChannelInv, Busy
  <1>8. CASE Crash
    BY <1>8 DEF Crash, ChannelInv, Busy
  <1> QED BY <1>1, <1>2, <1>3, <1>4, <1>5, <1>6, <1>7, <1>8 DEF Next, Opening, WriterStep, QuietStep

-----------------------------------------------------------------------------
(* Preservation of the LSN invariant. *)

\* While the writer handles a record its sender is pending, and it is the only
\* message of that sender.
LEMMA HeadIsPending ==
    ASSUME TypeOK, ChannelInv, chan # <<>>, Head(chan).kind = "record"
    PROVE  /\ Head(chan).from \in Pending
           /\ Head(chan).rec = rec[Head(chan).from]
  <1> DEFINE Msg == [kind : Kinds, from : Clients, rec : Record]
  <1>1. chan \in Seq(Msg)
    BY DEF TypeOK
  <1>2. Head(chan).from \in Clients
    BY HeadRecordType
  <1> HIDE DEF Msg
  <1>3. 1 \in DOMAIN chan /\ Head(chan) = chan[1]
    <2>1. Head(chan) \in Msg
      BY <1>1, HeadTailProperties
    <2> QED BY <1>1, <2>1, QueueFacts
  <1> QED BY <1>2, <1>3 DEF ChannelInv, Pending, WaitsAs

\* A step that leaves the counters alone, adds nobody to the pending callers
\* and keeps the message in progress.
LEMMA LsnKept ==
    ASSUME LsnInv, UNCHANGED <<nextLsn, lastWritten, dataLsns, rec>>, Pending' \subseteq Pending,
           \A c \in Pending' : Busy /\ Head(chan).from = c => Busy' /\ Head(chan)'.from = c
    PROVE  LsnInv'
  BY DEF LsnInv

\* The LSN a pending caller holds is a number.
LEMMA PendingType == TypeOK => \A c \in Pending : rec[c].lsn \in Nat
  BY DEF TypeOK, Pending, Record

\* The LSNs handed out, written and checkpointed keep their order in every step.
LEMMA LsnStep == Inv /\ [Next]_vars => LsnInv'
  <1> SUFFICES ASSUME TypeOK, ChannelInv, LsnInv, [Next]_vars PROVE LsnInv'
    BY DEF Inv
  <1>1. CASE QuietStep
    <2>1. Pending' = Pending /\ chan' = chan
      BY <1>1, QuietFacts DEF Pending
    <2> QED BY <1>1, <2>1, QuietFacts, LsnKept
  <1>2. CASE Open
    <2>1. Pending' = {}
      BY <1>2 DEF Open, Pending
    <2>2. lastWritten' = wal.cur /\ nextLsn' = wal.cur /\ wal.cur \in Nat /\ dataLsns' = {}
      BY <1>2 DEF Open, TypeOK
    <2> QED BY <2>1, <2>2 DEF LsnInv
  <1>3. ASSUME NEW c \in Clients, NEW size \in Sizes, MakeRecord(c, size) PROVE LsnInv'
    <2>1. /\ nextLsn' = nextLsn + 1 /\ UNCHANGED <<lastWritten, dataLsns, chan, wpc>>
          /\ Pending' = Pending \cup {c} /\ c \notin Pending
      BY <1>3 DEF MakeRecord, TypeOK, Pending
    <2>2. rec'[c].lsn = nextLsn /\ \A d \in Pending : rec'[d] = rec[d]
      <3>1. rec'[c] = [uid |-> made + 1, lsn |-> nextLsn, size |-> size]
        BY <1>3 DEF MakeRecord, TypeOK
      <3>2. \A d \in Clients : d # c => rec'[d] = rec[d]
        BY <1>3 DEF MakeRecord, TypeOK
      <3> QED BY <2>1, <3>1, <3>2 DEF Pending
    <2>3. nextLsn \in Nat /\ lastWritten \in Nat /\ dataLsns \subseteq Nat
      BY DEF TypeOK
    <2>4. \A d \in Pending' : rec'[d].lsn < nextLsn'
      BY <2>1, <2>2, <2>3, PendingType DEF LsnInv
    <2>5. \A d, e \in Pending' : rec'[d].lsn = rec'[e].lsn => d = e
      BY <2>1, <2>2, <2>3, PendingType DEF LsnInv
    <2>6. nextLsn \notin dataLsns
      BY <2>3 DEF LsnInv
    <2>7. \A d \in Pending' : rec'[d].lsn \in dataLsns' => Busy' /\ Head(chan)'.from = d
      BY <2>1, <2>2, <2>6 DEF LsnInv, Busy
    <2>8. lastWritten' <= nextLsn' /\ \A l \in dataLsns' : l < lastWritten'
      BY <2>1, <2>3 DEF LsnInv
    <2> QED BY <2>4, <2>5, <2>7, <2>8 DEF LsnInv
  <1>4. ASSUME NEW c \in Clients, SendRecord(c) \/ SendCheckpoint(c) \/ SendTruncate(c) \/ SendShutdown(c)
        PROVE  LsnInv'
    <2>1. PICK kind \in Kinds, waiting \in CallerStates :
              /\ Send(c, kind, waiting)
              /\ waiting \in {"made", "logging"} => c \in Pending
      <3>1. CASE SendRecord(c)
        BY <3>1 DEF SendRecord, Kinds, CallerStates, Pending
      <3>2. CASE SendCheckpoint(c)
        BY <3>2 DEF SendCheckpoint, Kinds, CallerStates
      <3>3. CASE SendTruncate(c)
        BY <3>3 DEF SendTruncate, Kinds, CallerStates
      <3>4. CASE SendShutdown(c)
        BY <3>4 DEF SendShutdown, Kinds, CallerStates
      <3> QED BY <1>4, <3>1, <3>2, <3>3, <3>4
    <2>2. UNCHANGED <<nextLsn, lastWritten, dataLsns, rec, wpc>>
      BY <1>4 DEF SendRecord, SendCheckpoint, SendTruncate, SendShutdown
    <2>3. Pending' \subseteq Pending
      BY <2>1 DEF Send, TypeOK, Pending
    <2>4. Busy => Busy' /\ Head(chan)' = Head(chan)
      <3> DEFINE Msg == [kind : Kinds, from : Clients, rec : Record]
      <3>1. chan \in Seq(Msg) /\ Message(kind, c, rec[c]) \in Msg
        BY DEF TypeOK, Message
      <3> HIDE DEF Msg
      <3>2. chan # <<>> => Head(Append(chan, Message(kind, c, rec[c]))) = Head(chan)
        BY <3>1, QueueFacts
      <3> QED BY <2>1, <2>2, <3>2 DEF Send, ChannelInv, Busy
    <2> QED BY <2>2, <2>3, <2>4, LsnKept
  <1>5. CASE WriteRecord
    <2> DEFINE r == Head(chan).rec
               w == Head(chan).from
    <2>1. /\ lastWritten' = Larger(lastWritten, r.lsn + 1)
          /\ dataLsns' = dataLsns \cup {r.lsn}
      BY <1>5 DEF WriteRecord, PastLsn
    <2>2. UNCHANGED <<nextLsn, chan, cpc, rec>>
      BY <1>5 DEF WriteRecord
    <2>3. wpc' \in {"rotate", "done"} /\ ~Busy
      BY <1>5 DEF WriteRecord, Receives, Busy
    <2>4. chan # <<>> /\ Head(chan).kind = "record"
      BY <1>5 DEF WriteRecord, Receives
    <2>5. w \in Pending /\ r = rec[w]
      BY <2>4, HeadIsPending
    <2>6. Head(chan)'.from = w
      BY <2>2
    <2> HIDE DEF r, w
    <2>7. nextLsn \in Nat /\ lastWritten \in Nat /\ dataLsns \subseteq Nat /\ r.lsn \in Nat /\ r.lsn < nextLsn
      BY <2>5, PendingType DEF TypeOK, LsnInv
    <2>8. lastWritten' \in Nat /\ lastWritten' >= lastWritten /\ lastWritten' >= r.lsn + 1 /\ lastWritten' <= nextLsn'
      BY <2>1, <2>2, <2>7 DEF LsnInv, Larger
    <2>9. \A l \in dataLsns' : l < lastWritten'
      BY <2>1, <2>7, <2>8 DEF LsnInv
    <2>10. Pending' = Pending /\ rec' = rec /\ nextLsn' = nextLsn
      BY <2>2 DEF Pending
    <2>11. \A c \in Pending : rec[c].lsn \in dataLsns' => c = w
      BY <2>1, <2>3, <2>5 DEF LsnInv
    <2>12. Busy'
      BY <2>3 DEF Busy
    <2> QED BY <2>6, <2>8, <2>9, <2>10, <2>11, <2>12 DEF LsnInv
  <1>6. CASE CheckpointHeader
    <2>1. /\ nextLsn' = Larger(nextLsn, lastWritten + 1)
          /\ UNCHANGED <<lastWritten, dataLsns, chan, cpc, rec>>
      BY <1>6 DEF CheckpointHeader, NextLsnAfterCheckpoint
    <2>2. Busy'
      BY <1>6 DEF CheckpointHeader, Busy
    <2>3. nextLsn \in Nat /\ lastWritten \in Nat
      BY DEF TypeOK
    <2>4. nextLsn' \in Nat /\ nextLsn' >= nextLsn /\ lastWritten' <= nextLsn'
      BY <2>1, <2>3 DEF Larger
    <2>5. Pending' = Pending
      BY <2>1 DEF Pending
    <2>6. \A c \in Pending : rec[c].lsn < nextLsn'
      BY <2>3, <2>4, PendingType DEF LsnInv
    <2> QED BY <2>1, <2>2, <2>4, <2>5, <2>6 DEF LsnInv
  <1>7. CASE Acknowledge
    <2>1. cpc' = [cpc EXCEPT ![Head(chan).from] = AfterAck(Head(chan).kind, result = "Ok")]
      BY <1>7 DEF Acknowledge
    <2>2. AfterAck(Head(chan).kind, result = "Ok") \notin {"made", "logging"}
      BY DEF AfterAck
    <2>3. UNCHANGED <<nextLsn, lastWritten, dataLsns, rec>>
      BY <1>7 DEF Acknowledge
    <2>4. Pending' \subseteq Pending /\ \A c \in Pending' : Head(chan).from # c
      BY <2>1, <2>2 DEF TypeOK, Pending
    <2> QED BY <2>3, <2>4, LsnKept
  <1>8. CASE ReceiveShutdown
    <2>1. UNCHANGED <<nextLsn, lastWritten, dataLsns, rec, cpc>> /\ ~Busy
      BY <1>8 DEF ReceiveShutdown, Receives, Busy
    <2> QED BY <2>1, LsnKept DEF Pending
  <1>9. CASE Exit
    <2>1. UNCHANGED <<nextLsn, lastWritten, dataLsns, rec>> /\ ~Busy
      BY <1>9 DEF Exit, Busy
    <2>2. Pending' \subseteq Pending
      BY <1>9 DEF Exit, Pending
    <2> QED BY <2>1, <2>2, LsnKept
  <1>10. CASE Crash
    <2>1. UNCHANGED <<nextLsn, lastWritten, dataLsns, rec>>
      BY <1>10 DEF Crash
    <2>2. Pending' = {}
      BY <1>10 DEF Crash, Pending
    <2> QED BY <2>1, <2>2, LsnKept
  <1> QED BY <1>1, <1>2, <1>3, <1>4, <1>5, <1>6, <1>7, <1>8, <1>9, <1>10
          DEF Next, Opening, WriterStep, QuietStep, Caller

-----------------------------------------------------------------------------
(* The results. *)

\* The inductive invariant holds before the first open.
LEMMA InvInit == Init => Inv
  <1> SUFFICES ASSUME Init PROVE Inv
    OBVIOUS
  <1>1. ChannelInv
    BY DEF Init, ChannelInv, Busy
  <1>2. LsnInv
    <2>1. Pending = {}
      BY DEF Init, Pending
    <2> QED BY <2>1 DEF Init, LsnInv
  <1> QED BY <1>1, <1>2, TypeInit DEF Inv

\* The inductive invariant holds in every state: types, a well-formed queue, and
\* last_written_lsn between the LSNs written and next_lsn.
THEOREM Invariance == Spec => []Inv
  <1>1. Inv /\ [Next]_vars => Inv'
    BY TypeStep, ChannelStep, LsnStep DEF Inv
  <1> QED BY <1>1, InvInit, PTL DEF Spec

\* The files, counters, queue and caller states are well typed in every state.
THEOREM TypeCorrect == Spec => []TypeOK
  BY Invariance, PTL DEF Inv

\* The record the writer is about to write has an LSN that no data record of the session
\* had: make_record's fetch_add and the fetch_max of do_checkpoint never hand out
\* one twice, for any number of callers and however their sends interleave.
THEOREM NoDataLsnReuse == Spec => []DataLsnNeverReused
  <1>1. Inv => DataLsnNeverReused
    <2> SUFFICES ASSUME Inv, Receives("record") PROVE Head(chan).rec.lsn \notin dataLsns
      BY DEF DataLsnNeverReused
    <2>1. Head(chan).from \in Pending /\ Head(chan).rec = rec[Head(chan).from] /\ ~Busy
      BY HeadIsPending DEF Inv, Receives, Busy
    <2> QED BY <2>1 DEF Inv, LsnInv
  <1> QED BY <1>1, Invariance, PTL

\* The LSN do_checkpoint puts in the header is above that of every record written in
\* the session, so the header never leaves a flushed record to be replayed.
THEOREM CheckpointCovers == Spec => CheckpointAboveWritten
  <1>1. Inv /\ [Next]_vars => [CheckpointHeader => \A l \in dataLsns : l < wal'.ckpt]_vars
    <2> SUFFICES ASSUME Inv, CheckpointHeader, NEW l \in dataLsns PROVE l < wal'.ckpt
      OBVIOUS
    <2>1. wal'.ckpt = lastWritten
      BY DEF CheckpointHeader, CheckpointHeaderOf, Inv, TypeOK
    <2> QED BY <2>1 DEF Inv, LsnInv
  <1> QED BY <1>1, Invariance, PTL DEF Spec, CheckpointAboveWritten

-----------------------------------------------------------------------------
(* What is on disk when a record is acknowledged. *)

\* The message in progress is of the kind that the writer's place belongs to, the writer
\* runs only while the database is open, and no record waiting to be written is empty.
PlaceInv ==
    /\ phase \in {"closed", "creating"} => wpc = "exit"
    /\ wpc \in {"rotate", "rotate_create", "rotate_header"} => Head(chan).kind = "record"
    /\ wpc \in {"checkpoint_header", "cleanup"} => Head(chan).kind = "checkpoint"
    /\ wpc = "truncate_header" => Head(chan).kind = "truncate"
    /\ \A c \in Pending : rec[c].size > 0

\* Where the record in progress is: in the active file, in a segment once the file was
\* renamed, and in either when the caller is about to be told; unless that file has
\* lost its header.
InSegment(u) == \E i \in DOMAIN segs : Holds(segs[i].body, u)
BadSegment == \E i \in DOMAIN segs : segs[i].st # "ok"

WrittenInv ==
    /\ wpc = "rotate" => Holds(wal.body, Head(chan).rec.uid) \/ wal.st = "bad"
    /\ wpc \in {"rotate_create", "rotate_header"} => InSegment(Head(chan).rec.uid) \/ BadSegment
    /\ wpc = "done" /\ result = "Ok" /\ Head(chan).kind = "record" =>
          OnDisk(Head(chan).rec.uid) \/ ~Readable

DiskInv == Inv /\ PlaceInv /\ WrittenInv

\* A record written at an offset of a body can be read there, whatever lies around it.
LEMMA WrittenIsHeld ==
    ASSUME NEW body \in Seq(Cell), NEW at \in Nat, NEW r \in Record, r.size > 0
    PROVE  Holds(Overwrite(body, at, Encode(r)), r.uid)
  <1> DEFINE b == Overwrite(body, at, Encode(r))
             n == Larger(Len(body), at + r.size)
  <1>1. Len(body) \in Nat /\ r.size \in Nat /\ Len(Encode(r)) = r.size
    BY EncodeType DEF Record
  <1>2. n \in Nat /\ at + r.size <= n
    BY <1>1 DEF Larger
  <1>3. DOMAIN b = 1 .. n
    BY <1>1 DEF Overwrite
  <1>4. Len(b) = n
    BY <1>2, <1>3, EncodeType, OverwriteType, LenProperties
  <1>5. ASSUME NEW i \in 1 .. r.size PROVE b[at + i] = [rec |-> r, part |-> i]
    <2>1. at + i \in 1 .. n /\ at + i \in at + 1 .. at + Len(Encode(r)) /\ (at + i) - at = i
      BY <1>1, <1>2
    <2>2. b[at + i] = Encode(r)[i]
      BY <1>1, <2>1 DEF Overwrite
    <2> QED BY <2>2 DEF Encode
  <1> HIDE DEF b, n
  <1>6. 1 \in 1 .. r.size /\ at + 1 \in DOMAIN b /\ (at + 1) - 1 = at /\ at < Len(b)
    BY <1>1, <1>2, <1>3, <1>4
  <1>7. b[at + 1].rec = r /\ b[at + 1].part = 1
    <2>1. b[at + 1] = [rec |-> r, part |-> 1]
      BY <1>5, <1>6
    <2> QED BY <2>1
  <1>8. RecordAt(b, at)
    BY <1>2, <1>4, <1>5, <1>6, <1>7 DEF RecordAt
  <1>9. Holds(b, r.uid)
    BY <1>6, <1>7, <1>8 DEF Holds
  <1> QED BY <1>9 DEF b

\* A sender appends behind the message in progress.
LEMMA HeadStays ==
    ASSUME TypeOK, ChannelInv, NEW c \in Clients, NEW kind \in Kinds, NEW waiting,
           Send(c, kind, waiting), Busy
    PROVE  Head(chan)' = Head(chan)
  <1> DEFINE Msg == [kind : Kinds, from : Clients, rec : Record]
             m == Message(kind, c, rec[c])
  <1>1. chan \in Seq(Msg) /\ m \in Msg /\ chan # <<>>
    BY DEF TypeOK, Message, ChannelInv
  <1>2. chan' = chan \/ chan' = Append(chan, m)
    BY DEF Send
  <1> HIDE DEF Msg, m
  <1> QED BY <1>1, <1>2, QueueFacts

\* The place of the writer and the message in progress belong together in every step.
LEMMA PlaceStep == Inv /\ PlaceInv /\ [Next]_vars => PlaceInv'
  <1> SUFFICES ASSUME TypeOK, ChannelInv, PlaceInv, [Next]_vars PROVE PlaceInv'
    BY DEF Inv
  <1> USE DEF PlaceInv
  <1>1. CASE QuietStep
    <2>1. UNCHANGED <<chan, cpc, rec>> /\ Pending' = Pending
      BY <1>1, QuietFacts DEF Pending
    <2>2. phase' \in {"closed", "creating"} => wpc' = "exit"
      BY <1>1 DEF QuietStep, CreateFile, CreateHeader, OpenFails, StaysClosed, WriteFails, RotateRename, RotateCreate,
           RotateHeader, RotateFails, CheckpointRecord, CheckpointRecordFails, Cleanup,
           TruncateSegment, TruncateLen, TruncateHeader, HeaderWriteFails, HeaderSyncFails, Drained, Receives
    <2>3. /\ wpc' \in {"rotate", "rotate_create", "rotate_header"} => Head(chan).kind = "record"
          /\ wpc' \in {"checkpoint_header", "cleanup"} => Head(chan).kind = "checkpoint"
          /\ wpc' = "truncate_header" => Head(chan).kind = "truncate"
      BY <1>1 DEF QuietStep, CreateFile, CreateHeader, OpenFails, StaysClosed, WriteFails, RotateRename, RotateCreate,
           RotateHeader, RotateFails, CheckpointRecord, CheckpointRecordFails, Cleanup,
           TruncateSegment, TruncateLen, TruncateHeader, HeaderWriteFails, HeaderSyncFails, Drained, Receives,
           HeaderFails, TornWrite, NullWrite, Fails
    <2> QED BY <2>1, <2>2, <2>3
  <1>2. CASE Open
    <2>1. Pending' = {} /\ wpc' = "recv" /\ phase' \in {"up", "recovering"}
      BY <1>2 DEF Open, Pending
    <2> QED BY <2>1
  <1>3. ASSUME NEW c \in Clients, NEW size \in Sizes, MakeRecord(c, size) PROVE PlaceInv'
    <2>1. UNCHANGED <<chan, wpc, phase>> /\ Pending' = Pending \cup {c}
      BY <1>3 DEF MakeRecord, TypeOK, Pending
    <2>2. rec'[c].size = size /\ size > 0 /\ \A d \in Clients : d # c => rec'[d] = rec[d]
      BY <1>3, SizesAssumption DEF MakeRecord, TypeOK
    <2>3. Pending \subseteq Clients
      BY DEF Pending
    <2> QED BY <2>1, <2>2, <2>3
  <1>4. ASSUME NEW c \in Clients, SendRecord(c) \/ SendCheckpoint(c) \/ SendTruncate(c) \/ SendShutdown(c)
        PROVE  PlaceInv'
    <2>1. PICK kind \in Kinds, waiting \in CallerStates :
              /\ Send(c, kind, waiting)
              /\ waiting \in {"made", "logging"} => c \in Pending
      <3>1. CASE SendRecord(c)
        BY <3>1 DEF SendRecord, Kinds, CallerStates, Pending
      <3>2. CASE SendCheckpoint(c)
        BY <3>2 DEF SendCheckpoint, Kinds, CallerStates
      <3>3. CASE SendTruncate(c)
        BY <3>3 DEF SendTruncate, Kinds, CallerStates
      <3>4. CASE SendShutdown(c)
        BY <3>4 DEF SendShutdown, Kinds, CallerStates
      <3> QED BY <1>4, <3>1, <3>2, <3>3, <3>4
    <2>2. UNCHANGED <<rec, wpc, phase>>
      BY <1>4 DEF SendRecord, SendCheckpoint, SendTruncate, SendShutdown
    <2>3. Pending' \subseteq Pending
      BY <2>1 DEF Send, TypeOK, Pending
    <2>4. Busy => Head(chan)' = Head(chan)
      BY <2>1, HeadStays
    <2> QED BY <2>2, <2>3, <2>4 DEF Busy
  <1>5. CASE WriteRecord
    <2>1. UNCHANGED <<chan, cpc, rec, phase>> /\ wpc = "recv" /\ Head(chan).kind = "record"
          /\ wpc' \in {"rotate", "done"}
      BY <1>5 DEF WriteRecord, Receives
    <2> QED BY <2>1 DEF Pending
  <1>6. CASE CheckpointHeader
    <2>1. UNCHANGED <<chan, cpc, rec, phase>> /\ wpc = "checkpoint_header" /\ wpc' \in {"cleanup", "done"}
      BY <1>6 DEF CheckpointHeader
    <2> QED BY <2>1 DEF Pending
  <1>7. CASE Acknowledge
    <2>1. /\ wpc = "done" /\ wpc' = "recv" /\ rec' = rec /\ phase' \in {phase, "up"}
          /\ cpc' = [cpc EXCEPT ![Head(chan).from] = AfterAck(Head(chan).kind, result = "Ok")]
      BY <1>7 DEF Acknowledge
    <2>2. AfterAck(Head(chan).kind, result = "Ok") \notin {"made", "logging"}
      BY DEF AfterAck
    <2>3. Pending' \subseteq Pending
      BY <2>1, <2>2 DEF TypeOK, Pending
    <2> QED BY <2>1, <2>3
  <1>8. CASE ReceiveShutdown
    BY <1>8 DEF ReceiveShutdown, Receives, Pending
  <1>9. CASE Exit
    <2>1. Pending' \subseteq Pending /\ rec' = rec /\ wpc' = "exit"
      BY <1>9 DEF Exit, Pending
    <2> QED BY <2>1
  <1>10. CASE Crash
    <2>1. Pending' = {} /\ wpc' = "exit"
      BY <1>10 DEF Crash, Pending
    <2> QED BY <2>1
  <1> QED BY <1>1, <1>2, <1>3, <1>4, <1>5, <1>6, <1>7, <1>8, <1>9, <1>10
          DEF Next, Opening, WriterStep, QuietStep, Caller

\* The record in progress stays where it is until its caller is told.
LEMMA WrittenStep == DiskInv /\ [Next]_vars => WrittenInv'
  <1> SUFFICES ASSUME DiskInv, [Next]_vars PROVE WrittenInv'
    OBVIOUS
  <1>i. TypeOK /\ ChannelInv /\ PlaceInv /\ WrittenInv
    BY DEF DiskInv, Inv
  <1> USE DEF WrittenInv
  <1>1. CASE CreateFile \/ CreateHeader \/ Open
    <2>1. wpc = "exit"
      BY <1>1, <1>i DEF CreateFile, CreateHeader, Open, PlaceInv
    <2>2. wpc' \in {"exit", "recv"}
      BY <1>1, <2>1 DEF CreateFile, CreateHeader, Open
    <2> QED BY <2>2
  <1>2. CASE OpenFails \/ StaysClosed \/ UNCHANGED vars
    <2>1. UNCHANGED <<wpc, wal, segs, chan, result>>
      BY <1>2 DEF OpenFails, StaysClosed
    <2> QED BY <1>i, <2>1 DEF OnDisk, InSegment, BadSegment, Readable
  <1>3. ASSUME NEW c \in Clients, Caller(c) PROVE WrittenInv'
    <2>1. UNCHANGED <<wpc, wal, segs, result>>
      BY <1>3 DEF Caller, MakeRecord, SendRecord, SendCheckpoint, SendTruncate, SendShutdown
    <2>2. Busy => Head(chan)' = Head(chan)
      <3>1. ASSUME NEW size, MakeRecord(c, size) PROVE chan' = chan
        BY <3>1 DEF MakeRecord
      <3>2. ASSUME NEW kind \in Kinds, NEW waiting, Send(c, kind, waiting), Busy PROVE Head(chan)' = Head(chan)
        BY <1>i, <3>2, HeadStays
      <3> QED BY <1>3, <3>1, <3>2 DEF Caller, SendRecord, SendCheckpoint, SendTruncate, SendShutdown, Kinds
    <2> QED BY <1>i, <2>1, <2>2 DEF OnDisk, InSegment, BadSegment, Readable, Busy
  <1>4. CASE WriteRecord
    <2> DEFINE r == Head(chan).rec
    <2>1. /\ wpc' \in {"rotate", "done"} /\ chan' = chan /\ chan # <<>> /\ Head(chan).kind = "record"
          /\ wal' = Put(wal, Encode(r))
      BY <1>4 DEF WriteRecord, Receives
    <2>0. CASE handle = "header"
      <3>1. wal'.st = "bad"
        BY <1>i, <2>0, <2>1 DEF Put, TypeOK
      <3> QED BY <2>1, <3>1 DEF Readable
    <2> SUFFICES ASSUME handle # "header" PROVE WrittenInv'
      BY <2>0
    <2>2. wal'.body = Overwrite(wal.body, cursor, Encode(r)) /\ wal.body \in Seq(Cell) /\ cursor \in Nat
      BY <1>i, <2>1 DEF TypeOK, Put
    <2>3. r \in Record /\ r.size > 0
      BY <1>i, <2>1, HeadIsPending, HeadRecordType DEF PlaceInv
    <2> HIDE DEF r
    <2>4. Holds(wal'.body, r.uid)
      BY <2>2, <2>3, WrittenIsHeld
    <2> QED BY <2>1, <2>4 DEF OnDisk, r
  <1>5. CASE RotateRename
    <2>1. /\ wpc = "rotate" /\ wpc' = "rotate_create" /\ chan' = chan
          /\ nextSegId \in DOMAIN segs' /\ segs'[nextSegId].body = wal.body /\ segs'[nextSegId].st = wal.st
      BY <1>5 DEF RotateRename
    <2>2. Holds(segs'[nextSegId].body, Head(chan).rec.uid) \/ segs'[nextSegId].st = "bad"
      BY <1>i, <2>1
    <2> QED BY <2>1, <2>2 DEF InSegment, BadSegment
  <1>6. CASE RotateCreate \/ RotateHeader
    <2>1. /\ wpc \in {"rotate_create", "rotate_header"} /\ wpc' \in {"rotate_header", "done"}
          /\ UNCHANGED <<chan, segs>>
      BY <1>6 DEF RotateCreate, RotateHeader
    <2> QED BY <1>i, <2>1 DEF InSegment, OnDisk, BadSegment, Readable
  <1>7. CASE WriteFails \/ RotateFails \/ CheckpointRecordFails \/ HeaderWriteFails \/ HeaderSyncFails
    <2>1. wpc' = "done" /\ result' = "Err"
      BY <1>7 DEF WriteFails, RotateFails, CheckpointRecordFails, HeaderWriteFails, HeaderSyncFails,
                  HeaderFails, TornWrite, NullWrite, Fails
    <2> QED BY <2>1
  <1>8. CASE CheckpointRecord \/ TruncateSegment \/ ReceiveShutdown
    <2>1. wpc' \in {"recv", "checkpoint_header"}
      BY <1>8 DEF CheckpointRecord, TruncateSegment, ReceiveShutdown, Receives
    <2> QED BY <2>1
  <1>9. CASE CheckpointHeader \/ Cleanup \/ TruncateHeader \/ TruncateLen
    <2>1. chan' = chan /\ Head(chan).kind # "record" /\ wpc' \in {"done", "cleanup", "truncate_header"}
      BY <1>9, <1>i DEF CheckpointHeader, Cleanup, TruncateHeader, TruncateLen, Receives, PlaceInv, Fails
    <2> QED BY <2>1
  <1>10. CASE Acknowledge \/ Drained \/ Exit \/ Crash
    <2>1. wpc' \in {"recv", "exiting", "exit"}
      BY <1>10 DEF Acknowledge, Drained, Exit, Crash
    <2> QED BY <2>1
  <1> QED BY <1>1, <1>2, <1>3, <1>4, <1>5, <1>6, <1>7, <1>8, <1>9, <1>10 DEF Next, Opening, WriterStep

\* The inductive invariant of the files: whatever the writer is doing, the record in
\* progress is in the file where its step has put it.
THEOREM DiskInvariance == Spec => []DiskInv
  <1>1. Init => DiskInv
    <2> SUFFICES ASSUME Init PROVE DiskInv
      OBVIOUS
    <2>1. PlaceInv /\ WrittenInv
      BY DEF Init, PlaceInv, WrittenInv, Pending
    <2> QED BY <2>1, InvInit DEF DiskInv
  <1>2. DiskInv /\ [Next]_vars => DiskInv'
    BY TypeStep, ChannelStep, LsnStep, PlaceStep, WrittenStep DEF DiskInv, Inv
  <1> QED BY <1>1, <1>2, PTL DEF Spec

\* send_record returns Ok only when all cells of the record are in the active file or in
\* a segment, also when the write was followed by a rotation; or when a file of the log
\* has lost its header, which a failed header write and the next record can do.
THEOREM AckMeansOnDisk == Spec => AckedIsOnDisk
  <1>1. DiskInv /\ [Next]_vars => [\A u \in acked' \ acked : OnDisk(u) \/ ~Readable]_vars
    <2> SUFFICES ASSUME DiskInv, [Next]_vars, NEW u \in acked' \ acked PROVE OnDisk(u) \/ ~Readable
      OBVIOUS
    <2>1. Acknowledge
      BY DEF Next, Opening, CreateFile, CreateHeader, Open, OpenFails, StaysClosed, Caller, MakeRecord, SendRecord,
             SendCheckpoint, SendTruncate, SendShutdown, WriterStep, WriteRecord, WriteFails, RotateRename,
             RotateCreate, RotateHeader, RotateFails, CheckpointRecord, CheckpointRecordFails,
             CheckpointHeader, Cleanup, TruncateSegment, TruncateLen, TruncateHeader,
             HeaderWriteFails, HeaderSyncFails, ReceiveShutdown, Drained, Exit, Crash
    <2> QED BY <2>1 DEF Acknowledge, DiskInv, WrittenInv
  <1> QED BY <1>1, DiskInvariance, PTL DEF Spec, AckedIsOnDisk
-----------------------------------------------------------------------------
(* The LSNs of checkpoint records, when the callers are serialised and no header *)
(* fails: VectorDb logs and flushes under its write lock.                         *)

OneCaller == \A c, d \in Clients : c = d
HeadersWritten == Faults \cap {"header", "fsync"} = {}

\* A checkpoint record has an LSN below next_lsn as soon as do_checkpoint is through,
\* and nobody holds a record with that LSN meanwhile.
CkptLsnInv ==
    phase \in {"recovering", "up"} =>
        \A l \in ckptLsns :
            /\ l < nextLsn \/ (wpc = "checkpoint_header" /\ l = lastWritten)
            /\ \A c \in Pending : rec[c].lsn # l

\* While a message is in progress its sender, the only caller, waits.
LEMMA SenderWaits ==
    ASSUME TypeOK, ChannelInv, OneCaller, chan # <<>>, NEW c \in Clients
    PROVE  cpc[c] = WaitsAs(Head(chan).kind)
  <1> DEFINE Msg == [kind : Kinds, from : Clients, rec : Record]
  <1>1. chan \in Seq(Msg)
    BY DEF TypeOK
  <1>2. Head(chan).from \in Clients
    BY HeadRecordType
  <1> HIDE DEF Msg
  <1>3. 1 \in DOMAIN chan /\ Head(chan) = chan[1]
    <2>1. Head(chan) \in Msg
      BY <1>1, HeadTailProperties
    <2> QED BY <1>1, <2>1, QueueFacts
  <1>4. Head(chan).from = c
    BY <1>2 DEF OneCaller
  <1> QED BY <1>3, <1>4 DEF ChannelInv

\* A step that leaves LSNs and records alone, adds nobody to the pending callers and
\* does not leave do_checkpoint half done.
LEMMA CkptLsnKept ==
    ASSUME CkptLsnInv, UNCHANGED <<nextLsn, lastWritten, ckptLsns, rec>>, Pending' \subseteq Pending,
           phase' \in {"recovering", "up"} => phase \in {"recovering", "up"},
           wpc # "checkpoint_header" \/ wpc' = wpc
    PROVE  CkptLsnInv'
  BY DEF CkptLsnInv

\* Every step keeps the checkpoint records' LSNs apart from those to come.
LEMMA CkptLsnStep ==
    ASSUME OneCaller, HeadersWritten, DiskInv, CkptLsnInv, [Next]_vars
    PROVE  CkptLsnInv'
  <1>0. /\ TypeOK /\ ChannelInv /\ LsnInv /\ PlaceInv
        /\ nextLsn \in Nat /\ lastWritten \in Nat /\ ckptLsns \subseteq Nat
    BY DEF DiskInv, Inv, TypeOK
  <1>1. CASE QuietStep /\ ~CheckpointRecord
    <2>1. UNCHANGED <<nextLsn, lastWritten, rec, cpc>>
      BY <1>0, <1>1, QuietFacts
    <2>2. /\ ckptLsns' = ckptLsns
          /\ phase' \in {"recovering", "up"} => phase' = phase
          /\ wpc # "checkpoint_header" \/ wpc' = wpc
      <3>1. ~MayFail("header") /\ ~MayFail("fsync")
        BY DEF HeadersWritten, MayFail
      <3> QED BY <1>1, <3>1
              DEF QuietStep, CreateFile, CreateHeader, OpenFails, StaysClosed, WriteFails, RotateRename,
                  RotateCreate, RotateHeader, RotateFails, CheckpointRecordFails, Cleanup, TruncateSegment,
                  TruncateLen, TruncateHeader, HeaderWriteFails, HeaderFails, HeaderSyncFails, Drained, Receives
    <2> QED BY <2>1, <2>2, CkptLsnKept DEF Pending
  <1>2. CASE CheckpointRecord
    <2>1. /\ ckptLsns' = ckptLsns \cup {lastWritten} /\ wpc = "recv" /\ wpc' = "checkpoint_header"
          /\ UNCHANGED <<nextLsn, lastWritten, rec, cpc, phase>>
          /\ chan # <<>> /\ Head(chan).kind = "checkpoint"
      BY <1>2 DEF CheckpointRecord, Receives
    <2>2. Pending' = {}
      BY <1>0, <2>1, SenderWaits DEF Pending, WaitsAs
    <2> QED BY <2>1, <2>2 DEF CkptLsnInv
  <1>3. CASE Open
    <2>1. ckptLsns' = {}
      BY <1>3 DEF Open
    <2> QED BY <2>1 DEF CkptLsnInv
  <1>4. ASSUME NEW c \in Clients, NEW size \in Sizes, MakeRecord(c, size) PROVE CkptLsnInv'
    <2>1. /\ nextLsn' = nextLsn + 1 /\ UNCHANGED <<lastWritten, ckptLsns, wpc, phase>>
          /\ phase = "up" /\ cpc[c] = "idle"
      BY <1>4 DEF MakeRecord
    <2>2. rec'[c].lsn = nextLsn
      <3>1. rec'[c] = [uid |-> made + 1, lsn |-> nextLsn, size |-> size]
        BY <1>0, <1>4 DEF MakeRecord, TypeOK
      <3> QED BY <3>1
    <2>3. wpc # "checkpoint_header"
      <3>1. chan # <<>> => cpc[c] # "idle"
        BY <1>0, SenderWaits DEF WaitsAs
      <3> QED BY <1>0, <2>1, <3>1 DEF ChannelInv, Busy
    <2>4. \A l \in ckptLsns : l < nextLsn
      BY <2>1, <2>3 DEF CkptLsnInv
    <2>5. \A d \in Pending' : rec'[d].lsn = nextLsn
      BY <2>2 DEF Pending, OneCaller
    <2> QED BY <1>0, <2>1, <2>4, <2>5 DEF CkptLsnInv
  <1>5. ASSUME NEW c \in Clients, SendRecord(c) \/ SendCheckpoint(c) \/ SendTruncate(c) \/ SendShutdown(c)
        PROVE  CkptLsnInv'
    <2>1. UNCHANGED <<nextLsn, lastWritten, ckptLsns, rec, wpc, phase>>
      BY <1>5 DEF SendRecord, SendCheckpoint, SendTruncate, SendShutdown
    <2>2. Pending' \subseteq Pending
      <3>1. PICK kind \in Kinds, waiting \in CallerStates :
                /\ Send(c, kind, waiting)
                /\ waiting \in {"made", "logging"} => c \in Pending
        <4>1. CASE SendRecord(c)
          BY <4>1 DEF SendRecord, Kinds, CallerStates, Pending
        <4>2. CASE SendCheckpoint(c)
          BY <4>2 DEF SendCheckpoint, Kinds, CallerStates
        <4>3. CASE SendTruncate(c)
          BY <4>3 DEF SendTruncate, Kinds, CallerStates
        <4>4. CASE SendShutdown(c)
          BY <4>4 DEF SendShutdown, Kinds, CallerStates
        <4> QED BY <1>5, <4>1, <4>2, <4>3, <4>4
      <3> QED BY <1>0, <3>1 DEF Send, TypeOK, Pending
    <2> QED BY <2>1, <2>2, CkptLsnKept
  <1>6. CASE WriteRecord
    <2>1. UNCHANGED <<nextLsn, ckptLsns, rec, cpc, phase>> /\ wpc = "recv"
      BY <1>6 DEF WriteRecord, Receives
    <2> QED BY <2>1 DEF CkptLsnInv, Pending
  <1>7. CASE CheckpointHeader
    <2>1. /\ nextLsn' = Larger(nextLsn, lastWritten + 1)
          /\ UNCHANGED <<lastWritten, ckptLsns, cpc, rec, phase>>
      BY <1>7 DEF CheckpointHeader, NextLsnAfterCheckpoint
    <2>2. nextLsn' \in Nat /\ nextLsn' >= nextLsn /\ nextLsn' >= lastWritten + 1
      BY <1>0, <2>1 DEF Larger
    <2>3. \A l \in ckptLsns : l \in Nat
      BY <1>0
    <2> QED BY <1>0, <2>1, <2>2, <2>3 DEF CkptLsnInv, Pending
  <1>8. CASE Acknowledge
    <2>1. /\ UNCHANGED <<nextLsn, lastWritten, ckptLsns, rec>> /\ wpc = "done"
          /\ chan # <<>>
          /\ cpc' = [cpc EXCEPT ![Head(chan).from] = AfterAck(Head(chan).kind, result = "Ok")]
          /\ phase' = IF Head(chan).kind = "truncate" /\ result = "Ok" THEN "up" ELSE phase
      BY <1>0, <1>8 DEF Acknowledge, ChannelInv, Busy
    <2>2. AfterAck(Head(chan).kind, result = "Ok") \notin {"made", "logging"}
      BY DEF AfterAck
    <2>3. Pending' = {}
      <3>1. Pending' \subseteq Pending /\ \A c \in Pending' : Head(chan).from # c
        BY <1>0, <2>1, <2>2 DEF TypeOK, Pending
      <3>2. Head(chan).from \in Clients
        BY <1>0, <2>1, HeadRecordType
      <3> QED BY <3>1, <3>2 DEF Pending, OneCaller
    <2>4. phase' \in {"recovering", "up"} => phase \in {"recovering", "up"}
      BY <1>0, <2>1 DEF PlaceInv, TypeOK
    <2> QED BY <2>1, <2>3, <2>4, CkptLsnKept
  <1>9. CASE ReceiveShutdown
    <2>1. UNCHANGED <<nextLsn, lastWritten, ckptLsns, rec, cpc, wpc, phase>>
      BY <1>9 DEF ReceiveShutdown
    <2> QED BY <2>1, CkptLsnKept DEF Pending
  <1>10. CASE Exit \/ Crash
    <2>1. phase' = "closed"
      BY <1>10 DEF Exit, Crash
    <2> QED BY <2>1 DEF CkptLsnInv
  <1> QED BY <1>1, <1>2, <1>3, <1>4, <1>5, <1>6, <1>7, <1>8, <1>9, <1>10
          DEF Next, Opening, WriterStep, QuietStep, Caller

\* VectorDb's log: the record the writer is about to write has an LSN that no record of
\* the session had, neither a data record nor a checkpoint record.  It needs the
\* callers serialised and the checkpoint's header written and synced: otherwise
\* next_lsn is not raised past the record that do_checkpoint already wrote.
THEOREM NoLsnReuse ==
    ASSUME OneCaller, HeadersWritten
    PROVE  Spec => []LsnNeverReused
  <1>1. Init => CkptLsnInv
    BY DEF Init, CkptLsnInv
  <1>2. DiskInv /\ CkptLsnInv /\ [Next]_vars => CkptLsnInv'
    BY CkptLsnStep
  <1>3. DiskInv /\ CkptLsnInv => LsnNeverReused
    <2> SUFFICES ASSUME DiskInv, CkptLsnInv, Receives("record")
                 PROVE  Head(chan).rec.lsn \notin dataLsns \cup ckptLsns
      BY DEF LsnNeverReused
    <2>1. Head(chan).from \in Pending /\ Head(chan).rec = rec[Head(chan).from] /\ ~Busy
      BY HeadIsPending DEF DiskInv, Inv, Receives, Busy
    <2>2. phase \in {"recovering", "up"}
      BY DEF DiskInv, Inv, PlaceInv, TypeOK, Receives
    <2> QED BY <2>1, <2>2 DEF DiskInv, Inv, LsnInv, CkptLsnInv
  <1> QED BY <1>1, <1>2, <1>3, DiskInvariance, PTL DEF Spec
=============================================================================
