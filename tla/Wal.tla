-------------------------------- MODULE Wal --------------------------------
(***************************************************************************)
(* The write-ahead log of src/src/wal.rs: callers that take an LSN and     *)
(* hand a record to the channel, the writer thread that owns the file, the *)
(* active file and its rotated segments, checkpoint, truncation, rotation, *)
(* cleanup and the parse done by load_for_recovery.  A process may crash   *)
(* between any two steps; what was written before survives (page cache).   *)
(*                                                                         *)
(* A file body is a sequence of cells of about 38 bytes, the length of a   *)
(* record with no payload: a checkpoint record takes one cell, a data      *)
(* record of length n takes n.  Offset 0 of a body is byte 40 of the file, *)
(* just after the header.                                                  *)
(***************************************************************************)
EXTENDS Naturals, Sequences, FiniteSets, SequencesExt, SortedSets

CONSTANTS
    Clients,        \* callers of the log API
    Sizes,          \* cells a data record can take
    MaxSeg,         \* max_wal_segment_size, in cells after the header; 0 = never rotate
    MaxTotal,       \* max_total_wal_size, in cells; 0 = no cleanup
    MaxSegments,    \* max_wal_segments; 0 = no limit
    Calls,          \* what callers do besides logging: checkpoint (a flush), clear, shutdown
    Faults,         \* system calls that may fail
    MaxRecords,     \* bound: data records made in a behaviour
    MaxOpens,       \* bound: times the log is opened
    MaxFaults       \* bound: failed system calls

ASSUME SizesAssumption == Sizes \subseteq Nat \ {0}
ASSUME LimitsAssumption == MaxSeg \in Nat /\ MaxTotal \in Nat /\ MaxSegments \in Nat
ASSUME BoundsAssumption == MaxRecords \in Nat /\ MaxOpens \in Nat /\ MaxFaults \in Nat
ASSUME CallsAssumption == Calls \subseteq {"checkpoint", "clear", "shutdown"}
ASSUME FaultsAssumption == Faults \subseteq {"write", "header", "fsync", "rename", "create", "set_len"}

VARIABLES
    \* on disk
    wal,            \* the active file: [st, ckpt, cur, body]
    segs,           \* rotated segments by id: [st, ckpt, body]
    \* shared atomics
    nextLsn,        \* next_lsn
    lastWritten,    \* last_written_lsn: one past the highest LSN written
    \* the writer thread
    lastCkpt,       \* last_checkpoint_lsn
    handle,         \* what self.file is: the active file, /dev/null, or the active file
                    \*   with its cursor left inside the header
    cursor,         \* the file cursor, a cell of the body; with handle "header" the
                    \*   cell of the body (0: none) in which one more cell would end
    curSize,        \* current_file_size
    nextSegId,      \* next_segment_id
    wpc,            \* where the writer is
    result,         \* outcome of the operation in progress
    loop,           \* which loop of the writer runs: run() or drain()
    chan,           \* the mpsc channel; the message in progress stays at its head
    \* callers
    cpc,            \* what each caller is doing
    rec,            \* the last record each caller made
    phase,          \* the database: closed, creating, recovering or up
    recovered,      \* what load_for_recovery returned at the last open
    \* bookkeeping that no code reads
    made,           \* records made so far: the next record is number made + 1
    acked,          \* numbers of the records acknowledged with Ok
    covered,        \* numbers of the records whose effect is in the flushed data files
    dataLsns,       \* LSNs of the data records written since the last open
    ckptLsns,       \* LSNs of the checkpoint records written since the last open
    opens, faults

diskVars   == <<wal, segs>>
lsnVars    == <<nextLsn, lastWritten>>
fileVars   == <<lastCkpt, handle, cursor, curSize, nextSegId>>
writerVars == <<wpc, result, loop>>
callerVars == <<cpc, rec, phase, recovered>>
ghostVars  == <<made, acked, covered, dataLsns, ckptLsns>>
vars == <<diskVars, lsnVars, fileVars, writerVars, chan, callerVars, ghostVars, opens, faults>>

(***************************************************************************)
(* Records and files                                                       *)
(***************************************************************************)
Larger(a, b) == IF a >= b THEN a ELSE b

Record == [uid : Nat, lsn : Nat, size : Nat]       \* uid 0: a checkpoint record
NoRecord == [uid |-> 0, lsn |-> 0, size |-> 0]
CkptRecord(lsn) == [uid |-> 0, lsn |-> lsn, size |-> 1]

Cell == [rec : Record, part : Nat]
Hole == [rec |-> NoRecord, part |-> 0]             \* zero bytes past an old end of file

\* to_bytes / write_to: the cells of a record
Encode(r) == [i \in 1 .. r.size |-> [rec |-> r, part |-> i]]

\* Writing cells at an offset of a body, past its end included.
Overwrite(body, at, cells) ==
    [i \in 1 .. Larger(Len(body), at + Len(cells)) |->
        IF i \in at + 1 .. at + Len(cells) THEN cells[i - at]
        ELSE IF i <= Len(body) THEN body[i] ELSE Hole]

\* from_bytes: a whole record, header, payload and footer, starts after cell o.
RecordAt(body, o) ==
    /\ o < Len(body)
    /\ body[o + 1].part = 1
    /\ LET r == body[o + 1].rec IN
       /\ o + r.size <= Len(body)
       /\ \A i \in 1 .. r.size : body[o + i] = [rec |-> r, part |-> i]

\* load_segment stops at the first record whose LSN does not grow; LSN 0 is exempt.
Grows(last, r) == r.lsn = 0 \/ r.lsn > last.lsn

\* load_segment: the offsets of the records it reads, each just behind the last.
Reads(body) ==
    LET read[o \in 0 .. Len(body)] ==
            /\ RecordAt(body, o)
            /\ o = 0 \/ \E p \in 0 .. o - 1 :
                            /\ p + body[p + 1].rec.size = o
                            /\ Grows(body[p + 1].rec, body[o + 1].rec)
                            /\ read[p]
    IN  {o \in 0 .. Len(body) : read[o]}

\* Mutation: records at the checkpoint LSN are taken for covered.
KeepAbove(r, ckpt) == r.lsn > ckpt /\ r.uid # 0

\* The filter at the end of load_for_recovery.
Keep(r, ckpt) == r.lsn >= ckpt /\ r.uid # 0

\* list_segments
ById(ss) == SetToSortSeq(DOMAIN ss, <)

\* new() and load_segment give up at a file whose header is missing, torn or
\* overwritten.
Readable == wal.st # "bad" /\ \A i \in DOMAIN segs : segs[i].st = "ok"

\* The files in the order load_for_recovery opens them: segments by id, then the
\* active file, numbered behind them.
ActiveNo(ss) == Max({0} \cup {i + 1 : i \in DOMAIN ss})
Body(ss, w, n) == IF n = ActiveNo(ss) THEN w.body ELSE ss[n].body

\* The highest last_checkpoint_lsn of all headers decides what is still needed.
HighestCkpt(ss, w) == Max({w.ckpt} \cup {ss[i].ckpt : i \in DOMAIN ss})

\* Where the records lie that load_for_recovery returns, and their order.
Found(ss, w) ==
    UNION {{<<n, o>> : o \in {p \in Reads(Body(ss, w, n)) :
                                 Keep(Body(ss, w, n)[p + 1].rec, HighestCkpt(ss, w))}}
           : n \in DOMAIN ss \cup {ActiveNo(ss)}}
Earlier(x, y) == x[1] < y[1] \/ (x[1] = y[1] /\ x[2] < y[2])

\* load_for_recovery, of files that are Readable
Load(ss, w) ==
    LET found == Found(ss, w)
        places == InOrder(found, {xy \in found \X found : Earlier(xy[1], xy[2])})
    IN  [k \in DOMAIN places |-> Body(ss, w, places[k][1])[places[k][2] + 1].rec]

Replay == Load(segs, wal)
Uids(s) == {s[i].uid : i \in DOMAIN s}

\* Mutation: the file is not removed, and the loop tries it again.
WithoutRemoval(ss, ids) == ss

\* remove_file
Without(ss, ids) == [i \in DOMAIN ss \ ids |-> ss[i]]

\* cleanup: oldest first while over a limit, only segments whose header can be
\* read and has seen a checkpoint.  A header takes one cell.
Doomed(ss, activeSize) ==
    LET size(i) == Len(ss[i].body) + 1
        total == activeSize + 1 + FoldSet(LAMBDA i, n : n + size(i), 0, DOMAIN ss)
        over(a) == a.total > MaxTotal \/ (MaxSegments > 0 /\ a.remaining > MaxSegments)
        visit(a, i) ==
            IF over(a) /\ ss[i].st = "ok" /\ ss[i].ckpt > 0
            THEN [total |-> a.total - size(i), remaining |-> a.remaining - 1, ids |-> a.ids \cup {i}]
            ELSE a
    IN  FoldLeft(visit, [total |-> total, remaining |-> Cardinality(DOMAIN ss), ids |-> {}], ById(ss)).ids

(***************************************************************************)
(* Opening                                                                 *)
(***************************************************************************)
NoSegs == [i \in {} |-> [st |-> "ok", ckpt |-> 0, body |-> <<>>]]
NoFile == [st |-> "absent", ckpt |-> 0, cur |-> 0, body |-> <<>>]

Init ==
    /\ wal = NoFile /\ segs = NoSegs
    /\ nextLsn = 0 /\ lastWritten = 0 /\ lastCkpt = 0
    /\ handle = "null" /\ cursor = 0 /\ curSize = 0 /\ nextSegId = 0
    /\ wpc = "exit" /\ result = "Ok" /\ loop = "run" /\ chan = <<>>
    /\ cpc = [c \in Clients |-> "idle"] /\ rec = [c \in Clients |-> NoRecord]
    /\ phase = "closed" /\ recovered = <<>>
    /\ made = 0 /\ acked = {} /\ covered = {} /\ dataLsns = {} /\ ckptLsns = {}
    /\ opens = 0 /\ faults = 0

\* A system call that may fail now.
MayFail(call) == call \in Faults /\ faults < MaxFaults

\* WriteAheadLog::new creates the file, then writes the first header.
CreateFile ==
    /\ phase = "closed" /\ wal.st = "absent"
    /\ wal' = [NoFile EXCEPT !.st = "bad"]
    /\ phase' = "creating"
    /\ UNCHANGED <<segs, lsnVars, fileVars, writerVars, chan, cpc, rec, recovered, ghostVars, opens, faults>>

CreateHeader ==
    /\ phase = "creating"
    /\ \/ wal' = [wal EXCEPT !.st = "ok"] /\ UNCHANGED faults
       \/ MayFail("header") /\ faults' = faults + 1 /\ UNCHANGED wal
    /\ phase' = "closed"
    /\ UNCHANGED <<segs, lsnVars, fileVars, writerVars, chan, cpc, rec, recovered, ghostVars, opens>>

\* find_max_segment_id: one past the highest id on disk, 0 without segments.  The
\* value the last session left bounds it.
IsNextSegId(n) == (\A i \in DOMAIN segs : i < n) /\ (n = 0 \/ n - 1 \in DOMAIN segs)

\* new() reads the header and starts the writer with the cursor just after it;
\* VectorDb::open then loads the records and, if there are any, replays them
\* and flushes before it returns.
Open ==
    /\ phase = "closed" /\ wal.st = "ok" /\ Readable /\ opens < MaxOpens
    /\ \A c \in Clients : cpc[c] = "idle"
    /\ nextLsn' = wal.cur /\ lastWritten' = wal.cur /\ lastCkpt' = wal.ckpt
    /\ handle' = "wal" /\ cursor' = 0 /\ curSize' = Len(wal.body)
    /\ \E n \in 0 .. nextSegId : IsNextSegId(n) /\ nextSegId' = n
    /\ wpc' = "recv" /\ loop' = "run" /\ result' = "Ok"
    /\ recovered' = Replay
    /\ phase' = IF Replay = <<>> THEN "up" ELSE "recovering"
    /\ dataLsns' = {} /\ ckptLsns' = {}
    /\ opens' = opens + 1
    /\ UNCHANGED <<diskVars, chan, cpc, rec, made, acked, covered, faults>>

\* A header that cannot be read: new() fails at the active file before it starts
\* anything, load_for_recovery at a segment, and open() drops what was started.
OpenFails ==
    /\ phase = "closed" /\ wal.st # "absent" /\ ~Readable
    /\ UNCHANGED vars

\* Bound: the log is not opened again.
StaysClosed == phase = "closed" /\ opens = MaxOpens /\ UNCHANGED vars

(***************************************************************************)
(* Callers                                                                 *)
(***************************************************************************)
Message(kind, c, r) == [kind |-> kind, from |-> c, rec |-> r]
Writing == wpc # "exit"

\* make_record: the LSN is taken before the record is queued.
MakeRecord(c, size) ==
    /\ phase = "up" /\ cpc[c] = "idle" /\ made < MaxRecords
    /\ rec' = [rec EXCEPT ![c] = [uid |-> made + 1, lsn |-> nextLsn, size |-> size]]
    /\ nextLsn' = nextLsn + 1
    /\ made' = made + 1
    /\ cpc' = [cpc EXCEPT ![c] = "made"]
    /\ UNCHANGED <<diskVars, lastWritten, fileVars, writerVars, chan, phase, recovered,
                   acked, covered, dataLsns, ckptLsns, opens, faults>>

\* send on the channel: BrokenPipe once the writer has exited.
Send(c, kind, waiting) ==
    /\ chan' = IF Writing THEN Append(chan, Message(kind, c, rec[c])) ELSE chan
    /\ cpc' = [cpc EXCEPT ![c] = IF Writing THEN waiting ELSE "idle"]

SendRecord(c) ==
    /\ cpc[c] = "made"
    /\ Send(c, "record", "logging")
    /\ UNCHANGED <<diskVars, lsnVars, fileVars, writerVars, rec, phase, recovered, ghostVars, opens, faults>>

\* What the flushed data files hold once a caller asks for a checkpoint or a
\* truncation: every acknowledged record and, during recovery, every replayed one.
Applied == acked \cup IF phase = "recovering" THEN Uids(recovered) ELSE {}

\* VectorDb::flush: the data files are synced, then checkpoint() is sent.
SendCheckpoint(c) ==
    /\ \/ phase = "up" /\ "checkpoint" \in Calls /\ cpc[c] = "idle"
       \/ phase = "recovering" /\ \A d \in Clients : cpc[d] = "idle"
    /\ covered' = covered \cup Applied
    /\ Send(c, "checkpoint", "checkpointing")
    /\ UNCHANGED <<diskVars, lsnVars, fileVars, writerVars, rec, phase, recovered,
                   made, acked, dataLsns, ckptLsns, opens, faults>>

\* clear(), after a checkpoint (flush) or on its own (compact).
SendTruncate(c) ==
    /\ cpc[c] = "checkpointed" \/ (phase = "up" /\ "clear" \in Calls /\ cpc[c] = "idle")
    /\ covered' = covered \cup (IF cpc[c] = "idle" THEN Applied ELSE {})
    /\ Send(c, "truncate", "clearing")
    /\ UNCHANGED <<diskVars, lsnVars, fileVars, writerVars, rec, phase, recovered,
                   made, acked, dataLsns, ckptLsns, opens, faults>>

\* shutdown(), or the Drop of a database whose recovery failed.
SendShutdown(c) ==
    /\ \/ phase = "up" /\ "shutdown" \in Calls /\ cpc[c] = "idle"
       \/ cpc[c] = "failed"
    /\ Send(c, "shutdown", "closing")
    /\ UNCHANGED <<diskVars, lsnVars, fileVars, writerVars, rec, phase, recovered, ghostVars, opens, faults>>

(***************************************************************************)
(* The writer thread                                                       *)
(***************************************************************************)
Receives(kind) == wpc = "recv" /\ chan # <<>> /\ Head(chan).kind = kind

\* Mutation: the error of a write is swallowed.
FailsSilently == result' = "Ok" /\ wpc' = "done"

\* The operation ends with Err.
Fails == result' = "Err" /\ wpc' = "done"

\* write_all of cells at the cursor.  From inside the header they run over the rest
\* of it and into the body, where nothing of them can be parsed.
Put(w, cells) ==
    IF handle = "header"
    THEN [w EXCEPT !.st = "bad",
                   !.body = Overwrite(@, 0, [i \in 1 .. cursor + Len(cells) - 1 |-> Hole])]
    ELSE [w EXCEPT !.body = Overwrite(@, cursor, cells)]

\* write_all stops after k of the cells: they stay in the file.
TornWrite(cells) ==
    /\ handle # "null" /\ MayFail("write")
    /\ \/ UNCHANGED <<wal, cursor>>
       \/ \E k \in 0 .. Len(cells) - 1 :
            /\ wal' = Put(wal, SubSeq(cells, 1, k))
            /\ cursor' = cursor + k
    /\ faults' = faults + 1
    /\ Fails

\* The handle is the read-only /dev/null left by a failed rotation.
NullWrite == handle = "null" /\ Fails /\ UNCHANGED <<wal, cursor, faults>>

\* Mutation: last_written_lsn holds the LSN itself.
SameLsn(r) == r.lsn

\* last_written_lsn is one past the LSN of the record.
PastLsn(r) == r.lsn + 1

MustRotate(size) == MaxSeg > 0 /\ size > MaxSeg

\* write_record up to the rotation test.
WriteRecord ==
    LET r == Head(chan).rec IN
    /\ Receives("record") /\ handle # "null"
    /\ wal' = Put(wal, Encode(r))
    /\ cursor' = cursor + r.size
    /\ curSize' = curSize + r.size
    /\ lastWritten' = Larger(lastWritten, PastLsn(r))
    /\ dataLsns' = dataLsns \cup {r.lsn}
    /\ result' = "Ok"
    /\ wpc' = IF MustRotate(curSize') THEN "rotate" ELSE "done"
    /\ UNCHANGED <<segs, nextLsn, lastCkpt, handle, nextSegId, loop, chan, callerVars, made, acked, covered, ckptLsns, opens, faults>>

WriteFails ==
    /\ Receives("record")
    /\ TornWrite(Encode(Head(chan).rec)) \/ NullWrite
    /\ UNCHANGED <<segs, lsnVars, lastCkpt, handle, curSize, nextSegId, loop, chan, callerVars, ghostVars, opens>>

\* rotate: sync, drop the handle, rename the file to the next segment.
RotateRename ==
    /\ wpc = "rotate"
    /\ segs' = [i \in DOMAIN segs \cup {nextSegId} |->
                    IF i = nextSegId THEN [st |-> wal.st, ckpt |-> wal.ckpt, body |-> wal.body] ELSE segs[i]]
    /\ nextSegId' = nextSegId + 1
    /\ wal' = NoFile
    /\ handle' = "null"
    /\ wpc' = "rotate_create"
    /\ UNCHANGED <<lsnVars, lastCkpt, cursor, curSize, result, loop, chan, callerVars, ghostVars, opens, faults>>

RotateCreate ==
    /\ wpc = "rotate_create"
    /\ wal' = [NoFile EXCEPT !.st = "bad"]
    /\ handle' = "wal" /\ cursor' = 0
    /\ wpc' = "rotate_header"
    /\ UNCHANGED <<segs, lsnVars, lastCkpt, curSize, nextSegId, result, loop, chan, callerVars, ghostVars, opens, faults>>

\* The header rotate gives the new active file.
RotateHeaderOf(w) == [w EXCEPT !.st = "ok", !.ckpt = lastCkpt, !.cur = lastWritten]

RotateHeader ==
    /\ wpc = "rotate_header"
    /\ wal' = RotateHeaderOf(wal)
    /\ curSize' = 0
    /\ wpc' = "done"
    /\ UNCHANGED <<segs, lsnVars, lastCkpt, handle, nextSegId, cursor, result, loop, chan, callerVars, ghostVars, opens, faults>>

\* A failed sync keeps the handle; a failed rename or create leaves /dev/null.
RotateFails ==
    /\ \/ wpc = "rotate" /\ MayFail("fsync") /\ UNCHANGED handle
       \/ wpc = "rotate" /\ MayFail("rename") /\ handle' = "null"
       \/ wpc = "rotate_create" /\ MayFail("create") /\ UNCHANGED handle
    /\ faults' = faults + 1
    /\ Fails
    /\ UNCHANGED <<diskVars, lsnVars, lastCkpt, cursor, curSize, nextSegId, loop, chan, callerVars, ghostVars, opens>>

\* do_checkpoint: the record first, at the cursor ...
CheckpointRecord ==
    /\ Receives("checkpoint") /\ handle # "null"
    /\ wal' = Put(wal, Encode(CkptRecord(lastWritten)))
    /\ cursor' = cursor + 1 /\ curSize' = curSize + 1
    /\ ckptLsns' = ckptLsns \cup {lastWritten}
    /\ result' = "Ok" /\ wpc' = "checkpoint_header"
    /\ UNCHANGED <<segs, lsnVars, lastCkpt, handle, nextSegId, loop, chan, callerVars,
                   made, acked, covered, dataLsns, opens, faults>>

CheckpointRecordFails ==
    /\ Receives("checkpoint")
    /\ TornWrite(Encode(CkptRecord(lastWritten))) \/ NullWrite
    /\ UNCHANGED <<segs, lsnVars, lastCkpt, handle, curSize, nextSegId, loop, chan, callerVars, ghostVars, opens>>

\* ... then the header; the cursor goes to current_file_size.
CheckpointHeaderOf(w) == [w EXCEPT !.st = "ok", !.ckpt = lastWritten, !.cur = lastWritten + 1]

\* Mutation: the counter is stored, not raised with fetch_max.
NextLsnStored == lastWritten + 1

\* Mutation: the counter is not raised.
NextLsnKept == nextLsn

NextLsnAfterCheckpoint == Larger(nextLsn, lastWritten + 1)

CheckpointHeader ==
    /\ wpc = "checkpoint_header"
    /\ wal' = CheckpointHeaderOf(wal)
    /\ handle' = "wal" /\ cursor' = curSize
    /\ lastCkpt' = lastWritten
    /\ nextLsn' = NextLsnAfterCheckpoint
    /\ wpc' = IF MaxTotal > 0 THEN "cleanup" ELSE "done"
    /\ UNCHANGED <<segs, lastWritten, nextSegId, curSize, result, loop, chan, callerVars, ghostVars, opens, faults>>

\* The doomed segments are removed one at a time, oldest first.
Cleanup ==
    LET doomed == Doomed(segs, curSize) IN
    /\ wpc = "cleanup"
    /\ segs' = IF doomed = {} THEN segs ELSE Without(segs, {Min(doomed)})
    /\ wpc' = IF doomed = {} THEN "done" ELSE wpc
    /\ UNCHANGED <<wal, lsnVars, fileVars, result, loop, chan, callerVars, ghostVars, opens, faults>>

\* do_truncate: the segments go first, oldest first ...
TruncateSegment ==
    /\ Receives("truncate") /\ segs # NoSegs
    /\ segs' = Without(segs, {Min(DOMAIN segs)})
    /\ UNCHANGED <<wal, lsnVars, fileVars, writerVars, chan, callerVars, ghostVars, opens, faults>>

\* ... then set_len, then the header.
TruncateLen ==
    /\ Receives("truncate") /\ segs = NoSegs
    /\ \/ /\ handle # "null"
          /\ wal' = [wal EXCEPT !.body = <<>>]
          /\ wpc' = "truncate_header" /\ result' = "Ok"
          /\ UNCHANGED faults
       \/ /\ handle # "null" /\ MayFail("set_len")
          /\ Fails /\ faults' = faults + 1
          /\ UNCHANGED wal
       \/ /\ handle = "null"
          /\ Fails /\ UNCHANGED <<wal, faults>>
    /\ UNCHANGED <<segs, lsnVars, fileVars, loop, chan, callerVars, ghostVars, opens>>

\* Mutation: the header names the last LSN written, not the next one.
TruncateHeaderLast(w) == [w EXCEPT !.st = "ok", !.ckpt = lastWritten - 1, !.cur = lastWritten]

TruncateHeaderOf(w) == [w EXCEPT !.st = "ok", !.ckpt = lastWritten, !.cur = lastWritten]

TruncateHeader ==
    /\ wpc = "truncate_header"
    /\ wal' = TruncateHeaderOf(wal)
    /\ handle' = "wal" /\ cursor' = 0 /\ curSize' = 0 /\ lastCkpt' = lastWritten
    /\ wpc' = "done"
    /\ UNCHANGED <<segs, lsnVars, nextSegId, result, loop, chan, callerVars, ghostVars, opens, faults>>

\* write_all of a header stops inside it: the header is the old one, torn or, short
\* of its padding only, the new one, and the cursor is not moved out of it.
HeaderFails(new) ==
    /\ MayFail("header")
    /\ \/ wal' = wal /\ cursor' \in {0, 1}
       \/ wal' \in {[wal EXCEPT !.st = "bad"], new} /\ cursor' = 1
    /\ handle' = "header"
    /\ faults' = faults + 1
    /\ Fails

\* After a rotation the file is as short as the torn header.
HeaderWriteFails ==
    /\ \/ wpc = "checkpoint_header" /\ HeaderFails(CheckpointHeaderOf(wal))
       \/ wpc = "truncate_header" /\ HeaderFails(TruncateHeaderOf(wal))
       \/ wpc = "rotate_header" /\ HeaderFails(wal)
    /\ UNCHANGED <<segs, lsnVars, lastCkpt, curSize, nextSegId, loop, chan, callerVars, ghostVars, opens>>

\* sync_all fails after the header was written: nothing in memory advances.
HeaderSyncFails ==
    /\ MayFail("fsync")
    /\ \/ wpc = "checkpoint_header" /\ wal' = CheckpointHeaderOf(wal) /\ cursor' = curSize
       \/ wpc = "truncate_header" /\ wal' = TruncateHeaderOf(wal) /\ cursor' = 0
       \/ wpc = "rotate_header" /\ wal' = RotateHeaderOf(wal) /\ cursor' = 0
    /\ handle' = "wal"
    /\ faults' = faults + 1
    /\ Fails
    /\ UNCHANGED <<segs, lsnVars, lastCkpt, curSize, nextSegId, loop, chan, callerVars, ghostVars, opens>>

\* The acknowledgement, and what the caller does with it.
AfterAck(kind, success) ==
    CASE kind = "checkpoint" /\ success -> "checkpointed"
      [] kind # "record" /\ ~success /\ phase = "recovering" -> "failed"
      [] OTHER -> "idle"

Acknowledge ==
    LET m == Head(chan) IN
    /\ wpc = "done"
    /\ chan' = Tail(chan)
    /\ wpc' = "recv"
    /\ cpc' = [cpc EXCEPT ![m.from] = AfterAck(m.kind, result = "Ok")]
    /\ acked' = IF m.kind = "record" /\ result = "Ok" THEN acked \cup {m.rec.uid} ELSE acked
    /\ phase' = IF m.kind = "truncate" /\ result = "Ok" THEN "up" ELSE phase
    /\ UNCHANGED <<diskVars, lsnVars, fileVars, result, loop, rec, recovered, made, covered,
                   dataLsns, ckptLsns, opens, faults>>

\* Shutdown: what is queued is drained; further Shutdowns are dropped unanswered,
\* which their callers see as an error.
ReceiveShutdown ==
    /\ Receives("shutdown")
    /\ chan' = Tail(chan)
    /\ loop' = "drain"
    /\ UNCHANGED <<diskVars, lsnVars, fileVars, wpc, result, callerVars, ghostVars, opens, faults>>

\* The queue is found empty: the writer leaves the loop and syncs ...
Drained ==
    /\ wpc = "recv" /\ loop = "drain" /\ chan = <<>>
    /\ wpc' = "exiting"
    /\ UNCHANGED <<diskVars, lsnVars, fileVars, result, loop, chan, callerVars, ghostVars, opens, faults>>

\* ... and returns.  What was sent meanwhile is dropped with the channel, which its
\* senders see as an error; the handle and the lock are dropped too.
Waiting == {"logging", "checkpointing", "clearing", "closing"}

Exit ==
    /\ wpc = "exiting"
    /\ wpc' = "exit" /\ chan' = <<>>
    /\ cpc' = [c \in Clients |-> IF cpc[c] \in Waiting THEN "idle" ELSE cpc[c]]
    /\ phase' = "closed"
    /\ UNCHANGED <<diskVars, lsnVars, fileVars, result, loop, rec, recovered, ghostVars, opens, faults>>

\* The process dies: memory is lost, the files stay as they are.
Crash ==
    /\ phase # "closed"
    /\ phase' = "closed" /\ wpc' = "exit" /\ chan' = <<>>
    /\ cpc' = [c \in Clients |-> "idle"]
    /\ UNCHANGED <<diskVars, lsnVars, fileVars, result, loop, rec, recovered, ghostVars, opens, faults>>

Caller(c) ==
    \/ \E size \in Sizes : MakeRecord(c, size)
    \/ SendRecord(c)
    \/ SendCheckpoint(c)
    \/ SendTruncate(c)
    \/ SendShutdown(c)

WriterStep ==
    \/ WriteRecord \/ WriteFails
    \/ RotateRename \/ RotateCreate \/ RotateHeader \/ RotateFails
    \/ CheckpointRecord \/ CheckpointRecordFails \/ CheckpointHeader \/ Cleanup
    \/ TruncateSegment \/ TruncateLen \/ TruncateHeader
    \/ HeaderWriteFails \/ HeaderSyncFails
    \/ Acknowledge \/ ReceiveShutdown \/ Drained \/ Exit

Opening == CreateFile \/ CreateHeader \/ Open \/ OpenFails \/ StaysClosed

Next ==
    \/ Opening
    \/ \E c \in Clients : Caller(c)
    \/ WriterStep
    \/ Crash

\* The writer is an operating-system thread: it keeps running while it has
\* something to do.
Spec == Init /\ [][Next]_vars /\ WF_vars(WriterStep)

(***************************************************************************)
(* Properties                                                              *)
(***************************************************************************)
FileStates == {"absent", "bad", "ok"}
WriterStates == {"recv", "done", "rotate", "rotate_create", "rotate_header",
                 "checkpoint_header", "cleanup", "truncate_header", "exiting", "exit"}
CallerStates == {"idle", "made", "logging", "checkpointing", "checkpointed",
                 "clearing", "closing", "failed"}
Kinds == {"record", "checkpoint", "truncate", "shutdown"}

\* Types of the state the code keeps, and of the counters.
TypeOK ==
    /\ wal \in [st : FileStates, ckpt : Nat, cur : Nat, body : Seq(Cell)]
    /\ DOMAIN segs \subseteq Nat
    /\ \A i \in DOMAIN segs : segs[i] \in [st : FileStates, ckpt : Nat, body : Seq(Cell)]
    /\ nextLsn \in Nat /\ lastWritten \in Nat /\ lastCkpt \in Nat
    /\ handle \in {"wal", "null", "header"} /\ cursor \in Nat /\ curSize \in Nat /\ nextSegId \in Nat
    /\ wpc \in WriterStates /\ result \in {"Ok", "Err"} /\ loop \in {"run", "drain"}
    /\ chan \in Seq([kind : Kinds, from : Clients, rec : Record])
    /\ cpc \in [Clients -> CallerStates] /\ rec \in [Clients -> Record]
    /\ phase \in {"closed", "creating", "recovering", "up"}
    /\ made \in Nat /\ acked \subseteq Nat /\ dataLsns \subseteq Nat /\ ckptLsns \subseteq Nat
    /\ opens \in Nat /\ faults \in Nat

\* Whatever step the process dies in, a recovery that can read the headers of all
\* files returns every record that was acknowledged with Ok and whose effect is not
\* in the flushed data files, in the order the records were made: across rotation,
\* cleanup, a crash inside checkpoint, truncation or the flush of an earlier
\* recovery.  A crash between the creation of a file and its header leaves a log
\* that is not readable, and every later open fails.
DurableInOrder ==
    LET needed == acked \ covered IN
    Readable =>
        /\ needed \subseteq Uids(Replay)
        /\ \A i, j \in DOMAIN Replay :
              i < j /\ {Replay[i].uid, Replay[j].uid} \subseteq needed => Replay[i].uid < Replay[j].uid

\* A recovery replays no record after a later one: nothing left in the file by
\* an earlier session is taken for a continuation of this one.
NoStaleReplay ==
    Readable => \A i, j \in DOMAIN Replay : i < j => Replay[i].uid < Replay[j].uid

\* The record the writer is about to write carries an LSN that no record written
\* since the last open had, data record or checkpoint record.
LsnNeverReused == Receives("record") => Head(chan).rec.lsn \notin dataLsns \cup ckptLsns

\* Among data records alone this holds whoever took the LSN, whatever was
\* checkpointed since and whichever call failed; the LSN of a checkpoint record may
\* be that of a record made before it, or of the next one when its header failed.
DataLsnNeverReused == Receives("record") => Head(chan).rec.lsn \notin dataLsns

\* A checkpoint declares covered every data record of its session that was written
\* before it: the LSN it puts in the header is above all of theirs.
CheckpointAboveWritten ==
    [][CheckpointHeader => \A l \in dataLsns : l < wal'.ckpt]_vars

\* A record is acknowledged with Ok only when all its cells lie together in the
\* active file or in a segment, or some file of the log has lost its header: once a
\* header write has failed, the next record is written over the header, and
\* acknowledged, and no recovery can read that file.
Holds(body, u) ==
    \E i \in DOMAIN body : body[i].rec.uid = u /\ RecordAt(body, i - 1)
OnDisk(u) == Holds(wal.body, u) \/ \E i \in DOMAIN segs : Holds(segs[i].body, u)
AckedIsOnDisk == [][\A u \in acked' \ acked : OnDisk(u) \/ ~Readable]_vars

\* The writer answers every caller that waits for a record, a checkpoint or a
\* truncation, with Ok or with an error, also when writes fail before it or a
\* shutdown overtakes it.
Answered ==
    \A c \in Clients :
        cpc[c] \in {"logging", "checkpointing", "clearing"} ~>
            cpc[c] \notin {"logging", "checkpointing", "clearing"}

\* The log implements its abstract specification.
Abstract == INSTANCE DurableLog WITH
    issued <- made, needed <- acked \ covered, released <- covered,
    replay <- [i \in DOMAIN recovered |-> recovered[i].uid]
ImplementsDurableLog == Abstract!Spec
=============================================================================
