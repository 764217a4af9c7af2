---------------------------- MODULE VectorStore ----------------------------
(***************************************************************************)
(* VectorDb of src/src/r_vector.rs over its three files and its log:       *)
(* insert, update, delete, flush and compaction as the steps a process     *)
(* crash can separate, the recovery that VectorDb::open runs, and a file   *)
(* that cannot grow.  The vector file and the graph are mapped files, so a *)
(* step that wrote them survives a process crash; the metadata file is     *)
(* read back only up to the count its last flush wrote.  The log is what   *)
(* DurableLog promises: the records appended since the last checkpoint, in *)
(* order (module Wal).                                                     *)
(***************************************************************************)
EXTENDS Naturals, Sequences, FiniteSets, SortedSets

CONSTANTS
    Vectors,        \* vectors, the all-zero one included
    Placeholder,    \* the all-zero vector: stored, never in the graph
    Data,           \* metadata
    Faults,         \* what may fail, a subset of StoreFaults
    MaxRows,        \* bound: rows in the file
    MaxOps,         \* bound: records in the log
    MaxRestarts,    \* bound: crashes, closes and failed opens
    MaxFaults       \* bound: failures

ASSUME PlaceholderAssumption == Placeholder \in Vectors
ASSUME DataAssumption == Data # {}
\* "logged": the log refuses a record that it has written; "checkpoint", "clear":
\* the second and third step of a flush; "grow": set_len or the mapping of a file
\* that is full; "rename": the first rename of a compaction; "compact": a crash
\* between its renames and the truncation.
StoreFaults == {"logged", "checkpoint", "clear", "grow", "rename", "compact"}
ASSUME StoreFaultsAssumption == Faults \subseteq StoreFaults
ASSUME StoreBoundsAssumption == {MaxRows, MaxOps, MaxRestarts, MaxFaults} \subseteq Nat /\ MaxRows # 0

VARIABLES
    \* files
    rows,           \* the vector file: row i is rows[i + 1], its length is len
    linked,         \* rows that the graph file holds as nodes with edges or as entry point
    metaFlushed,    \* the metadata file up to its header count
    log,            \* what load_for_recovery would return
    refused,        \* a record in the log failed and other operations may follow; for the properties
    \* memory
    meta,           \* MetadataStore.index: id to flag and data
    deletedCount,   \* deleted_count
    mapped,         \* the files whose mapping is present
    phase,          \* closed, recovering or up
    todo,           \* records recovery has still to replay
    op, pc,         \* the operation in progress and its next step
    restarts, faults

files    == <<rows, linked, metaFlushed>>
durable  == <<log, refused>>
memory   == <<meta, deletedCount, mapped>>
counters == <<restarts, faults>>
vars == <<files, durable, memory, phase, todo, op, pc, counters>>

(***************************************************************************)
(* The metadata store                                                      *)
(***************************************************************************)
Ids == 0 .. MaxRows - 1

\* is_deleted: a row without metadata counts as deleted.
IsDeleted(m, id) == id \notin DOMAIN m \/ m[id].del

\* get(id).is_none()
NoMeta(m, id) == IsDeleted(m, id)

\* put
Put(m, id, del, data) ==
    [i \in DOMAIN m \cup {id} |-> IF i = id THEN [del |-> del, data |-> data] ELSE m[i]]

(***************************************************************************)
(* Recovery's decisions                                                    *)
(***************************************************************************)
\* Mutation: an insert whose row is in the file is skipped whatever its metadata.
ReplayOfInsertByLen(r, n, m) == IF r.id >= n THEN "insert" ELSE "skip"

ReplayOfInsert(r, n, m) ==
    IF r.id >= n THEN "insert" ELSE IF NoMeta(m, r.id) THEN "restore" ELSE "skip"

\* What recover_from_wal does with a record, given the length of the vector file
\* and the metadata.
ReplayOf(r, n, m) ==
    IF r.kind = "insert" THEN ReplayOfInsert(r, n, m)
    ELSE IF r.id < n /\ ~IsDeleted(m, r.id) THEN r.kind ELSE "skip"

\* What get and get_meta answer for a row.
Gone == [deleted |-> TRUE]
Entry(rs, m, id) == IF IsDeleted(m, id) THEN Gone ELSE [vec |-> rs[id + 1], data |-> m[id].data]
View(rs, m) == [i \in DOMAIN rs |-> Entry(rs, m, i - 1)]

\* A record replayed over a vector file and the metadata read back.
Apply(file, r) ==
    LET rs   == file.rows
        m    == file.meta
        what == ReplayOf(r, Len(rs), m)
    IN  CASE what = "insert"  -> [rows |-> Append(rs, r.vec), meta |-> Put(m, Len(rs), FALSE, r.data)]
          [] what = "restore" -> [rows |-> rs, meta |-> Put(m, r.id, FALSE, r.data)]
          [] what = "update"  -> [rows |-> [rs EXCEPT ![r.id + 1] = r.vec], meta |-> Put(m, r.id, FALSE, r.data)]
          [] what = "delete"  -> [rows |-> rs, meta |-> Put(m, r.id, TRUE, m[r.id].data)]
          [] what = "skip"    -> file

\* What a crash now and a recovery would give: the records of the log replayed,
\* from the k-th on.
Metas == UNION {[ids -> [del : BOOLEAN, data : Data]] : ids \in SUBSET Ids}
Files == [rows : Seq(Vectors), meta : Metas]
Committed ==
    LET after[k \in 1 .. Len(log) + 1] ==
            [file \in Files |-> IF k > Len(log) THEN View(file.rows, file.meta)
                               ELSE after[k + 1][Apply(file, log[k])]]
    IN  after[1][[rows |-> rows, meta |-> metaFlushed]]

DeletedRows(n, m) == {id \in 0 .. n - 1 : IsDeleted(m, id)}

(***************************************************************************)
(* Opening and closing                                                     *)
(***************************************************************************)
NoMetaAtAll == [i \in {} |-> [del |-> FALSE, data |-> CHOOSE d \in Data : TRUE]]
NoOp == [kind |-> "restore", id |-> 0, vec |-> Placeholder, data |-> CHOOSE d \in Data : TRUE]

Mappings == {"vec", "graph", "meta"}

Init ==
    /\ rows = <<>> /\ linked = {} /\ metaFlushed = NoMetaAtAll /\ log = <<>> /\ refused = FALSE
    /\ meta = NoMetaAtAll /\ deletedCount = 0 /\ mapped = {}
    /\ phase = "closed" /\ todo = <<>> /\ op = NoOp /\ pc = "idle"
    /\ restarts = 0 /\ faults = 0

\* VectorDb::open up to recover_from_wal: the metadata is read back, the deleted
\* rows are counted, then the records are loaded.
Open ==
    /\ phase = "closed"
    /\ meta' = metaFlushed
    /\ deletedCount' = Cardinality(DeletedRows(Len(rows), metaFlushed))
    /\ mapped' = Mappings
    /\ todo' = log
    /\ phase' = IF log = <<>> THEN "up" ELSE "recovering"
    /\ UNCHANGED <<files, durable, op, pc, counters>>

\* Only the files are left.
Closed ==
    /\ phase' = "closed" /\ todo' = <<>>
    /\ meta' = NoMetaAtAll /\ deletedCount' = 0 /\ mapped' = {}

\* Between these steps the files are of two numberings.
Renaming == {"renameGraph", "renameMeta", "clearLog"}

\* The process dies, or close() shuts the log down without a flush.
Restart ==
    /\ phase # "closed" /\ restarts < MaxRestarts
    /\ pc \in Renaming => "compact" \in Faults
    /\ restarts' = restarts + 1
    /\ Closed /\ pc' = "idle" /\ op' = NoOp
    /\ UNCHANGED <<files, durable, faults>>

(***************************************************************************)
(* Operations: the log first ...                                           *)
(***************************************************************************)
\* The call returned.  Every operation reads the length of the vector file, and
\* panics at once if that mapping is gone.
Idle == phase = "up" /\ pc = "idle" /\ "vec" \in mapped

\* Mutation: rows numbered from one.
FromOne == Len(rows) + 1

\* The id of the next row.
NextRow == Len(rows)

\* update and delete refuse a row that is out of bounds or deleted; a delete
\* logs the metadata the row has.
IsLive(id) == id < Len(rows) /\ ~IsDeleted(meta, id)
Allowed(o) ==
    /\ Idle /\ Len(log) < MaxOps
    /\ CASE o.kind = "insert" -> o.id = NextRow
         [] o.kind = "update" -> IsLive(o.id)
         [] o.kind = "delete" -> "meta" \in mapped /\ IsLive(o.id) /\ o.data = meta[o.id].data /\ o.vec = Placeholder
         [] OTHER -> FALSE

\* The record is in the log and the caller goes on to the files.
Begin(o) ==
    /\ Allowed(o)
    /\ log' = Append(log, o)
    /\ op' = o /\ UNCHANGED refused
    /\ pc' = IF o.kind = "delete" THEN "meta" ELSE "row"
    /\ UNCHANGED <<files, memory, phase, todo, counters>>

\* The log answers Err though the record is in the file (a rotation failed): the
\* operation is refused and touches nothing else.
BeginFails(o) ==
    /\ Allowed(o)
    /\ "logged" \in Faults /\ faults < MaxFaults
    /\ log' = Append(log, o) /\ refused' = TRUE
    /\ faults' = faults + 1
    /\ UNCHANGED <<files, memory, phase, todo, op, pc, restarts>>

(***************************************************************************)
(* ... then the files, the same steps for an operation and for its replay  *)
(***************************************************************************)
\* The mapping that each step goes through.
Uses == [row |-> "vec", meta |-> "meta", link |-> "graph"]
At(step) == pc = step /\ Uses[step] \in mapped

\* The vector, and for an insert the length.
WriteRow ==
    /\ At("row")
    /\ rows' = IF op.kind = "insert" THEN Append(rows, op.vec) ELSE [rows EXCEPT ![op.id + 1] = op.vec]
    /\ pc' = "meta"
    /\ UNCHANGED <<linked, metaFlushed, durable, memory, phase, todo, op, counters>>

PutMeta ==
    /\ At("meta")
    /\ meta' = Put(meta, op.id, op.kind = "delete", op.data)
    /\ IF op.kind = "restore" THEN pc' = "idle" /\ op' = NoOp ELSE pc' = "link" /\ UNCHANGED op
    /\ UNCHANGED <<files, durable, deletedCount, mapped, phase, todo, counters>>

\* Mutation: the tombstone is not counted.
NotCounted == deletedCount

CountedAfter == deletedCount + 1

\* HnswIndex::insert or register_unlinked, rebuild_hnsw_node, mark_deleted; the
\* caller has its answer.
Finish ==
    /\ At("link")
    /\ linked' = CASE op.kind = "delete" -> linked
                   [] op.vec = Placeholder -> linked \ {op.id}
                   [] OTHER -> linked \cup {op.id}
    /\ deletedCount' = IF op.kind = "delete" THEN CountedAfter ELSE deletedCount
    /\ pc' = "idle" /\ op' = NoOp
    /\ UNCHANGED <<rows, metaFlushed, durable, meta, mapped, phase, todo, counters>>

\* The file is full and grow drops its mapping, then cannot enlarge or map it: the
\* operation ends with an error, a recovery ends the open.
GrowFails ==
    /\ "grow" \in Faults /\ faults < MaxFaults
    /\ pc \in DOMAIN Uses /\ At(pc)
    /\ pc = "meta" \/ op.kind = "insert"
    /\ faults' = faults + 1
    /\ pc' = "idle" /\ op' = NoOp
    /\ IF phase = "recovering" THEN Closed
       ELSE mapped' = mapped \ {Uses[pc]} /\ UNCHANGED <<meta, deletedCount, phase, todo>>
    /\ refused' = (refused \/ (phase = "up" /\ pc = "meta"))
    /\ UNCHANGED <<files, log, restarts>>

\* The step panics on the missing mapping; the server goes on without the task.
Panics ==
    /\ pc \in DOMAIN Uses /\ Uses[pc] \notin mapped
    /\ pc' = "idle" /\ op' = NoOp
    /\ refused' = (refused \/ pc = "meta")
    /\ UNCHANGED <<files, log, memory, phase, todo, counters>>

\* A flush panics at once while any mapping is missing, every call without "vec".
CallPanics == phase = "up" /\ pc = "idle" /\ mapped # Mappings /\ UNCHANGED vars

\* recover_from_wal takes the next record.
ReplayNext ==
    LET r == Head(todo)
        what == ReplayOf(r, Len(rows), meta) IN
    /\ phase = "recovering" /\ pc = "idle" /\ todo # <<>>
    /\ todo' = Tail(todo)
    /\ IF what = "skip" THEN UNCHANGED <<op, pc>>
       ELSE /\ op' = [kind |-> what, vec |-> r.vec,
                      id |-> IF what = "insert" THEN Len(rows) ELSE r.id,
                      data |-> IF what = "delete" THEN meta[r.id].data ELSE r.data]
            /\ pc' = IF what \in {"insert", "update"} THEN "row" ELSE "meta"
    /\ UNCHANGED <<files, durable, memory, phase, counters>>

(***************************************************************************)
(* Flush: the data files, the checkpoint, the truncation                   *)
(***************************************************************************)
\* Mutation: the metadata file is left out of the flush.
LeftOut == metaFlushed

\* MetadataStore::flush writes the record count.
FlushedMeta == meta

FlushData ==
    /\ Idle \/ (phase = "recovering" /\ pc = "idle" /\ todo = <<>>)
    /\ mapped = Mappings
    /\ metaFlushed' = FlushedMeta
    /\ pc' = "checkpoint"
    /\ UNCHANGED <<rows, linked, durable, memory, phase, todo, op, counters>>

Checkpoint ==
    /\ pc = "checkpoint"
    /\ log' = <<>> /\ refused' = FALSE
    /\ pc' = "clear"
    /\ UNCHANGED <<files, memory, phase, todo, op, counters>>

Clear ==
    /\ pc = "clear"
    /\ pc' = "idle" /\ phase' = "up"
    /\ UNCHANGED <<files, durable, memory, todo, op, counters>>

\* An error of either ends the flush; in a recovery it ends the open.  A checkpoint
\* whose sync failed may have written its header.
FlushFails ==
    /\ pc \in {"checkpoint", "clear"} \cap Faults /\ faults < MaxFaults
    /\ \/ UNCHANGED durable
       \/ pc = "checkpoint" /\ log' = <<>> /\ refused' = FALSE
    /\ faults' = faults + 1
    /\ pc' = "idle"
    /\ IF phase = "recovering" THEN Closed ELSE UNCHANGED <<memory, phase, todo>>
    /\ UNCHANGED <<files, op, restarts>>

(***************************************************************************)
(* Compaction: a fresh database of the live rows, three renames over the   *)
(* old files, the truncation of the log, and an open of the result         *)
(***************************************************************************)
LiveIds == Ascending({id \in 0 .. Len(rows) - 1 : ~IsDeleted(meta, id)})

\* The metadata of the fresh database: the live rows numbered anew.
FreshMeta ==
    LET live == Ascending({id \in DOMAIN meta : ~meta[id].del})
    IN  [id \in 0 .. Len(live) - 1 |-> meta[live[id + 1]]]

\* The fresh database is complete; the mappings are dropped and the vector file is
\* replaced, or cannot be.  Before that nothing changes, whatever ends the call: live_len,
\* which panics or wraps around when deleted_count is more than the rows (it sizes the
\* fresh database), or an error of the fresh database.
RenameVec ==
    /\ Idle /\ deletedCount > 0
    /\ "meta" \in mapped \/ LiveIds = <<>>
    /\ mapped' = mapped \ {"vec", "graph"}
    /\ \/ /\ rows' = [i \in DOMAIN LiveIds |-> rows[LiveIds[i] + 1]]
          /\ pc' = "renameGraph"
          /\ UNCHANGED faults
       \/ /\ "rename" \in Faults /\ faults < MaxFaults
          /\ faults' = faults + 1
          /\ UNCHANGED <<rows, pc>>
    /\ UNCHANGED <<linked, metaFlushed, durable, meta, deletedCount, phase, todo, op, restarts>>

RenameGraph ==
    /\ pc = "renameGraph"
    /\ linked' = {id \in 0 .. Len(rows) - 1 : rows[id + 1] # Placeholder}
    /\ pc' = "renameMeta"
    /\ UNCHANGED <<rows, metaFlushed, durable, memory, phase, todo, op, counters>>

RenameMeta ==
    /\ pc = "renameMeta"
    /\ metaFlushed' = FreshMeta
    /\ pc' = "clearLog"
    /\ UNCHANGED <<rows, linked, durable, memory, phase, todo, op, counters>>

ClearLog ==
    /\ pc = "clearLog"
    /\ log' = <<>> /\ refused' = FALSE
    /\ pc' = "reopen"
    /\ UNCHANGED <<files, memory, phase, todo, op, counters>>

\* VectorDb::open finds no record, and the handle adopts its parts.
Reopen ==
    /\ pc = "reopen"
    /\ meta' = metaFlushed /\ deletedCount' = 0 /\ mapped' = Mappings
    /\ pc' = "idle"
    /\ UNCHANGED <<files, durable, phase, todo, op, counters>>

Operation ==
    \E kind \in {"insert", "update", "delete"}, id \in Ids, v \in Vectors, d \in Data :
        LET o == [kind |-> kind, id |-> id, vec |-> v, data |-> d]
        IN  Begin(o) \/ BeginFails(o)

Step == WriteRow \/ PutMeta \/ Finish \/ GrowFails \/ Panics \/ CallPanics
Flush == FlushData \/ Checkpoint \/ Clear \/ FlushFails

Compact == RenameVec \/ RenameGraph \/ RenameMeta \/ ClearLog \/ Reopen

Next == Open \/ Restart \/ Operation \/ Step \/ ReplayNext \/ Flush \/ Compact

Spec == Init /\ [][Next]_vars

(***************************************************************************)
(* Properties                                                              *)
(***************************************************************************)
Op == [kind : {"insert", "update", "delete", "restore"}, id : Ids, vec : Vectors, data : Data]

\* Types; metadata and graph nodes are of rows that exist, in files of one numbering.
StoreTypeOK ==
    /\ rows \in Seq(Vectors) /\ linked \subseteq Ids
    /\ meta \in Metas /\ metaFlushed \in Metas
    /\ pc \notin Renaming \cup {"reopen"} =>
        linked \cup DOMAIN meta \cup DOMAIN metaFlushed \subseteq 0 .. Len(rows) - 1
    /\ log \in Seq(Op) /\ todo \in Seq(Op) /\ op \in Op
    /\ refused \in BOOLEAN /\ mapped \subseteq Mappings
    /\ deletedCount \in Nat /\ restarts \in Nat /\ faults \in Nat
    /\ phase \in {"closed", "recovering", "up"}
    /\ pc \in {"idle", "row", "meta", "link", "checkpoint", "clear", "reopen"} \cup Renaming

\* Seen through a crash at any step and the recovery after it, the database makes
\* whole operations only: an insert, update or delete takes effect with its log
\* record, a compaction with its first rename, and no write to a file, flush, crash,
\* failure to grow, or part of a recovery, itself crashed and repeated, changes any
\* row.  Nothing is claimed of crashes while the files are of two numberings.
Content == IF pc \in Renaming THEN View(rows, FreshMeta) ELSE Committed
Promise == INSTANCE VectorMap WITH db <- Content, doubt <- refused
ImplementsVectorMap == Promise!Spec

\* What readers see between operations is what a crash would recover, also after a
\* recovery that replayed records already applied, after a compaction, and after a
\* file that could not grow, unless the log holds a record it refused.
ReadsWhatRecovers == Idle /\ "meta" \in mapped /\ ~refused => View(rows, meta) = Committed

\* compact and should_compact see every deleted row: deleted_count is never below
\* the number of rows that reads take for deleted, while every file is mapped.
DeletedRowsCounted ==
    Idle /\ mapped = Mappings => deletedCount >= Cardinality(DeletedRows(Len(rows), meta))
=============================================================================
