# Formal models of rust-rag-mcp

TLA+ modules of the core of `rust-rag-mcp` (a local RAG server: documents are chunked, embedded, and
kept in an embedded vector database): its write-ahead log, its database, its search graph, the lock that
tasks share it under, the chunkers, and the requests that index and delete sources; the TLC
configurations that check them, and TLAPS proofs about all of these. Source paths below are relative to
`src/src/`.

## 1. Inventory of the system

| component | source | state it keeps | operations | hard behaviour |
|---|---|---|---|---|
| Write-ahead log | `wal.rs` | active file, rotated segments, header (last checkpoint LSN, current LSN), `next_lsn`, `last_written_lsn`, writer thread with its cursor and channel | log a record, checkpoint, clear, shutdown, `load_for_recovery` | callers and one writer thread; crash between any two writes; rotation, cleanup; failing system calls; LSN reuse |
| VectorDb | `r_vector.rs` 1294-2174 | mapped vector file with its length, `deleted_count`; owns the three parts below | `open` (with recovery), `insert`, `update`, `delete`, `search`, `flush`, `compact`, `close` | four files written one after the other; idempotent replay; a recovery that crashes |
| Metadata store | `r_vector.rs` 399-581 | append-only file of (id, flag, bytes), index in memory, count in the file header | `put`, `get`, `is_deleted`, `flush` | the count is written only by `flush`: later records are invisible after a crash |
| HNSW index | `r_vector.rs` 594-1293, 1549-1673 | mapped graph: levels, neighbours, entry point; scratch buffers | `insert`, `register_unlinked`, `mark_deleted`, `search`, `rebuild_hnsw_node` | connectivity after updates; scratch buffers shared by readers |
| AsyncVectorDb | `r_vector.rs` 2254-2361 | a read-write lock around VectorDb | the same, async | concurrent requests; searches share the read lock |
| RagCore | `rag.rs` | two maps in memory: source to chunk ids, source to document row | `index_file`, `index_text`, `delete_source`, `search`, `document_status`; rebuild at start | every operation is a sequence of awaits with no lock over the whole; failure in the middle |
| MCP server | `mcp.rs` | `RwLock<RagCore>` | one handler per tool | all handlers take the read lock, so requests interleave freely |
| Chunkers | `chunker.rs`, `syntax_chunker.rs` | none; a stack and a list of ranges during a call | text to chunks | window arithmetic; ranges out of text order, with contexts and overlaps, that are merged |
| Embeddings, extraction | `embeddings.rs`, `docs.rs` | a model behind a mutex | text to vector, file to text | third-party code |
| Command line | `main.rs`, `lib.rs`, `bin/bench.rs` | none | wiring | one request at a time |

How they interact: an MCP handler calls `RagCore`, which embeds text and calls `AsyncVectorDb`
under its write lock; `VectorDb::insert/update/delete` first log a record and wait for the answer of
the WAL writer thread (`log_blocking`), then write the vector file, the metadata store and the graph.
`VectorDb::flush` syncs the files, then asks the log for a checkpoint and a truncation.
`VectorDb::open` opens the log (which starts the writer thread), counts the deleted rows, loads the
records that are still needed, replays them and flushes.

What makes each part correct:

* log: an acknowledged record is recovered, once and in order, until its effect is in the flushed
  files; LSNs order the records of a session; nobody waits for ever.
* database: an operation takes effect entirely or not at all; recovery, repeated or interrupted, gives
  what readers saw; the counters and the graph agree with the rows.
* RagCore: a source's chunks are those of its last indexing, and every live row is listed by a source.
* lock: whoever waits gets it, and what holders share, the scratch buffers, serves one of them at a time.
* chunkers: the windows cover the text with the configured overlap; nothing the walk over a syntax tree
  found is lost in the merging, and no chunk is too long or repeats another without reason.

The hazards behind these, each at the line where it bites, are listed in `PROJECT.json`.

## 2. Modules

| module | what it models |
|---|---|
| `Wal` | `wal.rs`: callers, channel, writer thread, files, recovery parse |
| `DurableLog` | what the log promises, without files, LSNs or threads |
| `MCWal` | TLC instances of `Wal` |
| `WalProofs` | TLAPS: type correctness, the LSN discipline and the acknowledged records of `Wal` |
| `WalOrderProofs` | TLAPS: what a recovery from the files of `Wal` returns, and that `Wal` implements `DurableLog` |
| `VectorStore` | `VectorDb` operations, flush, compaction, open and recovery over its files and its log, and files that cannot grow |
| `VectorMap` | what the database promises: an array of rows, appended, updated, deleted, compacted |
| `MCVectorStore` | TLC instances of `VectorStore` |
| `VectorStoreProofs` | TLAPS: types, counters, what a recovery reads, and that `VectorStore` implements `VectorMap` |
| `AsyncVectorDb` | the read-write lock around `VectorDb`, and searches that share the scratch buffers under it |
| `AsyncProofs` | TLAPS: who shares the lock, and that a search that has it to itself is exact |
| `Hnsw` | the graph: insert, delete, update and search over levels and neighbour lists |
| `HnswProofs` | TLAPS: the lists and the entry point of `Hnsw` stay well-formed, and a search finds every row of a graph without updates |
| `RagIndex` | `RagCore` under concurrent MCP requests, failures and restarts |
| `MCRagIndex` | TLC instances of `RagIndex` |
| `RagIndexProofs` | TLAPS: the maps and the rows of `RagIndex` agree, whatever interleaves and fails |
| `Chunker` | `Chunker::chunk_text`: the loop of word windows |
| `SyntaxChunker` | `SyntaxChunker::chunk_text`: the walk over a syntax tree, the splitting, the merging, and `Chunker` as fallback |
| `MCSyntaxChunker` | the documents for TLC |
| `SyntaxProofs` | TLAPS: the windows of `Chunker` cover every text; types of `SyntaxChunker`, its word windows, the reasons of long chunks, headers that repeat no text, and what was met in order is kept |
| `SortedSets` | the elements of a set in order, as `RagIndex`, `VectorStore`, the lists of `Hnsw` and the recovery of `Wal` go over them |
| `OrderLemmas` | TLAPS: what `SortedSets` computes, least and greatest elements, sequences without repetitions |

### Wal

Files are sequences of cells, so that a write can stop inside a record, run over an old one, or leave a
hole: a cell is about 38 bytes, the size of a record without payload (`RECORD_HEADER_LEN` and the
footer). A checkpoint record takes one cell and a data record `size` cells. `Reads` is the loop
of `load_segment`: the offsets it reads records at, each just behind the record before and with a greater LSN.
`Load` is `load_for_recovery`: the records read from all files that no header covers, by file and by offset.
`Overwrite` is `write_all` at the cursor.

| state | code |
|---|---|
| `wal`, `segs` | the active file (`absent`, `ok`, or `bad`: a header that is missing, torn or overwritten) and the rotated segments; `ckpt`/`cur` are the header fields `last_checkpoint_lsn`/`current_lsn` |
| `nextLsn`, `lastWritten` | the shared atomics |
| `lastCkpt`, `handle`, `cursor`, `curSize`, `nextSegId` | fields of `WalWriter`; `handle` is `null` while `self.file` is the null file of a rotation, `header` once a failed header write has left the cursor inside the header |
| `wpc`, `result`, `loop`, `chan` | where `run()`/`drain()` is, and the mpsc channel; the message in progress stays at its head until its acknowledgement is sent |
| `cpc`, `rec`, `phase`, `recovered` | the callers, and `VectorDb::open` around the log |
| `made`, `acked`, `covered`, `dataLsns`, `ckptLsns` | bookkeeping for the properties only |

One action is one step that another thread can observe or a crash can separate: `MakeRecord` (the
`fetch_add`) and `SendRecord` are apart, a rotation is three actions (rename, create, header), a
checkpoint record, header, and one `Cleanup` per removed segment, a truncation one per removed segment, then
`set_len`, then the header; leaving the writer's loop (`Drained`) and returning (`Exit`) are apart, and what is
sent in between is dropped. `Crash` may come between any two; memory is lost, the files stay.

`Readable` says that the headers of all files can be read. `new()` and `load_segment` fail otherwise (318-319,
521-522), and so does every open (`OpenFails`): `Load` is what a recovery returns of files that are `Readable`.
`HeaderWriteFails` is a `write_all` of a header that fails, in a checkpoint (741), a truncation (774), a rotation
(814), and in `CreateHeader` in `new` (312): the header is the old one, torn, or but for its padding the new one, and the cursor
stays in it, so that the next record is written over it (`Put`). `HeaderSyncFails` is a sync that fails
after it (744, 776, 816): the file has the new header, the fields of the writer are the old ones.

### VectorStore

`rows` and `linked` are mapped files, so what a step wrote survives a process crash. The metadata
survives only as far as `metaFlushed`, since `MetadataStore::open` reads back the count that the last
flush wrote. `log` is the log as `DurableLog` promises it. Each operation is `Begin` (the log answered
Ok), `WriteRow`, `PutMeta`, `Finish` (graph and counter, the call returns); `BeginFails` is a record
that is in the log though the caller got an error. Recovery is `ReplayNext`, which decides as
`recover_from_wal` does, then the same steps, then the flush (`FlushData`, `Checkpoint`, `Clear`).
A compaction is `RenameVec`, `RenameGraph`, `RenameMeta`, `ClearLog`, `Reopen`; the fresh database it writes
first is of files that nothing else reads. `Restart` is a crash or a `close`, which does not flush.

All three files grow by dropping their mapping, enlarging the file and mapping it again. `GrowFails` is a
growth that fails in between: the call ends with an error, `mapped` has lost the file, and the next step
that needs it panics (`Panics`, `CallPanics`) until the database is opened again. The same holds after a
compaction whose first rename fails.

The write lock of `AsyncVectorDb` is why there is one operation at a time. `Committed` is what a crash
now and a recovery would give; while a compaction is between its renames the content is that of the new
numbering. It maps the module to `VectorMap`, where `doubt` stands for a record in the log whose operation
was refused: until the log is emptied, `VectorMap` promises nothing.

How these two fit: the records that `Wal` recovers are those `VectorStore` calls `log`.
`ImplementsDurableLog` checks that `Wal` keeps that promise; `DurableLog` also allows records that were
released to be returned, which `VectorStore` leaves out (see `wal_stale` for what may then happen).

### Hnsw

One operation is one step (write lock). `rows` has the vector, the drawn level and the tombstone of
each row, `links` the neighbour lists in their stored order, `entry` and `top` the header fields
`entry_point` and `max_level`. The algorithms are operators over the lists and the vectors: `Walk` is
the loop of `search_layer` with its candidates, results and `ef` (`Expand` a turn, `Visit` a neighbour),
`Descend` the greedy walk in a layer (`Closer` a turn), `SelectNeighbors` the heuristic (`Spread` its first
loop), `Wide` the working set that `VectorDb::search` asks for, `AddLink` one direction of a link, `LinkFrom` the loop over layers that
`insert` and `rebuild_hnsw_node` share. `Update` is `rebuild_hnsw_node` in its four cases (placeholder,
empty graph, the entry point itself, any other node), of the rows that `Updated` names; `Search` is an operator that properties use. A
vector is an angle, so comparisons of cosine distances are comparisons of differences; the level is
any level instead of the draw; equal distances are ordered by id where the code takes the order of its
heap, and `StaysConnected` is stated for vectors that differ. Each loop is a recursive function of the
number of its turns: `Walk` and `Descend` take as many as there are rows and stand still when the code's
loop has ended, since a greedy walk comes nearer with each turn and `search_layer` takes no node twice (proved);
the loops over lists and layers (`VisitAll`, `LinkAll`, `LinkFrom`, `DescendTo`) have as many as their
list or their layers. `VectorStore` says which rows a crash leaves in the graph; `Hnsw` what the graph then does.

### AsyncVectorDb

`holders` and `queue` are tokio's lock, which serves tasks first come, first served (external code, modelled
from how `AsyncVectorDb` uses it); `task` is what a task calls and where it is in the walk, `scratch` the
`SearchBuffers` of the graph. `StartWalk`, `Pop`, `Neighbour`, `Output` are the turns of the loops in
`search_layer`, each over the shared buffers; `TakeHits` ends a search, `LinkRow`, `FirstRow` and `DeleteRow`
are writers. Rows lie on a line in one layer; `Width` is the working set that `VectorDb::search` computes
from `k`, `ef_search` and the deleted rows. `LinkRow` links a new row with all others, which is what `insert` does as
long as a list of layer 0 (`M0`) and the search of an insertion (`EfConstruction`) have room for all of them:
`RowsAssumption` bounds the rows by both. Two searches are interleaved turn by turn: in Rust this is a
data race, whose outcomes are more than these, so what goes wrong here is the least that can. Rows at equal
distances come out by number (`NearestFirst`), where the code takes the order of its heap.

### Chunker and SyntaxChunker

`Chunker` numbers the words of a text and takes one window a step (`startWord`, `windows`). `SyntaxChunker`
extends it. Its words are one byte long and one byte apart, so that offsets and word counts differ as in the
code (`Prefix` is the prefix sum of `WordIndex`). A tree is the sequence of its nodes, the root first; a node
has a kind, its first word, its number of words and the numbers of its children, which come behind it, lie inside
it and follow each other (`DocumentsAssumption`). `stack`, `parent`, `children`, `split` are the local
variables of `parse_and_chunk` and `split_by_words`; a chunk is its byte range, since the text is cut out of
the source last (`Cut`). `chunks` and `merged` are the input and the output of `merge_small_chunks`. A node
kind is one of six, told apart as the code does (`Kinds`). `due` and `headers` are bookkeeping: what the
walk took for a chunk, and where oversized nodes start. A file without grammar starts in the word windows.

### RagIndex

`rows` is the database as `VectorMap` promises it: an insert or a delete is one step and survives.
`chunkIds` and `docIds` are the two maps of `MetadataIndex`; `task` is the request a client runs, with
its program counter and local variables. The handlers take only `core.read()`, so requests interleave
at every await, and each await is a step: `ReadStatus`, `CheckStatus` (`document_status`),
`ReadChunkIds`, `DeleteChunk`, `ReadDocId`, `DeleteDoc`, `RemoveSource` (`delete_source`), `InsertChunk`,
`ListChunk` (`insert_batch`), `ReadOldDoc`, `DeleteOldDoc`, `InsertDoc`, `ListDoc` (`upsert_metadata`).
`RemoveSource` is one step because `remove_source` holds the lock of its first map until it has the
second. `IndexFails` ends a request in the middle with what it stored; `DeleteFails` is a failed delete
that the code only logs. `index_file` reads some files twice, for the hash and for the text: a request has a
`hash` and a `text` that differ when the file was edited in between (`Reads`). `Restart` is a crash or a
shutdown followed by `RagCore::new`. Requests that only read are left out.

`answer` is what the last request about a source answered; `tainted` holds the sources that two
requests worked on at once or whose delete failed, until a start has listed their rows again; `partial`
those where an indexing broke off or stored the hash of an older content: the properties say for which
sources they claim what, and nothing reads these variables.

## 3. Runs

Passing runs:

| run | instance | what it shows |
|---|---|---|
| `wal_crash` | 1 caller, records of 1 or 2 cells, segment limit 3 cells, total limit 4, 1 segment, 4 records, 3 openings, 1 failing rename or create | `TypeOK`; `DurableInOrder`: in every state in which the headers of all files can be read, a recovery would return every acknowledged record that no flush covered, in order, whatever else it returns; `LsnNeverReused`: no record takes the LSN of another record of its session, checkpoint records included; `ImplementsDurableLog`: the log refines `DurableLog` in what its openings return |
| `wal_callers` | 2 callers, 1-cell records, a rotation after every other record, 2 records, 1 opening, 1 failure: of the write of a record or of a header, a sync, a rename, a create, or a `set_len` | `DataLsnNeverReused`: no two data records of a session share an LSN; `CheckpointAboveWritten`; `AckedIsOnDisk`: Ok means a whole record on disk, or a log that has lost a header; under fairness `Answered` |
| `store_crash` | placeholder and one real vector, 2 metadata values, 2 rows, 2 log records, 2 restarts, 1 failure: a refused record, a growth, a checkpoint, a truncation or a rename | `ImplementsVectorMap`: seen through a crash and a recovery at any step, the database makes whole operations only, compactions included; `ReadsWhatRecovers`; `DeletedRowsCounted`: `deleted_count` never misses a deleted row; `StoreTypeOK` |
| `async_searches` | 2 tasks, 2 places, `k` and `ef` 1, 3 rows, 1 of them deleted | `LockIsGranted`: under fairness everyone who waits gets the lock; `AloneIsExact`: a search that has the lock to itself answers with the nearest live rows, whatever is left in the buffers; `AsyncTypeOK` |
| `hnsw_graph` | 3 rows of 3 directions or placeholder, 2 levels, lists of 2 and 1, 3 updates | `EntryUsable`: entry point, height and rows agree, and there is no entry point only if there is nothing to find; `LinksWellFormed`; `FoundUnlessUpdated`: without updates, and lists that do not overflow, every live row is found, through deleted nodes too; `GraphTypeOK` |
| `rag_requests` | 2 clients, 2 sources, texts of 1 and 2 chunks, 3 requests, 1 restart, 1 failure or edit | `LiveRowsListed`, `IndexedIsThere`, `DeletedIsGone`, `StatusIsTrue`: what was answered holds and maps and rows agree, across failures and restarts, for sources without overlapping requests, and for all again after the next start; `OwnRowsOnly`: no interleaving deletes a row of another source; `RagTypeOK` |
| `chunk_text` | size 5, overlap 1, documents of up to 3 items out of 17, with and without a grammar | `OrderedIsKept`: what the walk met in text order is whole in some chunk; `LongHasReason`: merging never makes a chunk too long; `HeadersAreOwn`: a header repeats no text of earlier chunks; `WindowsCover`; `Chunked`: the call returns; `SyntaxTypeOK` |

Runs that TLC refutes, each a disagreement between the code and what the repository says of it
(quotations in `PROJECT.json`, "findings"):

| run | property | what happens |
|---|---|---|
| `wal_stale` | `NoStaleReplay` | after a crash inside the flush of a recovery, new records overwrite the front of the file and old ones behind them are replayed as newer |
| `hnsw_update` | `StaysConnected` | only the entry point is ever updated; with a level of 1 or more it finds itself in the upper layer and then links only to itself in layer 0: it hides every other row |
| `rag_skipped` | `SkippedIsThere` | after a crash inside `delete_source` the document entry remains without its chunks, and indexing the same text is answered "skipped" |
| `chunk_lost` | `ChunksAreSlices` | chunks come out of text order (children of an inner node from the last to the first, siblings of an oversized child before it), and merging takes a chunk in front of the last one for adjacent: the joined range is empty, the text of both is lost |
| `async_scratch` | `SearchIsOwn` | two searches under the read lock share the scratch buffers, and one answers with the results of the other or with none |

Further problems were met while modelling and have no run of their own:

* A log write that fails inside a record leaves half of it in the file (`wal.rs:706`, step `WriteFails`); later
  records are appended behind the half, acknowledged, and not recovered. `AckedIsOnDisk` is about the file.
* A crash, or a failing call, between the creation of the log file and its header (`wal.rs:302`-312, and 799-814 in
  `rotate`) leaves a file that no later open accepts: nothing is recovered, though `wal.rs:4` says "On crash,
  replay WAL from last checkpoint to recover" and 386-388 that a process crash cannot lose a log entry. `Wal` has
  the steps and `OpenFails`; `DurableInOrder`, `NoStaleReplay` and `ImplementsDurableLog` speak only of logs that
  are `Readable`.
* A header write that fails leaves the cursor inside the header (`wal.rs:741`, 774, 814), and the writer goes on: the next
  record is written over the header and answered Ok, and no open can read the log again. `HeaderWriteFails` has the
  step, and `AckedIsOnDisk` makes an exception of logs that have lost a header.
* A sync that fails after the header of a checkpoint was written (`wal.rs:744`) leaves `next_lsn` at the LSN of the
  checkpoint record, which the next data record takes, against the comment at 751-753 and the test at 1095-1112.
  `HeaderSyncFails` has the step; `LsnNeverReused` is claimed without it, and `DataLsnNeverReused` with it.
* A record that one thread has made while another's checkpoint is under way can have the LSN of the checkpoint
  record. Calls through `VectorDb` are serialised, so `LsnNeverReused` is claimed for one caller.
* A crash between the length of the vector file and the graph (`r_vector.rs:1862-1873`) leaves a live row that no
  search finds: the replay restores its metadata only (1490-1495). `VectorMap` has no graph.
* A crash between the renames of a compaction, or before it clears the log, leaves files of two numberings, or
  records of the old numbering that are replayed into the new files, against the comment at
  `r_vector.rs:2110-2114`. The fault is "compact" of `VectorStore`; `MCFaults` leaves it out. Nothing but
  `AsyncVectorDb::compact` calls `compact`.
* `open` counts a row without metadata as deleted before the replay restores it, so `deleted_count` may
  be too large until the next open, and `live_len` (1747) may underflow, also where a
  compaction sizes its fresh database (2071); `DeletedRowsCounted` claims only that it is never too small.
* An insert that is refused after its record was written (a rotation that fails, `wal.rs:711`) leaves a
  record whose id the next insert takes; recovery then gives that row the refused metadata. The step
  is `BeginFails`.
* A failed growth leaves a database that panics until it is opened again (`GrowFails`).
* A second process that opens the same directory cuts the metadata file to its flushed records
  (`r_vector.rs:492-502`) before the lock of the log or the advisory lock (1424-1432) turns it away; the process
  that runs has the file mapped and loses what it had not flushed. The models have one process.
* A placeholder that is updated to a vector when every linked row is deleted is linked to nothing.
* Overlapping requests about one source store its chunks twice or leave a document entry without them
  (`rag.rs:240`, 299), and two document entries of one source come back at every start; `tainted` leaves these
  sources out.
* `index_file` stores the text of an edit under the hash of the content before it (`rag.rs:179`): a file that is
  then changed back is skipped with the wrong text.
* The chunk count of the database counts tombstones and document entries, too.
* In the syntax chunker: the table of top-level kinds is searched by bisection but not sorted, so
  `function_definition` and `macro_definition` are never found; `overlap_range` relies on which of several
  equal entries `binary_search` returns; the pieces of `split_by_words` repeat the header of the parent; a comment
  or leaf that is too long stays one chunk.

Faults of the log. With a failing record write, header write, sync or `set_len`, `DurableInOrder` is violated, in the ways
above and by a `set_len` that fails in `do_truncate` and leaves the cursor at the front of a file that keeps its
old end. So `wal_crash` limits its faults to the rename and the create of a rotation; `wal_callers` has all six. Two
threads that call the log directly can queue records in the opposite order of their LSNs and lose the later one:
`VectorDb` never does, its write lock serialises the callers, and so `DurableInOrder` is claimed for one caller.

### Bounds

Every bound is a constant: `MaxRecords`, `MaxOpens`, `MaxFaults` in `Wal`; `MaxRows`, `MaxOps`,
`MaxRestarts`, `MaxFaults` in `VectorStore`; `MaxRows`, `MaxDeleted` in `AsyncVectorDb`; `MaxRows`, `MaxUpdates`
in `Hnsw`; `MaxRequests`, `MaxRestarts`, `MaxFaults` in `RagIndex`. `Updated` of `Hnsw` says which rows are updated: the entry
point and others in `hnsw_graph`, the entry point alone in `hnsw_update`. They stop the callers, the crashes and the
failures, never the writer, a recovery or a request under way. Four records with a limit of three cells give
several rotations, a cleanup that may and one that may not remove a segment, and a record before and after
each checkpoint; three openings give a recovery that itself crashes and the recovery after it. In the store two
rows and two records give an insert with its update or its delete in the same log, a row of an earlier flush
with one of a later log, replay over rows in every stage of completion, and a compaction that moves the
second row. One fault at a time is what the error paths are written for; the operations after it
meet what it left, a null handle or a cursor inside the header. Three rows in the graph give a list that overflows (two others and the node
itself), an upper layer whose list holds one, and every sequence of three updates, changes to and from
placeholder included, between inserts and deletes; with two directions and updates without bound all 2.3
million states were checked once. In `AsyncVectorDb` three rows give a walk with a candidate that is too far and
one that is skipped as visited, and two tasks every overlap of two searches, or of a search and a writer that
waits. Three requests give an indexing, another of the same source or a delete, and one about the other source
that runs meanwhile; a text of two chunks with a batch of one lets an embedding fail between them. Three
items in a document give an oversized one before, between and after small ones, and nested ones on the stack
with siblings behind them; chunks of five words are longer than the four below which two are merged.

### Fairness

`Spec` of `Wal` has weak fairness of `WriterStep` alone: the writer is an operating-system thread that
never waits for anything but its channel, so it goes on as long as there is a message. Callers and
crashes have no fairness. `Answered` follows because every error path sends its acknowledgement and a
shutdown drains the channel. `AsyncVectorDb` has weak fairness of each task's `Step`: a task that may enter the
lock is woken by it, and one that runs is scheduled; nobody has to call. `LockIsGranted` then follows from the
order of the queue and from walks that end. `SyntaxChunker` is one function call: weak
fairness of its next step says that it runs.
The other modules have no liveness property: their operations end by themselves.

Deadlock is checked in the runs of `Wal`, `VectorStore`, `AsyncVectorDb` and `SyntaxChunker`, where a call that
returned stutters. A closed log that cannot be opened
(`OpenFails`) stutters: the caller may go on trying; so does one that has been opened as often as the bound
allows (`StaysClosed`). In `Hnsw` the rows are bounded, and when all are
tombstones no operation is left; in `RagIndex` the requests are bounded, and a server without requests
waits. Those runs say `CHECK_DEADLOCK FALSE`.

## 4. Proofs

Every safety property of every passing run, both refinements among them, is proved for all values of the constants
that the named assumptions allow. No property is inductive as the runs state it, so each module's argument is an
inductive invariant.

| module | theorems |
|---|---|
| `WalProofs` | `TypeCorrect`, `NoDataLsnReuse`, `NoLsnReuse`, `CheckpointCovers`, `AckMeansOnDisk`; invariants `Invariance`, `DiskInvariance` |
| `WalOrderProofs` | `Durable`, `LogRefines`; invariant `OrderInvariance` |
| `VectorStoreProofs` | `StoreTypeCorrect`, `CountsDeletedRows`, `ReadsRecoverable`, `StoreRefinesMap`; invariant `ContentInvariance` |
| `RagIndexProofs` | `RagTypeCorrect`, `DeletesOwnRows`, `ListsLiveRows`, `IndexedStays`, `DeletedStaysGone`, `StatusTellsTruth`; invariant `RagInvHolds` |
| `AsyncProofs` | `AsyncTypeCorrect`, `AloneExact`; invariant `AsyncInvariance` |
| `HnswProofs` | `GraphTypeCorrect`, `EntryStaysUsable`, `LinksStayWellFormed`, `FoundWithoutUpdates`; invariant `GraphInvariance`; lemmas `WalkEnds`, `DescendEnds` |
| `SyntaxProofs` | `CoverCorrect`, `NothingSkipped`; invariant `ChunkerInvariance`; `SyntaxTypeCorrect`, `FallbackCovers`, `LongChunksHaveReasons`, `HeadersOwn`, `WhatIsInOrderIsKept` |

### Wal

Any callers, sizes, limits, calls, faults and bounds that `SizesAssumption`, `LimitsAssumption`, `BoundsAssumption`,
`CallsAssumption` and `FaultsAssumption` allow.

`Inv == TypeOK /\ ChannelInv /\ LsnInv`. `DataLsnNeverReused` speaks of the head of the channel, so the invariant must
say where its LSN came from: a caller that has made a record and has no answer (`Pending`) holds an LSN below
`nextLsn`, different from that of every other, and not written in this session unless the writer is busy with
that very message. `ChannelInv` says what the channel holds for each caller: at most one message, of the kind it
waits for, carrying its last record, and a head while the writer is busy. `LsnInv` orders the counters: written
LSNs are below `last_written_lsn`, which is not above `next_lsn`; this is the step where the `fetch_max` in
`do_checkpoint` matters, and `CheckpointAboveWritten` follows from it. `LsnNeverReused` adds the checkpoint records and
needs two hypotheses, those of its run: `OneCaller`, and `HeadersWritten`, that no header write and no sync fails. `CkptLsnInv`
is its invariant: the LSN of a checkpoint record is below `nextLsn` as soon as the checkpoint is through, and nobody has
made a record meanwhile. TLC checked `Inv` on the
`wal_callers` instance before it was proved.

`DiskInv == Inv /\ PlaceInv /\ WrittenInv` follows a record from the channel to the files for `AckedIsOnDisk`.
`PlaceInv` says which kind of message the writer's place belongs to; `WrittenInv` where its record is: whole in the
active file until the rename, in a segment after it, in either when the caller is about to be told, unless some
header is lost. The files
enter through one fact about `Overwrite` (`WrittenIsHeld`): a record written at an offset can be read there
whatever lies around it.

`WalOrderProofs` proves `DurableInOrder` and `ImplementsDurableLog` under two more hypotheses, which are those of the run
`wal_crash`. `OneCaller`: the write lock of `AsyncVectorDb` lets one thread at a time call the log; with two, TLC finds
the loss described in section 3. `RotationFaultsOnly`: the rename or the create of a rotation may fail, each time; with a
failing write, header, sync or `set_len` TLC finds the code losing acknowledged records (section 3), so there the claim is false.

`OrderInv == DiskInv /\ OrderParts` says what the files may look like at every step, crashes included. The property
speaks of what a recovery that starts now would return; whether that stays true depends on cells that no recovery reads
now, since a crash inside a truncation leaves new records in front of old ones, and the next write may
complete them to a sequence that parses on. So the invariant is about all cells:

* `Tiled(b, m)`: the first `m` cells of a file are whole records with growing LSNs and numbers; `Good` adds that nothing
  that is wanted (needed, or on its way to the file) lies behind. What comes after `m` is arbitrary. While the writer
  appends (`Live`), `m` is its cursor and all LSNs there are below `lastWritten`, so the next record continues the
  tiling whatever it overwrites.
* `AboveCkpts`, `CkptInv`: no header, and not the writer's `last_checkpoint_lsn`, has a checkpoint above the LSN of a wanted
  record. A checkpoint can only be asked for by a flush, which leaves nothing needed (`FlushInv`).
* `UidInv`: the record under way is the last one made and in no file before the writer has taken it, so that none comes twice.
* `Older`: wanted records of a segment are older than those of later segments and of the active file, which gives the order
  across files; `Uncovered` says why `cleanup` cannot tell a segment covered that has one, and that a segment that recovery
  may be asked to read is never without records.

From `Good`, a least counterexample shows that every wanted record is read (`Reads` stops at no tile), and
`InOrderFacts` that the list of what was found is in order and without repetitions. `LogRefines` maps an
`Open` to the abstract recovery (an open that fails stutters), `MakeRecord` to an issue, the `Acknowledge` of a record to an acknowledgement,
the message of a flush to a release, and everything else, crashes included, to a stutter. TLC
checked `OrderInv` on the `wal_crash` instance before it was proved.

### VectorStore

Any vectors, data, bounds and faults except `"compact"`: `StoreRefinesMap` and the others assume
`"compact" \notin Faults`, since a crash between the renames of a compaction does break the promise (section 3).

`TypeInv == StoreTypeOK /\ QueueInv /\ PlaceInv /\ CompactInv` is about control: which row each step is about, that
the records still to be replayed are the end of the log, that a flush has come to its checkpoint with the metadata
on disk, and which of the files a compaction has already replaced. `CountInv` compares the rows that
`deleted_count` must have counted with it, in the middle of operations too.

`ContentInv == ~refused => OpMatches /\ FilesFit /\ MemoryFits` is the heart. `LogFits` says which logs can lie next
to which files: only the last record may be about a row that is not in the vector file, an insert is the first
record about its row, a delete the last, and an update without an earlier record is of a row that is live in the
file. `Replayed(k, ...)` says what a vector file and metadata look like after the first `k` records were applied in
one go or in pieces, with crashes between: rows without a record so far are as they were, rows without a record to
come are as their last one left them. In between nothing is claimed, and that is why a replay that is
repeated over a half-done replay ends the same: `Recovered` is reached from every state that is `Replayed`, and only
one content is `Recovered`. What readers see between operations is then what a recovery gives, and `Committed`
changes only where a record enters the log. `StoreRefinesMap` maps `Begin` to an operation of `VectorMap`, the rename
of the vector file to its compaction, a refused record to its doubt, and every other step, recovery and its crashes
included, to a stutter.

### RagIndex

Any clients, sources, texts, requests, restarts and failures (`ChunksAssumption`, `BatchAssumption`,
`RagFaultsAssumption`, `RagBoundsAssumption`).

`Owned` says whose rows the maps and the local variables of a request name; `DeletesOwnRows` needs no more, and holds
for tainted sources, too. `RagInv == RagTypeOK /\ Owned /\ \A s \in Sources \ tainted : Fine(s)`. `Fine(s)` has one
clause per await of a request about `s`: where the live rows of the source are at that moment (in the maps, in
the copy whose rows are being deleted, or inserted and not yet listed), how many chunks of the new text are listed, and
what the document entry says of them unless the source is `partial`; and when no request is on its way, that the
last answer still holds. `LiveRowsListed`, `IndexedIsThere`, `DeletedIsGone` and `StatusIsTrue` are cases of it. The steps of a
request about another source preserve it because they change only rows of theirs (`RowsChange`); `Restart` because
listing the live rows in ascending order (`SortedSets`, `OrderLemmas`) lists each once.

### AsyncVectorDb

Any finite set of tasks, any places, `K`, `Ef`, `M0` and `EfConstruction`, any number of deleted rows, and at most
`Min({M0, EfConstruction}) + 1` rows (`TasksAssumption` to `RowsAssumption`). With more rows an insertion need not link all of them,
and `AloneExact` says nothing; that such a search need not find all is in the nature of the index.

`Inv == TypeInv /\ LockInv /\ RowsInv /\ WalkInv`. `LockInv` is the exclusion and who is in the queue; `RowsInv` that
every number in use is that of a row, and that every row is linked with every other, which is what a walk in one layer
with short lists finds; `WalkInv` is about a walk whose task never shared the lock: of the rows visited so far, none
that is left out is nearer than one that is kept, and one is left out only when there are `Width` of them. At the end
all rows are visited, and the nearest `k` live ones are among the `Width` kept since `Width` allows for every deleted row.

### Hnsw

Any finite set of angles that is not empty and a `Zero` outside it (`AnglesAssumption`), and any positive `M`, `M0`,
`EfConstruction`, any `MaxLevel` and bounds (`HnswAssumption`); the configuration of the code has all three positive, and
vectors of finite precision are finitely many.

`GraphInv == GraphTypeOK /\ EntryUsable /\ LinksWellFormed`, proved together because the steps use one another: what a
walk finds are rows only if it starts at one (`EntryUsable`) and the lists hold rows (`GraphTypeOK`); `add_link` puts no
node twice into a list only if none was there twice before; and a placeholder gets no links because a walk never reports
one, even where old lists still lead to it. The proof goes down the code: what `Spread`, `SelectNeighbors` and `ByDistance`
keep of a list, `AddLink` of a graph (`AddLinkFacts`), `Descend` and `Walk` of a set of rows that is closed under the lists
(`Closed`), then `LinkFrom`, and the four cases of `rebuild_hnsw_node`.

That as many turns as rows are enough is proved, too: `WalkEnds` counts the rows that were candidates and never will be
again (each turn of `search_layer` adds one, or it has ended), `DescendEnds` the rows that are nearer than the one the
greedy walk is at (each turn that moves leaves fewer).

`FoundUnlessUpdated` speaks of searches, not of the graph, so it needs what makes them succeed. `Plain` says that, as long
as there was no update, the rows with a vector lead to each other only (`Among`) and, if the lists of layer 0 may hold
all of them (`Len(rows) <= M0 + 1`), no part of them is cut off (`Connected`: a set of rows that is not empty and closed
under the lists of layer 0 is all of them). An insertion keeps it because `search_layer` finds at least one row
(`SearchLayerFacts`), the new row and that one get each other (`Linked`), and with room no list loses a row (`Grown`).
A deletion changes no list. Two arguments then give the property: `NeverFull`, that a search for more than there is
never has as many results as it asks for, so that every turn takes a candidate and goes on to all its neighbours, and
`WalkFindsAll`, that after as many turns as rows no candidate is left, and what was visited is closed and so is
everything. `EfConstruction` may be as small as 1: it decides whom an insertion links to, not whether it links. Above
`M0 + 1` rows, or after updates, lists are cut and `Plain` promises nothing; the run `hnsw_update` shows what then happens.

### Chunkers

`ChunkerAssumption` (which `Chunker::new` asserts) and, for the syntax chunker, `DocumentsAssumption`: any tree of
nodes, each with any kind.

For `Chunker`, `Inv == TypeInv /\ LoopInv /\ WindowsCover /\ KeptInv`. `WindowsCover` speaks of windows that are
there, not of the next one; `LoopInv` says that the next starts `Overlap` words before the end of the last, which is
still in front of the end of the text, so that it is not empty and the one after makes progress. `KeptInv` makes
`EveryWordKept` inductive: a word of a new window lies in it or in front of the end of the one before, because the
overlap is smaller than the window.

For `SyntaxChunker`, `Base == SyntaxTypes /\ Control` carries the types and where the call is, and the rest one question
each. `WindowInv`: the fallback is a run of `Chunker`. `ReasonInv`: `LongHasReason` at every turn of the walk and of the
merging, whose steps join two ranges only when the count of the joined one allows it. `LayoutInv`: the nodes still
to come, on the stack or among the children of an oversized node, lie apart from each other and from all that was
found, but for the pieces of a child that is being split, which grow towards its end. `HeaderInv` (`Placed`): what
was found lies in front of the oversized node, behind all of its children to come, or in front of the next child
and not behind the last chunk; a header taken as context may then start no earlier than the last chunk ends.
`OrderInv`: if what was found ascends (`Rising`), the chunks carry it one by one (`Matching`) until the merging,
which keeps what it has passed and matches what it has not (`Merging`). TLC checked `OrderInv` on the `chunk_text`
instance before it was proved.

### How induction over data was avoided

The replay of the log, the sorted lists and the folds of a walk are recursive functions over data, and an
induction theorem with an operator for its parameter cannot be used. `OrderLemmas` has a first-order substitute: a set of
numbers that is not empty has a least element (`LeastExists`, from well-foundedness of the numbers), so a claim about
all numbers is proved from a least counterexample, and `RecursionExists` shows from it that a function with a
recursive definition exists (for `Reads`, `ReaderExists`). `LoopExists` and `LoopKeeps` of `HnswProofs` do the same for
the loops of the graph: a set of states is given as a set, not as a predicate, so both can be cited. `Ascending`, `InOrder` and `NearestFirst` are defined by the place of
each element, where `SetToSortSeq` of the community modules is built on an operator (`SortSeq`) that the prover
has no definition of.

### Only model-checked

* Liveness: `Answered`, `LockIsGranted`, `Chunked`.
* That `SyntaxChunker` and `Chunker` end is liveness, too; the proofs say what holds whenever they do.

## 5. What is not modelled

* Power loss: the code promises process-crash safety between flushes (`wal.rs:386-388`), so what was
  written stays written.
* In `Wal`: failures of seeks, of reading sizes and of opening the null file, reads that fail for another reason
  than a header that is missing or not whole, `remove_file` that fails (ignored by the code: the segment stays), what of a record that was
  written from inside a header could be read as a record (the file counts as unreadable), the generation and timestamp fields (read by nothing that matters here), the checksum (a torn
  record does not parse), the file lock, and the async variants of the log calls, which send the same
  messages as the blocking ones.
* In `VectorStore`: `live_len` in a compaction (a panic there, or an error of the fresh database, changes nothing of the
  database and is left out), dimension checks, a msync that fails inside `MetadataStore::grow`, failures of the later
  renames and of the truncation of a compaction (their states are those of a crash there), the temporary
  database that a compaction writes, a second process.
* In `AsyncVectorDb`: updates, flushes and compactions (writers like the others), layers above the lowest and
  full lists (`Hnsw` has them), reads of single rows, a task that is cancelled.
* In `Hnsw`: distances that fail (vectors that are not finite), growth of the mapping, crashes inside an
  insertion, entry points that are placeholders of databases written by older versions, the filter by
  source of `search_with_source_filter`.
* In `SyntaxChunker`: the grammars, words of several bytes or with several separators between them, the tables
  of kinds, names of chunks, extra nodes that are of a top-level kind. Nodes start and end with words: one that starts inside a word counts one word
  more in the `count_words` of the merging (437-454) than in that of the walk (35-41), which tells chunks apart only with overlap 0. The children of TLC's documents fill their nodes; the proofs also allow gaps.
* In `RagIndex`: the ranking of searches, an operation that fails with its record in the log, progress
  notices, directory walks (a sequence of `index_file` requests).
* The components with status `not_modelled` in `PROJECT.json`; embeddings, extraction and grammars are
  third-party code, the command line is wiring.

## 6. Plan

1. Done: `Wal`, `DurableLog`, `WalProofs`, `WalOrderProofs`; `VectorStore` with compaction and growth, `VectorMap`,
   `VectorStoreProofs`; `Hnsw`, `HnswProofs`; `AsyncVectorDb`, `AsyncProofs`; `RagIndex`, `RagIndexProofs`; `Chunker`,
   `SyntaxChunker`, `SyntaxProofs`.
2. Composition: `RagIndex` over `VectorStore` instead of atomic inserts, for the requests that fail with
   their record in the log.
3. A second process over the files of `VectorStore`.
