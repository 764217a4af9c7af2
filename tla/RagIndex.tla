------------------------------ MODULE RagIndex ------------------------------
(***************************************************************************)
(* RagCore of src/src/rag.rs as the MCP server runs it: requests that      *)
(* index or delete a source, each a sequence of awaits on the vector       *)
(* database and on the two maps of MetadataIndex, with no lock over the    *)
(* whole.  An insert or a delete of the database is one step and survives  *)
(* a crash (modules VectorMap and VectorStore); the maps are memory and    *)
(* are built again when the server starts.                                 *)
(*                                                                         *)
(* Ids here are one more than in the code; 0 is None.                      *)
(***************************************************************************)
EXTENDS Naturals, Sequences, FiniteSets, SequencesExt, SortedSets

CONSTANTS
    Clients,        \* requests that may run at the same time
    Sources,        \* sources
    Texts,          \* contents, told apart by their hash
    ChunksOf,       \* how many chunks a text has
    BatchSize,      \* BATCH_SIZE: chunks embedded together
    Faults,         \* what may fail: "embed", "insert", "delete", "flush"; "edit": a file
                    \* changes between the two reads of index_file
    MaxRequests,    \* bound: requests
    MaxRestarts,    \* bound: crashes and shutdowns
    MaxFaults       \* bound: failures

ASSUME ChunksAssumption == ChunksOf \in [Texts -> Nat] /\ Texts # {}
ASSUME BatchAssumption == BatchSize \in Nat \ {0}
ASSUME RagFaultsAssumption == Faults \subseteq {"embed", "insert", "delete", "flush", "edit"}
ASSUME RagBoundsAssumption == {MaxRequests, MaxRestarts, MaxFaults} \subseteq Nat

VARIABLES
    rows,           \* the database: chunks and document entries, live or tombstoned
    chunkIds,       \* source_to_ids
    docIds,         \* doc_metadata_ids
    task,           \* the request each client runs, and its local variables
    \* bookkeeping that no code reads
    answer,         \* what the last request about a source answered, until the next one
    tainted,        \* sources that two requests worked on at once, or with a failed delete,
                    \* until the next start
    partial,        \* sources where an indexing broke off or took the hash of an older
                    \* content, or that were tainted, and no delete came after it
    requests, restarts, faults

maps   == <<chunkIds, docIds>>
ghosts == <<answer, tainted, partial>>
vars   == <<rows, maps, task, ghosts, requests, restarts, faults>>

(***************************************************************************)
(* The database and the maps                                               *)
(***************************************************************************)
\* ChunkMetadata and DocumentMetadataEntry: text is the content the chunk was cut
\* from, or the content_hash; n is chunk_index, or chunk_count.
Chunk(s, text, n) == [live |-> TRUE, doc |-> FALSE, src |-> s, text |-> text, n |-> n]
DocEntry(s, hash, count) == [live |-> TRUE, doc |-> TRUE, src |-> s, text |-> hash, n |-> count]

\* Mutation: the id is taken after the length was raised.
IdAfter == Len(rows) + 2

\* VectorDb::insert appends a row and returns its id.
NewId == Len(rows) + 1
Insert(row) == rows' = Append(rows, row)

\* VectorDb::delete: a tombstone, or nothing if there is one.
Delete(id) == rows' = [rows EXCEPT ![id].live = FALSE]

LiveChunks(s) == {i \in DOMAIN rows : rows[i].live /\ ~rows[i].doc /\ rows[i].src = s}
LiveDocs(s) == {i \in DOMAIN rows : rows[i].live /\ rows[i].doc /\ rows[i].src = s}

\* Mutation: only sources with a document entry are rebuilt.
ChunksWithDoc(s) == IF LiveDocs(s) = {} THEN {} ELSE LiveChunks(s)

\* Mutation: the rows of every source are listed.
AnyChunks(s) == {i \in DOMAIN rows : rows[i].live /\ ~rows[i].doc}

\* RagCore::new: the live rows in the order of their ids; the last document wins.
RebuiltChunks(s) == LiveChunks(s)
RebuiltDoc(s) == IF LiveDocs(s) = {} THEN 0 ELSE Max(LiveDocs(s))

(***************************************************************************)
(* Requests                                                                *)
(***************************************************************************)
AnyText == CHOOSE t \in Texts : TRUE
NoTask == [pc |-> "idle", kind |-> "delete", src |-> "none", text |-> AnyText,
           hash |-> AnyText, ids |-> <<>>, id |-> 0, next |-> 0]
NoAnswer == [kind |-> "none", text |-> AnyText, hash |-> AnyText]

Init ==
    /\ rows = <<>>
    /\ chunkIds = [s \in Sources |-> <<>>] /\ docIds = [s \in Sources |-> 0]
    /\ task = [c \in Clients |-> NoTask]
    /\ answer = [s \in Sources |-> NoAnswer] /\ tainted = {} /\ partial = {}
    /\ requests = 0 /\ restarts = 0 /\ faults = 0

At(c, state) == task[c].pc = state
Src(c) == task[c].src
WorksOn(s) == {c \in Clients : ~At(c, "idle") /\ Src(c) = s}

Goes(c, state) == task' = [task EXCEPT ![c].pc = state]
Holding(c, state, id) == task' = [task EXCEPT ![c].pc = state, ![c].id = id]
Ends(c) == task' = [task EXCEPT ![c] = NoTask]
Answers(c, kind) ==
    answer' = [answer EXCEPT ![Src(c)] = [kind |-> kind, text |-> task[c].text, hash |-> task[c].hash]]

\* index_file reads a pdf, an office document and a file that is not UTF-8 once for its
\* hash and again for its text; the hash may be that of a content it no longer has.
Reads(text, hash) ==
    \/ hash = text /\ UNCHANGED faults
    \/ hash # text /\ "edit" \in Faults /\ faults < MaxFaults /\ faults' = faults + 1

\* index_text, index_file, delete_source.
Begin(c, kind, s, text, hash) ==
    /\ At(c, "idle") /\ requests < MaxRequests
    /\ kind = "delete" => text = AnyText /\ hash = AnyText
    /\ Reads(text, hash)
    /\ task' = [task EXCEPT ![c] = [NoTask EXCEPT !.pc = IF kind = "index" THEN "status" ELSE "ids",
                                    !.kind = kind, !.src = s, !.text = text, !.hash = hash]]
    /\ answer' = [answer EXCEPT ![s] = NoAnswer]
    /\ tainted' = IF WorksOn(s) = {} THEN tainted ELSE tainted \cup {s}
    /\ requests' = requests + 1
    /\ UNCHANGED <<rows, maps, partial, restarts>>

\* The chunks, or without any the document entry.
Indexing(text) == IF ChunksOf[text] = 0 THEN "upsert" ELSE "insert"

\* document_status: the id from the map ...
ReadStatus(c) ==
    /\ At(c, "status")
    /\ LET id == docIds[Src(c)] IN
       Holding(c, IF id = 0 THEN Indexing(task[c].text) ELSE "meta", id)
    /\ UNCHANGED <<rows, maps, ghosts, requests, restarts, faults>>

\* Mutation: the old chunks are not deleted.
KeepsOld(found) == FALSE

\* Content that changed is deleted first.
DeletesOld(found) == found

\* ... then its metadata, gone if the row was deleted in between.
CheckStatus(c) ==
    LET row == rows[task[c].id] IN
    /\ At(c, "meta")
    /\ IF row.live /\ row.text = task[c].hash
       THEN Ends(c) /\ Answers(c, "skipped")
       ELSE Goes(c, IF DeletesOld(row.live) THEN "ids" ELSE Indexing(task[c].text)) /\ UNCHANGED answer
    /\ UNCHANGED <<rows, maps, tainted, partial, requests, restarts, faults>>

(***************************************************************************)
(* delete_source                                                           *)
(***************************************************************************)
ReadChunkIds(c) ==
    /\ At(c, "ids")
    /\ task' = [task EXCEPT ![c].pc = "rows", ![c].ids = chunkIds[Src(c)]]
    /\ UNCHANGED <<rows, maps, ghosts, requests, restarts, faults>>

DeleteChunk(c) ==
    /\ At(c, "rows") /\ task[c].ids # <<>>
    /\ Delete(Head(task[c].ids))
    /\ task' = [task EXCEPT ![c].ids = Tail(@)]
    /\ UNCHANGED <<maps, ghosts, requests, restarts, faults>>

ReadDocId(c) ==
    /\ At(c, "rows") /\ task[c].ids = <<>>
    /\ LET id == docIds[Src(c)] IN Holding(c, IF id = 0 THEN "remove" ELSE "docrow", id)
    /\ UNCHANGED <<rows, maps, ghosts, requests, restarts, faults>>

DeleteDoc(c) ==
    /\ At(c, "docrow")
    /\ Delete(task[c].id)
    /\ Goes(c, "remove")
    /\ UNCHANGED <<maps, ghosts, requests, restarts, faults>>

\* Mutation: the document entry of the source is forgotten.
ChunksOnly(s) == docIds

NoDoc(s) == [docIds EXCEPT ![s] = 0]

\* remove_source holds the lock of the first map until it has the second.
RemoveSource(c) ==
    /\ At(c, "remove")
    /\ chunkIds' = [chunkIds EXCEPT ![Src(c)] = <<>>]
    /\ docIds' = NoDoc(Src(c))
    /\ IF task[c].kind = "delete" THEN Ends(c) /\ Answers(c, "deleted")
       ELSE Goes(c, Indexing(task[c].text)) /\ UNCHANGED answer
    /\ partial' = partial \ {Src(c)}
    /\ UNCHANGED <<rows, tainted, requests, restarts, faults>>

\* A delete that fails is logged as a warning and the request goes on.
DeleteFails(c) ==
    /\ "delete" \in Faults /\ faults < MaxFaults
    /\ \/ /\ At(c, "rows") /\ task[c].ids # <<>>
          /\ rows[Head(task[c].ids)].live
          /\ task' = [task EXCEPT ![c].ids = Tail(@)]
       \/ At(c, "docrow") /\ rows[task[c].id].live /\ Goes(c, "remove")
       \/ At(c, "olddoc") /\ rows[task[c].id].live /\ Goes(c, "doc")
    /\ tainted' = tainted \cup {Src(c)}
    /\ faults' = faults + 1
    /\ UNCHANGED <<rows, maps, answer, partial, requests, restarts>>

(***************************************************************************)
(* index_chunks                                                            *)
(***************************************************************************)
InsertChunk(c) ==
    /\ At(c, "insert")
    /\ Insert(Chunk(Src(c), task[c].text, task[c].next))
    /\ Holding(c, "list", NewId)
    /\ UNCHANGED <<maps, ghosts, requests, restarts, faults>>

\* Mutation: the loop ends one chunk early.
ButLast(c) == ChunksOf[task[c].text] - 1

ChunkCount(c) == ChunksOf[task[c].text]

ListChunk(c) ==
    /\ At(c, "list")
    /\ chunkIds' = [chunkIds EXCEPT ![Src(c)] = Append(@, task[c].id)]
    /\ task' = [task EXCEPT ![c].next = @ + 1,
                            ![c].pc = IF task[c].next + 1 < ChunkCount(c) THEN "insert" ELSE "flush"]
    /\ UNCHANGED <<rows, docIds, ghosts, requests, restarts, faults>>

\* upsert_metadata, after the flush.
ReadOldDoc(c) ==
    /\ At(c, "flush") \/ At(c, "upsert")
    /\ LET id == docIds[Src(c)] IN Holding(c, IF id = 0 THEN "doc" ELSE "olddoc", id)
    /\ UNCHANGED <<rows, maps, ghosts, requests, restarts, faults>>

DeleteOldDoc(c) ==
    /\ At(c, "olddoc")
    /\ Delete(task[c].id)
    /\ Goes(c, "doc")
    /\ UNCHANGED <<maps, ghosts, requests, restarts, faults>>

InsertDoc(c) ==
    /\ At(c, "doc")
    /\ Insert(DocEntry(Src(c), task[c].hash, ChunksOf[task[c].text]))
    /\ Holding(c, "listdoc", NewId)
    /\ UNCHANGED <<maps, ghosts, requests, restarts, faults>>

ListDoc(c) ==
    /\ At(c, "listdoc")
    /\ docIds' = [docIds EXCEPT ![Src(c)] = task[c].id]
    /\ Ends(c) /\ Answers(c, "indexed")
    /\ partial' = IF task[c].hash = task[c].text THEN partial ELSE partial \cup {Src(c)}
    /\ UNCHANGED <<rows, chunkIds, tainted, requests, restarts, faults>>

\* An embedding at the start of a batch, an insert or the flush fails: the request
\* ends with the error and what it stored stays.
IndexFails(c) ==
    /\ faults < MaxFaults
    /\ \/ At(c, "insert") /\ "embed" \in Faults /\ task[c].next % BatchSize = 0
       \/ (At(c, "insert") \/ At(c, "doc")) /\ "insert" \in Faults
       \/ At(c, "flush") /\ "flush" \in Faults
    /\ Ends(c)
    /\ partial' = partial \cup {Src(c)}
    /\ faults' = faults + 1
    /\ UNCHANGED <<rows, maps, answer, tainted, requests, restarts>>

\* The server dies or is shut down, and starts again.  The maps are then those of the
\* rows again, except that a source with two document entries gets one of them.
Restart ==
    /\ restarts < MaxRestarts
    /\ restarts' = restarts + 1
    /\ chunkIds' = [s \in Sources |-> Ascending(RebuiltChunks(s))]
    /\ docIds' = [s \in Sources |-> RebuiltDoc(s)]
    /\ task' = [c \in Clients |-> NoTask]
    /\ partial' = partial \cup tainted \cup {s \in Sources : WorksOn(s) # {}}
    /\ answer' = [s \in Sources |-> IF s \in tainted THEN NoAnswer ELSE answer[s]]
    /\ tainted' = {s \in tainted : Cardinality(LiveDocs(s)) > 1}
    /\ UNCHANGED <<rows, requests, faults>>

Request(c) ==
    \E kind \in {"index", "delete"}, s \in Sources, text, hash \in Texts : Begin(c, kind, s, text, hash)

Step(c) ==
    \/ ReadStatus(c) \/ CheckStatus(c)
    \/ ReadChunkIds(c) \/ DeleteChunk(c) \/ ReadDocId(c) \/ DeleteDoc(c) \/ RemoveSource(c)
    \/ InsertChunk(c) \/ ListChunk(c)
    \/ ReadOldDoc(c) \/ DeleteOldDoc(c) \/ InsertDoc(c) \/ ListDoc(c)
    \/ DeleteFails(c) \/ IndexFails(c)

Next == Restart \/ \E c \in Clients : Request(c) \/ Step(c)

Spec == Init /\ [][Next]_vars

(***************************************************************************)
(* Properties                                                              *)
(***************************************************************************)
Row == [live : BOOLEAN, doc : BOOLEAN, src : Sources, text : Texts, n : Nat]
States == {"idle", "status", "meta", "ids", "rows", "docrow", "remove", "insert", "list",
           "flush", "upsert", "olddoc", "doc", "listdoc"}
IdsOf(s) == {chunkIds[s][k] : k \in DOMAIN chunkIds[s]}

\* Types; every id in a map or held by a request is that of a row.
RagTypeOK ==
    /\ rows \in Seq(Row)
    /\ chunkIds \in [Sources -> Seq(DOMAIN rows)]
    /\ docIds \in [Sources -> 0 .. Len(rows)]
    /\ task \in [Clients -> [pc : States, kind : {"index", "delete"}, src : Sources \cup {"none"},
                             text : Texts, hash : Texts, ids : Seq(DOMAIN rows), id : 0 .. Len(rows), next : Nat]]
    /\ answer \in [Sources -> [kind : {"none", "skipped", "indexed", "deleted"}, text : Texts, hash : Texts]]
    /\ tainted \subseteq Sources /\ partial \subseteq Sources
    /\ requests \in Nat /\ restarts \in Nat /\ faults \in Nat

Quiet(s) == WorksOn(s) = {}
Present(s, text) ==
    \A n \in 0 .. ChunksOf[text] - 1 : \E i \in IdsOf(s) : rows[i] = Chunk(s, text, n)

\* However requests interleave, a row is deleted only by a request about its own
\* source: an id that a request took from a map before an await is still that row.
OwnRowsOnly ==
    [][\A i \in DOMAIN rows : rows[i].live /\ ~rows'[i].live =>
            \E c \in Clients : Src(c) = rows[i].src /\ task'[c] # task[c]]_vars

\* Between requests the maps list all live rows of a source and no others, once,
\* whatever failed or crashed before, unless two requests about it overlapped or a
\* delete failed; then the next start lists them all again.
LiveRowsListed ==
    \A s \in Sources \ tainted : Quiet(s) =>
        /\ IdsOf(s) = LiveChunks(s) /\ IsInjective(chunkIds[s])
        /\ LiveDocs(s) = {docIds[s]} \ {0}

\* After an indexing that answered "indexed", also with a crash in between or leftovers
\* of earlier attempts, all chunks of the text can be found and the status has its hash.
IndexedIsThere ==
    \A s \in Sources \ tainted :
        answer[s].kind = "indexed" =>
            /\ Present(s, answer[s].text)
            /\ docIds[s] # 0 /\ rows[docIds[s]].live /\ rows[docIds[s]].text = answer[s].hash

\* After a delete_source nothing of the source is left, leftovers of failed or
\* crashed indexings and of failed deletes before the last start included.
DeletedIsGone ==
    \A s \in Sources \ tainted :
        answer[s].kind = "deleted" => LiveChunks(s) \cup LiveDocs(s) = {}

\* Between requests document_status tells the truth: the chunks of the source are
\* those of the hash it reports, as many as it reports.  An indexing that took the hash
\* of an older content is replaced by the next one that finds another hash.
StatusIsTrue ==
    \A s \in Sources \ (tainted \cup partial) :
        Quiet(s) =>
            IF docIds[s] = 0 THEN LiveChunks(s) = {}
            ELSE LET doc == rows[docIds[s]] IN
                 /\ Present(s, doc.text)
                 /\ Cardinality(LiveChunks(s)) = doc.n

\* A source that is answered "skipped" is there.
SkippedIsThere ==
    \A s \in Sources \ tainted : answer[s].kind = "skipped" => Present(s, answer[s].hash)
=============================================================================
