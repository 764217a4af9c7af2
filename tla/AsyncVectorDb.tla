---------------------------- MODULE AsyncVectorDb ----------------------------
(***************************************************************************)
(* AsyncVectorDb of src/src/r_vector.rs: the read-write lock around        *)
(* VectorDb (tokio's, which serves tasks first come, first served), and    *)
(* what the tasks that hold it do with the scratch buffers of the graph:   *)
(* searches share the read lock and the buffers; inserts use them, too,    *)
(* under the write lock.  The rows lie on a line and in one layer, and     *)
(* there are so few that an insert finds and links them all (module Hnsw   *)
(* has layers, full lists and updates).                                    *)
(* The steps of two searches interleave one by one; the build's own        *)
(* outcomes of such a data race are more, and worse.                       *)
(***************************************************************************)
EXTENDS Integers, Sequences, FiniteSets, SequencesExt, FiniteSetsExt

CONSTANTS
    Tasks,
    Places,         \* vectors: places on a line
    K, Ef,          \* hits and working set that a search asks for
    M0,             \* m0: links of a row
    EfConstruction, \* ef_construction: rows that an insert finds
    MaxRows,        \* bound: rows; a list has room for all the others, and an insert
                    \*   finds them all
    MaxDeleted      \* bound: rows that are deleted

ASSUME TasksAssumption == IsFiniteSet(Tasks)
ASSUME PlacesAssumption == Places \subseteq Int
ASSUME SearchAssumption == K \in Nat \ {0} /\ Ef \in Nat
ASSUME RowsAssumption ==
    /\ {M0, EfConstruction, MaxRows, MaxDeleted} \subseteq Nat
    /\ MaxRows <= M0 + 1 /\ MaxRows <= EfConstruction + 1

VARIABLES
    rows,           \* the rows: place, flag, neighbours; the entry point is row 1
    scratch,        \* SearchBuffers: visited, candidates, results, output
    holders,        \* tasks that hold the lock
    queue,          \* tasks that wait for it, in their order
    task            \* per task its step, its call and the walk's local variables
vars == <<rows, scratch, holders, queue, task>>

Ids == 1 .. MaxRows

\* A candidate or a result carries the distance that the task that found it measured.
Found == [dist : Nat, id : Ids]
Call == [kind : {"search", "insert"}, at : Places] \cup [kind : {"delete"}, id : Ids]

Idle == [pc |-> "idle", call |-> [kind |-> "none"], rest |-> <<>>, shared |-> FALSE]

Init ==
    /\ rows = <<>>
    /\ scratch = [visited |-> {}, candidates |-> {}, results |-> {}, output |-> <<>>]
    /\ holders = {} /\ queue = <<>>
    /\ task = [t \in Tasks |-> Idle]

(***************************************************************************)
(* The lock                                                                *)
(***************************************************************************)
Reads(t) == task[t].call.kind = "search"

Inserting == {t \in Tasks : task[t].call.kind = "insert"}
Dead == {id \in DOMAIN rows : ~rows[id].live}
Deleting == {task[t].call.id : t \in {u \in Tasks : task[u].call.kind = "delete"}}

\* A task calls; the ids it deletes are those that inserts answered.
Ask(t, call) ==
    /\ task[t].pc = "idle"
    /\ call.kind = "delete" =>
        call.id \in DOMAIN rows /\ Cardinality(Dead \cup Deleting \cup {call.id}) <= MaxDeleted
    /\ call.kind = "insert" => Len(rows) + Cardinality(Inserting) < MaxRows
    /\ task' = [task EXCEPT ![t] = [Idle EXCEPT !.pc = "waiting", !.call = call]]
    /\ queue' = Append(queue, t)
    /\ UNCHANGED <<rows, scratch, holders>>

\* A reader joins readers, a writer needs the lock alone.
Compatible(t) == holders = {} \/ (Reads(t) /\ \A h \in holders : Reads(h))

MayEnter(t) == Compatible(t) /\ t = Head(queue)

\* A search that shares the lock with another shares the buffers with it.
Enter(t) ==
    /\ task[t].pc = "waiting" /\ MayEnter(t)
    /\ queue' = Tail(queue)
    /\ holders' = holders \cup {t}
    /\ task' = [u \in Tasks |->
          IF u = t THEN [task[t] EXCEPT !.pc = "start", !.shared = holders # {}]
          ELSE IF u \in holders THEN [task[u] EXCEPT !.shared = TRUE]
          ELSE task[u]]
    /\ UNCHANGED <<rows, scratch>>

Leave(t) ==
    /\ holders' = holders \ {t}
    /\ task' = [task EXCEPT ![t] = Idle]
    /\ UNCHANGED queue

(***************************************************************************)
(* The walk of search_layer over the shared buffers                        *)
(***************************************************************************)
Dist(t, id) == LET d == rows[id].at - task[t].call.at IN IF d < 0 THEN -d ELSE d
Measured(t, id) == [dist |-> Dist(t, id), id |-> id]

\* The order of the heaps, and that of the output.
Before(x, y) == x.dist < y.dist \/ (x.dist = y.dist /\ x.id < y.id)
Least(xs) == CHOOSE x \in xs : \A y \in xs \ {x} : Before(x, y)
Greatest(xs) == CHOOSE x \in xs : \A y \in xs \ {x} : Before(y, x)

\* The place of x among xs in that order, and xs in that order (rows at the same distance
\* come out of the heap in an order of its own; here by their numbers).
Place(xs, x) == Cardinality({y \in xs : y = x \/ Before(y, x)})
NearestFirst(xs) == [k \in 1 .. Cardinality(xs) |-> CHOOSE x \in xs : Place(xs, x) = k]

\* A search reports no deleted row; an insert links to those, too.
Reported(t, id) == rows[id].live \/ ~Reads(t)
Results(t, ids) == {Measured(t, id) : id \in {i \in ids : Reported(t, i)}}

Walks(t) == task[t].call.kind \in {"search", "insert"}

\* Mutation: the rows that the walk before this one saw stay marked.
KeepsVisited(t) == [scratch EXCEPT !.visited = @ \cup {1}]

Visited(t) == [scratch EXCEPT !.visited = {1}]

\* The walk sets out from the entry point; without one there is nothing to search.
StartWalk(t) ==
    /\ task[t].pc = "start" /\ Walks(t) /\ rows # <<>>
    /\ scratch' = [Visited(t) EXCEPT !.candidates = {Measured(t, 1)}, !.results = Results(t, {1})]
    /\ task' = [task EXCEPT ![t].pc = "walk"]
    /\ UNCHANGED <<rows, holders, queue>>

NothingToSearch(t) ==
    /\ task[t].pc = "start" /\ Reads(t) /\ rows = <<>>
    /\ Leave(t)
    /\ UNCHANGED <<rows, scratch>>

\* VectorDb::search widens the working set with the hits asked for and the rows deleted.
Width ==
    IF K <= 100 THEN Max({Ef, 2 * K}) + Min({32, Cardinality(Dead)})
    ELSE Max({Ef, 4 * K}) + Min({64, Cardinality(Dead)})

Full == Cardinality(scratch.results) >= Width

\* The nearest candidate is taken off; the walk ends at one that is too far, or at none.
\* An insert, whose working set has room for all rows, ends at none.
Pop(t) ==
    LET c == Least(scratch.candidates) IN
    /\ task[t].pc = "walk" /\ task[t].rest = <<>>
    /\ IF scratch.candidates = {}
       THEN task' = [task EXCEPT ![t].pc = "output"] /\ UNCHANGED scratch
       ELSE /\ scratch' = [scratch EXCEPT !.candidates = @ \ {c}]
            /\ task' = IF Reads(t) /\ Full /\ c.dist > Greatest(scratch.results).dist
                       THEN [task EXCEPT ![t].pc = "output"]
                       ELSE [task EXCEPT ![t].rest = rows[c.id].links]
    /\ UNCHANGED <<rows, holders, queue>>

\* Mutation: a row that was seen is not marked.
Unmarked(n) == scratch.visited

Marked(n) == scratch.visited \cup {n}

\* One neighbour: skipped when visited, kept when near enough.
Neighbour(t) ==
    LET n    == Head(task[t].rest)
        near == ~Reads(t) \/ ~Full \/ Dist(t, n) < Greatest(scratch.results).dist
        more == scratch.results \cup Results(t, {n})
        over == Reads(t) /\ Cardinality(more) > Width
    IN
    /\ task[t].pc = "walk" /\ task[t].rest # <<>>
    /\ task' = [task EXCEPT ![t].rest = Tail(@)]
    /\ scratch' =
          IF n \in scratch.visited THEN scratch
          ELSE IF ~near THEN [scratch EXCEPT !.visited = Marked(n)]
          ELSE [scratch EXCEPT !.visited = Marked(n),
                               !.candidates = @ \cup {Measured(t, n)},
                               !.results = IF over THEN more \ {Greatest(more)} ELSE more]
    /\ UNCHANGED <<rows, holders, queue>>

\* The results are drained into the output, nearest first.
Output(t) ==
    /\ task[t].pc = "output"
    /\ scratch' = [scratch EXCEPT !.results = {}, !.output = NearestFirst(scratch.results)]
    /\ task' = [task EXCEPT ![t].pc = "take"]
    /\ UNCHANGED <<rows, holders, queue>>

\* The answer is read from the output.
Hits == {scratch.output[i].id : i \in {j \in DOMAIN scratch.output : j <= K}}

TakeHits(t) ==
    /\ task[t].pc = "take" /\ Reads(t)
    /\ Leave(t)
    /\ UNCHANGED <<rows, scratch>>

(***************************************************************************)
(* The writers                                                             *)
(***************************************************************************)
Row(t, links) == [at |-> task[t].call.at, live |-> TRUE, links |-> links]

\* Mutation: the number of the last row.
LastRow == Len(rows)

NewRow == Len(rows) + 1

\* The new row and the rows found, which are all the others, are linked with each other:
\* select_neighbors_heuristic and add_link cut no list that is not longer than m0.  The
\* order of a list is of no account here.
LinkRow(t) ==
    LET found == [i \in DOMAIN scratch.output |-> scratch.output[i].id]
    IN
    /\ task[t].pc = "take" /\ ~Reads(t)
    /\ rows' = Append([id \in DOMAIN rows |->
                          IF id \in ToSet(found) THEN [rows[id] EXCEPT !.links = Append(@, NewRow)] ELSE rows[id]],
                      Row(t, found))
    /\ Leave(t)
    /\ UNCHANGED scratch

FirstRow(t) ==
    /\ task[t].pc = "start" /\ task[t].call.kind = "insert" /\ rows = <<>>
    /\ rows' = <<Row(t, <<>>)>>
    /\ Leave(t)
    /\ UNCHANGED scratch

\* Without effect on a row that is deleted already.
DeleteRow(t) ==
    LET id == task[t].call.id IN
    /\ task[t].pc = "start" /\ task[t].call.kind = "delete"
    /\ rows' = [rows EXCEPT ![id].live = FALSE]
    /\ Leave(t)
    /\ UNCHANGED scratch

Step(t) ==
    \/ Enter(t) \/ StartWalk(t) \/ NothingToSearch(t) \/ Pop(t) \/ Neighbour(t)
    \/ Output(t) \/ TakeHits(t) \/ LinkRow(t) \/ FirstRow(t) \/ DeleteRow(t)

Next == \E t \in Tasks : Step(t) \/ \E call \in Call : Ask(t, call)

\* A task that has the lock, or can have it, goes on; nobody has to ask.
Spec == Init /\ [][Next]_vars /\ \A t \in Tasks : WF_vars(Step(t))

(***************************************************************************)
(* Properties                                                              *)
(***************************************************************************)
\* Types; those who wait are in the queue once, and the lock is shared by readers only.
AsyncTypeOK ==
    /\ \A id \in DOMAIN rows : rows[id].at \in Places /\ ToSet(rows[id].links) \subseteq DOMAIN rows \ {id}
    /\ scratch.visited \subseteq Ids /\ ToSet(scratch.output) \subseteq Found
    /\ scratch.candidates \subseteq Found /\ scratch.results \subseteq Found
    /\ IsInjective(queue) /\ ToSet(queue) = {t \in Tasks : task[t].pc = "waiting"}
    /\ holders = {t \in Tasks : task[t].pc \notin {"idle", "waiting"}}
    /\ Cardinality(holders) > 1 => \A t \in holders : Reads(t)
    /\ \A t \in Tasks : task[t].pc = "idle" \/ task[t].call \in Call

\* The hits are live rows, as many as asked for, and none left out is nearer.
Live == {id \in DOMAIN rows : rows[id].live}
Nearest(t, hits) ==
    /\ hits \subseteq Live /\ Cardinality(hits) = Min({K, Cardinality(Live)})
    /\ \A id \in hits, other \in Live \ hits : Dist(t, id) <= Dist(t, other)

\* A search is about to answer.
Answers(t) == Reads(t) /\ task[t].pc = "take"

\* A search that had the lock to itself answers with the nearest live rows, whatever
\* searches and inserts left in the buffers before it.
AloneIsExact == \A t \in Tasks : Answers(t) /\ ~task[t].shared => Nearest(t, Hits)

\* What the comment on the buffers says: the lock keeps searches from sharing them, so
\* every search answers its own question.
SearchIsOwn == \A t \in Tasks : Answers(t) => Nearest(t, Hits)

\* Everyone who waits for the lock gets it, a writer in spite of readers that keep coming.
LockIsGranted == \A t \in Tasks : task[t].pc = "waiting" ~> t \in holders
=============================================================================
