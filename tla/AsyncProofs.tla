---------------------------- MODULE AsyncProofs ----------------------------
(***************************************************************************)
(* Proofs about AsyncVectorDb: the lock excludes what it should, and a     *)
(* search that has it to itself answers exactly, for any tasks, vectors    *)
(* and widths, and up to as many rows as RowsAssumption says, which is     *)
(* where an insertion still links a row with every other.                  *)
(***************************************************************************)
EXTENDS AsyncVectorDb, SequenceTheorems, FiniteSetTheorems, TLAPS

(***************************************************************************)
(* The inductive invariant                                                 *)
(***************************************************************************)
RowType == [at : Places, live : BOOLEAN, links : Seq(Ids)]
TaskType == [pc     : {"idle", "waiting", "start", "walk", "output", "take"},
             call   : Call \cup {Idle.call},
             rest   : Seq(Ids),
             shared : BOOLEAN]

TypeInv ==
    /\ rows \in Seq(RowType)
    /\ scratch \in [visited : SUBSET Ids, candidates : SUBSET Found,
                    results : SUBSET Found, output : Seq(Found)]
    /\ holders \in SUBSET Tasks /\ queue \in Seq(Tasks)
    /\ task \in [Tasks -> TaskType]

\* Who waits is in the queue once, who goes on holds the lock, and a writer holds it alone.
LockInv ==
    /\ IsInjective(queue) /\ ToSet(queue) = {t \in Tasks : task[t].pc = "waiting"}
    /\ holders = {t \in Tasks : task[t].pc \notin {"idle", "waiting"}}
    /\ \A g, h \in holders : g # h => Reads(g) /\ Reads(h)
    /\ \A t \in Tasks : task[t].pc # "idle" => task[t].call \in Call
    /\ \A t \in Tasks : task[t].pc \in {"walk", "output", "take"} => Walks(t) /\ rows # <<>>
    /\ \A t \in holders : IF task[t].shared THEN Reads(t) ELSE holders = {t}
    /\ \A t \in Tasks : task[t].pc \in {"idle", "waiting", "start"} => task[t].rest = <<>>

\* Every number in use is that of a row, and every row is linked with every other.
RowsInv ==
    /\ Len(rows) + Cardinality(Inserting) <= MaxRows
    /\ \A t \in Tasks : task[t].call.kind = "delete" => task[t].call.id \in DOMAIN rows
    /\ \A t \in Tasks : ToSet(task[t].rest) \subseteq DOMAIN rows
    /\ \A id \in DOMAIN rows : ToSet(rows[id].links) = DOMAIN rows \ {id}
    /\ IsFiniteSet(scratch.candidates) /\ IsFiniteSet(scratch.results)
    /\ scratch.visited \subseteq DOMAIN rows
    /\ \A x \in scratch.candidates \cup scratch.results \cup ToSet(scratch.output) : x.id \in DOMAIN rows

\* xs are those of the rows seen that the walk of t has to keep: none left out is nearer,
\* and one is left out only when there are enough.
Kept(t, xs, seen) ==
    /\ \A x \in xs : x.id \in seen /\ Reported(t, x.id) /\ x = Measured(t, x.id)
    /\ \A id \in seen : Reported(t, id) /\ Measured(t, id) \notin xs =>
          Reads(t) /\ Cardinality(xs) >= Width /\ \A x \in xs : x.dist <= Dist(t, id)

\* The walk of a task that has the lock to itself.
Started(t) == scratch.candidates = {Measured(t, 1)} /\ scratch.visited = {1} /\ task[t].rest = <<>>
WalkIs(t) ==
    /\ task[t].pc = "walk" =>
          /\ Kept(t, scratch.results, scratch.visited)
          /\ Started(t) \/ scratch.visited \cup ToSet(task[t].rest) = DOMAIN rows
    /\ task[t].pc = "output" => Kept(t, scratch.results, DOMAIN rows)
    /\ task[t].pc = "take" =>
          \E xs \in SUBSET Found : IsFiniteSet(xs) /\ scratch.output = NearestFirst(xs) /\ Kept(t, xs, DOMAIN rows)
WalkInv == \A t \in holders : ~task[t].shared => WalkIs(t)

Inv == TypeInv /\ LockInv /\ RowsInv /\ WalkInv

(***************************************************************************)
(* The order of what a walk finds                                          *)
(***************************************************************************)
\* Before is a strict total order.
LEMMA BeforeIsOrder ==
    ASSUME NEW x \in Found, NEW y \in Found, NEW z \in Found
    PROVE  /\ ~Before(x, x)
           /\ Before(x, y) /\ Before(y, z) => Before(x, z)
           /\ x = y \/ Before(x, y) \/ Before(y, x)
           /\ ~(Before(x, y) /\ Before(y, x))
           /\ Before(x, y) => x.dist <= y.dist
  <1>1. /\ x.dist \in Nat /\ y.dist \in Nat /\ z.dist \in Nat
        /\ x.id \in Int /\ y.id \in Int /\ z.id \in Int
    BY RowsAssumption DEF Found, Ids
  <1>2. x.dist = y.dist /\ x.id = y.id => x = y
    BY DEF Found
  <1> QED BY <1>1, <1>2 DEF Before

\* The places of the elements of a finite set are 1 .. Cardinality(xs), in their order.
LEMMA PlaceFacts ==
    ASSUME NEW xs \in SUBSET Found, IsFiniteSet(xs)
    PROVE  /\ \A x \in xs : Place(xs, x) \in 1 .. Cardinality(xs)
           /\ \A x, y \in xs : Before(x, y) => Place(xs, x) < Place(xs, y)
           /\ \A k \in 1 .. Cardinality(xs) : \E x \in xs : Place(xs, x) = k
  <1> DEFINE upTo(x) == {y \in xs : y = x \/ Before(y, x)}
             n == Cardinality(xs)
             place == [x \in xs |-> Place(xs, x)]
  <1>1. n \in Nat
    BY FS_CardinalityType
  <1>2. ASSUME NEW x \in xs
        PROVE  IsFiniteSet(upTo(x)) /\ Place(xs, x) \in 1 .. n
    <2>1. upTo(x) \in SUBSET xs /\ x \in upTo(x)
      OBVIOUS
    <2>2. IsFiniteSet(upTo(x)) /\ Cardinality(upTo(x)) <= n
      BY <2>1, FS_Subset
    <2>3. Cardinality(upTo(x)) \in Nat /\ Cardinality(upTo(x)) # 0
      BY <2>1, <2>2, FS_CardinalityType, FS_EmptySet
    <2> QED BY <1>1, <2>2, <2>3 DEF Place
  <1>3. ASSUME NEW x \in xs, NEW y \in xs, Before(x, y)
        PROVE  Place(xs, x) < Place(xs, y)
    <2>1. \A z \in xs : (z = x \/ Before(z, x)) => (z = y \/ Before(z, y))
      BY <1>3, BeforeIsOrder
    <2>2. x # y /\ ~Before(y, x)
      BY <1>3, BeforeIsOrder
    <2>3. upTo(x) \in SUBSET upTo(y) /\ y \in upTo(y) /\ y \notin upTo(x)
      BY <2>1, <2>2
    <2>4. /\ Cardinality(upTo(x)) <= Cardinality(upTo(y))
          /\ Cardinality(upTo(x)) # Cardinality(upTo(y))
      BY <1>2, <2>3, FS_Subset
    <2>5. Cardinality(upTo(x)) \in Nat /\ Cardinality(upTo(y)) \in Nat
      BY <1>2, FS_CardinalityType
    <2> QED BY <2>4, <2>5 DEF Place
  <1>4. place \in Injection(xs, 1 .. n)
    <2>1. ASSUME NEW x \in xs, NEW y \in xs, place[x] = place[y] PROVE x = y
      <3>1. Place(xs, x) = Place(xs, y)
        BY <2>1
      <3>2. Place(xs, x) \in 1 .. n /\ Place(xs, y) \in 1 .. n
        BY <1>2
      <3>3. ~Before(x, y) /\ ~Before(y, x)
        BY <1>3, <3>1, <3>2
      <3> QED BY <3>3, BeforeIsOrder
    <2> QED BY <1>2, <2>1 DEF Injection, IsInjective
  <1>5. IsFiniteSet(1 .. n) /\ Cardinality(1 .. n) = n
    BY <1>1, FS_Interval
  <1>6. place \in Surjection(xs, 1 .. n)
    <2> HIDE DEF place
    <2> QED BY <1>4, <1>5, FS_Injection
  <1> QED BY <1>2, <1>3, <1>6 DEF Surjection

\* A finite set that is not empty has a least and a greatest element.
LEMMA LeastFacts ==
    ASSUME NEW xs \in SUBSET Found, IsFiniteSet(xs), xs # {}
    PROVE  /\ Least(xs) \in xs
           /\ Greatest(xs) \in xs /\ \A x \in xs \ {Greatest(xs)} : Before(x, Greatest(xs))
  <1> DEFINE n == Cardinality(xs)
  <1>1. n \in Nat /\ n # 0
    BY FS_CardinalityType, FS_EmptySet
  <1>2. PICK low \in xs : Place(xs, low) = 1
    BY <1>1, PlaceFacts
  <1>3. PICK high \in xs : Place(xs, high) = n
    BY <1>1, PlaceFacts
  <1>4. ASSUME NEW x \in xs, x # low PROVE Before(low, x)
    <2>1. Place(xs, x) \in 1 .. n
      BY PlaceFacts
    <2>2. ~Before(x, low)
      BY <1>1, <1>2, <2>1, PlaceFacts
    <2> QED BY <1>4, <2>2, BeforeIsOrder
  <1>5. ASSUME NEW x \in xs, x # high PROVE Before(x, high)
    <2>1. Place(xs, x) \in 1 .. n
      BY PlaceFacts
    <2>2. ~Before(high, x)
      BY <1>1, <1>3, <2>1, PlaceFacts
    <2> QED BY <1>5, <2>2, BeforeIsOrder
  <1>6. \E x \in xs : \A y \in xs \ {x} : Before(x, y)
    BY <1>4
  <1>7. \E x \in xs : \A y \in xs \ {x} : Before(y, x)
    BY <1>5
  <1> QED BY <1>6, <1>7 DEF Least, Greatest

\* NearestFirst lists every element of a finite set once, the nearest first.
LEMMA NearestFirstFacts ==
    ASSUME NEW xs \in SUBSET Found, IsFiniteSet(xs)
    PROVE  /\ NearestFirst(xs) \in Seq(xs) /\ Len(NearestFirst(xs)) = Cardinality(xs)
           /\ \A i, j \in 1 .. Cardinality(xs) : i < j => Before(NearestFirst(xs)[i], NearestFirst(xs)[j])
           /\ \A x \in xs : \E i \in 1 .. Cardinality(xs) : NearestFirst(xs)[i] = x
  <1> DEFINE n == Cardinality(xs)
             s == NearestFirst(xs)
  <1>1. n \in Nat
    BY FS_CardinalityType
  <1>2. ASSUME NEW k \in 1 .. n PROVE s[k] \in xs /\ Place(xs, s[k]) = k
    BY PlaceFacts DEF NearestFirst
  <1>3. s \in [1 .. n -> xs]
    BY <1>2 DEF NearestFirst
  <1>4. s \in Seq(xs) /\ Len(s) = n
    BY <1>1, <1>3
  <1>5. ASSUME NEW i \in 1 .. n, NEW j \in 1 .. n, i < j PROVE Before(s[i], s[j])
    <2> HIDE DEF s
    <2>1. s[i] \in xs /\ s[j] \in xs /\ Place(xs, s[i]) = i /\ Place(xs, s[j]) = j
      BY <1>2
    <2>2. ~Before(s[j], s[i]) /\ s[i] # s[j]
      BY <1>5, <2>1, PlaceFacts
    <2> QED BY <2>1, <2>2, BeforeIsOrder
  <1>6. ASSUME NEW x \in xs PROVE \E i \in 1 .. n : s[i] = x
    <2> DEFINE k == Place(xs, x)
               y == s[k]
    <2>1. k \in 1 .. n
      BY PlaceFacts
    <2> HIDE DEF k, s
    <2>2. y \in xs /\ Place(xs, y) = k
      BY <1>2, <2>1
    <2> HIDE DEF y
    <2>3. ~Before(x, y) /\ ~Before(y, x)
      BY <2>1, <2>2, PlaceFacts DEF k
    <2>4. x = y
      BY <2>2, <2>3, BeforeIsOrder
    <2> QED BY <2>1, <2>4 DEF y
  <1> QED BY <1>4, <1>5, <1>6

(***************************************************************************)
(* Types                                                                   *)
(***************************************************************************)
\* Rows have numbers from 1 on, within the bound.
LEMMA RowNumbers ==
    ASSUME TypeInv, RowsInv
    PROVE  /\ Len(rows) \in Nat /\ DOMAIN rows = 1 .. Len(rows)
           /\ DOMAIN rows \subseteq Ids /\ IsFiniteSet(DOMAIN rows)
           /\ Cardinality(Inserting) \in Nat /\ IsFiniteSet(Inserting)
           /\ \A id \in DOMAIN rows : rows[id] \in RowType
  <1>1. Len(rows) \in Nat /\ DOMAIN rows = 1 .. Len(rows) /\ \A id \in DOMAIN rows : rows[id] \in RowType
    BY DEF TypeInv
  <1>2. IsFiniteSet(Inserting)
    <2>1. Inserting \in SUBSET Tasks
      BY DEF Inserting
    <2> QED BY <2>1, TasksAssumption, FS_Subset
  <1>3. Cardinality(Inserting) \in Nat
    BY <1>2, FS_CardinalityType
  <1>4. Len(rows) <= MaxRows
    BY <1>1, <1>3, RowsAssumption DEF RowsInv
  <1>5. DOMAIN rows \subseteq Ids
    BY <1>1, <1>4, RowsAssumption DEF Ids
  <1> QED BY <1>1, <1>2, <1>3, <1>5, FS_Interval

\* What a walk measures is of the type of its results.
LEMMA MeasuredType ==
    ASSUME TypeInv, RowsInv, NEW t \in Tasks, Walks(t), NEW id \in DOMAIN rows
    PROVE  /\ Dist(t, id) \in Nat /\ Measured(t, id) \in Found
           /\ Measured(t, id).id = id /\ Measured(t, id).dist = Dist(t, id)
           /\ Results(t, {id}) = IF Reported(t, id) THEN {Measured(t, id)} ELSE {}
           /\ Results(t, {id}) \in SUBSET Found
  <1>1. rows[id].at \in Int /\ id \in Ids
    BY RowNumbers, PlacesAssumption DEF RowType
  <1>2. task[t].call.at \in Int
    <2>1. task[t].call \in Call \cup {Idle.call}
      BY DEF TypeInv, TaskType
    <2>2. task[t].call \in [kind : {"search", "insert"}, at : Places]
      BY <2>1 DEF Walks, Call, Idle
    <2> QED BY <2>2, PlacesAssumption
  <1>3. Dist(t, id) \in Nat
    BY <1>1, <1>2 DEF Dist
  <1>4. Measured(t, id) \in Found
    BY <1>1, <1>3 DEF Measured, Found
  <1>5. Results(t, {id}) = IF Reported(t, id) THEN {Measured(t, id)} ELSE {}
    BY DEF Results
  <1>6. Results(t, {id}) \in SUBSET Found
    BY <1>4 DEF Results
  <1> QED BY <1>3, <1>4, <1>5, <1>6 DEF Measured

\* The first state.
LEMMA TypeInit == Init => TypeInv
  <1> SUFFICES ASSUME Init PROVE TypeInv
    OBVIOUS
  <1>1. rows \in Seq(RowType) /\ queue \in Seq(Tasks) /\ holders \in SUBSET Tasks
    BY DEF Init
  <1>2. scratch \in [visited : SUBSET Ids, candidates : SUBSET Found,
                     results : SUBSET Found, output : Seq(Found)]
    BY DEF Init
  <1>3. Idle \in TaskType
    BY DEF Idle, TaskType
  <1>4. task \in [Tasks -> TaskType]
    BY <1>3 DEF Init
  <1> QED BY <1>1, <1>2, <1>4 DEF TypeInv

\* What a task is, when it is another's turn and when it is its own.
LEMMA TaskTypes ==
    ASSUME TypeInv, NEW t \in Tasks
    PROVE  /\ task[t] \in TaskType /\ Idle \in TaskType
           /\ task[t].rest \in Seq(Ids) /\ task[t].call \in Call \cup {Idle.call}
           /\ task[t].shared \in BOOLEAN
  BY DEF TypeInv, TaskType, Idle

\* Every step keeps the types: those about the lock.
LEMMA TypeLock ==
    ASSUME Inv, NEW t \in Tasks, Enter(t) \/ \E call \in Call : Ask(t, call)
    PROVE  TypeInv'
  <1> USE DEF Inv
  <1>1. task[t] \in TaskType /\ Idle \in TaskType
    BY TaskTypes
  <1>2. ASSUME NEW call \in Call, Ask(t, call) PROVE TypeInv'
    <2>1. [Idle EXCEPT !.pc = "waiting", !.call = call] \in TaskType
      BY <1>1 DEF TaskType
    <2>2. task' \in [Tasks -> TaskType]
      BY <1>2, <2>1 DEF Ask, TypeInv
    <2>3. queue' \in Seq(Tasks)
      <3>1. queue' = Append(queue, t) /\ queue \in Seq(Tasks)
        BY <1>2 DEF Ask, TypeInv
      <3> QED BY <3>1
    <2> QED BY <1>2, <2>2, <2>3 DEF Ask, TypeInv
  <1>3. CASE Enter(t)
    <2>1. ASSUME NEW u \in Tasks PROVE task'[u] \in TaskType
      <3>1. task[u] \in TaskType
        BY DEF TypeInv
      <3>2. [task[t] EXCEPT !.pc = "start", !.shared = holders # {}] \in TaskType
        BY <1>1 DEF TaskType
      <3>3. [task[u] EXCEPT !.shared = TRUE] \in TaskType
        BY <3>1 DEF TaskType
      <3> QED BY <1>3, <3>1, <3>2, <3>3 DEF Enter
    <2>2. task' \in [Tasks -> TaskType]
      BY <1>3, <2>1 DEF Enter
    <2>3. queue # <<>>
      <3>1. t \in ToSet(queue)
        BY <1>3 DEF Enter, LockInv
      <3> QED BY <3>1 DEF ToSet
    <2>4. queue' \in Seq(Tasks)
      <3>1. queue' = Tail(queue) /\ queue \in Seq(Tasks)
        BY <1>3 DEF Enter, TypeInv
      <3> QED BY <2>3, <3>1
    <2> QED BY <1>3, <2>2, <2>4 DEF Enter, TypeInv
  <1> QED BY <1>2, <1>3

\* What a step writes to the buffers.
Buffers == [visited : SUBSET Ids, candidates : SUBSET Found, results : SUBSET Found, output : Seq(Found)]

\* Those of a walk.
LEMMA TypeWalk ==
    ASSUME Inv, NEW t \in Tasks, StartWalk(t) \/ Pop(t) \/ Neighbour(t) \/ Output(t)
    PROVE  TypeInv'
  <1> USE DEF Inv
  <1>1. task[t] \in TaskType /\ scratch \in Buffers
    BY TaskTypes DEF TypeInv, Buffers
  <1>2. SUFFICES scratch' \in Buffers /\ task' \in [Tasks -> TaskType]
    BY DEF StartWalk, Pop, Neighbour, Output, TypeInv, Buffers
  <1>3. \A pc \in {"walk", "output", "take"} : task' = [task EXCEPT ![t].pc = pc] => task' \in [Tasks -> TaskType]
    <2>1. ASSUME NEW pc \in {"walk", "output", "take"} PROVE [task[t] EXCEPT !.pc = pc] \in TaskType
      BY <1>1 DEF TaskType
    <2> QED BY <2>1 DEF TypeInv
  <1>4. \A rest \in Seq(Ids) : task' = [task EXCEPT ![t].rest = rest] => task' \in [Tasks -> TaskType]
    <2>1. ASSUME NEW rest \in Seq(Ids) PROVE [task[t] EXCEPT !.rest = rest] \in TaskType
      BY <1>1 DEF TaskType
    <2> QED BY <2>1 DEF TypeInv
  <1>5. CASE StartWalk(t)
    <2>1. 1 \in DOMAIN rows /\ 1 \in Ids /\ Walks(t)
      BY <1>5, RowNumbers DEF StartWalk
    <2>2. Measured(t, 1) \in Found /\ Results(t, {1}) \in SUBSET Found
      BY <2>1, MeasuredType
    <2>3. scratch' \in Buffers
      BY <1>1, <1>5, <2>1, <2>2 DEF StartWalk, Visited, Buffers
    <2> QED BY <1>3, <1>5, <2>3 DEF StartWalk
  <1>6. CASE Pop(t)
    <2>1. CASE scratch.candidates = {}
      BY <1>1, <1>3, <1>6, <2>1 DEF Pop
    <2>2. CASE scratch.candidates # {}
      <3> DEFINE c == Least(scratch.candidates)
      <3>1. c \in scratch.candidates
        BY <1>1, <2>2, LeastFacts DEF Buffers, RowsInv
      <3>2. c.id \in DOMAIN rows
        BY <3>1 DEF RowsInv
      <3>3. rows[c.id].links \in Seq(Ids)
        BY <3>2, RowNumbers DEF RowType
      <3> HIDE DEF c
      <3>4. scratch' = [scratch EXCEPT !.candidates = @ \ {c}]
        BY <1>6, <2>2 DEF Pop, c
      <3>5. scratch' \in Buffers
        BY <1>1, <3>4 DEF Buffers
      <3>6. \/ task' = [task EXCEPT ![t].pc = "output"]
            \/ task' = [task EXCEPT ![t].rest = rows[c.id].links]
        BY <1>6, <2>2 DEF Pop, c
      <3> QED BY <1>3, <1>4, <3>3, <3>5, <3>6
    <2> QED BY <2>1, <2>2
  <1>7. CASE Neighbour(t)
    <2> DEFINE n == Head(task[t].rest)
               more == scratch.results \cup Results(t, {n})
    <2>1. task[t].rest \in Seq(Ids) /\ task[t].rest # <<>>
      BY <1>7, TaskTypes DEF Neighbour
    <2>2. n \in ToSet(task[t].rest) /\ Tail(task[t].rest) \in Seq(Ids)
      BY <2>1 DEF ToSet
    <2>3. n \in DOMAIN rows /\ n \in Ids /\ Walks(t)
      <3>1. n \in DOMAIN rows
        BY <2>2 DEF RowsInv
      <3>2. n \in Ids
        BY <3>1, RowNumbers
      <3> QED BY <1>7, <3>1, <3>2 DEF LockInv, Neighbour
    <2> HIDE DEF n
    <2>4. Measured(t, n) \in Found /\ more \in SUBSET Found
      <3>1. Measured(t, n) \in Found /\ Results(t, {n}) \in SUBSET Found
        BY <2>3, MeasuredType
      <3> QED BY <1>1, <3>1 DEF Buffers
    <2> HIDE DEF more
    <2>5. \/ scratch' = scratch
          \/ scratch' = [scratch EXCEPT !.visited = Marked(n)]
          \/ scratch' = [scratch EXCEPT !.visited = Marked(n), !.candidates = @ \cup {Measured(t, n)},
                                        !.results = more \ {Greatest(more)}]
          \/ scratch' = [scratch EXCEPT !.visited = Marked(n), !.candidates = @ \cup {Measured(t, n)},
                                        !.results = more]
      BY <1>7 DEF Neighbour, n, more
    <2>6. scratch' \in Buffers
      <3>1. Marked(n) \in SUBSET Ids /\ more \ {Greatest(more)} \in SUBSET Found
        BY <1>1, <2>3, <2>4 DEF Marked, Buffers
      <3>2. scratch.candidates \cup {Measured(t, n)} \in SUBSET Found
        BY <1>1, <2>4 DEF Buffers
      <3> QED BY <1>1, <2>4, <2>5, <3>1, <3>2 DEF Buffers
    <2> QED BY <1>4, <1>7, <2>2, <2>6 DEF Neighbour
  <1>8. CASE Output(t)
    <2>1. NearestFirst(scratch.results) \in Seq(Found)
      <3>1. scratch.results \in SUBSET Found /\ IsFiniteSet(scratch.results)
        BY <1>1 DEF Buffers, RowsInv
      <3>2. NearestFirst(scratch.results) \in Seq(scratch.results)
        BY <3>1, NearestFirstFacts
      <3> QED BY <3>1, <3>2
    <2>2. scratch' \in Buffers
      BY <1>1, <1>8, <2>1 DEF Output, Buffers
    <2> QED BY <1>3, <1>8, <2>2 DEF Output
  <1> QED BY <1>5, <1>6, <1>7, <1>8

\* The row that t inserts.
LEMMA RowTypes ==
    ASSUME TypeInv, NEW t \in Tasks, Walks(t), NEW links \in Seq(Ids)
    PROVE  Row(t, links) \in RowType
  <1>1. task[t].call \in [kind : {"search", "insert"}, at : Places]
    <2>1. task[t].call \in Call \cup {Idle.call}
      BY TaskTypes
    <2> QED BY <2>1 DEF Walks, Call, Idle
  <1> QED BY <1>1 DEF Row, RowType

\* Those that end a call.
LEMMA TypeEnd ==
    ASSUME Inv, NEW t \in Tasks,
           NothingToSearch(t) \/ TakeHits(t) \/ LinkRow(t) \/ FirstRow(t) \/ DeleteRow(t)
    PROVE  TypeInv'
  <1> USE DEF Inv
  <1>1. Leave(t) /\ scratch' = scratch
    BY DEF NothingToSearch, TakeHits, LinkRow, FirstRow, DeleteRow
  <1>2. task' \in [Tasks -> TaskType] /\ holders' \in SUBSET Tasks /\ queue' \in Seq(Tasks)
    BY <1>1, TaskTypes DEF Leave, TypeInv
  <1>3. SUFFICES rows' \in Seq(RowType)
    BY <1>1, <1>2 DEF TypeInv
  <1>4. CASE NothingToSearch(t) \/ TakeHits(t)
    BY <1>4 DEF NothingToSearch, TakeHits, TypeInv
  <1>5. CASE FirstRow(t)
    <2>1. Row(t, <<>>) \in RowType
      <3>1. <<>> \in Seq(Ids) /\ Walks(t)
        BY <1>5 DEF FirstRow, Walks
      <3> QED BY <3>1, RowTypes
    <2>2. rows' = <<Row(t, <<>>)>>
      BY <1>5 DEF FirstRow
    <2> QED BY <2>1, <2>2
  <1>6. CASE DeleteRow(t)
    <2>1. rows' = [rows EXCEPT ![task[t].call.id].live = FALSE]
      BY <1>6 DEF DeleteRow
    <2>2. ASSUME NEW id \in DOMAIN rows PROVE [rows[id] EXCEPT !.live = FALSE] \in RowType
      BY RowNumbers DEF RowType
    <2>3. rows' \in [1 .. Len(rows) -> RowType]
      BY <2>1, <2>2, RowNumbers
    <2> QED BY <2>3, RowNumbers
  <1>7. CASE LinkRow(t)
    <2> DEFINE found == [i \in DOMAIN scratch.output |-> scratch.output[i].id]
               linked == [id \in DOMAIN rows |->
                            IF id \in ToSet(found) THEN [rows[id] EXCEPT !.links = Append(@, NewRow)] ELSE rows[id]]
    <2>1. found \in Seq(Ids) /\ Walks(t)
      <3>1. scratch.output \in Seq(Found)
        BY DEF TypeInv
      <3>4. Len(scratch.output) \in Nat /\ DOMAIN scratch.output = 1 .. Len(scratch.output)
        BY <3>1
      <3>5. \A i \in DOMAIN scratch.output : scratch.output[i].id \in Ids
        <4>1. \A i \in DOMAIN scratch.output : scratch.output[i] \in Found
          BY <3>1
        <4> QED BY <4>1 DEF Found
      <3>2. found \in [1 .. Len(scratch.output) -> Ids] /\ Len(scratch.output) \in Nat
        BY <3>4, <3>5
      <3>3. Walks(t)
        BY <1>7 DEF LinkRow, LockInv
      <3> HIDE DEF found
      <3> QED BY <3>2, <3>3
    <2>2. Row(t, found) \in RowType
      BY <2>1, RowTypes
    <2>3. NewRow \in Ids
      <3>1. Cardinality(Inserting) # 0
        <4>1. t \in Inserting
          BY <1>7, <2>1 DEF LinkRow, Inserting, Walks, Reads
        <4> QED BY <4>1, RowNumbers, FS_EmptySet
      <3> QED BY <3>1, RowNumbers, RowsAssumption DEF NewRow, RowsInv, Ids
    <2>4. ASSUME NEW id \in DOMAIN rows PROVE [rows[id] EXCEPT !.links = Append(@, NewRow)] \in RowType
      <3>1. rows[id] \in RowType
        BY RowNumbers
      <3>2. Append(rows[id].links, NewRow) \in Seq(Ids)
        BY <2>3, <3>1 DEF RowType
      <3> QED BY <3>1, <3>2 DEF RowType
    <2> HIDE DEF found
    <2>5. linked \in Seq(RowType)
      <3>1. linked \in [1 .. Len(rows) -> RowType]
        BY <2>4, RowNumbers
      <3> HIDE DEF linked
      <3> QED BY <3>1, RowNumbers
    <2>6. rows' = Append(linked, Row(t, found))
      BY <1>7 DEF LinkRow, found
    <2> HIDE DEF linked
    <2> QED BY <2>2, <2>5, <2>6
  <1> QED BY <1>4, <1>5, <1>6, <1>7

\* A step of the specification.
LEMMA TypeStep == Inv /\ [Next]_vars => TypeInv'
  <1> SUFFICES ASSUME Inv, [Next]_vars PROVE TypeInv'
    OBVIOUS
  <1>1. CASE UNCHANGED vars
    BY <1>1 DEF vars, Inv, TypeInv
  <1>2. ASSUME NEW t \in Tasks, NEW call \in Call, Ask(t, call) PROVE TypeInv'
    BY <1>2, TypeLock
  <1>3. ASSUME NEW t \in Tasks, Step(t) PROVE TypeInv'
    BY <1>3, TypeLock, TypeWalk, TypeEnd DEF Step
  <1> QED BY <1>1, <1>2, <1>3 DEF Next

(***************************************************************************)
(* The lock                                                                *)
(***************************************************************************)
\* Who goes on holds the lock; a writer has no company.
LEMMA HoldersKnown ==
    ASSUME Inv, NEW t \in Tasks, task[t].pc \notin {"idle", "waiting"}
    PROVE  t \in holders /\ task[t].call \in Call /\ (~Reads(t) => holders = {t} /\ ~task[t].shared)
  <1>1. t \in holders /\ task[t].call \in Call
    BY DEF Inv, LockInv
  <1>2. task[t].shared \in BOOLEAN
    BY TaskTypes DEF Inv
  <1> QED BY <1>1, <1>2 DEF Inv, LockInv

\* A task that joins the queue.
LEMMA LockAsk ==
    ASSUME Inv, NEW t \in Tasks, NEW call \in Call, Ask(t, call)
    PROVE  LockInv'
  <1> USE DEF Inv
  <1>1. /\ task[t].pc = "idle" /\ queue' = Append(queue, t) /\ holders' = holders /\ rows' = rows
        /\ task' = [task EXCEPT ![t] = [Idle EXCEPT !.pc = "waiting", !.call = call]]
        /\ queue \in Seq(Tasks) /\ task \in [Tasks -> TaskType]
    BY DEF Ask, TypeInv
  <1>2. /\ \A u \in Tasks \ {t} : task'[u] = task[u]
        /\ task'[t].pc = "waiting" /\ task'[t].call = call /\ task'[t].rest = <<>>
    BY <1>1 DEF Idle
  <1>3. t \notin holders /\ t \notin ToSet(queue)
    BY <1>1 DEF LockInv
  <1>4. ToSet(queue') = ToSet(queue) \cup {t} /\ IsInjective(queue')
    <2>1. /\ Len(queue') = Len(queue) + 1 /\ Len(queue) \in Nat
          /\ DOMAIN queue = 1 .. Len(queue) /\ DOMAIN queue' = 1 .. Len(queue) + 1
          /\ \A i \in 1 .. Len(queue) : queue'[i] = queue[i]
          /\ queue'[Len(queue) + 1] = t
      BY <1>1
    <2>2. ToSet(queue') = ToSet(queue) \cup {t}
      BY <2>1 DEF ToSet
    <2>3. \A i \in 1 .. Len(queue) : queue[i] # t
      BY <1>3, <2>1 DEF ToSet
    <2>4. IsInjective(queue)
      BY DEF LockInv
    <2> QED BY <2>1, <2>2, <2>3, <2>4 DEF IsInjective
  <1>5. ToSet(queue') = {u \in Tasks : task'[u].pc = "waiting"}
    BY <1>2, <1>4 DEF LockInv
  <1>6. holders' = {u \in Tasks : task'[u].pc \notin {"idle", "waiting"}}
    BY <1>1, <1>2 DEF LockInv
  <1>7. \A h \in holders : task'[h] = task[h] /\ h \in Tasks
    BY <1>2, <1>3 DEF TypeInv
  <1>8. /\ \A g, h \in holders : g # h => Reads(g)' /\ Reads(h)'
        /\ \A h \in holders : IF task'[h].shared THEN Reads(h)' ELSE holders' = {h}
    BY <1>1, <1>7 DEF LockInv, Reads
  <1>9. /\ \A u \in Tasks : task'[u].pc # "idle" => task'[u].call \in Call
        /\ \A u \in Tasks : task'[u].pc \in {"walk", "output", "take"} => Walks(u)' /\ rows' # <<>>
        /\ \A u \in Tasks : task'[u].pc \in {"idle", "waiting", "start"} => task'[u].rest = <<>>
    BY <1>1, <1>2 DEF LockInv, Walks
  <1> QED BY <1>1, <1>4, <1>5, <1>6, <1>8, <1>9 DEF LockInv

\* A task that gets the lock: readers that have it learn that they share it.
LEMMA LockEnter ==
    ASSUME Inv, NEW t \in Tasks, Enter(t)
    PROVE  LockInv'
  <1> USE DEF Inv
  <1>1. /\ task[t].pc = "waiting" /\ t = Head(queue) /\ queue' = Tail(queue)
        /\ holders' = holders \cup {t} /\ rows' = rows
        /\ queue \in Seq(Tasks) /\ task \in [Tasks -> TaskType] /\ holders \in SUBSET Tasks
    BY DEF Enter, MayEnter, TypeInv
  <1>2. t \notin holders /\ t \in ToSet(queue)
    BY <1>1 DEF LockInv
  <1>3. /\ task'[t].pc = "start" /\ task'[t].call = task[t].call /\ task'[t].shared = (holders # {})
        /\ \A u \in holders : task'[u].pc = task[u].pc /\ task'[u].call = task[u].call /\ task'[u].shared
        /\ \A u \in Tasks : task'[u].rest = task[u].rest
        /\ \A u \in Tasks \ (holders \cup {t}) : task'[u] = task[u]
    <2>1. \A u \in Tasks : task[u] \in TaskType
      BY <1>1
    <2> QED BY <1>1, <1>2, <2>1, ZenonT(30) DEF Enter, TaskType
  <1>4. ToSet(queue') = ToSet(queue) \ {t} /\ IsInjective(queue')
    <2>1. queue # <<>>
      BY <1>2 DEF ToSet
    <2>2. /\ Len(queue) \in Nat /\ Len(queue) >= 1 /\ Len(queue') = Len(queue) - 1
          /\ DOMAIN queue = 1 .. Len(queue) /\ DOMAIN queue' = 1 .. Len(queue) - 1
          /\ \A i \in 1 .. Len(queue) - 1 : queue'[i] = queue[i + 1]
          /\ queue[1] = t
      BY <1>1, <2>1
    <2>3. \A i, j \in 1 .. Len(queue) : queue[i] = queue[j] => i = j
      BY <2>2 DEF LockInv, IsInjective
    <2>4. ASSUME NEW i \in 1 .. Len(queue), i # 1 PROVE queue[i] # t /\ i - 1 \in 1 .. Len(queue) - 1 /\ queue'[i - 1] = queue[i]
      <3>1. i - 1 \in 1 .. Len(queue) - 1 /\ (i - 1) + 1 = i
        BY <2>2, <2>4
      <3>2. queue[i] # t
        BY <2>2, <2>3, <2>4
      <3> QED BY <2>2, <3>1, <3>2
    <2>5. ASSUME NEW i \in 1 .. Len(queue) - 1
          PROVE  queue'[i] \in ToSet(queue) /\ queue'[i] # t
      <3>1. i + 1 \in 1 .. Len(queue) /\ i + 1 # 1
        BY <2>2
      <3> QED BY <2>2, <2>4, <3>1 DEF ToSet
    <2>6. ToSet(queue') \subseteq ToSet(queue) \ {t}
      BY <2>2, <2>5 DEF ToSet
    <2>7. ASSUME NEW u \in ToSet(queue), u # t PROVE u \in ToSet(queue')
      <3>1. PICK i \in 1 .. Len(queue) : queue[i] = u
        BY <2>2 DEF ToSet
      <3>2. i # 1
        BY <2>2, <2>7, <3>1
      <3> QED BY <2>2, <2>4, <3>1, <3>2 DEF ToSet
    <2>8. \A i, j \in 1 .. Len(queue) - 1 : queue'[i] = queue'[j] => i = j
      <3>1. ASSUME NEW i \in 1 .. Len(queue) - 1, NEW j \in 1 .. Len(queue) - 1, queue'[i] = queue'[j]
            PROVE  i = j
        <4>1. i + 1 \in 1 .. Len(queue) /\ j + 1 \in 1 .. Len(queue)
          BY <2>2
        <4>2. i + 1 = j + 1
          BY <2>2, <2>3, <3>1, <4>1
        <4> QED BY <4>2
      <3> QED BY <3>1
    <2>9. IsInjective(queue')
      BY <2>2, <2>8 DEF IsInjective
    <2> QED BY <2>6, <2>7, <2>9
  <1>5. \A u \in Tasks : task'[u].pc = IF u = t THEN "start" ELSE task[u].pc
    BY <1>1, <1>3
  <1>6. \A u \in Tasks : task'[u].call = task[u].call
    BY <1>1, <1>3
  <1>7. ToSet(queue') = {u \in Tasks : task'[u].pc = "waiting"}
    BY <1>1, <1>4, <1>5 DEF LockInv
  <1>8. holders' = {u \in Tasks : task'[u].pc \notin {"idle", "waiting"}}
    BY <1>1, <1>5 DEF LockInv
  <1>9. \A u \in holders : Reads(t) /\ Reads(u)
    BY DEF Enter, MayEnter, Compatible
  <1>10. \A u \in Tasks : Reads(u)' = Reads(u) /\ Walks(u)' = Walks(u)
    BY <1>6 DEF Reads, Walks
  <1>11. \A g, h \in holders' : g # h => Reads(g)' /\ Reads(h)'
    BY <1>1, <1>9, <1>10
  <1>12. \A h \in holders' : IF task'[h].shared THEN Reads(h)' ELSE holders' = {h}
    BY <1>1, <1>3, <1>9, <1>10
  <1>13. /\ \A u \in Tasks : task'[u].pc # "idle" => task'[u].call \in Call
         /\ \A u \in Tasks : task'[u].pc \in {"walk", "output", "take"} => Walks(u)' /\ rows' # <<>>
    BY <1>1, <1>5, <1>6, <1>10 DEF LockInv
  <1>14. \A u \in Tasks : task'[u].pc \in {"idle", "waiting", "start"} => task'[u].rest = <<>>
    BY <1>1, <1>3, <1>5 DEF LockInv
  <1> QED BY <1>4, <1>7, <1>8, <1>11, <1>12, <1>13, <1>14 DEF LockInv

\* A holder goes on to another step of its walk.
LEMMA LockWalk ==
    ASSUME Inv, NEW t \in Tasks, StartWalk(t) \/ Pop(t) \/ Neighbour(t) \/ Output(t)
    PROVE  LockInv'
  <1> USE DEF Inv
  <1>1. /\ task[t].pc \in {"start", "walk", "output"} /\ Walks(t) /\ rows # <<>>
        /\ UNCHANGED <<rows, holders, queue>>
    BY DEF StartWalk, Pop, Neighbour, Output, LockInv
  <1>2. /\ \A u \in Tasks \ {t} : task'[u] = task[u]
        /\ task'[t].pc \in {"walk", "output", "take"}
        /\ task'[t].call = task[t].call /\ task'[t].shared = task[t].shared
    <2>1. \/ \E pc \in {"walk", "output", "take"} : task' = [task EXCEPT ![t].pc = pc]
          \/ /\ task[t].pc = "walk"
             /\ \E rest : task' = [task EXCEPT ![t].rest = rest]
      BY DEF StartWalk, Pop, Neighbour, Output
    <2>2. task \in [Tasks -> TaskType] /\ task[t] \in TaskType
      BY TaskTypes DEF TypeInv
    <2> QED BY <2>1, <2>2 DEF TaskType
  <1>3. \A u \in Tasks : task'[u].call = task[u].call /\ task'[u].shared = task[u].shared
    BY <1>2
  <1>4. \A u \in Tasks : Reads(u)' = Reads(u) /\ Walks(u)' = Walks(u)
    BY <1>3 DEF Reads, Walks
  <1>5. \A u \in Tasks : (task'[u].pc \in {"idle", "waiting"} \/ task[u].pc \in {"idle", "waiting"}) => task'[u].pc = task[u].pc
    BY <1>1, <1>2
  <1>6. ToSet(queue') = {u \in Tasks : task'[u].pc = "waiting"}
    BY <1>1, <1>5 DEF LockInv
  <1>7. holders' = {u \in Tasks : task'[u].pc \notin {"idle", "waiting"}}
    BY <1>1, <1>5 DEF LockInv
  <1>8. /\ \A g, h \in holders' : g # h => Reads(g)' /\ Reads(h)'
        /\ \A h \in holders' : IF task'[h].shared THEN Reads(h)' ELSE holders' = {h}
    <2>1. holders \subseteq Tasks
      BY DEF TypeInv
    <2> QED BY <1>1, <1>3, <1>4, <2>1 DEF LockInv
  <1>9. \A u \in Tasks : task'[u].pc # "idle" => task'[u].call \in Call
    BY <1>1, <1>2, <1>3 DEF LockInv
  <1>10. \A u \in Tasks : task'[u].pc \in {"walk", "output", "take"} => Walks(u)' /\ rows' # <<>>
    BY <1>1, <1>2, <1>4 DEF LockInv
  <1>11. \A u \in Tasks : task'[u].pc \in {"idle", "waiting", "start"} => task'[u].rest = <<>>
    BY <1>2 DEF LockInv
  <1> QED BY <1>1, <1>6, <1>7, <1>8, <1>9, <1>10, <1>11 DEF LockInv

\* The numbers that the last walk gave out.
Given == {scratch.output[i].id : i \in DOMAIN scratch.output}

\* The rows after an insert: the new one, linked with those given out.
LEMMA RowsLinked ==
    ASSUME Inv, NEW t \in Tasks, LinkRow(t)
    PROVE  /\ Len(rows) \in Nat /\ Len(rows') = Len(rows) + 1
           /\ DOMAIN rows = 1 .. Len(rows) /\ DOMAIN rows' = 1 .. Len(rows) + 1 /\ 1 \in DOMAIN rows'
           /\ \A id \in DOMAIN rows :
                 ToSet(rows'[id].links) = ToSet(rows[id].links) \cup (IF id \in Given THEN {Len(rows) + 1} ELSE {})
           /\ ToSet(rows'[Len(rows) + 1].links) = Given
  <1> DEFINE found == [i \in DOMAIN scratch.output |-> scratch.output[i].id]
             more(id) == [rows[id] EXCEPT !.links = Append(@, NewRow)]
             linked == [id \in DOMAIN rows |-> IF id \in ToSet(found) THEN more(id) ELSE rows[id]]
  <1>1. Len(rows) \in Nat /\ DOMAIN rows = 1 .. Len(rows) /\ \A id \in DOMAIN rows : rows[id] \in RowType
    BY RowNumbers DEF Inv
  <1>2. rows' = Append(linked, Row(t, found))
    BY DEF LinkRow
  <1>3. ToSet(found) = Given
    BY DEF ToSet, Given
  <1>4. linked \in Seq({linked[id] : id \in DOMAIN rows}) /\ Len(linked) = Len(rows)
    <2>1. linked \in [1 .. Len(rows) -> {linked[id] : id \in DOMAIN rows}]
      BY <1>1
    <2> HIDE DEF linked
    <2> QED BY <1>1, <2>1
  <1>5. ASSUME NEW id \in DOMAIN rows
        PROVE  ToSet(linked[id].links) = ToSet(rows[id].links) \cup (IF id \in Given THEN {Len(rows) + 1} ELSE {})
    <2>1. rows[id] \in RowType
      BY <1>1
    <2>2. CASE id \in Given
      <3>1. linked[id] = more(id)
        BY <1>3, <2>2
      <3>2. linked[id].links = Append(rows[id].links, Len(rows) + 1)
        BY <2>1, <3>1 DEF RowType, NewRow
      <3>3. rows[id].links \in Seq(Ids)
        BY <2>1 DEF RowType
      <3> DEFINE l == rows[id].links
                 n == Len(rows) + 1
      <3>4. ToSet(Append(l, n)) = ToSet(l) \cup {n}
        <4> HIDE DEF l, n
        <4>1. l \in Seq(Ids)
          BY <3>3 DEF l
        <4>2. /\ Len(l) \in Nat /\ DOMAIN l = 1 .. Len(l) /\ DOMAIN Append(l, n) = 1 .. Len(l) + 1
              /\ \A i \in 1 .. Len(l) : Append(l, n)[i] = l[i]
              /\ Append(l, n)[Len(l) + 1] = n
          BY <4>1
        <4> QED BY <4>2 DEF ToSet
      <3> QED BY <2>2, <3>2, <3>4
    <2>3. CASE id \notin Given
      BY <1>3, <2>3
    <2> QED BY <2>2, <2>3
  <1>6. Row(t, found).links = found
    BY DEF Row
  <1> HIDE DEF linked, found
  <1>7. /\ Len(rows') = Len(rows) + 1 /\ DOMAIN rows' = 1 .. Len(rows) + 1
        /\ \A id \in 1 .. Len(rows) : rows'[id] = linked[id]
        /\ rows'[Len(rows) + 1] = Row(t, found)
    BY <1>1, <1>2, <1>4
  <1>8. 1 \in DOMAIN rows'
    BY <1>1, <1>7
  <1> QED BY <1>1, <1>3, <1>5, <1>6, <1>7, <1>8

\* A holder leaves.
LEMMA LockLeave ==
    ASSUME Inv, NEW t \in Tasks,
           NothingToSearch(t) \/ TakeHits(t) \/ LinkRow(t) \/ FirstRow(t) \/ DeleteRow(t)
    PROVE  LockInv'
  <1> USE DEF Inv
  <1>1. /\ task[t].pc \in {"start", "take"} /\ queue' = queue /\ holders' = holders \ {t}
        /\ task' = [task EXCEPT ![t] = Idle] /\ task \in [Tasks -> TaskType] /\ holders \in SUBSET Tasks
    BY DEF NothingToSearch, TakeHits, LinkRow, FirstRow, DeleteRow, Leave, TypeInv
  <1>2. t \in holders
    BY <1>1 DEF LockInv
  <1>3. /\ \A u \in Tasks \ {t} : task'[u] = task[u]
        /\ task'[t].pc = "idle" /\ task'[t].call.kind = "none" /\ task'[t].rest = <<>>
    BY <1>1 DEF Idle
  <1>4. ToSet(queue') = {u \in Tasks : task'[u].pc = "waiting"}
    BY <1>1, <1>3 DEF LockInv
  <1>5. holders' = {u \in Tasks : task'[u].pc \notin {"idle", "waiting"}}
    BY <1>1, <1>3 DEF LockInv
  <1>6. \A u \in Tasks \ {t} : Reads(u)' = Reads(u) /\ Walks(u)' = Walks(u)
    BY <1>3 DEF Reads, Walks
  <1>7. \A g, h \in holders' : g # h => Reads(g)' /\ Reads(h)'
    BY <1>1, <1>6 DEF LockInv
  <1>8. \A h \in holders' : IF task'[h].shared THEN Reads(h)' ELSE holders' = {h}
    BY <1>1, <1>2, <1>3, <1>6 DEF LockInv
  <1>9. rows # <<>> => rows' # <<>>
    <2>1. CASE NothingToSearch(t) \/ TakeHits(t) \/ FirstRow(t)
      BY <2>1 DEF NothingToSearch, TakeHits, FirstRow
    <2>2. CASE DeleteRow(t)
      <3>1. DOMAIN rows' = DOMAIN rows
        BY <2>2 DEF DeleteRow
      <3>2. DOMAIN rows = {} <=> rows = <<>>
        BY DEF TypeInv
      <3> QED BY <3>1, <3>2
    <2>3. CASE LinkRow(t)
      <3>1. 1 \in DOMAIN rows'
        BY <2>3, RowsLinked
      <3> QED BY <3>1
    <2> QED BY <2>1, <2>2, <2>3
  <1>10. \A u \in Tasks : task'[u].pc # "idle" => task'[u].call \in Call
    BY <1>1, <1>3 DEF LockInv
  <1>11. \A u \in Tasks : task'[u].pc \in {"walk", "output", "take"} => Walks(u)' /\ rows' # <<>>
    BY <1>1, <1>3, <1>6, <1>9 DEF LockInv
  <1>12. \A u \in Tasks : task'[u].pc \in {"idle", "waiting", "start"} => task'[u].rest = <<>>
    BY <1>1, <1>3 DEF LockInv
  <1> QED BY <1>1, <1>4, <1>5, <1>7, <1>8, <1>10, <1>11, <1>12 DEF LockInv

\* A step of the specification.
LEMMA LockStep == Inv /\ [Next]_vars => LockInv'
  <1> SUFFICES ASSUME Inv, [Next]_vars PROVE LockInv'
    OBVIOUS
  <1>1. CASE UNCHANGED vars
    BY <1>1 DEF vars, Inv, LockInv, Reads, Walks
  <1>2. ASSUME NEW t \in Tasks, NEW call \in Call, Ask(t, call) PROVE LockInv'
    BY <1>2, LockAsk
  <1>3. ASSUME NEW t \in Tasks, Step(t) PROVE LockInv'
    BY <1>3, LockEnter, LockWalk, LockLeave DEF Step
  <1> QED BY <1>1, <1>2, <1>3 DEF Next

(***************************************************************************)
(* The rows and their numbers                                              *)
(***************************************************************************)
\* Only the buffers and where the walk is change.
LEMMA RowsKept ==
    ASSUME Inv, rows' = rows,
           \A u \in Tasks : task'[u].call = task[u].call /\ ToSet(task'[u].rest) \subseteq DOMAIN rows,
           IsFiniteSet(scratch'.candidates), IsFiniteSet(scratch'.results),
           scratch'.visited \subseteq DOMAIN rows,
           \A x \in scratch'.candidates \cup scratch'.results \cup ToSet(scratch'.output) : x.id \in DOMAIN rows
    PROVE  RowsInv'
  <1>1. Inserting' = Inserting
    BY DEF Inserting
  <1> QED BY <1>1 DEF Inv, RowsInv

\* The steps about the lock.
LEMMA RowsLock ==
    ASSUME Inv, NEW t \in Tasks, Enter(t) \/ \E call \in Call : Ask(t, call)
    PROVE  RowsInv'
  <1> USE DEF Inv
  <1>1. rows' = rows /\ scratch' = scratch /\ task \in [Tasks -> TaskType]
    BY DEF Enter, Ask, TypeInv
  <1>2. CASE Enter(t)
    <2>1. \A u \in Tasks : task'[u].call = task[u].call /\ task'[u].rest = task[u].rest
      <3>1. \A u \in Tasks : task[u] \in TaskType
        BY <1>1
      <3> QED BY <1>2, <3>1 DEF Enter, TaskType
    <2> QED BY <1>1, <2>1, RowsKept DEF RowsInv
  <1>3. ASSUME NEW call \in Call, Ask(t, call) PROVE RowsInv'
    <2>1. /\ \A u \in Tasks \ {t} : task'[u] = task[u]
          /\ task'[t].call = call /\ task'[t].rest = <<>>
      BY <1>1, <1>3 DEF Ask, Idle
    <2>2. call.kind = "delete" => call.id \in DOMAIN rows
      BY <1>3 DEF Ask
    <2>3. Len(rows) + Cardinality(Inserting') <= MaxRows
      <3>1. Len(rows) \in Nat /\ Cardinality(Inserting) \in Nat /\ IsFiniteSet(Inserting)
        BY RowNumbers
      <3>2. CASE call.kind = "insert"
        <4>1. Inserting' \in SUBSET (Inserting \cup {t})
          BY <2>1 DEF Inserting
        <4>2. /\ IsFiniteSet(Inserting \cup {t})
              /\ Cardinality(Inserting \cup {t}) <= Cardinality(Inserting) + 1
              /\ Cardinality(Inserting \cup {t}) \in Nat
          <5>1. /\ IsFiniteSet(Inserting \cup {t})
                /\ Cardinality(Inserting \cup {t}) = IF t \in Inserting THEN Cardinality(Inserting) ELSE Cardinality(Inserting) + 1
            BY <3>1, FS_AddElement
          <5> QED BY <3>1, <5>1
        <4>3. Cardinality(Inserting') <= Cardinality(Inserting \cup {t}) /\ Cardinality(Inserting') \in Nat
          BY <4>1, <4>2, FS_Subset, FS_CardinalityType
        <4>4. Len(rows) + Cardinality(Inserting) < MaxRows
          BY <1>3, <3>2 DEF Ask
        <4> QED BY <3>1, <4>2, <4>3, <4>4, RowsAssumption
      <3>3. CASE call.kind # "insert"
        <4>1. Inserting' \in SUBSET Inserting
          BY <2>1, <3>3 DEF Inserting
        <4>2. Cardinality(Inserting') <= Cardinality(Inserting) /\ Cardinality(Inserting') \in Nat
          BY <3>1, <4>1, FS_Subset, FS_CardinalityType
        <4>3. Len(rows) + Cardinality(Inserting) <= MaxRows
          BY DEF RowsInv
        <4> QED BY <3>1, <4>2, <4>3, RowsAssumption
      <3> QED BY <3>2, <3>3
    <2>4. \A u \in Tasks : ToSet(task'[u].rest) \subseteq DOMAIN rows
      BY <2>1 DEF RowsInv, ToSet
    <2>5. \A u \in Tasks : task'[u].call.kind = "delete" => task'[u].call.id \in DOMAIN rows
      BY <2>1, <2>2 DEF RowsInv
    <2> QED BY <1>1, <2>3, <2>4, <2>5 DEF RowsInv
  <1> QED BY <1>2, <1>3

\* The steps of a walk: every number it meets is that of a row.
LEMMA RowsWalk ==
    ASSUME Inv, NEW t \in Tasks, StartWalk(t) \/ Pop(t) \/ Neighbour(t) \/ Output(t)
    PROVE  RowsInv'
  <1> USE DEF Inv
  <1>1. task \in [Tasks -> TaskType] /\ task[t] \in TaskType /\ scratch \in Buffers /\ rows' = rows
    BY TaskTypes DEF StartWalk, Pop, Neighbour, Output, TypeInv, Buffers
  <1>2. \A u \in Tasks : task'[u].call = task[u].call
    <2>1. \/ \E pc \in {"walk", "output", "take"} : task' = [task EXCEPT ![t].pc = pc]
          \/ \E rest : task' = [task EXCEPT ![t].rest = rest]
      BY DEF StartWalk, Pop, Neighbour, Output
    <2>2. ASSUME NEW pc, task' = [task EXCEPT ![t].pc = pc] PROVE \A u \in Tasks : task'[u].call = task[u].call
      BY <1>1, <2>2 DEF TaskType
    <2>3. ASSUME NEW rest, task' = [task EXCEPT ![t].rest = rest] PROVE \A u \in Tasks : task'[u].call = task[u].call
      BY <1>1, <2>3 DEF TaskType
    <2> QED BY <2>1, <2>2, <2>3
  <1>3. ASSUME NEW pc, task' = [task EXCEPT ![t].pc = pc]
        PROVE  \A u \in Tasks : ToSet(task'[u].rest) \subseteq DOMAIN rows
    <2>1. \A u \in Tasks : task'[u].rest = task[u].rest
      BY <1>1, <1>3 DEF TaskType
    <2> QED BY <2>1 DEF RowsInv
  <1>4. ASSUME NEW rest, ToSet(rest) \subseteq DOMAIN rows, task' = [task EXCEPT ![t].rest = rest]
        PROVE  \A u \in Tasks : ToSet(task'[u].rest) \subseteq DOMAIN rows
    <2>1. task'[t].rest = rest /\ \A u \in Tasks \ {t} : task'[u].rest = task[u].rest
      BY <1>1, <1>4 DEF TaskType
    <2> QED BY <1>4, <2>1 DEF RowsInv
  <1>5. CASE StartWalk(t)
    <2>1. 1 \in DOMAIN rows /\ Walks(t)
      BY <1>5, RowNumbers DEF StartWalk
    <2>2. Measured(t, 1).id = 1 /\ Results(t, {1}) \subseteq {Measured(t, 1)}
      BY <2>1, MeasuredType
    <2>3. /\ scratch'.candidates = {Measured(t, 1)} /\ scratch'.results = Results(t, {1})
          /\ scratch'.visited = {1} /\ scratch'.output = scratch.output
      BY <1>1, <1>5 DEF StartWalk, Visited, Buffers
    <2>4. IsFiniteSet(scratch'.candidates) /\ IsFiniteSet(scratch'.results)
      <3>1. IsFiniteSet({Measured(t, 1)})
        BY FS_Singleton
      <3>2. scratch'.results \in SUBSET {Measured(t, 1)}
        BY <2>2, <2>3
      <3> QED BY <2>3, <3>1, <3>2, FS_Subset
    <2>5. \A x \in scratch'.candidates \cup scratch'.results \cup ToSet(scratch'.output) : x.id \in DOMAIN rows
      BY <2>1, <2>2, <2>3 DEF RowsInv
    <2>6. \A u \in Tasks : ToSet(task'[u].rest) \subseteq DOMAIN rows
      BY <1>3, <1>5 DEF StartWalk
    <2> QED BY <1>1, <1>2, <2>1, <2>3, <2>4, <2>5, <2>6, RowsKept
  <1>6. CASE Pop(t)
    <2>1. CASE scratch.candidates = {}
      <3>1. scratch' = scratch /\ \A u \in Tasks : ToSet(task'[u].rest) \subseteq DOMAIN rows
        BY <1>3, <1>6, <2>1 DEF Pop
      <3> QED BY <1>1, <1>2, <3>1, RowsKept DEF RowsInv
    <2>2. CASE scratch.candidates # {}
      <3> DEFINE c == Least(scratch.candidates)
      <3>1. c.id \in DOMAIN rows
        <4>1. c \in scratch.candidates
          BY <1>1, <2>2, LeastFacts DEF Buffers, RowsInv
        <4> QED BY <4>1 DEF RowsInv
      <3>2. ToSet(rows[c.id].links) \subseteq DOMAIN rows
        BY <3>1 DEF RowsInv
      <3> HIDE DEF c
      <3>3. \/ task' = [task EXCEPT ![t].pc = "output"]
            \/ task' = [task EXCEPT ![t].rest = rows[c.id].links]
        BY <1>6, <2>2 DEF Pop, c
      <3>4. \A u \in Tasks : ToSet(task'[u].rest) \subseteq DOMAIN rows
        BY <1>3, <1>4, <3>2, <3>3
      <3>5. /\ scratch'.candidates = scratch.candidates \ {c} /\ scratch'.results = scratch.results
            /\ scratch'.visited = scratch.visited /\ scratch'.output = scratch.output
        BY <1>1, <1>6, <2>2 DEF Pop, c, Buffers
      <3>6. IsFiniteSet(scratch'.candidates) /\ IsFiniteSet(scratch'.results)
        <4>1. IsFiniteSet(scratch.candidates) /\ IsFiniteSet(scratch.results)
          BY DEF RowsInv
        <4>2. IsFiniteSet(scratch.candidates \ {c})
          BY <4>1, FS_RemoveElement
        <4> QED BY <3>5, <4>1, <4>2
      <3>7. \A x \in scratch'.candidates \cup scratch'.results \cup ToSet(scratch'.output) : x.id \in DOMAIN rows
        BY <3>5 DEF RowsInv
      <3>8. scratch'.visited \subseteq DOMAIN rows
        BY <3>5 DEF RowsInv
      <3> QED BY <1>1, <1>2, <3>4, <3>6, <3>7, <3>8, RowsKept
    <2> QED BY <2>1, <2>2
  <1>7. CASE Neighbour(t)
    <2> DEFINE n == Head(task[t].rest)
               more == scratch.results \cup Results(t, {n})
    <2>1. /\ n \in DOMAIN rows /\ ToSet(Tail(task[t].rest)) \subseteq DOMAIN rows /\ Walks(t)
      <3>1. task[t].rest \in Seq(Ids) /\ task[t].rest # <<>>
        BY <1>7, TaskTypes DEF Neighbour
      <3>2. n \in ToSet(task[t].rest) /\ ToSet(Tail(task[t].rest)) \subseteq ToSet(task[t].rest)
        BY <3>1 DEF ToSet
      <3>3. ToSet(task[t].rest) \subseteq DOMAIN rows
        BY DEF RowsInv
      <3> QED BY <1>7, <3>2, <3>3 DEF LockInv, Neighbour
    <2> HIDE DEF n
    <2>2. Measured(t, n).id = n /\ Results(t, {n}) \subseteq {Measured(t, n)}
      BY <2>1, MeasuredType
    <2>3. IsFiniteSet(more) /\ \A x \in more : x.id \in DOMAIN rows
      <3>1. more \in SUBSET (scratch.results \cup {Measured(t, n)})
        BY <2>2
      <3>2. IsFiniteSet(scratch.results \cup {Measured(t, n)})
        BY FS_AddElement DEF RowsInv
      <3>3. IsFiniteSet(more)
        <4> HIDE DEF more
        <4> QED BY <3>1, <3>2, FS_Subset
      <3> QED BY <2>1, <2>2, <3>3 DEF RowsInv
    <2> HIDE DEF more
    <2>4. /\ scratch'.output = scratch.output
          /\ scratch'.visited \in {scratch.visited, scratch.visited \cup {n}}
          /\ scratch'.candidates \in {scratch.candidates, scratch.candidates \cup {Measured(t, n)}}
          /\ scratch'.results \in {scratch.results, more, more \ {Greatest(more)}}
      <3>1. \/ scratch' = scratch
            \/ scratch' = [scratch EXCEPT !.visited = Marked(n)]
            \/ scratch' = [scratch EXCEPT !.visited = Marked(n), !.candidates = @ \cup {Measured(t, n)},
                                          !.results = more \ {Greatest(more)}]
            \/ scratch' = [scratch EXCEPT !.visited = Marked(n), !.candidates = @ \cup {Measured(t, n)},
                                          !.results = more]
        BY <1>7 DEF Neighbour, n, more
      <3> QED BY <1>1, <3>1 DEF Marked, Buffers
    <2>5. IsFiniteSet(scratch'.candidates) /\ IsFiniteSet(scratch'.results)
      <3>1. IsFiniteSet(scratch.candidates) /\ IsFiniteSet(scratch.results)
        BY DEF RowsInv
      <3>2. IsFiniteSet(scratch.candidates \cup {Measured(t, n)})
        BY <3>1, FS_AddElement
      <3>3. IsFiniteSet(more) /\ IsFiniteSet(more \ {Greatest(more)})
        BY <2>3, FS_RemoveElement
      <3> QED BY <2>4, <3>1, <3>2, <3>3
    <2>6. scratch'.visited \subseteq DOMAIN rows
      BY <2>1, <2>4 DEF RowsInv
    <2>7. \A x \in scratch'.candidates \cup scratch'.results \cup ToSet(scratch'.output) : x.id \in DOMAIN rows
      BY <2>1, <2>2, <2>3, <2>4 DEF RowsInv
    <2>8. \A u \in Tasks : ToSet(task'[u].rest) \subseteq DOMAIN rows
      BY <1>4, <1>7, <2>1 DEF Neighbour
    <2> QED BY <1>1, <1>2, <2>5, <2>6, <2>7, <2>8, RowsKept
  <1>8. CASE Output(t)
    <2>1. /\ scratch'.candidates = scratch.candidates /\ scratch'.results = {}
          /\ scratch'.visited = scratch.visited /\ scratch'.output = NearestFirst(scratch.results)
      BY <1>1, <1>8 DEF Output, Buffers
    <2>2. ToSet(scratch'.output) \subseteq scratch.results
      <3>1. NearestFirst(scratch.results) \in Seq(scratch.results)
        BY <1>1, NearestFirstFacts DEF Buffers, RowsInv
      <3> QED BY <2>1, <3>1 DEF ToSet
    <2>3. \A x \in scratch'.candidates \cup scratch'.results \cup ToSet(scratch'.output) : x.id \in DOMAIN rows
      BY <2>1, <2>2 DEF RowsInv
    <2>4. IsFiniteSet(scratch'.candidates) /\ IsFiniteSet(scratch'.results)
      BY <2>1, FS_EmptySet DEF RowsInv
    <2>5. scratch'.visited \subseteq DOMAIN rows
      BY <2>1 DEF RowsInv
    <2>6. \A u \in Tasks : ToSet(task'[u].rest) \subseteq DOMAIN rows
      BY <1>3, <1>8 DEF Output
    <2> QED BY <1>1, <1>2, <2>3, <2>4, <2>5, <2>6, RowsKept
  <1> QED BY <1>5, <1>6, <1>7, <1>8

\* The walk of an insert met every row.
LEMMA GivenAll ==
    ASSUME Inv, NEW t \in Tasks, LinkRow(t)
    PROVE  Given = DOMAIN rows
  <1> USE DEF Inv
  <1>1. task[t].pc = "take" /\ ~Reads(t)
    BY DEF LinkRow
  <1>2. t \in holders /\ ~task[t].shared /\ Walks(t)
    BY <1>1, HoldersKnown DEF LockInv
  <1>3. PICK xs \in SUBSET Found :
            IsFiniteSet(xs) /\ scratch.output = NearestFirst(xs) /\ Kept(t, xs, DOMAIN rows)
    BY <1>1, <1>2 DEF WalkInv, WalkIs
  <1>4. ASSUME NEW id \in DOMAIN rows PROVE id \in Given
    <2>1. Measured(t, id) \in xs
      BY <1>1, <1>3 DEF Kept, Reported
    <2>2. \E i \in 1 .. Cardinality(xs) : scratch.output[i] = Measured(t, id)
      BY <1>3, <2>1, NearestFirstFacts
    <2>3. DOMAIN scratch.output = 1 .. Cardinality(xs)
      BY <1>3 DEF NearestFirst
    <2>4. Measured(t, id).id = id
      BY DEF Measured
    <2> QED BY <2>2, <2>3, <2>4 DEF Given
  <1>5. Given \subseteq DOMAIN rows
    BY DEF Given, RowsInv, ToSet
  <1> QED BY <1>4, <1>5

\* The steps that end a call.
LEMMA RowsEnd ==
    ASSUME Inv, NEW t \in Tasks,
           NothingToSearch(t) \/ TakeHits(t) \/ LinkRow(t) \/ FirstRow(t) \/ DeleteRow(t)
    PROVE  RowsInv'
  <1> USE DEF Inv
  <1>1. /\ scratch' = scratch /\ task' = [task EXCEPT ![t] = Idle] /\ task \in [Tasks -> TaskType]
    BY DEF NothingToSearch, TakeHits, LinkRow, FirstRow, DeleteRow, Leave, TypeInv
  <1>2. /\ \A u \in Tasks \ {t} : task'[u] = task[u]
        /\ task'[t].call.kind = "none" /\ task'[t].rest = <<>>
    BY <1>1 DEF Idle
  <1>3. /\ Len(rows) \in Nat /\ DOMAIN rows = 1 .. Len(rows) /\ IsFiniteSet(Inserting)
        /\ Cardinality(Inserting) \in Nat /\ \A id \in DOMAIN rows : rows[id] \in RowType
        /\ Len(rows) + Cardinality(Inserting) <= MaxRows
    BY RowNumbers DEF RowsInv
  <1>4. /\ Cardinality(Inserting') \in Nat /\ Cardinality(Inserting') <= Cardinality(Inserting)
        /\ t \in Inserting => Cardinality(Inserting') <= Cardinality(Inserting) - 1
    <2>1. Inserting' \in SUBSET (Inserting \ {t})
      BY <1>2 DEF Inserting
    <2>2. /\ IsFiniteSet(Inserting \ {t}) /\ Cardinality(Inserting \ {t}) \in Nat
          /\ Cardinality(Inserting \ {t}) = IF t \in Inserting THEN Cardinality(Inserting) - 1 ELSE Cardinality(Inserting)
      BY <1>3, FS_RemoveElement, FS_CardinalityType
    <2>3. Cardinality(Inserting') <= Cardinality(Inserting \ {t}) /\ Cardinality(Inserting') \in Nat
      BY <2>1, <2>2, FS_Subset, FS_CardinalityType
    <2> QED BY <1>3, <2>2, <2>3
  <1>5. SUFFICES /\ DOMAIN rows \subseteq DOMAIN rows'
                 /\ Len(rows') + Cardinality(Inserting') <= MaxRows
                 /\ \A id \in DOMAIN rows' : ToSet(rows'[id].links) = DOMAIN rows' \ {id}
    <2>1. ASSUME DOMAIN rows \subseteq DOMAIN rows', NEW u \in Tasks
          PROVE  /\ task'[u].call.kind = "delete" => task'[u].call.id \in DOMAIN rows'
                 /\ ToSet(task'[u].rest) \subseteq DOMAIN rows'
      BY <1>2, <2>1 DEF RowsInv, ToSet
    <2>2. ASSUME DOMAIN rows \subseteq DOMAIN rows'
          PROVE  /\ IsFiniteSet(scratch'.candidates) /\ IsFiniteSet(scratch'.results)
                 /\ scratch'.visited \subseteq DOMAIN rows'
                 /\ \A x \in scratch'.candidates \cup scratch'.results \cup ToSet(scratch'.output) : x.id \in DOMAIN rows'
      BY <1>1, <2>2 DEF RowsInv
    <2> QED BY <2>1, <2>2 DEF RowsInv
  <1>6. CASE NothingToSearch(t) \/ TakeHits(t)
    <2>1. rows' = rows
      BY <1>6 DEF NothingToSearch, TakeHits
    <2> QED BY <1>3, <1>4, <2>1, RowsAssumption DEF RowsInv
  <1>7. CASE FirstRow(t)
    <2>1. rows' = <<Row(t, <<>>)>> /\ rows = <<>> /\ t \in Inserting
      BY <1>7 DEF FirstRow, Inserting
    <2>2. Len(rows') = 1 /\ DOMAIN rows' = {1} /\ rows'[1].links = <<>> /\ Len(rows) = 0 /\ DOMAIN rows = {}
      BY <2>1 DEF Row
    <2>3. ToSet(rows'[1].links) = {}
      BY <2>2 DEF ToSet
    <2> QED BY <1>3, <1>4, <2>1, <2>2, <2>3, RowsAssumption
  <1>8. CASE DeleteRow(t)
    <2>1. rows' = [rows EXCEPT ![task[t].call.id].live = FALSE]
      BY <1>8 DEF DeleteRow
    <2>2. DOMAIN rows' = DOMAIN rows /\ Len(rows') = Len(rows)
      <3>1. DOMAIN rows' = 1 .. Len(rows)
        BY <1>3, <2>1
      <3> QED BY <1>3, <3>1
    <2>3. \A id \in DOMAIN rows : rows'[id].links = rows[id].links
      BY <1>3, <2>1 DEF RowType
    <2> QED BY <1>3, <1>4, <2>2, <2>3, RowsAssumption DEF RowsInv
  <1>9. CASE LinkRow(t)
    <2> DEFINE n == Len(rows) + 1
    <2>1. Given = DOMAIN rows
      BY <1>9, GivenAll
    <2>2. /\ Len(rows') = n /\ DOMAIN rows' = 1 .. n
          /\ \A id \in DOMAIN rows : ToSet(rows'[id].links) = ToSet(rows[id].links) \cup {n}
          /\ ToSet(rows'[n].links) = DOMAIN rows
      BY <1>9, <2>1, RowsLinked
    <2>3. t \in Inserting
      BY <1>9 DEF LinkRow, Inserting, LockInv, Walks, Reads
    <2>4. DOMAIN rows' = DOMAIN rows \cup {n} /\ n \notin DOMAIN rows
      BY <1>3, <2>2
    <2>5. \A id \in DOMAIN rows : ToSet(rows[id].links) = DOMAIN rows \ {id}
      BY DEF RowsInv
    <2>6. ASSUME NEW id \in DOMAIN rows' PROVE ToSet(rows'[id].links) = DOMAIN rows' \ {id}
      <3> HIDE DEF n
      <3>1. CASE id = n
        BY <2>2, <2>4, <3>1
      <3>2. CASE id \in DOMAIN rows
        BY <2>2, <2>4, <2>5, <3>2, SMTT(30)
      <3> QED BY <2>4, <3>1, <3>2
    <2> QED BY <1>3, <1>4, <2>2, <2>3, <2>4, <2>6, RowsAssumption
  <1> QED BY <1>6, <1>7, <1>8, <1>9

\* A step of the specification.
LEMMA RowsStep == Inv /\ [Next]_vars => RowsInv'
  <1> SUFFICES ASSUME Inv, [Next]_vars PROVE RowsInv'
    OBVIOUS
  <1>1. CASE UNCHANGED vars
    <2>1. rows' = rows /\ scratch' = scratch /\ task' = task
      BY <1>1 DEF vars
    <2> QED BY <2>1, RowsKept DEF Inv, RowsInv
  <1>2. ASSUME NEW t \in Tasks, NEW call \in Call, Ask(t, call) PROVE RowsInv'
    BY <1>2, RowsLock
  <1>3. ASSUME NEW t \in Tasks, Step(t) PROVE RowsInv'
    BY <1>3, RowsLock, RowsWalk, RowsEnd DEF Step
  <1> QED BY <1>1, <1>2, <1>3 DEF Next

(***************************************************************************)
(* The walk of a task that has the lock to itself                          *)
(***************************************************************************)
\* The greater and the lesser of two numbers.
LEMMA TwoNumbers ==
    ASSUME NEW a \in Nat, NEW b \in Nat
    PROVE  /\ Max({a, b}) \in Nat /\ Max({a, b}) >= b
           /\ Min({a, b}) \in Nat
  <1>1. \E x \in {a, b} : \A y \in {a, b} : x >= y
    OBVIOUS
  <1>2. \E x \in {a, b} : \A y \in {a, b} : x <= y
    OBVIOUS
  <1>3. Max({a, b}) \in {a, b} /\ Max({a, b}) >= b
    BY <1>1 DEF Max
  <1>4. Min({a, b}) \in {a, b}
    BY <1>2 DEF Min
  <1> QED BY <1>3, <1>4

\* The working set is at least twice what is asked for.
LEMMA WidthFacts ==
    ASSUME Inv
    PROVE  Width \in Nat /\ Width >= 2 /\ Width >= 2 * K /\ K \in Nat /\ K >= 1
  <1>1. K \in Nat /\ K >= 1 /\ Ef \in Nat /\ 2 * K \in Nat /\ 4 * K \in Nat /\ 4 * K >= 2 * K
    BY SearchAssumption
  <1>2. /\ Max({Ef, 2 * K}) \in Nat /\ Max({Ef, 2 * K}) >= 2 * K
        /\ Max({Ef, 4 * K}) \in Nat /\ Max({Ef, 4 * K}) >= 4 * K
    BY <1>1, TwoNumbers
  <1>3. Cardinality(Dead) \in Nat
    <2>1. IsFiniteSet(DOMAIN rows)
      BY RowNumbers DEF Inv
    <2>2. Dead \in SUBSET DOMAIN rows
      BY DEF Dead
    <2> QED BY <2>1, <2>2, FS_Subset, FS_CardinalityType
  <1>4. Min({32, Cardinality(Dead)}) \in Nat /\ Min({64, Cardinality(Dead)}) \in Nat
    BY <1>3, TwoNumbers
  <1>5. CASE K <= 100
    BY <1>1, <1>2, <1>4, <1>5 DEF Width
  <1>6. CASE ~(K <= 100)
    BY <1>1, <1>2, <1>4, <1>6 DEF Width
  <1> QED BY <1>1, <1>5, <1>6

\* What a walk measures and has to keep depends on the rows and the call only.
LEMMA SameMeasures ==
    ASSUME NEW t, rows' = rows, task'[t].call = task[t].call
    PROVE  /\ Reads(t)' = Reads(t) /\ Width' = Width /\ DOMAIN rows' = DOMAIN rows
           /\ \A id : Dist(t, id)' = Dist(t, id)
           /\ \A id : Reported(t, id)' = Reported(t, id)
           /\ \A id : Measured(t, id)' = Measured(t, id)
  <1>1. /\ Reads(t)' = Reads(t) /\ Dead' = Dead
        /\ \A id : Dist(t, id)' = Dist(t, id)
    BY DEF Reads, Dead, Dist
  <1> QED BY <1>1 DEF Width, Reported, Measured

\* The walk begins at the first row.
LEMMA WalkStarts ==
    ASSUME Inv, NEW t \in Tasks, StartWalk(t)
    PROVE  WalkIs(t)'
  <1> USE DEF Inv
  <1>1. /\ 1 \in DOMAIN rows /\ Walks(t) /\ rows' = rows
        /\ task' = [task EXCEPT ![t].pc = "walk"] /\ task \in [Tasks -> TaskType] /\ scratch \in Buffers
    BY RowNumbers DEF StartWalk, TypeInv, Buffers
  <1>2. task'[t].pc = "walk" /\ task'[t].call = task[t].call
    BY <1>1 DEF TaskType
  <1>3. /\ scratch'.candidates = {Measured(t, 1)} /\ scratch'.results = Results(t, {1})
        /\ scratch'.visited = {1}
    BY <1>1 DEF StartWalk, Visited, Buffers
  <1>4. /\ Measured(t, 1) \in Found /\ Measured(t, 1).id = 1
        /\ Results(t, {1}) = IF Reported(t, 1) THEN {Measured(t, 1)} ELSE {}
    BY <1>1, MeasuredType
  <1>5. Kept(t, Results(t, {1}), {1})
    BY <1>4 DEF Kept
  <1>6. Kept(t, scratch.results, scratch.visited)'
    BY <1>1, <1>2, <1>3, <1>5, SameMeasures DEF Kept
  <1>7. Started(t)'
    <2>1. Measured(t, 1)' = Measured(t, 1)
      BY <1>1, <1>2, SameMeasures
    <2>2. task'[t].rest = <<>>
      BY <1>1 DEF TaskType, LockInv, StartWalk
    <2> QED BY <1>3, <2>1, <2>2 DEF Started
  <1> QED BY <1>2, <1>6, <1>7 DEF WalkIs

\* With nothing left to follow the walk met every row, or has still to set out; either way it
\* may not stop before it has.
LEMMA WalkPops ==
    ASSUME Inv, NEW t \in Tasks, Pop(t), WalkIs(t)
    PROVE  WalkIs(t)'
  <1> USE DEF Inv
  <1>1. /\ task[t].pc = "walk" /\ task[t].rest = <<>> /\ rows' = rows
        /\ task[t] \in TaskType /\ task \in [Tasks -> TaskType] /\ scratch \in Buffers
    BY TaskTypes DEF Pop, TypeInv, Buffers
  <1>2. 1 \in DOMAIN rows /\ Walks(t)
    BY <1>1, RowNumbers DEF LockInv
  <1>3. scratch'.results = scratch.results /\ scratch'.visited = scratch.visited
    BY <1>1 DEF Pop, Buffers
  <1>4. task'[t].call = task[t].call
    BY <1>1 DEF Pop, TaskType
  <1>5. ToSet(task[t].rest) = {}
    BY <1>1 DEF ToSet
  <1>6. Kept(t, scratch.results, scratch.visited)
    BY <1>1 DEF WalkIs
  <1>7. Kept(t, scratch.results, scratch.visited)'
    BY <1>1, <1>3, <1>4, <1>6, SameMeasures DEF Kept
  <1> DEFINE c == Least(scratch.candidates)
  <1>8. CASE ~Started(t)
    <2>1. scratch.visited = DOMAIN rows
      BY <1>1, <1>5, <1>8 DEF WalkIs
    <2>2. CASE task'[t].pc = "output"
      <3>1. scratch'.visited = DOMAIN rows'
        BY <1>1, <1>3, <2>1
      <3> QED BY <1>7, <2>2, <3>1 DEF WalkIs
    <2>3. CASE scratch.candidates # {} /\ task' = [task EXCEPT ![t].rest = rows[c.id].links]
      <3> HIDE DEF c
      <3>1. task'[t].pc = "walk" /\ task'[t].rest = rows[c.id].links
        BY <1>1, <2>3 DEF TaskType
      <3>2. c.id \in DOMAIN rows
        <4>1. c \in scratch.candidates
          BY <1>1, <2>3, LeastFacts DEF c, Buffers, RowsInv
        <4> QED BY <4>1 DEF RowsInv
      <3>3. scratch'.visited \cup ToSet(task'[t].rest) = DOMAIN rows'
        BY <1>1, <1>3, <2>1, <3>1, <3>2 DEF RowsInv
      <3> QED BY <1>7, <3>1, <3>3 DEF WalkIs
    <2>4. \/ task' = [task EXCEPT ![t].pc = "output"]
          \/ scratch.candidates # {} /\ task' = [task EXCEPT ![t].rest = rows[c.id].links]
      BY DEF Pop
    <2>5. task' = [task EXCEPT ![t].pc = "output"] => task'[t].pc = "output"
      BY <1>1 DEF TaskType
    <2> QED BY <2>2, <2>3, <2>4, <2>5
  <1>9. CASE Started(t)
    <2>1. scratch.candidates = {Measured(t, 1)} /\ scratch.visited = {1}
      BY <1>9 DEF Started
    <2>2. c = Measured(t, 1) /\ c.id = 1
      <3>1. c \in scratch.candidates
        <4>1. scratch.candidates \in SUBSET Found /\ IsFiniteSet(scratch.candidates)
          BY <1>1 DEF Buffers, RowsInv
        <4> QED BY <2>1, <4>1, LeastFacts
      <3> HIDE DEF c
      <3>2. c = Measured(t, 1)
        BY <2>1, <3>1
      <3> QED BY <1>2, <3>2, MeasuredType
    <2>3. ~Full
      <3>1. scratch.results \in SUBSET {Measured(t, 1)}
        BY <1>6, <2>1 DEF Kept
      <3>2. IsFiniteSet({Measured(t, 1)}) /\ Cardinality({Measured(t, 1)}) = 1
        BY FS_Singleton
      <3>3. Cardinality(scratch.results) <= 1 /\ Cardinality(scratch.results) \in Nat
        BY <3>1, <3>2, FS_Subset, FS_CardinalityType
      <3> QED BY <3>3, WidthFacts DEF Full
    <2>4. task' = [task EXCEPT ![t].rest = rows[c.id].links]
      BY <2>1, <2>3 DEF Pop
    <2> HIDE DEF c
    <2>5. task'[t].pc = "walk" /\ task'[t].rest = rows[1].links
      BY <1>1, <2>2, <2>4 DEF TaskType
    <2>6. scratch'.visited \cup ToSet(task'[t].rest) = DOMAIN rows'
      BY <1>1, <1>2, <1>3, <2>1, <2>5 DEF RowsInv
    <2> QED BY <1>7, <2>5, <2>6 DEF WalkIs
  <1> QED BY <1>8, <1>9

\* What is kept when one more row is seen.
LEMMA KeptMore ==
    ASSUME Inv, NEW t \in Tasks, Walks(t), NEW n \in DOMAIN rows, n \notin scratch.visited,
           Kept(t, scratch.results, scratch.visited),
           NEW near, near = (~Reads(t) \/ ~Full \/ Dist(t, n) < Greatest(scratch.results).dist),
           NEW more, more = scratch.results \cup Results(t, {n}),
           NEW kept, kept = IF ~near THEN scratch.results
                            ELSE IF Reads(t) /\ Cardinality(more) > Width THEN more \ {Greatest(more)}
                            ELSE more
    PROVE  Kept(t, kept, scratch.visited \cup {n})
  <1> USE DEF Inv
  <1> DEFINE old == scratch.results
             seen == scratch.visited
             new == Measured(t, n)
  <1>1. /\ old \in SUBSET Found /\ IsFiniteSet(old) /\ seen \subseteq DOMAIN rows
        /\ Width \in Nat /\ Width >= 2
    BY WidthFacts DEF TypeInv, RowsInv
  <1>2. /\ new \in Found /\ new.id = n /\ new.dist = Dist(t, n) /\ Dist(t, n) \in Nat
        /\ more = IF Reported(t, n) THEN old \cup {new} ELSE old
    BY MeasuredType
  <1>3. /\ more \in SUBSET Found /\ IsFiniteSet(more) /\ Cardinality(more) \in Nat
        /\ Cardinality(old) \in Nat /\ Cardinality(more) <= Cardinality(old) + 1
        /\ Cardinality(old) <= Cardinality(more)
    <2>1. IsFiniteSet(old \cup {new}) /\ Cardinality(old \cup {new}) = IF new \in old THEN Cardinality(old) ELSE Cardinality(old) + 1
      BY <1>1, FS_AddElement
    <2>2. Cardinality(old) \in Nat /\ Cardinality(old \cup {new}) \in Nat
      BY <1>1, <2>1, FS_CardinalityType
    <2> DEFINE all == old \cup {new}
    <2>3. more = all \/ more = old
      BY <1>2
    <2>4. new \in Found
      BY <1>2
    <2> HIDE DEF old, new
    <2>5. all \in SUBSET Found /\ Cardinality(all) <= Cardinality(old) + 1 /\ Cardinality(old) <= Cardinality(all)
      BY <1>1, <2>1, <2>2, <2>4
    <2> HIDE DEF all
    <2>6. IsFiniteSet(all) /\ Cardinality(all) \in Nat
      BY <2>1, <2>2 DEF all
    <2>7. CASE more = all
      BY <2>2, <2>5, <2>6, <2>7
    <2>8. CASE more = old
      <3>1. old \in SUBSET Found /\ IsFiniteSet(old)
        BY <1>1
      <3>2. more \in SUBSET Found /\ IsFiniteSet(more) /\ Cardinality(more) = Cardinality(old)
        BY <2>8, <3>1, Zenon
      <3> DEFINE j == Cardinality(old)
                 k == Cardinality(more)
      <3>3. j \in Nat /\ k = j
        BY <2>2, <3>2
      <3> HIDE DEF j, k
      <3>4. k \in Nat /\ j \in Nat /\ k <= j + 1 /\ j <= k
        BY <3>3
      <3> QED BY <3>2, <3>4 DEF j, k
    <2> QED BY <2>3, <2>7, <2>8
  <1>4. new \notin old
    BY <1>2 DEF Kept
  <1>5. \A x \in Found : x.dist \in Nat
    BY DEF Found
  <1>6. \A x \in more : x.id \in seen \cup {n} /\ Reported(t, x.id) /\ x = Measured(t, x.id)
    BY <1>2 DEF Kept
  <1>7. \A id \in seen : Dist(t, id) \in Nat /\ Measured(t, id) \in Found /\ Measured(t, id).dist = Dist(t, id)
    BY <1>1, MeasuredType
  <1>8. \A id \in seen : Reported(t, id) /\ Measured(t, id) \notin old =>
          Reads(t) /\ Cardinality(old) >= Width /\ \A x \in old : x.dist <= Dist(t, id)
    BY DEF Kept
  <1>9. Cardinality(old) >= Width =>
          Greatest(old) \in old /\ \A x \in old : x.dist <= Greatest(old).dist
    <2>1. ASSUME Cardinality(old) >= Width PROVE old # {}
      <3>1. Cardinality(old) # 0
        BY <1>1, <1>3, <2>1
      <3> QED BY <3>1, FS_EmptySet
    <2>2. ASSUME old # {} PROVE Greatest(old) \in old /\ \A x \in old \ {Greatest(old)} : Before(x, Greatest(old))
      BY <1>1, <2>2, LeastFacts
    <2>3. ASSUME old # {}, NEW x \in old PROVE x.dist <= Greatest(old).dist
      <3> DEFINE g == Greatest(old)
      <3>1. g \in old /\ (x # g => Before(x, g))
        BY <2>2, <2>3
      <3> HIDE DEF g, old
      <3>2. x \in Found /\ g \in Found
        BY <1>1, <2>3, <3>1
      <3>3. Before(x, g) => x.dist <= g.dist
        BY <3>2, BeforeIsOrder
      <3> QED BY <1>5, <3>1, <3>2, <3>3 DEF g
    <2> QED BY <2>1, <2>2, <2>3
  <1>10. CASE ~near
    <2>1. Reads(t) /\ Cardinality(old) >= Width /\ ~(Dist(t, n) < Greatest(old).dist) /\ kept = old
      BY <1>10 DEF Full
    <2>2. \A x \in old : x.dist <= Dist(t, n)
      <3>1. Greatest(old) \in old /\ Greatest(old).dist \in Nat /\ \A x \in old : x \in Found /\ x.dist <= Greatest(old).dist
        BY <1>1, <1>5, <1>9, <2>1
      <3> HIDE DEF old
      <3>2. ASSUME NEW x \in old PROVE x.dist <= Dist(t, n)
        BY <1>2, <1>5, <2>1, <3>1
      <3> QED BY <3>2
    <2>3. \A x \in old : x.id \in seen \cup {n} /\ Reported(t, x.id) /\ x = Measured(t, x.id)
      BY DEF Kept
    <2> HIDE DEF old, new
    <2> QED BY <1>8, <2>1, <2>2, <2>3 DEF Kept
  <1>11. CASE near /\ ~(Reads(t) /\ Cardinality(more) > Width)
    <2>1. kept = more
      BY <1>11
    <2>2. ASSUME NEW id \in seen \cup {n}, Reported(t, id), Measured(t, id) \notin more
          PROVE  Reads(t) /\ Cardinality(more) >= Width /\ \A x \in more : x.dist <= Dist(t, id)
      <3>1. id # n
        BY <1>2, <2>2
      <3>2. id \in seen /\ Measured(t, id) \notin old
        BY <2>2, <3>1
      <3>3. Reads(t) /\ Cardinality(old) >= Width /\ \A x \in old : x.dist <= Dist(t, id)
        BY <1>8, <2>2, <3>2
      <3>4. Cardinality(more) <= Width
        BY <1>1, <1>3, <1>11, <3>3
      <3>5. more = old
        <4>1. old \in SUBSET more /\ Cardinality(old) = Cardinality(more)
          <5> HIDE DEF old
          <5> QED BY <1>1, <1>2, <1>3, <3>3, <3>4 DEF old
        <4> QED BY <1>3, <4>1, FS_Subset
      <3> QED BY <3>3, <3>5
    <2> QED BY <1>6, <2>1, <2>2 DEF Kept
  <1>12. CASE near /\ Reads(t) /\ Cardinality(more) > Width
    <2> DEFINE g == Greatest(more)
    <2>1. kept = more \ {g}
      BY <1>12
    <2>2. g \in more /\ \A x \in more \ {g} : Before(x, g)
      <3>1. more # {}
        <4>1. Cardinality(more) # 0
          <5> HIDE DEF old, new
          <5>1. Cardinality(more) \in Nat /\ Cardinality(more) > Width /\ Width \in Nat
            BY <1>1, <1>3, <1>12
          <5> QED BY <5>1
        <4> QED BY <4>1, FS_EmptySet
      <3> QED BY <1>3, <3>1, LeastFacts
    <2> HIDE DEF g
    <2>3. Cardinality(kept) >= Width
      <3>1. Cardinality(more \ {g}) = Cardinality(more) - 1
        BY <1>3, <2>2, FS_RemoveElement
      <3>2. Cardinality(more) \in Nat /\ Cardinality(more) > Width /\ Width \in Nat
        <4> HIDE DEF old, new
        <4> QED BY <1>1, <1>3, <1>12
      <3>3. Cardinality(kept) = Cardinality(more) - 1
        BY <2>1, <3>1
      <3> HIDE DEF old, new
      <3> QED BY <3>2, <3>3
    <2>4. \A x \in kept : x.dist <= g.dist
      <3>1. ASSUME NEW x \in kept PROVE x.dist <= g.dist
        <4>1. x \in Found /\ g \in Found /\ Before(x, g)
          BY <1>3, <2>1, <2>2
        <4> QED BY <4>1, BeforeIsOrder
      <3> QED BY <3>1
    <2>5. ASSUME NEW id \in seen \cup {n}, Reported(t, id), Measured(t, id) \notin kept, NEW x \in kept
          PROVE  x.dist <= Dist(t, id)
      <3>1. CASE Measured(t, id) = g
        <4>1. Dist(t, id) = g.dist
          BY <1>2, <1>7, <3>1
        <4> QED BY <2>4, <4>1
      <3>2. CASE Measured(t, id) # g
        <4>1. Measured(t, id) \notin more
          BY <2>1, <2>5, <3>2
        <4>2. id # n
          BY <1>2, <2>5, <4>1
        <4>3. id \in seen /\ Measured(t, id) \notin old
          BY <1>2, <4>1, <4>2
        <4>4. Reads(t) /\ Cardinality(old) >= Width /\ \A y \in old : y.dist <= Dist(t, id)
          BY <1>8, <2>5, <4>3
        <4>5. CASE x \in old
          BY <4>4, <4>5
        <4>6. CASE x = new
          <5>1. Dist(t, n) < Greatest(old).dist
            BY <1>12, <4>4 DEF Full
          <5>2. Greatest(old) \in old
            BY <1>9, <4>4
          <5>3. Greatest(old).dist <= Dist(t, id) /\ Greatest(old).dist \in Nat
            BY <1>1, <1>5, <4>4, <5>2
          <5>4. x.dist = Dist(t, n)
            BY <1>2, <4>6
          <5>5. Dist(t, id) \in Nat /\ Dist(t, n) \in Nat
            BY <1>2, <1>7, <4>3
          <5> DEFINE d == Greatest(old).dist
          <5> HIDE DEF d
          <5>6. Dist(t, n) < d /\ d <= Dist(t, id) /\ d \in Nat
            BY <5>1, <5>3 DEF d
          <5> QED BY <5>4, <5>5, <5>6
        <4>7. x \in old \/ x = new
          BY <1>2, <2>1
        <4> QED BY <4>5, <4>6, <4>7
      <3> QED BY <3>1, <3>2
    <2>6. \A x \in kept : x.id \in seen \cup {n} /\ Reported(t, x.id) /\ x = Measured(t, x.id)
      BY <1>6, <2>1
    <2> HIDE DEF old, new
    <2> QED BY <1>12, <2>3, <2>5, <2>6 DEF Kept
  <1> QED BY <1>10, <1>11, <1>12

\* One neighbour more is seen, or was seen before.
LEMMA WalkMeets ==
    ASSUME Inv, NEW t \in Tasks, Neighbour(t), WalkIs(t)
    PROVE  WalkIs(t)'
  <1> USE DEF Inv
  <1> DEFINE n    == Head(task[t].rest)
             near == ~Reads(t) \/ ~Full \/ Dist(t, n) < Greatest(scratch.results).dist
             more == scratch.results \cup Results(t, {n})
             kept == IF ~near THEN scratch.results
                     ELSE IF Reads(t) /\ Cardinality(more) > Width THEN more \ {Greatest(more)}
                     ELSE more
  <1>1. /\ task[t].pc = "walk" /\ task[t].rest # <<>> /\ rows' = rows
        /\ task' = [task EXCEPT ![t].rest = Tail(@)]
        /\ task[t] \in TaskType /\ task \in [Tasks -> TaskType] /\ scratch \in Buffers
    BY TaskTypes DEF Neighbour, TypeInv, Buffers
  <1>2. task'[t].pc = "walk" /\ task'[t].call = task[t].call /\ task'[t].rest = Tail(task[t].rest)
    BY <1>1 DEF TaskType
  <1>3. Kept(t, scratch.results, scratch.visited) /\ scratch.visited \cup ToSet(task[t].rest) = DOMAIN rows
    BY <1>1 DEF WalkIs, Started
  <1>4. ToSet(task[t].rest) = {n} \cup ToSet(Tail(task[t].rest)) /\ n \in DOMAIN rows /\ Walks(t)
    <2> DEFINE s == task[t].rest
    <2>1. s \in Seq(Ids) /\ s # <<>>
      BY <1>1 DEF TaskType
    <2>2. Walks(t) /\ ToSet(s) \subseteq DOMAIN rows
      BY <1>1 DEF LockInv, RowsInv
    <2> HIDE DEF s
    <2>3. /\ Len(s) \in Nat /\ Len(s) >= 1 /\ DOMAIN s = 1 .. Len(s) /\ DOMAIN Tail(s) = 1 .. Len(s) - 1
          /\ \A i \in 1 .. Len(s) - 1 : Tail(s)[i] = s[i + 1]
          /\ Head(s) = s[1]
      BY <2>1
    <2>4. ToSet(Tail(s)) \subseteq ToSet(s) /\ Head(s) \in ToSet(s)
      BY <2>3 DEF ToSet
    <2>5. ASSUME NEW x \in ToSet(s), x # Head(s) PROVE x \in ToSet(Tail(s))
      <3>1. PICK i \in 1 .. Len(s) : s[i] = x
        BY <2>3 DEF ToSet
      <3>2. i # 1
        BY <2>3, <2>5, <3>1
      <3>3. i - 1 \in 1 .. Len(s) - 1 /\ (i - 1) + 1 = i
        BY <2>3, <3>2
      <3>4. Tail(s)[i - 1] = x
        BY <2>3, <3>1, <3>3
      <3> QED BY <2>3, <3>3, <3>4 DEF ToSet
    <2>6. ToSet(s) = {Head(s)} \cup ToSet(Tail(s))
      BY <2>4, <2>5
    <2> QED BY <2>2, <2>4, <2>6 DEF s
  <1>5. CASE n \in scratch.visited
    <2>1. scratch' = scratch
      BY <1>5 DEF Neighbour
    <2> HIDE DEF n
    <2>2. Kept(t, scratch.results, scratch.visited)'
      BY <1>1, <1>2, <1>3, <2>1, SameMeasures DEF Kept
    <2>3. scratch'.visited \cup ToSet(task'[t].rest) = DOMAIN rows'
      BY <1>1, <1>2, <1>3, <1>4, <1>5, <2>1
    <2> QED BY <1>2, <2>2, <2>3 DEF WalkIs
  <1>6. CASE n \notin scratch.visited
    <2>1. scratch'.visited = scratch.visited \cup {n} /\ scratch'.results = kept
      <3>1. scratch' = IF ~near THEN [scratch EXCEPT !.visited = Marked(n)]
                       ELSE [scratch EXCEPT !.visited = Marked(n), !.candidates = @ \cup {Measured(t, n)},
                                            !.results = kept]
        BY <1>6 DEF Neighbour
      <3> HIDE DEF n
      <3>2. ~near => kept = scratch.results
        OBVIOUS
      <3> HIDE DEF near, kept
      <3> QED BY <1>1, <3>1, <3>2 DEF Marked, Buffers
    <2>2. Kept(t, kept, scratch.visited \cup {n})
      <3> HIDE DEF n
      <3> QED BY <1>3, <1>4, <1>6, KeptMore
    <2> HIDE DEF kept, near, more, n
    <2>3. Kept(t, scratch.results, scratch.visited)'
      BY <1>1, <1>2, <2>1, <2>2, SameMeasures DEF Kept
    <2>4. scratch'.visited \cup ToSet(task'[t].rest) = DOMAIN rows'
      BY <1>1, <1>2, <1>3, <1>4, <2>1
    <2> QED BY <1>2, <2>3, <2>4 DEF WalkIs
  <1> QED BY <1>5, <1>6

\* The results move to the output.
LEMMA WalkEnds ==
    ASSUME Inv, NEW t \in Tasks, Output(t), WalkIs(t)
    PROVE  WalkIs(t)'
  <1> USE DEF Inv
  <1>1. /\ task[t].pc = "output" /\ rows' = rows /\ task' = [task EXCEPT ![t].pc = "take"]
        /\ task[t] \in TaskType /\ task \in [Tasks -> TaskType] /\ scratch \in Buffers
    BY TaskTypes DEF Output, TypeInv, Buffers
  <1>2. task'[t].pc = "take" /\ task'[t].call = task[t].call
    BY <1>1 DEF TaskType
  <1>3. scratch'.output = NearestFirst(scratch.results)
    BY <1>1 DEF Output, Buffers
  <1> DEFINE xs == scratch.results
  <1>4. xs \in SUBSET Found /\ IsFiniteSet(xs) /\ Kept(t, xs, DOMAIN rows)
    BY <1>1 DEF Buffers, RowsInv, WalkIs
  <1>5. \E ys \in SUBSET Found : IsFiniteSet(ys) /\ scratch'.output = NearestFirst(ys) /\ Kept(t, ys, DOMAIN rows)
    BY <1>3, <1>4
  <1>6. PICK ys \in SUBSET Found : IsFiniteSet(ys) /\ scratch'.output = NearestFirst(ys) /\ Kept(t, ys, DOMAIN rows)
    BY <1>5
  <1>7. Kept(t, ys, DOMAIN rows)'
    BY <1>1, <1>2, <1>6, SameMeasures DEF Kept
  <1> QED BY <1>2, <1>6, <1>7 DEF WalkIs

\* What a task that is alone with the buffers does is undone by nobody else.
LEMMA WalkStays ==
    ASSUME NEW t, WalkIs(t), rows' = rows, scratch' = scratch, task'[t] = task[t]
    PROVE  WalkIs(t)'
  <1>1. /\ Reads(t)' = Reads(t) /\ Width' = Width
        /\ \A id : Dist(t, id)' = Dist(t, id)
        /\ \A id : Reported(t, id)' = Reported(t, id)
        /\ \A id : Measured(t, id)' = Measured(t, id)
    BY SameMeasures
  <1>2. Started(t)' = Started(t)
    BY <1>1 DEF Started
  <1>3. task[t].pc = "walk" => Kept(t, scratch.results, scratch.visited)'
    <2> SUFFICES ASSUME task[t].pc = "walk" PROVE Kept(t, scratch.results, scratch.visited)'
      OBVIOUS
    <2>1. Kept(t, scratch.results, scratch.visited)
      BY DEF WalkIs
    <2> QED BY <1>1, <2>1 DEF Kept
  <1>4. task[t].pc = "output" => Kept(t, scratch.results, DOMAIN rows)'
    <2> SUFFICES ASSUME task[t].pc = "output" PROVE Kept(t, scratch.results, DOMAIN rows)'
      OBVIOUS
    <2>1. Kept(t, scratch.results, DOMAIN rows)
      BY DEF WalkIs
    <2> QED BY <1>1, <2>1 DEF Kept
  <1>5. task[t].pc = "take" =>
            (\E xs \in SUBSET Found : IsFiniteSet(xs) /\ scratch.output = NearestFirst(xs) /\ Kept(t, xs, DOMAIN rows))'
    <2> SUFFICES ASSUME task[t].pc = "take"
                 PROVE  (\E xs \in SUBSET Found : IsFiniteSet(xs) /\ scratch.output = NearestFirst(xs) /\ Kept(t, xs, DOMAIN rows))'
      OBVIOUS
    <2>1. PICK xs \in SUBSET Found :
              IsFiniteSet(xs) /\ scratch.output = NearestFirst(xs) /\ Kept(t, xs, DOMAIN rows)
      BY DEF WalkIs
    <2>2. Kept(t, xs, DOMAIN rows)'
      BY <1>1, <2>1 DEF Kept
    <2> QED BY <2>1, <2>2
  <1> QED BY <1>2, <1>3, <1>4, <1>5 DEF WalkIs

\* A step of the specification.
LEMMA WalkStep == Inv /\ [Next]_vars => WalkInv'
  <1> SUFFICES ASSUME Inv, [Next]_vars, NEW u \in holders', ~task'[u].shared PROVE WalkIs(u)'
    BY DEF WalkInv
  <1> USE DEF Inv
  <1>1. \A t \in holders : t \in Tasks /\ task[t].pc \notin {"idle", "waiting"} /\ (~task[t].shared => holders = {t} /\ WalkIs(t))
    BY DEF LockInv, WalkInv
  <1>2. task \in [Tasks -> TaskType]
    BY DEF TypeInv
  <1>3. CASE UNCHANGED vars
    BY <1>1, <1>3, WalkStays DEF vars
  <1>4. ASSUME NEW t \in Tasks, NEW call \in Call, Ask(t, call) PROVE WalkIs(u)'
    <2>1. holders' = holders /\ rows' = rows /\ scratch' = scratch /\ u # t
      BY <1>1, <1>4 DEF Ask
    <2>2. task'[u] = task[u] /\ WalkIs(u)
      BY <1>1, <1>2, <1>4, <2>1 DEF Ask
    <2> QED BY <2>1, <2>2, WalkStays
  <1>5. ASSUME NEW t \in Tasks, Enter(t) PROVE WalkIs(u)'
    <2>1. t \notin holders
      BY <1>1, <1>5 DEF Enter
    <2>2. u \in holders => task'[u].shared
      <3> SUFFICES ASSUME u \in holders PROVE task'[u].shared
        OBVIOUS
      <3>1. u \in Tasks /\ u # t /\ task[u] \in TaskType
        BY <1>1, <1>2, <2>1
      <3>2. task'[u] = [task[u] EXCEPT !.shared = TRUE]
        BY <1>5, <3>1 DEF Enter
      <3> QED BY <3>1, <3>2 DEF TaskType
    <2>3. u = t
      BY <1>5, <2>2 DEF Enter
    <2>4. task'[u].pc = "start"
      BY <1>2, <1>5, <2>3 DEF Enter, TaskType
    <2> QED BY <2>4 DEF WalkIs
  <1>6. ASSUME NEW t \in Tasks, StartWalk(t) \/ Pop(t) \/ Neighbour(t) \/ Output(t) PROVE WalkIs(u)'
    <2>1. task[t].pc \in {"start", "walk", "output"} /\ holders' = holders
      BY <1>6 DEF StartWalk, Pop, Neighbour, Output
    <2>2. t \in holders
      BY <2>1 DEF LockInv
    <2>3. task'[u].shared = task[u].shared
      <3>1. \/ \E pc \in {"walk", "output", "take"} : task' = [task EXCEPT ![t].pc = pc]
            \/ \E rest : task' = [task EXCEPT ![t].rest = rest]
        BY <1>6 DEF StartWalk, Pop, Neighbour, Output
      <3>2. ASSUME NEW pc, task' = [task EXCEPT ![t].pc = pc] PROVE task'[u].shared = task[u].shared
        BY <1>2, <3>2 DEF TaskType
      <3>3. ASSUME NEW rest, task' = [task EXCEPT ![t].rest = rest] PROVE task'[u].shared = task[u].shared
        BY <1>2, <3>3 DEF TaskType
      <3> QED BY <3>1, <3>2, <3>3
    <2>4. u = t /\ WalkIs(t)
      BY <1>1, <2>1, <2>2, <2>3
    <2> QED BY <1>6, <2>4, WalkStarts, WalkPops, WalkMeets, WalkEnds
  <1>7. ASSUME NEW t \in Tasks,
               NothingToSearch(t) \/ TakeHits(t) \/ LinkRow(t) \/ FirstRow(t) \/ DeleteRow(t)
        PROVE  WalkIs(u)'
    <2>1. task[t].pc \in {"start", "take"} /\ holders' = holders \ {t} /\ task' = [task EXCEPT ![t] = Idle]
      BY <1>7 DEF NothingToSearch, TakeHits, LinkRow, FirstRow, DeleteRow, Leave
    <2>2. t \in holders /\ u \in holders /\ u # t /\ task'[u] = task[u]
      BY <1>2, <2>1 DEF LockInv
    <2> QED BY <1>1, <2>2
  <1> QED BY <1>3, <1>4, <1>5, <1>6, <1>7 DEF Next, Step

\* The invariant holds at first.
LEMMA InvInit == Init => Inv
  <1> SUFFICES ASSUME Init PROVE Inv
    OBVIOUS
  <1> USE DEF Init
  <1>1. \A t \in Tasks : task[t].pc = "idle" /\ task[t].call.kind = "none" /\ task[t].rest = <<>>
    BY DEF Idle
  <1>2. LockInv
    <2>1. ToSet(queue) = {} /\ IsInjective(queue)
      BY DEF ToSet, IsInjective
    <2> QED BY <1>1, <2>1 DEF LockInv
  <1>3. RowsInv
    <2>1. Inserting = {}
      BY <1>1 DEF Inserting
    <2>2. Cardinality(Inserting) = 0
      BY <2>1, FS_EmptySet
    <2>3. Len(rows) + Cardinality(Inserting) <= MaxRows
      BY <2>2, RowsAssumption
    <2>4. IsFiniteSet(scratch.candidates) /\ IsFiniteSet(scratch.results)
      BY FS_EmptySet
    <2>5. ToSet(<<>>) = {}
      BY DEF ToSet
    <2> QED BY <1>1, <2>3, <2>4, <2>5 DEF RowsInv
  <1>4. WalkInv
    BY DEF WalkInv
  <1> QED BY <1>2, <1>3, <1>4, TypeInit DEF Inv

\* The inductive invariant: types, the lock, the numbers of the rows and the walk of a task
\* that has the lock to itself.
THEOREM AsyncInvariance == Spec => []Inv
  <1>1. Inv /\ [Next]_vars => Inv'
    BY TypeStep, LockStep, RowsStep, WalkStep DEF Inv
  <1> QED BY <1>1, InvInit, PTL DEF Spec

(***************************************************************************)
(* What follows                                                            *)
(***************************************************************************)
\* The lock of AsyncVectorDb: everyone who waits is in the queue once, and only readers share
\* it; and whatever is in the buffers is of its type.
THEOREM AsyncTypeCorrect == Spec => []AsyncTypeOK
  <1>1. ASSUME Inv PROVE AsyncTypeOK
    <2> USE <1>1 DEF Inv
    <2>1. \A id \in DOMAIN rows : rows[id].at \in Places /\ ToSet(rows[id].links) \subseteq DOMAIN rows \ {id}
      BY RowNumbers DEF RowType, RowsInv
    <2>2. /\ scratch.visited \subseteq Ids /\ ToSet(scratch.output) \subseteq Found
          /\ scratch.candidates \subseteq Found /\ scratch.results \subseteq Found
      BY DEF TypeInv, ToSet
    <2>3. ASSUME Cardinality(holders) > 1, NEW t \in holders PROVE Reads(t)
      <3>1. holders # {t}
        BY <2>3, FS_Singleton
      <3> QED BY <3>1 DEF LockInv
    <2>4. \A t \in Tasks : task[t].pc = "idle" \/ task[t].call \in Call
      BY DEF LockInv
    <2> QED BY <2>1, <2>2, <2>3, <2>4 DEF LockInv, AsyncTypeOK
  <1> QED BY <1>1, AsyncInvariance, PTL

\* A set of rows and the set of what a walk measured at them have as many elements.
LEMMA SameCount ==
    ASSUME Inv, NEW t \in Tasks, Walks(t), NEW xs \in SUBSET Found, IsFiniteSet(xs),
           \A x \in xs : x = Measured(t, x.id)
    PROVE  IsFiniteSet({x.id : x \in xs}) /\ Cardinality({x.id : x \in xs}) = Cardinality(xs)
  <1> DEFINE ids == {x.id : x \in xs}
             f == [x \in xs |-> x.id]
  <1>1. f \in Bijection(xs, ids)
    <2>1. \A x, y \in xs : f[x] = f[y] => x = y
      OBVIOUS
    <2>2. f \in [xs -> ids] /\ \A id \in ids : \E x \in xs : f[x] = id
      OBVIOUS
    <2> HIDE DEF ids, f
    <2> QED BY <2>1, <2>2 DEF Bijection, Injection, Surjection, IsInjective
  <1> HIDE DEF ids, f
  <1>2. IsFiniteSet(ids) /\ Cardinality(ids) = Cardinality(xs)
    BY <1>1, FS_Bijection DEF ExistsBijection
  <1> QED BY <1>2 DEF ids

\* The first K of what a walk that met every row kept are the nearest live rows.
LEMMA HitsNearest ==
    ASSUME Inv, NEW t \in Tasks, Reads(t), Walks(t),
           NEW xs \in SUBSET Found, IsFiniteSet(xs), scratch.output = NearestFirst(xs), Kept(t, xs, DOMAIN rows)
    PROVE  Nearest(t, Hits)
  <1> USE DEF Inv
  <1> DEFINE n == Cardinality(xs)
             s == scratch.output
             top == {j \in 1 .. n : j <= K}
             ids == {x.id : x \in xs}
  <1>1. n \in Nat /\ K \in Nat /\ K >= 1 /\ Width \in Nat /\ Width >= K
    BY WidthFacts, FS_CardinalityType
  <1>2. /\ \A i \in 1 .. n : s[i] \in xs
        /\ \A i, j \in 1 .. n : i < j => Before(s[i], s[j])
        /\ \A x \in xs : \E i \in 1 .. n : s[i] = x
        /\ DOMAIN s = 1 .. n
    <2>1. s \in Seq(xs) /\ Len(s) = n
      BY NearestFirstFacts
    <2> QED BY <2>1, NearestFirstFacts
  <1>3. \A x \in xs : x.id \in DOMAIN rows /\ rows[x.id].live /\ x = Measured(t, x.id) /\ x.dist = Dist(t, x.id)
    BY DEF Kept, Reported, Measured
  <1>4. \A id \in Live : Measured(t, id) \notin xs =>
            n >= Width /\ \A x \in xs : x.dist <= Dist(t, id)
    BY DEF Kept, Reported, Live
  <1>5. Hits = {s[i].id : i \in top}
    BY <1>2 DEF Hits
  <1>6. IsFiniteSet(Live) /\ Cardinality(Live) \in Nat
    <2>1. Live \in SUBSET DOMAIN rows /\ IsFiniteSet(DOMAIN rows)
      BY RowNumbers DEF Live
    <2> QED BY <2>1, FS_Subset, FS_CardinalityType
  <1>7. IsFiniteSet(ids) /\ Cardinality(ids) = n /\ ids \in SUBSET Live
    <2>1. ids \in SUBSET Live
      BY <1>3 DEF Live
    <2> QED BY <1>3, <2>1, SameCount
  <1>8. Hits \subseteq Live
    BY <1>2, <1>3, <1>5 DEF Live
  <1>9. Cardinality(Hits) = IF n <= K THEN n ELSE K
    <2> DEFINE m == IF n <= K THEN n ELSE K
               f == [i \in 1 .. m |-> s[i].id]
    <2>1. top = 1 .. m /\ m \in Nat
      BY <1>1
    <2>2. \A i \in 1 .. m : i \in 1 .. n
      BY <1>1
    <2>3. Hits = {s[i].id : i \in 1 .. m}
      BY <1>5, <2>1
    <2> HIDE DEF m
    <2>4. ASSUME NEW i \in 1 .. m, NEW j \in 1 .. m, s[i].id = s[j].id PROVE i = j
      <3>1. i \in 1 .. n /\ j \in 1 .. n /\ s[i] \in xs /\ s[j] \in xs
        BY <1>2, <2>2
      <3>2. s[i] = s[j]
        BY <1>3, <2>4, <3>1
      <3>3. ~Before(s[i], s[j]) /\ ~Before(s[j], s[i])
        BY <3>1, <3>2, BeforeIsOrder
      <3>4. ~(i < j) /\ ~(j < i)
        BY <1>2, <3>1, <3>3
      <3> QED BY <3>1, <3>4
    <2>5. f \in Bijection(1 .. m, Hits)
      <3>1. \A i, j \in 1 .. m : f[i] = f[j] => i = j
        BY <2>4
      <3>2. f \in [1 .. m -> Hits] /\ \A id \in Hits : \E i \in 1 .. m : f[i] = id
        BY <2>3
      <3> HIDE DEF f
      <3> QED BY <3>1, <3>2 DEF Bijection, Injection, Surjection, IsInjective
    <2>6. IsFiniteSet(1 .. m) /\ Cardinality(1 .. m) = m
      BY <2>1, FS_Interval
    <2>7. Cardinality(Hits) = m
      BY <2>5, <2>6, FS_Bijection DEF ExistsBijection
    <2> QED BY <2>7 DEF m
  <1>10. n <= Cardinality(Live)
    BY <1>6, <1>7, FS_Subset
  <1>11. n >= K \/ n = Cardinality(Live)
    <2>1. CASE \E id \in Live : Measured(t, id) \notin xs
      BY <1>1, <1>4, <2>1
    <2>2. CASE \A id \in Live : Measured(t, id) \in xs
      <3>1. \A id \in Live : id \in ids
        <4>1. \A id : Measured(t, id).id = id
          BY DEF Measured
        <4> QED BY <2>2, <4>1
      <3>2. ids = Live
        BY <1>7, <3>1
      <3> QED BY <1>7, <3>2
    <2> QED BY <2>1, <2>2
  <1>12. Cardinality(Hits) = Min({K, Cardinality(Live)})
    <2> DEFINE l == Cardinality(Live)
    <2>1. l \in Nat /\ n <= l /\ (n >= K \/ n = l)
      BY <1>6, <1>10, <1>11
    <2> HIDE DEF l, n
    <2>2. (IF n <= K THEN n ELSE K) = (IF l <= K THEN l ELSE K)
      BY <1>1, <2>1
    <2>3. Min({K, l}) = IF l <= K THEN l ELSE K
      <3>1. \A x \in {K, l} : (\A y \in {K, l} : x <= y) => x = IF l <= K THEN l ELSE K
        BY <1>1, <2>1
      <3>2. \E x \in {K, l} : \A y \in {K, l} : x <= y
        BY <1>1, <2>1
      <3> QED BY <3>1, <3>2 DEF Min
    <2> QED BY <1>9, <2>2, <2>3 DEF l, n
  <1>13. ASSUME NEW id \in Hits, NEW other \in Live \ Hits PROVE Dist(t, id) <= Dist(t, other)
    <2>1. PICK i \in 1 .. n : i <= K /\ s[i].id = id
      BY <1>5
    <2>2. s[i] \in xs /\ s[i].dist = Dist(t, id)
      BY <1>2, <1>3, <2>1
    <2>3. CASE Measured(t, other) \notin xs
      BY <1>4, <2>2, <2>3
    <2>4. CASE Measured(t, other) \in xs
      <3>1. PICK j \in 1 .. n : s[j] = Measured(t, other)
        BY <1>2, <2>4
      <3>2. s[j].id = other /\ s[j].dist = Dist(t, other)
        BY <3>1 DEF Measured
      <3>3. ~(j <= K)
        BY <1>5, <3>2
      <3>4. i < j
        BY <1>1, <2>1, <3>3
      <3>5. Before(s[i], s[j]) /\ s[i] \in Found /\ s[j] \in Found
        BY <1>2, <3>4
      <3>6. s[i].dist <= s[j].dist
        BY <3>5, BeforeIsOrder
      <3> QED BY <2>2, <3>2, <3>6
    <2> QED BY <2>3, <2>4
  <1> QED BY <1>8, <1>12, <1>13 DEF Nearest

\* A search that had the lock to itself answers with the nearest live rows, whatever earlier
\* searches and inserts left in the buffers: search_layer clears what it reads, and stops
\* only when it has met every row.  RowsAssumption bounds the rows: with more of them than
\* a list of layer 0 (m0) or the search of an insertion (ef_construction) has room for,
\* rows need not lead to each other.
THEOREM AloneExact == Spec => []AloneIsExact
  <1>1. ASSUME Inv, NEW t \in Tasks, Answers(t), ~task[t].shared PROVE Nearest(t, Hits)
    <2> USE <1>1 DEF Inv
    <2>1. Reads(t) /\ task[t].pc = "take"
      BY DEF Answers
    <2>2. t \in holders /\ Walks(t)
      BY <2>1 DEF LockInv
    <2>3. WalkIs(t)
      BY <2>2 DEF WalkInv
    <2>4. PICK xs \in SUBSET Found :
              IsFiniteSet(xs) /\ scratch.output = NearestFirst(xs) /\ Kept(t, xs, DOMAIN rows)
      BY <2>1, <2>3 DEF WalkIs
    <2> QED BY <2>1, <2>2, <2>4, HitsNearest
  <1>2. Inv => AloneIsExact
    BY <1>1 DEF AloneIsExact
  <1> QED BY <1>2, AsyncInvariance, PTL
=============================================================================
