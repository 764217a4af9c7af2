--------------------------- MODULE RagIndexProofs ---------------------------
(***************************************************************************)
(* Type correctness of RagIndex, and its safety properties, for any number *)
(* of clients, sources, texts, requests, restarts and failures.            *)
(***************************************************************************)
EXTENDS RagIndex, OrderLemmas

USE DEF maps, ghosts, vars, At, Src

-----------------------------------------------------------------------------
(* What a step does to the rows. *)

\* The type of the local variables of a request when the database has n rows.
TaskType(n) == [pc : States, kind : {"index", "delete"}, src : Sources \cup {"none"},
                text : Texts, hash : Texts, ids : Seq(1 .. n), id : 0 .. n, next : Nat]

\* The rows of other sources than src stay; a row of src may be deleted or be new.
RowsChange(src) ==
    /\ Len(rows) <= Len(rows')
    /\ \A i \in DOMAIN rows :
          \/ rows'[i] = rows[i]
          \/ rows[i].src = src /\ rows'[i] = [rows[i] EXCEPT !.live = FALSE]
    /\ \A i \in DOMAIN rows' : i \in DOMAIN rows \/ rows'[i].src = src

\* A new row gets the next id and the others keep theirs.
LEMMA InsertEffect ==
    ASSUME rows \in Seq(Row), NEW row \in Row, Insert(row)
    PROVE  /\ rows' \in Seq(Row) /\ Len(rows') = Len(rows) + 1
           /\ NewId \in 1 .. Len(rows') /\ NewId \notin DOMAIN rows
           /\ DOMAIN rows' = DOMAIN rows \cup {NewId}
           /\ rows'[NewId] = row
           /\ \A i \in DOMAIN rows : rows'[i] = rows[i]
           /\ RowsChange(row.src)
  BY DEF Insert, NewId, RowsChange

\* A deleted row keeps everything but its being live.
LEMMA DeleteEffect ==
    ASSUME rows \in Seq(Row), NEW id \in DOMAIN rows, Delete(id)
    PROVE  /\ rows' \in Seq(Row) /\ Len(rows') = Len(rows) /\ DOMAIN rows' = DOMAIN rows
           /\ rows'[id] = [rows[id] EXCEPT !.live = FALSE]
           /\ \A i \in DOMAIN rows : i # id => rows'[i] = rows[i]
           /\ RowsChange(rows[id].src)
  <1> DEFINE row == [rows[id] EXCEPT !.live = FALSE]
  <1>1. id \in 1 .. Len(rows) /\ rows[id] \in Row
    OBVIOUS
  <1>2. row \in Row
    BY <1>1 DEF Row
  <1>3. rows' = [rows EXCEPT ![id] = row]
    BY DEF Delete
  <1>4. /\ rows' \in Seq(Row) /\ Len(rows') = Len(rows)
        /\ \A j \in 1 .. Len(rows) : rows'[j] = IF j = id THEN row ELSE rows[j]
    <2> HIDE DEF row
    <2> QED BY <1>1, <1>2, <1>3, ExceptSeq
  <1>5. DOMAIN rows' = DOMAIN rows /\ DOMAIN rows = 1 .. Len(rows)
    BY <1>4
  <1> QED BY <1>1, <1>4, <1>5 DEF RowsChange

\* A step that does not touch the database changes no source's rows.
LEMMA SameRows ==
    ASSUME rows \in Seq(Row), UNCHANGED rows, NEW src
    PROVE  RowsChange(src) /\ rows' \in Seq(Row) /\ Len(rows') = Len(rows)
  BY DEF RowsChange

\* The tasks keep their type when rows are added.
LEMMA TasksGrow ==
    ASSUME NEW n \in Nat, NEW m \in Nat, n <= m
    PROVE  TaskType(n) \subseteq TaskType(m)
  <1>1. 1 .. n \subseteq 1 .. m /\ 0 .. n \subseteq 0 .. m
    OBVIOUS
  <1>2. Seq(1 .. n) \subseteq Seq(1 .. m)
    BY <1>1
  <1> QED BY <1>1, <1>2 DEF TaskType

\* There is a text, so the filler of an idle client's local variables is one.
LEMMA AnyTextType == AnyText \in Texts
  BY ChunksAssumption DEF AnyText

\* What an idle client holds has the type of a task.
LEMMA NoTaskType == ASSUME NEW n \in Nat PROVE NoTask \in TaskType(n)
  BY AnyTextType DEF NoTask, TaskType, States

-----------------------------------------------------------------------------
(* Types, and whose rows the maps and the requests name. *)

\* A request has a source, and the rows it is about to delete or to list are of
\* that source and of the right kind.
TaskOwns(c) ==
    /\ ~At(c, "idle") => Src(c) \in Sources
    /\ At(c, "rows") =>
          \A k \in DOMAIN task[c].ids :
             rows[task[c].ids[k]].src = Src(c) /\ ~rows[task[c].ids[k]].doc
    /\ task[c].pc \in {"meta", "docrow", "olddoc", "list", "listdoc"} =>
          /\ task[c].id # 0
          /\ rows[task[c].id].src = Src(c)
          /\ rows[task[c].id].doc <=> task[c].pc # "list"

Owned ==
    /\ \A s \in Sources : \A k \in DOMAIN chunkIds[s] :
          rows[chunkIds[s][k]].src = s /\ ~rows[chunkIds[s][k]].doc
    /\ \A s \in Sources : docIds[s] # 0 => rows[docIds[s]].src = s /\ rows[docIds[s]].doc
    /\ \A c \in Clients : TaskOwns(c)

\* RagTypeOK with the tasks by TaskType, before and after a step.
LEMMA TypeParts ==
    RagTypeOK <=>
        /\ rows \in Seq(Row)
        /\ chunkIds \in [Sources -> Seq(1 .. Len(rows))]
        /\ docIds \in [Sources -> 0 .. Len(rows)]
        /\ task \in [Clients -> TaskType(Len(rows))]
        /\ answer \in [Sources -> [kind : {"none", "skipped", "indexed", "deleted"},
                                   text : Texts, hash : Texts]]
        /\ tainted \subseteq Sources /\ partial \subseteq Sources
        /\ requests \in Nat /\ restarts \in Nat /\ faults \in Nat
  <1>1. rows \in Seq(Row) => DOMAIN rows = 1 .. Len(rows)
    OBVIOUS
  <1> QED BY <1>1 DEF RagTypeOK, TaskType

\* The same of the next state, one way.
LEMMA TypePartsNext ==
    /\ rows' \in Seq(Row)
    /\ chunkIds' \in [Sources -> Seq(1 .. Len(rows'))]
    /\ docIds' \in [Sources -> 0 .. Len(rows')]
    /\ task' \in [Clients -> TaskType(Len(rows'))]
    /\ answer' \in [Sources -> [kind : {"none", "skipped", "indexed", "deleted"},
                                text : Texts, hash : Texts]]
    /\ tainted' \subseteq Sources /\ partial' \subseteq Sources
    /\ requests' \in Nat /\ restarts' \in Nat /\ faults' \in Nat
    => RagTypeOK'
  <1>1. rows' \in Seq(Row) => DOMAIN rows' = 1 .. Len(rows')
    OBVIOUS
  <1> QED BY <1>1 DEF RagTypeOK, TaskType

\* A request goes on with other local variables; its source, text and hash stay.
Moves(c, p, ids, id, next) ==
    task' = [task EXCEPT ![c] = [task[c] EXCEPT !.pc = p, !.ids = ids, !.id = id, !.next = next]]

\* The forms in which the actions change the local variables.
LEMMA TaskMoves ==
    ASSUME NEW n \in Nat, task \in [Clients -> TaskType(n)], NEW c \in Clients
    PROVE  /\ \A p : Goes(c, p) => Moves(c, p, task[c].ids, task[c].id, task[c].next)
           /\ \A p, id : Holding(c, p, id) => Moves(c, p, task[c].ids, id, task[c].next)
           /\ \A ids : task' = [task EXCEPT ![c].ids = ids] =>
                 Moves(c, task[c].pc, ids, task[c].id, task[c].next)
           /\ \A p, ids : task' = [task EXCEPT ![c].pc = p, ![c].ids = ids] =>
                 Moves(c, p, ids, task[c].id, task[c].next)
           /\ \A p, k : task' = [task EXCEPT ![c].next = k, ![c].pc = p] =>
                 Moves(c, p, task[c].ids, task[c].id, k)
  <1> USE DEF TaskType, Moves
  <1>1. ASSUME NEW p, Goes(c, p) PROVE Moves(c, p, task[c].ids, task[c].id, task[c].next)
    BY <1>1 DEF Goes
  <1>2. ASSUME NEW p, NEW id, Holding(c, p, id) PROVE Moves(c, p, task[c].ids, id, task[c].next)
    BY <1>2 DEF Holding
  <1>3. ASSUME NEW ids, task' = [task EXCEPT ![c].ids = ids]
        PROVE  Moves(c, task[c].pc, ids, task[c].id, task[c].next)
    BY <1>3
  <1>4. ASSUME NEW p, NEW ids, task' = [task EXCEPT ![c].pc = p, ![c].ids = ids]
        PROVE  Moves(c, p, ids, task[c].id, task[c].next)
    BY <1>4
  <1>5. ASSUME NEW p, NEW k, task' = [task EXCEPT ![c].next = k, ![c].pc = p]
        PROVE  Moves(c, p, task[c].ids, task[c].id, k)
    BY <1>5
  <1> HIDE DEF TaskType, Moves
  <1> QED BY <1>1, <1>2, <1>3, <1>4, <1>5

\* What such a step leaves of the request and of the others.
LEMMA MovesFacts ==
    ASSUME NEW n \in Nat, task \in [Clients -> TaskType(n)], NEW c \in Clients,
           NEW m \in Nat, n <= m,
           NEW p \in States, NEW ids \in Seq(1 .. m), NEW id \in 0 .. m, NEW next \in Nat,
           Moves(c, p, ids, id, next)
    PROVE  /\ task' \in [Clients -> TaskType(m)]
           /\ \A e \in Clients \ {c} : task'[e] = task[e]
           /\ task'[c].pc = p /\ task'[c].ids = ids /\ task'[c].id = id /\ task'[c].next = next
           /\ task'[c].src = task[c].src /\ task'[c].text = task[c].text
           /\ task'[c].hash = task[c].hash /\ task'[c].kind = task[c].kind
  <1> DEFINE t == [task[c] EXCEPT !.pc = p, !.ids = ids, !.id = id, !.next = next]
  <1>1. task \in [Clients -> TaskType(m)]
    BY TasksGrow
  <1>2. t \in TaskType(m)
    BY <1>1 DEF TaskType
  <1>3. /\ t.pc = p /\ t.ids = ids /\ t.id = id /\ t.next = next
        /\ t.src = task[c].src /\ t.text = task[c].text
        /\ t.hash = task[c].hash /\ t.kind = task[c].kind
    BY <1>1 DEF TaskType
  <1>4. task' = [task EXCEPT ![c] = t]
    BY DEF Moves
  <1> HIDE DEF t
  <1> QED BY <1>1, <1>2, <1>3, <1>4

\* The end of a request.
LEMMA EndsFacts ==
    ASSUME NEW n \in Nat, task \in [Clients -> TaskType(n)], NEW c \in Clients, Ends(c)
    PROVE  /\ task' \in [Clients -> TaskType(n)]
           /\ \A e \in Clients \ {c} : task'[e] = task[e]
           /\ task'[c] = NoTask /\ task'[c].pc = "idle"
  <1>1. NoTask \in TaskType(n) /\ NoTask.pc = "idle"
    BY NoTaskType DEF NoTask
  <1> QED BY <1>1 DEF Ends

\* An empty server has the types, and its maps name nothing.
LEMMA TypeInit == Init => RagTypeOK /\ Owned
  <1> SUFFICES ASSUME Init PROVE RagTypeOK /\ Owned
    OBVIOUS
  <1> USE DEF Init
  <1>1. rows \in Seq(Row) /\ Len(rows) = 0
    OBVIOUS
  <1>2. task \in [Clients -> TaskType(Len(rows))]
    BY <1>1, NoTaskType
  <1>3. NoAnswer \in [kind : {"none", "skipped", "indexed", "deleted"}, text : Texts, hash : Texts]
    BY AnyTextType DEF NoAnswer
  <1>4. RagTypeOK
    BY <1>1, <1>2, <1>3, TypeParts
  <1>5. Owned
    BY <1>1, <1>2 DEF Owned, TaskOwns, NoTask
  <1> QED BY <1>4, <1>5

-----------------------------------------------------------------------------
(* The actions, one by one: types, what they leave alone and what they do. *)

\* What a step of client c for source src leaves alone: the rows, the maps and the
\* answer of every other source, and every other client.
Frame(c, src) ==
    /\ RowsChange(src)
    /\ \A s \in Sources \ {src} :
          /\ chunkIds'[s] = chunkIds[s] /\ docIds'[s] = docIds[s] /\ answer'[s] = answer[s]
          /\ s \in tainted' <=> s \in tainted
          /\ s \in partial' <=> s \in partial
    /\ tainted \subseteq tainted'
    /\ \A e \in Clients \ {c} : task'[e] = task[e]
    /\ task[c].pc # "idle" => task[c].src = src
    /\ task'[c].pc # "idle" => task'[c].src = src

\* What a type-correct state says of a client and of the maps.
LEMMA Typed ==
    ASSUME RagTypeOK, NEW c \in Clients
    PROVE  /\ rows \in Seq(Row) /\ Len(rows) \in Nat /\ DOMAIN rows = 1 .. Len(rows)
           /\ chunkIds \in [Sources -> Seq(1 .. Len(rows))]
           /\ docIds \in [Sources -> 0 .. Len(rows)]
           /\ task \in [Clients -> TaskType(Len(rows))]
           /\ task[c] \in TaskType(Len(rows))
           /\ task[c].pc \in States /\ task[c].kind \in {"index", "delete"}
           /\ task[c].ids \in Seq(1 .. Len(rows)) /\ task[c].id \in 0 .. Len(rows)
           /\ task[c].next \in Nat /\ task[c].text \in Texts /\ task[c].hash \in Texts
           /\ ChunksOf[task[c].text] \in Nat
  <1>1. rows \in Seq(Row) => Len(rows) \in Nat /\ DOMAIN rows = 1 .. Len(rows)
    OBVIOUS
  <1>2. task[c] \in TaskType(Len(rows))
    BY TypeParts
  <1>3. /\ task[c].pc \in States /\ task[c].kind \in {"index", "delete"}
        /\ task[c].ids \in Seq(1 .. Len(rows)) /\ task[c].id \in 0 .. Len(rows)
        /\ task[c].next \in Nat /\ task[c].text \in Texts /\ task[c].hash \in Texts
    BY <1>2 DEF TaskType
  <1> QED BY <1>1, <1>2, <1>3, TypeParts, ChunksAssumption

\* A request starts with fresh local variables and takes the answer back.
LEMMA BeginEffect ==
    ASSUME RagTypeOK, NEW c \in Clients, NEW kind \in {"index", "delete"}, NEW s \in Sources,
           NEW text \in Texts, NEW hash \in Texts, Begin(c, kind, s, text, hash)
    PROVE  /\ RagTypeOK' /\ Frame(c, s) /\ rows' = rows /\ UNCHANGED <<chunkIds, docIds, partial>>
           /\ answer'[s] = NoAnswer
           /\ tainted' = IF WorksOn(s) = {} THEN tainted ELSE tainted \cup {s}
           /\ task'[c].pc \in {"status", "ids"} /\ task'[c].src = s
           /\ task'[c].text = text /\ task'[c].hash = hash /\ task'[c].next = 0
           /\ task'[c].kind = kind
  <1> DEFINE n == Len(rows)
             t == [NoTask EXCEPT !.pc = IF kind = "index" THEN "status" ELSE "ids",
                                 !.kind = kind, !.src = s, !.text = text, !.hash = hash]
  <1>t. n \in Nat /\ rows \in Seq(Row) /\ task \in [Clients -> TaskType(n)]
    BY Typed
  <1>1. /\ t \in TaskType(n)
        /\ t.pc \in {"status", "ids"} /\ t.src = s /\ t.text = text /\ t.hash = hash /\ t.next = 0
        /\ t.kind = kind
    <2>1. NoTask \in TaskType(n) /\ NoTask.next = 0
      BY <1>t, NoTaskType DEF NoTask
    <2> QED BY <2>1 DEF TaskType, States
  <1>2. task' = [task EXCEPT ![c] = t]
    BY DEF Begin
  <1> HIDE DEF t
  <1>3. task' \in [Clients -> TaskType(n)] /\ task'[c] = t /\ \A e \in Clients \ {c} : task'[e] = task[e]
    BY <1>t, <1>1, <1>2
  <1>4. NoAnswer \in [kind : {"none", "skipped", "indexed", "deleted"}, text : Texts, hash : Texts]
    BY AnyTextType DEF NoAnswer
  <1>5. faults' \in Nat
    BY TypeParts DEF Begin, Reads
  <1>6. RagTypeOK'
    BY <1>t, <1>3, <1>4, <1>5, TypeParts, TypePartsNext DEF Begin
  <1>7. /\ rows' = rows /\ UNCHANGED <<chunkIds, docIds, partial>>
        /\ answer' = [answer EXCEPT ![s] = NoAnswer]
        /\ tainted' = IF WorksOn(s) = {} THEN tainted ELSE tainted \cup {s}
        /\ task[c].pc = "idle"
    BY DEF Begin
  <1>8. answer \in [Sources -> [kind : {"none", "skipped", "indexed", "deleted"}, text : Texts, hash : Texts]]
    BY TypeParts
  <1>9. Frame(c, s)
    BY <1>t, <1>1, <1>3, <1>7, <1>8, SameRows DEF Frame
  <1> QED BY <1>1, <1>3, <1>6, <1>7, <1>8, <1>9

\* The request of c after a step that does not end it.
After(c, p, ids, id, next) ==
    /\ task'[c].pc = p /\ task'[c].ids = ids /\ task'[c].id = id /\ task'[c].next = next
    /\ task'[c].src = task[c].src /\ task'[c].text = task[c].text
    /\ task'[c].hash = task[c].hash /\ task'[c].kind = task[c].kind

\* What every step that goes on with a request has in common.
LEMMA GoesOn ==
    ASSUME RagTypeOK, NEW c \in Clients, Src(c) \in Sources,
           rows' \in Seq(Row), RowsChange(Src(c)),
           NEW p \in States, NEW ids \in Seq(1 .. Len(rows')), NEW id \in 0 .. Len(rows'),
           NEW next \in Nat, Moves(c, p, ids, id, next),
           \/ chunkIds' = chunkIds
           \/ \E l \in Seq(1 .. Len(rows')) : chunkIds' = [chunkIds EXCEPT ![Src(c)] = l],
           \/ docIds' = docIds
           \/ \E d \in 0 .. Len(rows') : docIds' = [docIds EXCEPT ![Src(c)] = d],
           tainted' \in {tainted, tainted \cup {Src(c)}},
           partial' \in {partial, partial \ {Src(c)}},
           faults' \in Nat, UNCHANGED <<answer, requests, restarts>>
    PROVE  RagTypeOK' /\ Frame(c, Src(c)) /\ After(c, p, ids, id, next)
  <1> DEFINE n == Len(rows)
             m == Len(rows')
             src == Src(c)
  <1>1. n \in Nat /\ m \in Nat /\ n <= m /\ task \in [Clients -> TaskType(n)]
    BY Typed DEF RowsChange
  <1>2. /\ task' \in [Clients -> TaskType(m)]
        /\ \A e \in Clients \ {c} : task'[e] = task[e]
        /\ After(c, p, ids, id, next)
    BY <1>1, MovesFacts DEF After
  <1>3. chunkIds \in [Sources -> Seq(1 .. m)] /\ docIds \in [Sources -> 0 .. m]
    <2>1. chunkIds \in [Sources -> Seq(1 .. n)] /\ docIds \in [Sources -> 0 .. n]
      BY Typed
    <2>2. Seq(1 .. n) \subseteq Seq(1 .. m) /\ 0 .. n \subseteq 0 .. m
      BY <1>1
    <2> QED BY <2>1, <2>2
  <1>4. /\ chunkIds' \in [Sources -> Seq(1 .. m)] /\ docIds' \in [Sources -> 0 .. m]
        /\ \A s \in Sources \ {src} : chunkIds'[s] = chunkIds[s] /\ docIds'[s] = docIds[s]
    <2>1. PICK l \in Seq(1 .. m) : chunkIds' = [chunkIds EXCEPT ![src] = l]
      <3>1. CASE chunkIds' = chunkIds
        BY <1>3, <3>1
      <3> QED BY <3>1
    <2>2. PICK d \in 0 .. m : docIds' = [docIds EXCEPT ![src] = d]
      <3>1. CASE docIds' = docIds
        BY <1>3, <3>1
      <3> QED BY <3>1
    <2> HIDE DEF m
    <2>3. /\ chunkIds' \in [Sources -> Seq(1 .. m)]
          /\ \A s \in Sources \ {src} : chunkIds'[s] = chunkIds[s]
      BY <1>3, <2>1
    <2>4. /\ docIds' \in [Sources -> 0 .. m]
          /\ \A s \in Sources \ {src} : docIds'[s] = docIds[s]
      BY <1>3, <2>2
    <2> QED BY <2>3, <2>4
  <1>5. tainted' \subseteq Sources /\ partial' \subseteq Sources
    BY TypeParts
  <1>6. RagTypeOK'
    BY <1>2, <1>4, <1>5, TypeParts, TypePartsNext
  <1>7. Frame(c, src)
    BY <1>2, <1>4 DEF Frame, After
  <1> QED BY <1>2, <1>6, <1>7

\* What every step that ends a request has in common.
LEMMA Finishes ==
    ASSUME RagTypeOK, NEW c \in Clients, Src(c) \in Sources, UNCHANGED rows, Ends(c),
           \/ chunkIds' = chunkIds
           \/ \E l \in Seq(1 .. Len(rows)) : chunkIds' = [chunkIds EXCEPT ![Src(c)] = l],
           \/ docIds' = docIds
           \/ \E d \in 0 .. Len(rows) : docIds' = [docIds EXCEPT ![Src(c)] = d],
           \/ answer' = answer
           \/ \E kind \in {"skipped", "indexed", "deleted"} : Answers(c, kind),
           tainted' = tainted,
           partial' \in {partial, partial \ {Src(c)}, partial \cup {Src(c)}},
           faults' \in Nat, UNCHANGED <<requests, restarts>>
    PROVE  RagTypeOK' /\ Frame(c, Src(c)) /\ task'[c].pc = "idle"
  <1> DEFINE n == Len(rows)
             src == Src(c)
             AnswerType == [kind : {"none", "skipped", "indexed", "deleted"}, text : Texts, hash : Texts]
  <1>1. n \in Nat /\ rows \in Seq(Row) /\ task \in [Clients -> TaskType(n)]
    BY Typed
  <1>2. /\ task' \in [Clients -> TaskType(n)] /\ task'[c].pc = "idle"
        /\ \A e \in Clients \ {c} : task'[e] = task[e]
    BY <1>1, EndsFacts
  <1>3. chunkIds \in [Sources -> Seq(1 .. n)] /\ docIds \in [Sources -> 0 .. n]
    BY Typed
  <1>4. /\ chunkIds' \in [Sources -> Seq(1 .. n)] /\ docIds' \in [Sources -> 0 .. n]
        /\ \A s \in Sources \ {src} : chunkIds'[s] = chunkIds[s] /\ docIds'[s] = docIds[s]
    BY <1>3
  <1>5. answer' \in [Sources -> AnswerType] /\ \A s \in Sources \ {src} : answer'[s] = answer[s]
    <2>1. answer \in [Sources -> AnswerType]
      BY TypeParts
    <2>2. ASSUME NEW kind \in {"skipped", "indexed", "deleted"}
          PROVE  [kind |-> kind, text |-> task[c].text, hash |-> task[c].hash] \in AnswerType
      BY Typed
    <2>3. CASE answer' = answer
      BY <2>1, <2>3
    <2>4. ASSUME NEW kind \in {"skipped", "indexed", "deleted"}, Answers(c, kind)
          PROVE  <1>5!1 /\ <1>5!2
      <3> HIDE DEF AnswerType
      <3> QED BY <2>1, <2>2, <2>4 DEF Answers
    <2> QED BY <2>3, <2>4
  <1>6. tainted' \subseteq Sources /\ partial' \subseteq Sources
    BY TypeParts
  <1>7. RagTypeOK'
    BY <1>1, <1>2, <1>4, <1>5, <1>6, TypeParts, TypePartsNext
  <1>8. Frame(c, src)
    BY <1>1, <1>2, <1>4, <1>5, SameRows DEF Frame
  <1> QED BY <1>2, <1>7, <1>8

\* A request that runs has a source, and the maps have entries for it.
LEMMA AtWork ==
    ASSUME RagTypeOK, Owned, NEW c \in Clients, ~At(c, "idle")
    PROVE  /\ Src(c) \in Sources /\ rows \in Seq(Row) /\ Len(rows) \in Nat
           /\ docIds[Src(c)] \in 0 .. Len(rows) /\ chunkIds[Src(c)] \in Seq(1 .. Len(rows))
  BY Typed DEF Owned, TaskOwns

\* The row that a request is about to delete is one of its source.
LEMMA OwnRow ==
    ASSUME RagTypeOK, Owned, NEW c \in Clients
    PROVE  /\ At(c, "rows") /\ task[c].ids # <<>> =>
                /\ Head(task[c].ids) \in DOMAIN rows /\ rows[Head(task[c].ids)].src = Src(c)
                /\ ~rows[Head(task[c].ids)].doc
           /\ At(c, "docrow") \/ At(c, "olddoc") =>
                task[c].id \in DOMAIN rows /\ rows[task[c].id].src = Src(c) /\ rows[task[c].id].doc
  BY Typed DEF Owned, TaskOwns

\* document_status looks the source up.
LEMMA ReadStatusEffect ==
    ASSUME RagTypeOK, Owned, NEW c \in Clients, ReadStatus(c)
    PROVE  /\ RagTypeOK' /\ Frame(c, Src(c)) /\ UNCHANGED <<rows, chunkIds, docIds, answer, tainted, partial>>
           /\ After(c, IF docIds[Src(c)] = 0 THEN Indexing(task[c].text) ELSE "meta",
                    task[c].ids, docIds[Src(c)], task[c].next)
  <1> DEFINE p == IF docIds[Src(c)] = 0 THEN Indexing(task[c].text) ELSE "meta"
  <1>1. /\ Src(c) \in Sources /\ rows \in Seq(Row) /\ Len(rows) \in Nat
        /\ docIds[Src(c)] \in 0 .. Len(rows) /\ chunkIds[Src(c)] \in Seq(1 .. Len(rows))
    BY AtWork DEF ReadStatus
  <1>2. Moves(c, p, task[c].ids, docIds[Src(c)], task[c].next)
    BY Typed, TaskMoves DEF ReadStatus
  <1>3. rows' \in Seq(Row) /\ Len(rows') = Len(rows) /\ RowsChange(Src(c))
    BY <1>1, SameRows DEF ReadStatus
  <1>4. /\ p \in States /\ task[c].ids \in Seq(1 .. Len(rows'))
        /\ docIds[Src(c)] \in 0 .. Len(rows') /\ task[c].next \in Nat
    BY <1>1, <1>3, Typed DEF ReadStatus, States, Indexing
  <1>5. faults' \in Nat
    BY TypeParts DEF ReadStatus
  <1> HIDE DEF p
  <1>6. RagTypeOK' /\ Frame(c, Src(c)) /\ After(c, p, task[c].ids, docIds[Src(c)], task[c].next)
    BY <1>1, <1>2, <1>3, <1>4, <1>5, GoesOn DEF ReadStatus
  <1> QED BY <1>6 DEF p, ReadStatus

\* delete_source copies the list.
LEMMA ReadChunkIdsEffect ==
    ASSUME RagTypeOK, Owned, NEW c \in Clients, ReadChunkIds(c)
    PROVE  /\ RagTypeOK' /\ Frame(c, Src(c)) /\ UNCHANGED <<rows, chunkIds, docIds, answer, tainted, partial>>
           /\ After(c, "rows", chunkIds[Src(c)], task[c].id, task[c].next)
  <1> DEFINE p == "rows"
  <1>1. /\ Src(c) \in Sources /\ rows \in Seq(Row) /\ Len(rows) \in Nat
        /\ docIds[Src(c)] \in 0 .. Len(rows) /\ chunkIds[Src(c)] \in Seq(1 .. Len(rows))
    BY AtWork DEF ReadChunkIds
  <1>2. Moves(c, p, chunkIds[Src(c)], task[c].id, task[c].next)
    BY Typed, TaskMoves DEF ReadChunkIds
  <1>3. rows' \in Seq(Row) /\ Len(rows') = Len(rows) /\ RowsChange(Src(c))
    BY <1>1, SameRows DEF ReadChunkIds
  <1>4. /\ p \in States /\ chunkIds[Src(c)] \in Seq(1 .. Len(rows'))
        /\ task[c].id \in 0 .. Len(rows') /\ task[c].next \in Nat
    BY <1>1, <1>3, Typed DEF ReadChunkIds, States
  <1>5. faults' \in Nat
    BY TypeParts DEF ReadChunkIds
  <1> HIDE DEF p
  <1>6. RagTypeOK' /\ Frame(c, Src(c)) /\ After(c, p, chunkIds[Src(c)], task[c].id, task[c].next)
    BY <1>1, <1>2, <1>3, <1>4, <1>5, GoesOn DEF ReadChunkIds
  <1> QED BY <1>6 DEF p, ReadChunkIds

\* delete_source looks the document entry up.
LEMMA ReadDocIdEffect ==
    ASSUME RagTypeOK, Owned, NEW c \in Clients, ReadDocId(c)
    PROVE  /\ RagTypeOK' /\ Frame(c, Src(c)) /\ UNCHANGED <<rows, chunkIds, docIds, answer, tainted, partial>>
           /\ After(c, IF docIds[Src(c)] = 0 THEN "remove" ELSE "docrow",
                    task[c].ids, docIds[Src(c)], task[c].next)
  <1> DEFINE p == IF docIds[Src(c)] = 0 THEN "remove" ELSE "docrow"
  <1>1. /\ Src(c) \in Sources /\ rows \in Seq(Row) /\ Len(rows) \in Nat
        /\ docIds[Src(c)] \in 0 .. Len(rows) /\ chunkIds[Src(c)] \in Seq(1 .. Len(rows))
    BY AtWork DEF ReadDocId
  <1>2. Moves(c, p, task[c].ids, docIds[Src(c)], task[c].next)
    BY Typed, TaskMoves DEF ReadDocId
  <1>3. rows' \in Seq(Row) /\ Len(rows') = Len(rows) /\ RowsChange(Src(c))
    BY <1>1, SameRows DEF ReadDocId
  <1>4. /\ p \in States /\ task[c].ids \in Seq(1 .. Len(rows'))
        /\ docIds[Src(c)] \in 0 .. Len(rows') /\ task[c].next \in Nat
    BY <1>1, <1>3, Typed DEF ReadDocId, States
  <1>5. faults' \in Nat
    BY TypeParts DEF ReadDocId
  <1> HIDE DEF p
  <1>6. RagTypeOK' /\ Frame(c, Src(c)) /\ After(c, p, task[c].ids, docIds[Src(c)], task[c].next)
    BY <1>1, <1>2, <1>3, <1>4, <1>5, GoesOn DEF ReadDocId
  <1> QED BY <1>6 DEF p, ReadDocId

\* upsert_metadata looks the old document entry up.
LEMMA ReadOldDocEffect ==
    ASSUME RagTypeOK, Owned, NEW c \in Clients, ReadOldDoc(c)
    PROVE  /\ RagTypeOK' /\ Frame(c, Src(c)) /\ UNCHANGED <<rows, chunkIds, docIds, answer, tainted, partial>>
           /\ After(c, IF docIds[Src(c)] = 0 THEN "doc" ELSE "olddoc",
                    task[c].ids, docIds[Src(c)], task[c].next)
  <1> DEFINE p == IF docIds[Src(c)] = 0 THEN "doc" ELSE "olddoc"
  <1>1. /\ Src(c) \in Sources /\ rows \in Seq(Row) /\ Len(rows) \in Nat
        /\ docIds[Src(c)] \in 0 .. Len(rows) /\ chunkIds[Src(c)] \in Seq(1 .. Len(rows))
    BY AtWork DEF ReadOldDoc
  <1>2. Moves(c, p, task[c].ids, docIds[Src(c)], task[c].next)
    BY Typed, TaskMoves DEF ReadOldDoc
  <1>3. rows' \in Seq(Row) /\ Len(rows') = Len(rows) /\ RowsChange(Src(c))
    BY <1>1, SameRows DEF ReadOldDoc
  <1>4. /\ p \in States /\ task[c].ids \in Seq(1 .. Len(rows'))
        /\ docIds[Src(c)] \in 0 .. Len(rows') /\ task[c].next \in Nat
    BY <1>1, <1>3, Typed DEF ReadOldDoc, States
  <1>5. faults' \in Nat
    BY TypeParts DEF ReadOldDoc
  <1> HIDE DEF p
  <1>6. RagTypeOK' /\ Frame(c, Src(c)) /\ After(c, p, task[c].ids, docIds[Src(c)], task[c].next)
    BY <1>1, <1>2, <1>3, <1>4, <1>5, GoesOn DEF ReadOldDoc
  <1> QED BY <1>6 DEF p, ReadOldDoc

\* delete_source deletes the next row of its copy.
LEMMA DeleteChunkEffect ==
    ASSUME RagTypeOK, Owned, NEW c \in Clients, DeleteChunk(c)
    PROVE  /\ RagTypeOK' /\ Frame(c, Src(c)) /\ UNCHANGED <<chunkIds, docIds, answer, tainted, partial>>
           /\ After(c, "rows", Tail(task[c].ids), task[c].id, task[c].next)
           /\ Len(rows') = Len(rows)
  <1> DEFINE p == "rows"
  <1>1. /\ Src(c) \in Sources /\ rows \in Seq(Row) /\ Len(rows) \in Nat
        /\ docIds[Src(c)] \in 0 .. Len(rows) /\ chunkIds[Src(c)] \in Seq(1 .. Len(rows))
    BY AtWork DEF DeleteChunk
  <1>2. Moves(c, p, Tail(task[c].ids), task[c].id, task[c].next)
    BY Typed, TaskMoves DEF DeleteChunk
  <1>3. rows' \in Seq(Row) /\ Len(rows') = Len(rows) /\ RowsChange(Src(c))
    BY <1>1, OwnRow, DeleteEffect DEF DeleteChunk
  <1>4. /\ p \in States /\ Tail(task[c].ids) \in Seq(1 .. Len(rows'))
        /\ task[c].id \in 0 .. Len(rows') /\ task[c].next \in Nat
    <2>1. task[c].ids \in Seq(1 .. Len(rows)) /\ task[c].ids # <<>>
      BY Typed DEF DeleteChunk
    <2>2. Tail(task[c].ids) \in Seq(1 .. Len(rows))
      BY <2>1, HeadTailProperties
    <2> QED BY <1>3, <2>2, Typed DEF States
  <1>5. faults' \in Nat
    BY TypeParts DEF DeleteChunk
  <1> HIDE DEF p
  <1>6. RagTypeOK' /\ Frame(c, Src(c)) /\ After(c, p, Tail(task[c].ids), task[c].id, task[c].next)
    BY <1>1, <1>2, <1>3, <1>4, <1>5, GoesOn DEF DeleteChunk
  <1> QED BY <1>3, <1>6 DEF p, DeleteChunk

\* delete_source deletes the document entry.
LEMMA DeleteDocEffect ==
    ASSUME RagTypeOK, Owned, NEW c \in Clients, DeleteDoc(c)
    PROVE  /\ RagTypeOK' /\ Frame(c, Src(c)) /\ UNCHANGED <<chunkIds, docIds, answer, tainted, partial>>
           /\ After(c, "remove", task[c].ids, task[c].id, task[c].next)
           /\ Len(rows') = Len(rows)
  <1> DEFINE p == "remove"
  <1>1. /\ Src(c) \in Sources /\ rows \in Seq(Row) /\ Len(rows) \in Nat
        /\ docIds[Src(c)] \in 0 .. Len(rows) /\ chunkIds[Src(c)] \in Seq(1 .. Len(rows))
    BY AtWork DEF DeleteDoc
  <1>2. Moves(c, p, task[c].ids, task[c].id, task[c].next)
    BY Typed, TaskMoves DEF DeleteDoc
  <1>3. rows' \in Seq(Row) /\ Len(rows') = Len(rows) /\ RowsChange(Src(c))
    BY <1>1, OwnRow, DeleteEffect DEF DeleteDoc
  <1>4. /\ p \in States /\ task[c].ids \in Seq(1 .. Len(rows'))
        /\ task[c].id \in 0 .. Len(rows') /\ task[c].next \in Nat
    BY <1>1, <1>3, Typed DEF DeleteDoc, States
  <1>5. faults' \in Nat
    BY TypeParts DEF DeleteDoc
  <1> HIDE DEF p
  <1>6. RagTypeOK' /\ Frame(c, Src(c)) /\ After(c, p, task[c].ids, task[c].id, task[c].next)
    BY <1>1, <1>2, <1>3, <1>4, <1>5, GoesOn DEF DeleteDoc
  <1> QED BY <1>3, <1>6 DEF p, DeleteDoc

\* upsert_metadata deletes the old document entry.
LEMMA DeleteOldDocEffect ==
    ASSUME RagTypeOK, Owned, NEW c \in Clients, DeleteOldDoc(c)
    PROVE  /\ RagTypeOK' /\ Frame(c, Src(c)) /\ UNCHANGED <<chunkIds, docIds, answer, tainted, partial>>
           /\ After(c, "doc", task[c].ids, task[c].id, task[c].next)
           /\ Len(rows') = Len(rows)
  <1> DEFINE p == "doc"
  <1>1. /\ Src(c) \in Sources /\ rows \in Seq(Row) /\ Len(rows) \in Nat
        /\ docIds[Src(c)] \in 0 .. Len(rows) /\ chunkIds[Src(c)] \in Seq(1 .. Len(rows))
    BY AtWork DEF DeleteOldDoc
  <1>2. Moves(c, p, task[c].ids, task[c].id, task[c].next)
    BY Typed, TaskMoves DEF DeleteOldDoc
  <1>3. rows' \in Seq(Row) /\ Len(rows') = Len(rows) /\ RowsChange(Src(c))
    BY <1>1, OwnRow, DeleteEffect DEF DeleteOldDoc
  <1>4. /\ p \in States /\ task[c].ids \in Seq(1 .. Len(rows'))
        /\ task[c].id \in 0 .. Len(rows') /\ task[c].next \in Nat
    BY <1>1, <1>3, Typed DEF DeleteOldDoc, States
  <1>5. faults' \in Nat
    BY TypeParts DEF DeleteOldDoc
  <1> HIDE DEF p
  <1>6. RagTypeOK' /\ Frame(c, Src(c)) /\ After(c, p, task[c].ids, task[c].id, task[c].next)
    BY <1>1, <1>2, <1>3, <1>4, <1>5, GoesOn DEF DeleteOldDoc
  <1> QED BY <1>3, <1>6 DEF p, DeleteOldDoc

\* index_chunks inserts the next chunk.
LEMMA InsertChunkEffect ==
    ASSUME RagTypeOK, Owned, NEW c \in Clients, InsertChunk(c)
    PROVE  /\ RagTypeOK' /\ Frame(c, Src(c)) /\ UNCHANGED <<chunkIds, docIds, answer, tainted, partial>>
           /\ After(c, "list", task[c].ids, NewId, task[c].next)
           /\ Len(rows') = Len(rows) + 1
           /\ Chunk(Src(c), task[c].text, task[c].next) \in Row
  <1> DEFINE p == "list"
  <1>1. /\ Src(c) \in Sources /\ rows \in Seq(Row) /\ Len(rows) \in Nat
        /\ docIds[Src(c)] \in 0 .. Len(rows) /\ chunkIds[Src(c)] \in Seq(1 .. Len(rows))
    BY AtWork DEF InsertChunk
  <1>2. Moves(c, p, task[c].ids, NewId, task[c].next)
    BY Typed, TaskMoves DEF InsertChunk
  <1>r. Chunk(Src(c), task[c].text, task[c].next) \in Row
    BY <1>1, Typed DEF Row, Chunk
  <1>3. /\ rows' \in Seq(Row) /\ Len(rows') = Len(rows) + 1 /\ RowsChange(Src(c))
        /\ NewId \in 1 .. Len(rows')
    BY <1>1, <1>r, InsertEffect DEF InsertChunk, Chunk
  <1>4. /\ p \in States /\ task[c].ids \in Seq(1 .. Len(rows'))
        /\ NewId \in 0 .. Len(rows') /\ task[c].next \in Nat
    BY <1>1, <1>3, Typed DEF InsertChunk, States
  <1>5. faults' \in Nat
    BY TypeParts DEF InsertChunk
  <1> HIDE DEF p
  <1>6. RagTypeOK' /\ Frame(c, Src(c)) /\ After(c, p, task[c].ids, NewId, task[c].next)
    BY <1>1, <1>2, <1>3, <1>4, <1>5, GoesOn DEF InsertChunk
  <1> QED BY <1>r, <1>3, <1>6 DEF p, InsertChunk

\* upsert_metadata inserts the new document entry.
LEMMA InsertDocEffect ==
    ASSUME RagTypeOK, Owned, NEW c \in Clients, InsertDoc(c)
    PROVE  /\ RagTypeOK' /\ Frame(c, Src(c)) /\ UNCHANGED <<chunkIds, docIds, answer, tainted, partial>>
           /\ After(c, "listdoc", task[c].ids, NewId, task[c].next)
           /\ Len(rows') = Len(rows) + 1
           /\ DocEntry(Src(c), task[c].hash, ChunksOf[task[c].text]) \in Row
  <1> DEFINE p == "listdoc"
  <1>1. /\ Src(c) \in Sources /\ rows \in Seq(Row) /\ Len(rows) \in Nat
        /\ docIds[Src(c)] \in 0 .. Len(rows) /\ chunkIds[Src(c)] \in Seq(1 .. Len(rows))
    BY AtWork DEF InsertDoc
  <1>2. Moves(c, p, task[c].ids, NewId, task[c].next)
    BY Typed, TaskMoves DEF InsertDoc
  <1>r. DocEntry(Src(c), task[c].hash, ChunksOf[task[c].text]) \in Row
    BY <1>1, Typed DEF Row, DocEntry
  <1>3. /\ rows' \in Seq(Row) /\ Len(rows') = Len(rows) + 1 /\ RowsChange(Src(c))
        /\ NewId \in 1 .. Len(rows')
    BY <1>1, <1>r, InsertEffect DEF InsertDoc, DocEntry
  <1>4. /\ p \in States /\ task[c].ids \in Seq(1 .. Len(rows'))
        /\ NewId \in 0 .. Len(rows') /\ task[c].next \in Nat
    BY <1>1, <1>3, Typed DEF InsertDoc, States
  <1>5. faults' \in Nat
    BY TypeParts DEF InsertDoc
  <1> HIDE DEF p
  <1>6. RagTypeOK' /\ Frame(c, Src(c)) /\ After(c, p, task[c].ids, NewId, task[c].next)
    BY <1>1, <1>2, <1>3, <1>4, <1>5, GoesOn DEF InsertDoc
  <1> QED BY <1>r, <1>3, <1>6 DEF p, InsertDoc

\* document_status reads the entry: the request ends, or deletes the old content, or
\* goes on to index.
LEMMA CheckStatusEffect ==
    ASSUME RagTypeOK, Owned, NEW c \in Clients, CheckStatus(c)
    PROVE  /\ RagTypeOK' /\ Frame(c, Src(c)) /\ UNCHANGED <<rows, chunkIds, docIds, tainted, partial>>
           /\ \/ task'[c].pc = "idle" /\ Answers(c, "skipped")
              \/ /\ After(c, IF rows[task[c].id].live THEN "ids" ELSE Indexing(task[c].text),
                          task[c].ids, task[c].id, task[c].next)
                 /\ UNCHANGED answer
  <1> DEFINE p == IF rows[task[c].id].live THEN "ids" ELSE Indexing(task[c].text)
  <1>1. /\ Src(c) \in Sources /\ rows \in Seq(Row) /\ Len(rows) \in Nat
        /\ UNCHANGED <<rows, chunkIds, docIds, tainted, partial, requests, restarts, faults>>
    BY AtWork DEF CheckStatus
  <1>2. \/ Ends(c) /\ Answers(c, "skipped")
        \/ Goes(c, p) /\ UNCHANGED answer
    BY DEF CheckStatus, DeletesOld
  <1>3. faults' \in Nat
    BY <1>1, TypeParts
  <1>4. CASE Ends(c) /\ Answers(c, "skipped")
    BY <1>1, <1>3, <1>4, Finishes
  <1>5. CASE Goes(c, p) /\ UNCHANGED answer
    <2>1. Moves(c, p, task[c].ids, task[c].id, task[c].next)
      BY <1>5, Typed, TaskMoves
    <2>2. rows' \in Seq(Row) /\ Len(rows') = Len(rows) /\ RowsChange(Src(c))
      BY <1>1, SameRows
    <2>3. /\ p \in States /\ task[c].ids \in Seq(1 .. Len(rows'))
          /\ task[c].id \in 0 .. Len(rows') /\ task[c].next \in Nat
      BY <2>2, Typed DEF States, Indexing
    <2> HIDE DEF p
    <2>4. RagTypeOK' /\ Frame(c, Src(c)) /\ After(c, p, task[c].ids, task[c].id, task[c].next)
      BY <1>1, <1>3, <1>5, <2>1, <2>2, <2>3, GoesOn
    <2> QED BY <1>1, <1>5, <2>4 DEF p
  <1> QED BY <1>2, <1>4, <1>5

\* remove_source: nothing of the source is in the maps.
LEMMA RemoveSourceEffect ==
    ASSUME RagTypeOK, Owned, NEW c \in Clients, RemoveSource(c)
    PROVE  /\ RagTypeOK' /\ Frame(c, Src(c)) /\ UNCHANGED <<rows, tainted>>
           /\ chunkIds'[Src(c)] = <<>> /\ docIds'[Src(c)] = 0 /\ Src(c) \notin partial'
           /\ \/ task'[c].pc = "idle" /\ Answers(c, "deleted")
              \/ /\ After(c, Indexing(task[c].text), task[c].ids, task[c].id, task[c].next)
                 /\ UNCHANGED answer
  <1> DEFINE p == Indexing(task[c].text)
  <1>1. /\ Src(c) \in Sources /\ rows \in Seq(Row) /\ Len(rows) \in Nat
        /\ UNCHANGED <<rows, tainted, requests, restarts, faults>>
        /\ chunkIds' = [chunkIds EXCEPT ![Src(c)] = <<>>]
        /\ docIds' = [docIds EXCEPT ![Src(c)] = 0]
        /\ partial' = partial \ {Src(c)}
    BY AtWork DEF RemoveSource, NoDoc
  <1>2. \/ Ends(c) /\ Answers(c, "deleted")
        \/ Goes(c, p) /\ UNCHANGED answer
    BY DEF RemoveSource
  <1>3. faults' \in Nat
    BY <1>1, TypeParts
  <1>4. <<>> \in Seq(1 .. Len(rows)) /\ 0 \in 0 .. Len(rows)
    BY <1>1
  <1>5. chunkIds'[Src(c)] = <<>> /\ docIds'[Src(c)] = 0 /\ Src(c) \notin partial'
    BY <1>1, Typed
  <1>6. CASE Ends(c) /\ Answers(c, "deleted")
    BY <1>1, <1>3, <1>4, <1>5, <1>6, Finishes
  <1>7. CASE Goes(c, p) /\ UNCHANGED answer
    <2>1. Moves(c, p, task[c].ids, task[c].id, task[c].next)
      BY <1>7, Typed, TaskMoves
    <2>2. rows' \in Seq(Row) /\ Len(rows') = Len(rows) /\ RowsChange(Src(c))
      BY <1>1, SameRows
    <2>3. /\ p \in States /\ task[c].ids \in Seq(1 .. Len(rows'))
          /\ task[c].id \in 0 .. Len(rows') /\ task[c].next \in Nat
      BY <2>2, Typed DEF States, Indexing
    <2> HIDE DEF p
    <2>4. RagTypeOK' /\ Frame(c, Src(c)) /\ After(c, p, task[c].ids, task[c].id, task[c].next)
      BY <1>1, <1>3, <1>4, <1>7, <2>1, <2>2, <2>3, GoesOn
    <2> QED BY <1>1, <1>5, <1>7, <2>4 DEF p
  <1> QED BY <1>2, <1>6, <1>7

\* index_chunks lists the chunk that it inserted.
LEMMA ListChunkEffect ==
    ASSUME RagTypeOK, Owned, NEW c \in Clients, ListChunk(c)
    PROVE  /\ RagTypeOK' /\ Frame(c, Src(c)) /\ UNCHANGED <<rows, docIds, answer, tainted, partial>>
           /\ chunkIds'[Src(c)] = Append(chunkIds[Src(c)], task[c].id)
           /\ After(c, IF task[c].next + 1 < ChunksOf[task[c].text] THEN "insert" ELSE "flush",
                    task[c].ids, task[c].id, task[c].next + 1)
  <1> DEFINE p == IF task[c].next + 1 < ChunksOf[task[c].text] THEN "insert" ELSE "flush"
             l == Append(chunkIds[Src(c)], task[c].id)
  <1>1. /\ Src(c) \in Sources /\ rows \in Seq(Row) /\ Len(rows) \in Nat
        /\ chunkIds[Src(c)] \in Seq(1 .. Len(rows))
    BY AtWork DEF ListChunk
  <1>2. task[c].id \in 1 .. Len(rows)
    BY Typed DEF ListChunk, Owned, TaskOwns
  <1>3. l \in Seq(1 .. Len(rows)) /\ chunkIds' = [chunkIds EXCEPT ![Src(c)] = l]
    BY <1>1, <1>2 DEF ListChunk
  <1>4. Moves(c, p, task[c].ids, task[c].id, task[c].next + 1)
    <2>1. task' = [task EXCEPT ![c].next = task[c].next + 1, ![c].pc = p]
      BY DEF ListChunk, ChunkCount
    <2> HIDE DEF p
    <2> QED BY <2>1, Typed, TaskMoves
  <1>5. rows' \in Seq(Row) /\ Len(rows') = Len(rows) /\ RowsChange(Src(c))
    BY <1>1, SameRows DEF ListChunk
  <1>6. /\ p \in States /\ task[c].ids \in Seq(1 .. Len(rows'))
        /\ task[c].id \in 0 .. Len(rows') /\ task[c].next + 1 \in Nat
    BY <1>5, Typed DEF States
  <1>7. faults' \in Nat
    BY TypeParts DEF ListChunk
  <1> HIDE DEF p, l
  <1>8. RagTypeOK' /\ Frame(c, Src(c)) /\ After(c, p, task[c].ids, task[c].id, task[c].next + 1)
    BY <1>1, <1>3, <1>4, <1>5, <1>6, <1>7, GoesOn DEF ListChunk
  <1>9. chunkIds'[Src(c)] = l
    BY <1>1, <1>3, Typed
  <1> QED BY <1>8, <1>9 DEF p, l, ListChunk

\* upsert_metadata enters the new document entry in the map, and the request ends.
LEMMA ListDocEffect ==
    ASSUME RagTypeOK, Owned, NEW c \in Clients, ListDoc(c)
    PROVE  /\ RagTypeOK' /\ Frame(c, Src(c)) /\ UNCHANGED <<rows, chunkIds, tainted>>
           /\ docIds'[Src(c)] = task[c].id /\ task[c].id \in DOMAIN rows
           /\ task'[c].pc = "idle" /\ Answers(c, "indexed")
           /\ partial' = IF task[c].hash = task[c].text THEN partial ELSE partial \cup {Src(c)}
  <1>1. /\ Src(c) \in Sources /\ rows \in Seq(Row) /\ Len(rows) \in Nat
    BY AtWork DEF ListDoc
  <1>2. task[c].id \in 0 .. Len(rows) /\ task[c].id \in DOMAIN rows
    BY Typed DEF ListDoc, Owned, TaskOwns
  <1>3. faults' \in Nat
    BY TypeParts DEF ListDoc
  <1>4. RagTypeOK' /\ Frame(c, Src(c)) /\ task'[c].pc = "idle"
    BY <1>1, <1>2, <1>3, Finishes DEF ListDoc
  <1> QED BY <1>1, <1>2, <1>4, Typed DEF ListDoc

\* A failed delete: the row is passed over, and the source is tainted.
LEMMA DeleteFailsEffect ==
    ASSUME RagTypeOK, Owned, NEW c \in Clients, DeleteFails(c)
    PROVE  /\ RagTypeOK' /\ Frame(c, Src(c)) /\ UNCHANGED <<rows, chunkIds, docIds, answer, partial>>
           /\ Src(c) \in tainted'
           /\ \/ /\ At(c, "rows") /\ task[c].ids # <<>>
                 /\ After(c, "rows", Tail(task[c].ids), task[c].id, task[c].next)
              \/ After(c, "remove", task[c].ids, task[c].id, task[c].next)
              \/ After(c, "doc", task[c].ids, task[c].id, task[c].next)
  <1>1. /\ Src(c) \in Sources /\ rows \in Seq(Row) /\ Len(rows) \in Nat
        /\ UNCHANGED <<rows, chunkIds, docIds, answer, partial, requests, restarts>>
        /\ tainted' = tainted \cup {Src(c)}
    BY AtWork DEF DeleteFails
  <1>2. faults' \in Nat
    BY TypeParts DEF DeleteFails
  <1>3. rows' \in Seq(Row) /\ Len(rows') = Len(rows) /\ RowsChange(Src(c))
    BY <1>1, SameRows
  <1>4. CASE At(c, "rows") /\ task[c].ids # <<>> /\ task' = [task EXCEPT ![c].ids = Tail(@)]
    <2>1. Moves(c, "rows", Tail(task[c].ids), task[c].id, task[c].next)
      BY <1>4, Typed, TaskMoves
    <2>2. Tail(task[c].ids) \in Seq(1 .. Len(rows'))
      BY <1>3, <1>4, Typed, HeadTailProperties
    <2>3. "rows" \in States /\ task[c].id \in 0 .. Len(rows') /\ task[c].next \in Nat
      BY <1>3, Typed DEF States
    <2> QED BY <1>1, <1>2, <1>3, <1>4, <2>1, <2>2, <2>3, GoesOn
  <1>5. ASSUME NEW p \in {"remove", "doc"}, Goes(c, p)
        PROVE  RagTypeOK' /\ Frame(c, Src(c)) /\ After(c, p, task[c].ids, task[c].id, task[c].next)
    <2>1. Moves(c, p, task[c].ids, task[c].id, task[c].next)
      BY <1>5, Typed, TaskMoves
    <2>2. /\ p \in States /\ task[c].ids \in Seq(1 .. Len(rows'))
          /\ task[c].id \in 0 .. Len(rows') /\ task[c].next \in Nat
      BY <1>3, Typed DEF States
    <2> QED BY <1>1, <1>2, <1>3, <2>1, <2>2, GoesOn
  <1> QED BY <1>1, <1>4, <1>5 DEF DeleteFails

\* An indexing that breaks off.
LEMMA IndexFailsEffect ==
    ASSUME RagTypeOK, Owned, NEW c \in Clients, IndexFails(c)
    PROVE  /\ RagTypeOK' /\ Frame(c, Src(c)) /\ UNCHANGED <<rows, chunkIds, docIds, answer, tainted>>
           /\ Src(c) \in partial' /\ task'[c].pc = "idle"
           /\ task[c].pc \in {"insert", "doc", "flush"}
  <1>1. /\ Src(c) \in Sources /\ rows \in Seq(Row) /\ Len(rows) \in Nat
        /\ task[c].pc \in {"insert", "doc", "flush"}
    BY AtWork DEF IndexFails
  <1>2. faults' \in Nat
    BY TypeParts DEF IndexFails
  <1>3. RagTypeOK' /\ Frame(c, Src(c)) /\ task'[c].pc = "idle"
    BY <1>1, <1>2, Finishes DEF IndexFails
  <1> QED BY <1>1, <1>3 DEF IndexFails

-----------------------------------------------------------------------------
(* RagTypeOK and Owned are inductive. *)

\* A row keeps its source, kind and content, and does not come back to life.
LEMMA RowsKeep ==
    ASSUME rows \in Seq(Row), rows' \in Seq(Row), NEW src, RowsChange(src), NEW i \in DOMAIN rows
    PROVE  /\ i \in DOMAIN rows'
           /\ rows'[i].src = rows[i].src /\ rows'[i].doc = rows[i].doc
           /\ rows'[i].text = rows[i].text /\ rows'[i].n = rows[i].n
           /\ rows'[i].live => rows[i].live
           /\ rows[i].src # src => rows'[i] = rows[i]
  <1>1. rows[i] \in Row /\ i \in DOMAIN rows'
    BY DEF RowsChange
  <1>2. CASE rows'[i] = rows[i]
    BY <1>1, <1>2
  <1>3. CASE rows[i].src = src /\ rows'[i] = [rows[i] EXCEPT !.live = FALSE]
    BY <1>1, <1>3 DEF Row
  <1> QED BY <1>2, <1>3 DEF RowsChange

\* What c names after its step.
OwnsNext(c, src) ==
    /\ src \in Sources =>
          /\ \A k \in DOMAIN chunkIds'[src] :
                rows'[chunkIds'[src][k]].src = src /\ ~rows'[chunkIds'[src][k]].doc
          /\ docIds'[src] # 0 => rows'[docIds'[src]].src = src /\ rows'[docIds'[src]].doc
    /\ TaskOwns(c)'

\* The other sources and clients name rows of their own as before.
LEMMA OwnedFrame ==
    ASSUME RagTypeOK, Owned, RagTypeOK', NEW c \in Clients, NEW src, Frame(c, src), OwnsNext(c, src)
    PROVE  Owned'
  <1>1. /\ rows \in Seq(Row) /\ rows' \in Seq(Row) /\ DOMAIN rows = 1 .. Len(rows)
        /\ chunkIds \in [Sources -> Seq(1 .. Len(rows))] /\ docIds \in [Sources -> 0 .. Len(rows)]
    BY TypeParts DEF RagTypeOK
  <1>2. ASSUME NEW i \in DOMAIN rows
        PROVE  rows'[i].src = rows[i].src /\ rows'[i].doc = rows[i].doc
    BY <1>1, RowsKeep DEF Frame
  <1>3. ASSUME NEW s \in Sources \ {src}, NEW k \in DOMAIN chunkIds'[s]
        PROVE  rows'[chunkIds'[s][k]].src = s /\ ~rows'[chunkIds'[s][k]].doc
    <2>1. chunkIds'[s] = chunkIds[s] /\ chunkIds[s][k] \in DOMAIN rows
      BY <1>1, <1>3 DEF Frame
    <2>2. rows[chunkIds[s][k]].src = s /\ ~rows[chunkIds[s][k]].doc
      BY <2>1 DEF Owned
    <2> QED BY <1>2, <2>1, <2>2
  <1>4. ASSUME NEW s \in Sources \ {src}, docIds'[s] # 0
        PROVE  rows'[docIds'[s]].src = s /\ rows'[docIds'[s]].doc
    <2>1. docIds'[s] = docIds[s] /\ docIds[s] \in DOMAIN rows
      BY <1>1, <1>4 DEF Frame
    <2>2. rows[docIds[s]].src = s /\ rows[docIds[s]].doc
      BY <1>4, <2>1 DEF Owned
    <2> QED BY <1>2, <2>1, <2>2
  <1>5. ASSUME NEW e \in Clients \ {c} PROVE TaskOwns(e)'
    <2>1. task'[e] = task[e] /\ TaskOwns(e) /\ task[e].ids \in Seq(DOMAIN rows) /\ task[e].id \in 0 .. Len(rows)
      BY Typed DEF Frame, Owned
    <2>2. \A k \in DOMAIN task[e].ids : task[e].ids[k] \in DOMAIN rows
      BY <2>1
    <2>3. task[e].id # 0 => task[e].id \in DOMAIN rows
      BY <1>1, <2>1
    <2>4. task[e].pc # "idle" => task[e].src \in Sources
      BY <2>1 DEF TaskOwns
    <2>5. task[e].pc = "rows" =>
             \A k \in DOMAIN task[e].ids :
                rows'[task[e].ids[k]].src = task[e].src /\ ~rows'[task[e].ids[k]].doc
      BY <1>2, <2>1, <2>2 DEF TaskOwns
    <2>6. task[e].pc \in {"meta", "docrow", "olddoc", "list", "listdoc"} =>
             /\ task[e].id # 0
             /\ rows'[task[e].id].src = task[e].src
             /\ rows'[task[e].id].doc <=> task[e].pc # "list"
      BY <1>2, <2>1, <2>3 DEF TaskOwns
    <2> QED BY <2>1, <2>4, <2>5, <2>6 DEF TaskOwns
  <1> QED BY <1>3, <1>4, <1>5 DEF Owned, OwnsNext

\* A step that leaves the maps of its source alone, too, names what it named.
LEMMA OwnsSameMaps ==
    ASSUME RagTypeOK, Owned, RagTypeOK', NEW c \in Clients, NEW src, Frame(c, src),
           UNCHANGED <<chunkIds, docIds>>, TaskOwns(c)'
    PROVE  OwnsNext(c, src)
  <1>1. /\ rows \in Seq(Row) /\ rows' \in Seq(Row) /\ DOMAIN rows = 1 .. Len(rows)
        /\ chunkIds \in [Sources -> Seq(1 .. Len(rows))] /\ docIds \in [Sources -> 0 .. Len(rows)]
    BY TypeParts DEF RagTypeOK
  <1>2. ASSUME NEW i \in DOMAIN rows
        PROVE  rows'[i].src = rows[i].src /\ rows'[i].doc = rows[i].doc
    BY <1>1, RowsKeep DEF Frame
  <1>3. ASSUME src \in Sources, NEW k \in DOMAIN chunkIds[src]
        PROVE  rows'[chunkIds[src][k]].src = src /\ ~rows'[chunkIds[src][k]].doc
    <2>1. chunkIds[src][k] \in DOMAIN rows
      BY <1>1, <1>3
    <2>2. rows[chunkIds[src][k]].src = src /\ ~rows[chunkIds[src][k]].doc
      BY <1>3 DEF Owned
    <2> QED BY <1>2, <2>1, <2>2
  <1>4. ASSUME src \in Sources, docIds[src] # 0
        PROVE  rows'[docIds[src]].src = src /\ rows'[docIds[src]].doc
    <2>1. docIds[src] \in DOMAIN rows
      BY <1>1, <1>4
    <2>2. rows[docIds[src]].src = src /\ rows[docIds[src]].doc
      BY <1>4 DEF Owned
    <2> QED BY <1>2, <2>1, <2>2
  <1> QED BY <1>3, <1>4 DEF OwnsNext

\* What is left of the copied list is still of the source.
LEMMA TailOwned ==
    ASSUME RagTypeOK, Owned, RagTypeOK', NEW c \in Clients, Frame(c, Src(c)),
           At(c, "rows"), task[c].ids # <<>>, task'[c].ids = Tail(task[c].ids),
           NEW k \in DOMAIN task'[c].ids
    PROVE  rows'[task'[c].ids[k]].src = Src(c) /\ ~rows'[task'[c].ids[k]].doc
  <1> DEFINE i == task'[c].ids[k]
  <1>1. rows \in Seq(Row) /\ rows' \in Seq(Row) /\ DOMAIN rows = 1 .. Len(rows)
    BY TypeParts DEF RagTypeOK
  <1>2. task[c].ids \in Seq(1 .. Len(rows))
    BY Typed
  <1>3. k + 1 \in DOMAIN task[c].ids /\ i = task[c].ids[k + 1] /\ i \in DOMAIN rows
    <2> DEFINE l == task[c].ids
    <2>1. l \in Seq(1 .. Len(rows)) /\ l # <<>> /\ i = Tail(l)[k] /\ k \in DOMAIN Tail(l)
      BY <1>2
    <2> HIDE DEF l, i
    <2>2. k + 1 \in DOMAIN l /\ i = l[k + 1] /\ l[k + 1] \in 1 .. Len(rows)
      BY <2>1
    <2> QED BY <1>1, <2>2 DEF l
  <1>4. rows[i].src = Src(c) /\ ~rows[i].doc
    BY <1>3 DEF Owned, TaskOwns
  <1> HIDE DEF i
  <1>5. rows'[i].src = rows[i].src /\ rows'[i].doc = rows[i].doc
    BY <1>1, <1>3, RowsKeep DEF Frame
  <1> QED BY <1>4, <1>5 DEF i

\* Every step of a request keeps the types and names only rows of its source.
LEMMA OwnedStep ==
    ASSUME RagTypeOK, Owned, NEW c \in Clients, Step(c)
    PROVE  RagTypeOK' /\ Owned' /\ Frame(c, Src(c))
  <1> DEFINE src == Src(c)
             n == Len(rows)
  <1>t. /\ rows \in Seq(Row) /\ n \in Nat /\ DOMAIN rows = 1 .. n
        /\ chunkIds \in [Sources -> Seq(1 .. n)] /\ docIds \in [Sources -> 0 .. n]
        /\ task[c].ids \in Seq(1 .. n) /\ task[c].id \in 0 .. n
    BY Typed
  <1>o. /\ TaskOwns(c)
        /\ \A s \in Sources : \A k \in DOMAIN chunkIds[s] :
              rows[chunkIds[s][k]].src = s /\ ~rows[chunkIds[s][k]].doc
        /\ \A s \in Sources : docIds[s] # 0 => rows[docIds[s]].src = s /\ rows[docIds[s]].doc
    BY DEF Owned
  <1>1. CASE ReadStatus(c)
    <2>1. RagTypeOK' /\ Frame(c, src) /\ TaskOwns(c)' /\ UNCHANGED <<chunkIds, docIds>>
      BY <1>1, <1>t, <1>o, ReadStatusEffect, AtWork DEF After, TaskOwns, Indexing, ReadStatus
    <2> QED BY <2>1, OwnsSameMaps, OwnedFrame
  <1>2. CASE CheckStatus(c)
    <2>1. RagTypeOK' /\ Frame(c, src) /\ TaskOwns(c)' /\ UNCHANGED <<chunkIds, docIds>>
      BY <1>2, <1>t, <1>o, CheckStatusEffect, AtWork DEF After, TaskOwns, Indexing, CheckStatus
    <2> QED BY <2>1, OwnsSameMaps, OwnedFrame
  <1>3. CASE ReadChunkIds(c)
    <2>1. /\ RagTypeOK' /\ Frame(c, src) /\ UNCHANGED <<rows, chunkIds, docIds>> /\ src \in Sources
          /\ task'[c].pc = "rows" /\ task'[c].ids = chunkIds[src] /\ task'[c].src = src
      BY <1>3, ReadChunkIdsEffect, AtWork DEF After, ReadChunkIds
    <2>2. TaskOwns(c)'
      BY <1>o, <2>1 DEF TaskOwns
    <2> QED BY <2>1, <2>2, OwnsSameMaps, OwnedFrame
  <1>4. CASE DeleteChunk(c)
    <2>1. /\ RagTypeOK' /\ Frame(c, src) /\ UNCHANGED <<chunkIds, docIds>> /\ src \in Sources
          /\ task'[c].pc = "rows" /\ task'[c].ids = Tail(task[c].ids) /\ task'[c].src = src
          /\ task[c].pc = "rows" /\ task[c].ids # <<>>
      BY <1>4, DeleteChunkEffect, AtWork DEF After, DeleteChunk
    <2>2. ASSUME NEW k \in DOMAIN task'[c].ids
          PROVE  rows'[task'[c].ids[k]].src = src /\ ~rows'[task'[c].ids[k]].doc
      BY <1>t, <1>o, <2>1, TailOwned
    <2>3. TaskOwns(c)'
      BY <2>1, <2>2 DEF TaskOwns
    <2> QED BY <2>1, <2>3, OwnsSameMaps, OwnedFrame
  <1>5. CASE ReadDocId(c)
    <2>1. RagTypeOK' /\ Frame(c, src) /\ TaskOwns(c)' /\ UNCHANGED <<chunkIds, docIds>>
      BY <1>5, <1>t, <1>o, ReadDocIdEffect, AtWork DEF After, TaskOwns, Indexing, ReadDocId
    <2> QED BY <2>1, OwnsSameMaps, OwnedFrame
  <1>6. CASE DeleteDoc(c)
    <2>1. RagTypeOK' /\ Frame(c, src) /\ TaskOwns(c)' /\ UNCHANGED <<chunkIds, docIds>>
      BY <1>6, <1>t, <1>o, DeleteDocEffect, AtWork DEF After, TaskOwns, Indexing, DeleteDoc
    <2> QED BY <2>1, OwnsSameMaps, OwnedFrame
  <1>7. CASE RemoveSource(c)
    <2>1. RagTypeOK' /\ Frame(c, src) /\ TaskOwns(c)' /\ chunkIds'[src] = <<>> /\ docIds'[src] = 0
      BY <1>7, <1>t, <1>o, RemoveSourceEffect, AtWork DEF After, TaskOwns, Indexing, RemoveSource
    <2>2. OwnsNext(c, src)
      BY <2>1 DEF OwnsNext
    <2> QED BY <2>1, <2>2, OwnedFrame
  <1>8. CASE InsertChunk(c)
    <2> DEFINE row == Chunk(src, task[c].text, task[c].next)
    <2>1. /\ RagTypeOK' /\ Frame(c, src) /\ UNCHANGED <<chunkIds, docIds>> /\ src \in Sources
          /\ task'[c].pc = "list" /\ task'[c].id = NewId /\ task'[c].src = src
          /\ row \in Row /\ Insert(row)
      BY <1>8, InsertChunkEffect, AtWork DEF After, InsertChunk
    <2>2. rows'[NewId] = row /\ NewId # 0 /\ row.src = src /\ ~row.doc
      BY <1>t, <2>1, InsertEffect DEF Chunk, NewId
    <2>3. TaskOwns(c)'
      BY <2>1, <2>2 DEF TaskOwns
    <2> QED BY <2>1, <2>3, OwnsSameMaps, OwnedFrame
  <1>9. CASE ListChunk(c)
    <2>1. /\ RagTypeOK' /\ Frame(c, src) /\ TaskOwns(c)' /\ UNCHANGED <<rows, docIds>>
          /\ chunkIds'[src] = Append(chunkIds[src], task[c].id)
      <3>1. /\ RagTypeOK' /\ Frame(c, src) /\ UNCHANGED <<rows, docIds>>
            /\ chunkIds'[src] = Append(chunkIds[src], task[c].id)
            /\ task'[c].pc \in {"insert", "flush"} /\ task'[c].src = src /\ src \in Sources
        BY <1>9, ListChunkEffect, AtWork DEF After, ListChunk
      <3> QED BY <3>1 DEF TaskOwns
    <2>2. src \in Sources /\ task[c].id \in 1 .. n /\ rows[task[c].id].src = src /\ ~rows[task[c].id].doc
      BY <1>9, <1>t, <1>o DEF TaskOwns, ListChunk
    <2>3. ASSUME NEW k \in DOMAIN chunkIds'[src]
          PROVE  rows'[chunkIds'[src][k]].src = src /\ ~rows'[chunkIds'[src][k]].doc
      <3>1. chunkIds'[src][k] = task[c].id \/ (k \in DOMAIN chunkIds[src] /\ chunkIds'[src][k] = chunkIds[src][k])
        BY <1>t, <2>1, <2>2, AppendProperties
      <3> QED BY <1>o, <2>1, <2>2, <3>1
    <2>5. docIds'[src] # 0 => rows'[docIds'[src]].src = src /\ rows'[docIds'[src]].doc
      BY <1>o, <2>1, <2>2
    <2>4. OwnsNext(c, src)
      BY <2>1, <2>3, <2>5 DEF OwnsNext
    <2> QED BY <2>1, <2>4, OwnedFrame
  <1>10. CASE ReadOldDoc(c)
    <2>1. RagTypeOK' /\ Frame(c, src) /\ TaskOwns(c)' /\ UNCHANGED <<chunkIds, docIds>>
      BY <1>10, <1>t, <1>o, ReadOldDocEffect, AtWork DEF After, TaskOwns, Indexing, ReadOldDoc
    <2> QED BY <2>1, OwnsSameMaps, OwnedFrame
  <1>11. CASE DeleteOldDoc(c)
    <2>1. RagTypeOK' /\ Frame(c, src) /\ TaskOwns(c)' /\ UNCHANGED <<chunkIds, docIds>>
      BY <1>11, <1>t, <1>o, DeleteOldDocEffect, AtWork DEF After, TaskOwns, Indexing, DeleteOldDoc
    <2> QED BY <2>1, OwnsSameMaps, OwnedFrame
  <1>12. CASE InsertDoc(c)
    <2> DEFINE row == DocEntry(src, task[c].hash, ChunksOf[task[c].text])
    <2>1. /\ RagTypeOK' /\ Frame(c, src) /\ UNCHANGED <<chunkIds, docIds>> /\ src \in Sources
          /\ task'[c].pc = "listdoc" /\ task'[c].id = NewId /\ task'[c].src = src
          /\ row \in Row /\ Insert(row)
      BY <1>12, InsertDocEffect, AtWork DEF After, InsertDoc
    <2>2. rows'[NewId] = row /\ NewId # 0 /\ row.src = src /\ row.doc
      BY <1>t, <2>1, InsertEffect DEF DocEntry, NewId
    <2>3. TaskOwns(c)'
      BY <2>1, <2>2 DEF TaskOwns
    <2> QED BY <2>1, <2>3, OwnsSameMaps, OwnedFrame
  <1>13. CASE ListDoc(c)
    <2>1. /\ RagTypeOK' /\ Frame(c, src) /\ TaskOwns(c)' /\ UNCHANGED <<rows, chunkIds>>
          /\ docIds'[src] = task[c].id
      BY <1>13, <1>t, <1>o, ListDocEffect DEF TaskOwns, ListDoc
    <2>2. rows[task[c].id].src = src /\ rows[task[c].id].doc
      BY <1>13, <1>t, <1>o DEF TaskOwns, ListDoc
    <2>3. OwnsNext(c, src)
      BY <1>o, <2>1, <2>2 DEF OwnsNext
    <2> QED BY <2>1, <2>3, OwnedFrame
  <1>14. CASE DeleteFails(c)
    <2>1. RagTypeOK' /\ Frame(c, src) /\ UNCHANGED <<rows, chunkIds, docIds>> /\ src \in Sources
      BY <1>14, DeleteFailsEffect, AtWork DEF DeleteFails
    <2>2. ASSUME At(c, "rows"), task[c].ids # <<>>,
                 After(c, "rows", Tail(task[c].ids), task[c].id, task[c].next)
          PROVE  TaskOwns(c)'
      <3>1. ASSUME NEW k \in DOMAIN task'[c].ids
            PROVE  rows'[task'[c].ids[k]].src = src /\ ~rows'[task'[c].ids[k]].doc
        BY <1>t, <1>o, <2>1, <2>2, TailOwned DEF After
      <3>2. task'[c].pc = "rows" /\ task'[c].src = src
        BY <2>2 DEF After
      <3> QED BY <2>1, <3>1, <3>2 DEF TaskOwns
    <2>3. ASSUME NEW p \in {"remove", "doc"}, After(c, p, task[c].ids, task[c].id, task[c].next)
          PROVE  TaskOwns(c)'
      <3>1. task'[c].pc \in {"remove", "doc"} /\ task'[c].src = src
        BY <2>3 DEF After
      <3> QED BY <2>1, <3>1 DEF TaskOwns
    <2>4. TaskOwns(c)'
      BY <1>14, <2>2, <2>3, DeleteFailsEffect
    <2> QED BY <2>1, <2>4, OwnsSameMaps, OwnedFrame
  <1>15. CASE IndexFails(c)
    <2>1. RagTypeOK' /\ Frame(c, src) /\ TaskOwns(c)' /\ UNCHANGED <<chunkIds, docIds>>
      BY <1>15, <1>t, <1>o, IndexFailsEffect, AtWork DEF After, TaskOwns, Indexing, IndexFails
    <2> QED BY <2>1, OwnsSameMaps, OwnedFrame
  <1> QED BY <1>1, <1>2, <1>3, <1>4, <1>5, <1>6, <1>7, <1>8, <1>9, <1>10, <1>11, <1>12, <1>13, <1>14, <1>15 DEF Step

\* What RagCore::new builds from the rows: the list of the live chunks of a source, each
\* once, and one of its live document entries if it has any.
LEMMA RebuildFacts ==
    ASSUME RagTypeOK, NEW s \in Sources
    PROVE  /\ IsFiniteSet(LiveChunks(s)) /\ LiveChunks(s) \subseteq 1 .. Len(rows)
           /\ IsFiniteSet(LiveDocs(s)) /\ LiveDocs(s) \subseteq 1 .. Len(rows)
           /\ Ascending(RebuiltChunks(s)) \in Seq(1 .. Len(rows))
           /\ {Ascending(RebuiltChunks(s))[k] : k \in DOMAIN Ascending(RebuiltChunks(s))} = LiveChunks(s)
           /\ IsInjective(Ascending(RebuiltChunks(s)))
           /\ RebuiltDoc(s) \in 0 .. Len(rows)
           /\ LiveDocs(s) = {} => RebuiltDoc(s) = 0
           /\ LiveDocs(s) # {} => RebuiltDoc(s) \in LiveDocs(s)
  <1> DEFINE n == Len(rows)
             l == Ascending(RebuiltChunks(s))
  <1>1. n \in Nat /\ DOMAIN rows = 1 .. n
    BY TypeParts
  <1>2. LiveChunks(s) \subseteq 1 .. n /\ LiveDocs(s) \subseteq 1 .. n
    BY <1>1 DEF LiveChunks, LiveDocs
  <1>3. IsFiniteSet(1 .. n) /\ 1 .. n \subseteq Nat /\ 1 .. n \subseteq 0 .. n
    <2>1. IsFiniteSet(1 .. n)
      BY <1>1, FS_Interval
    <2> QED BY <1>1, <2>1
  <1>4. IsFiniteSet(LiveChunks(s)) /\ IsFiniteSet(LiveDocs(s))
    BY <1>2, <1>3, FS_Subset
  <1>5. /\ l \in Seq(LiveChunks(s)) /\ IsInjective(l)
        /\ \A x \in LiveChunks(s) : \E i \in DOMAIN l : l[i] = x
    <2>1. LiveChunks(s) \subseteq Nat
      BY <1>2, <1>3
    <2> QED BY <1>4, <2>1, AscendingFacts DEF RebuiltChunks
  <1> HIDE DEF l
  <1>6. l \in Seq(1 .. n) /\ {l[k] : k \in DOMAIN l} = LiveChunks(s)
    BY <1>2, <1>5
  <1>7. LiveDocs(s) # {} => RebuiltDoc(s) \in LiveDocs(s)
    <2> SUFFICES ASSUME LiveDocs(s) # {} PROVE RebuiltDoc(s) \in LiveDocs(s)
      OBVIOUS
    <2>1. LiveDocs(s) \subseteq 0 .. n
      BY <1>2, <1>3
    <2>2. \E x \in LiveDocs(s) : \A y \in LiveDocs(s) : x >= y
      BY <1>1, <2>1, GreatestExists
    <2> QED BY <2>2 DEF RebuiltDoc, Max
  <1>8. LiveDocs(s) = {} => RebuiltDoc(s) = 0
    BY DEF RebuiltDoc
  <1>9. RebuiltDoc(s) \in 0 .. n
    BY <1>1, <1>2, <1>7, <1>8
  <1> QED BY <1>2, <1>4, <1>5, <1>6, <1>7, <1>8, <1>9 DEF l

\* A start keeps the types, and its maps name rows of their source.
LEMMA OwnedRestart ==
    ASSUME RagTypeOK, Owned, Restart
    PROVE  RagTypeOK' /\ Owned'
  <1> DEFINE n == Len(rows)
  <1>1. /\ rows' = rows /\ rows \in Seq(Row) /\ n \in Nat
        /\ \A c \in Clients : task'[c] = NoTask
        /\ task' \in [Clients -> TaskType(n)]
    BY TypeParts, NoTaskType DEF Restart
  <1>2. chunkIds' \in [Sources -> Seq(1 .. n)] /\ docIds' \in [Sources -> 0 .. n]
    BY RebuildFacts DEF Restart
  <1>3. NoAnswer \in [kind : {"none", "skipped", "indexed", "deleted"}, text : Texts, hash : Texts]
    BY AnyTextType DEF NoAnswer
  <1>4. answer' \in [Sources -> [kind : {"none", "skipped", "indexed", "deleted"},
                                 text : Texts, hash : Texts]]
    BY <1>3, TypeParts DEF Restart
  <1>5. /\ tainted' \subseteq Sources /\ partial' \subseteq Sources
        /\ requests' \in Nat /\ restarts' \in Nat /\ faults' \in Nat
    BY TypeParts DEF Restart
  <1>6. RagTypeOK'
    BY <1>1, <1>2, <1>4, <1>5, TypePartsNext
  <1>7. ASSUME NEW s \in Sources, NEW k \in DOMAIN chunkIds'[s]
        PROVE  rows'[chunkIds'[s][k]].src = s /\ ~rows'[chunkIds'[s][k]].doc
    <2>1. chunkIds'[s] = Ascending(RebuiltChunks(s))
      BY DEF Restart
    <2>2. chunkIds'[s][k] \in LiveChunks(s)
      BY <1>7, <2>1, RebuildFacts
    <2> QED BY <1>1, <2>2 DEF LiveChunks
  <1>8. ASSUME NEW s \in Sources, docIds'[s] # 0
        PROVE  rows'[docIds'[s]].src = s /\ rows'[docIds'[s]].doc
    <2>1. docIds'[s] = RebuiltDoc(s)
      BY DEF Restart
    <2>2. docIds'[s] \in LiveDocs(s)
      BY <1>8, <2>1, RebuildFacts
    <2> QED BY <1>1, <2>2 DEF LiveDocs
  <1>9. \A c \in Clients : TaskOwns(c)'
    BY <1>1 DEF TaskOwns, NoTask
  <1> QED BY <1>6, <1>7, <1>8, <1>9 DEF Owned

\* A new request names no rows yet.
LEMMA OwnedRequest ==
    ASSUME RagTypeOK, Owned, NEW c \in Clients, NEW kind \in {"index", "delete"}, NEW s \in Sources,
           NEW text \in Texts, NEW hash \in Texts, Begin(c, kind, s, text, hash)
    PROVE  RagTypeOK' /\ Owned' /\ Frame(c, s)
  <1>1. /\ RagTypeOK' /\ Frame(c, s) /\ UNCHANGED <<chunkIds, docIds>>
        /\ task'[c].pc \in {"status", "ids"} /\ task'[c].src = s
    BY BeginEffect
  <1>2. TaskOwns(c)'
    BY <1>1 DEF TaskOwns
  <1>3. Owned'
    BY <1>1, <1>2, OwnsSameMaps, OwnedFrame
  <1> QED BY <1>1, <1>3

\* Nothing happens.
LEMMA OwnedStutter ==
    ASSUME RagTypeOK, Owned, UNCHANGED vars
    PROVE  RagTypeOK' /\ Owned'
  <1>1. RagTypeOK'
    BY DEF RagTypeOK, Row, States
  <1>2. Owned'
    BY DEF Owned, TaskOwns
  <1> QED BY <1>1, <1>2

\* Every step keeps the types and what is owned.
LEMMA OwnedNext == RagTypeOK /\ Owned /\ [Next]_vars => RagTypeOK' /\ Owned'
  <1> SUFFICES ASSUME RagTypeOK, Owned, [Next]_vars PROVE RagTypeOK' /\ Owned'
    OBVIOUS
  <1>1. CASE Restart
    BY <1>1, OwnedRestart
  <1>2. ASSUME NEW c \in Clients, Request(c) PROVE RagTypeOK' /\ Owned'
    BY <1>2, OwnedRequest DEF Request
  <1>3. ASSUME NEW c \in Clients, Step(c) PROVE RagTypeOK' /\ Owned'
    BY <1>3, OwnedStep
  <1>4. CASE UNCHANGED vars
    BY <1>4, OwnedStutter
  <1> QED BY <1>1, <1>2, <1>3, <1>4 DEF Next

\* Every id in a map or held by a request is that of a row: of rag.rs, every value has
\* the type that the code relies on, whatever the order of the awaits.
THEOREM RagTypeCorrect == Spec => []RagTypeOK
  <1>1. Init => RagTypeOK /\ Owned
    BY TypeInit
  <1>2. RagTypeOK /\ Owned /\ [Next]_vars => (RagTypeOK /\ Owned)'
    BY OwnedNext
  <1> QED BY <1>1, <1>2, PTL DEF Spec

\* The maps name only rows of their source, and what a request is about to delete or to
\* list is a row of its source.
THEOREM NamesOwnRows == Spec => []Owned
  <1>1. Init => RagTypeOK /\ Owned
    BY TypeInit
  <1>2. RagTypeOK /\ Owned /\ [Next]_vars => (RagTypeOK /\ Owned)'
    BY OwnedNext
  <1> QED BY <1>1, <1>2, PTL DEF Spec

\* A row is deleted only by a step of a request about its own source: an id that a request
\* took from a map before an await is still that of the same row when it is used.
THEOREM DeletesOwnRows == Spec => OwnRowsOnly
  <1> DEFINE Own == \A i \in DOMAIN rows : rows[i].live /\ ~rows'[i].live =>
                       \E c \in Clients : Src(c) = rows[i].src /\ task'[c] # task[c]
  <1>1. ASSUME RagTypeOK, Owned, [Next]_vars PROVE [Own]_vars
    <2>1. rows \in Seq(Row)
      BY <1>1, TypeParts
    <2>2. ASSUME NEW i \in DOMAIN rows, rows' = rows PROVE ~(rows[i].live /\ ~rows'[i].live)
      BY <2>2
    <2>3. ASSUME NEW c \in Clients, Step(c) PROVE Own
      <3> SUFFICES ASSUME NEW i \in DOMAIN rows, rows[i].live, ~rows'[i].live
                   PROVE  Src(c) = rows[i].src /\ task'[c] # task[c]
        OBVIOUS
      <3>1. Src(c) = rows[i].src /\ rows'[i] # rows[i]
        <4>1. Frame(c, Src(c)) /\ RagTypeOK'
          BY <1>1, <2>3, OwnedStep
        <4> QED BY <4>1 DEF Frame, RowsChange
      <3>2. ASSUME NEW row \in Row, Insert(row) PROVE FALSE
        BY <2>1, <3>1, <3>2, InsertEffect
      <3>3. CASE DeleteChunk(c)
        <4>1. task'[c].ids = Tail(task[c].ids) /\ task[c].ids # <<>> /\ task[c].ids \in Seq(1 .. Len(rows))
          BY <1>1, <3>3, DeleteChunkEffect, Typed DEF After, DeleteChunk
        <4>2. Tail(task[c].ids) # task[c].ids
          <5> DEFINE l == task[c].ids
          <5> HIDE DEF l
          <5>1. l \in Seq(1 .. Len(rows)) /\ l # <<>>
            BY <4>1 DEF l
          <5>2. Len(Tail(l)) = Len(l) - 1 /\ Len(l) \in Nat
            BY <5>1, HeadTailProperties
          <5>3. Tail(l) # l
            BY <5>2
          <5> QED BY <5>3 DEF l
        <4> QED BY <3>1, <4>1, <4>2
      <3>4. CASE DeleteDoc(c) \/ DeleteOldDoc(c)
        <4>1. task'[c].pc # task[c].pc
          BY <1>1, <3>4, DeleteDocEffect, DeleteOldDocEffect DEF After, DeleteDoc, DeleteOldDoc
        <4> QED BY <3>1, <4>1
      <3>5. CASE InsertChunk(c)
        BY <1>1, <3>2, <3>5, InsertChunkEffect DEF InsertChunk
      <3>6. CASE InsertDoc(c)
        BY <1>1, <3>2, <3>6, InsertDocEffect DEF InsertDoc
      <3>7. CASE rows' = rows
        BY <3>1, <3>7
      <3> QED
        BY <2>3, <3>3, <3>4, <3>5, <3>6, <3>7
           DEF Step, ReadStatus, CheckStatus, ReadChunkIds, ReadDocId, RemoveSource, ListChunk,
               ReadOldDoc, ListDoc, DeleteFails, IndexFails
    <2>4. CASE Restart
      BY <2>2, <2>4 DEF Restart
    <2>5. ASSUME NEW c \in Clients, Request(c) PROVE Own
      BY <2>2, <2>5 DEF Request, Begin
    <2> HIDE DEF Own
    <2> QED BY <1>1, <2>3, <2>4, <2>5 DEF Next
  <1>2. Spec => [](RagTypeOK /\ Owned)
    BY RagTypeCorrect, NamesOwnRows, PTL
  <1> QED BY <1>1, <1>2, PTL DEF Spec, OwnRowsOnly

-----------------------------------------------------------------------------
(* What holds of a source that is not tainted.  At most one request works on it; the    *)
(* maps, the rows and the local variables of that request agree at every await.         *)

Early == {"status", "meta", "ids", "rows", "docrow", "remove"}
Late  == {"flush", "upsert", "olddoc", "doc", "listdoc"}

\* The list has every live chunk once; the map has the document entry.
Kept(s) == IdsOf(s) = LiveChunks(s) /\ IsInjective(chunkIds[s])
OneDoc(s) == LiveDocs(s) = {docIds[s]} \ {0}

\* Where the live rows of the source are while c works on it: in the maps, in the copy
\* that is being deleted, or inserted and not yet listed.
Works(c) ==
    LET s == Src(c)
        t == task[c] IN
    /\ t.pc \in {"status", "meta", "ids", "insert", "flush", "upsert"} => Kept(s) /\ OneDoc(s)
    /\ t.pc \in {"meta", "docrow"} => t.id = docIds[s]
    /\ t.pc = "rows" =>
          /\ {t.ids[k] : k \in DOMAIN t.ids} = LiveChunks(s)
          /\ IsInjective(t.ids) /\ OneDoc(s)
    /\ t.pc = "docrow" => LiveChunks(s) = {} /\ OneDoc(s)
    /\ t.pc = "remove" => LiveChunks(s) = {} /\ LiveDocs(s) = {}
    /\ t.pc = "list" =>
          /\ LiveChunks(s) = IdsOf(s) \cup {t.id} /\ t.id \notin IdsOf(s)
          /\ IsInjective(chunkIds[s]) /\ OneDoc(s)
    /\ t.pc = "doc" => Kept(s) /\ LiveDocs(s) = {}
    /\ t.pc = "listdoc" => Kept(s) /\ LiveDocs(s) = {t.id}
    /\ t.pc \in {"insert", "list", "flush", "upsert", "doc", "listdoc"} => docIds[s] = 0
    /\ t.pc # "olddoc"

\* Chunks 0 .. count - 1 of a text are listed.
Listed(s, text, count) == \A n \in 0 .. count - 1 : \E i \in IdsOf(s) : rows[i] = Chunk(s, text, n)

\* How far the indexing of c is.
Progress(c) ==
    LET s == Src(c)
        t == task[c] IN
    /\ t.pc \in Early => t.next = 0
    /\ Listed(s, t.text, t.next)
    /\ t.pc = "list" => rows[t.id] = Chunk(s, t.text, t.next)
    /\ t.pc = "listdoc" => rows[t.id] = DocEntry(s, t.hash, ChunksOf[t.text])
    /\ t.pc \in {"insert", "list"} => t.next < ChunksOf[t.text]
    /\ t.pc \in Late => t.next = ChunksOf[t.text]

\* The document entry tells the truth.
Told(s) ==
    IF docIds[s] = 0 THEN LiveChunks(s) = {}
    ELSE /\ Listed(s, rows[docIds[s]].text, ChunksOf[rows[docIds[s]].text])
         /\ Cardinality(LiveChunks(s)) = rows[docIds[s]].n

\* Without leftovers, the chunks of the source are those that this indexing inserted.
Counts(c) ==
    LET s == Src(c)
        t == task[c] IN
    /\ t.pc \in {"status", "meta", "ids"} => Told(s)
    /\ t.pc \in {"insert"} \cup Late => Cardinality(LiveChunks(s)) = t.next
    /\ t.pc = "list" => Cardinality(LiveChunks(s)) = t.next + 1

\* An answer holds until the next request.
AnswerHolds(s) ==
    /\ answer[s].kind = "indexed" =>
          /\ Listed(s, answer[s].text, ChunksOf[answer[s].text])
          /\ docIds[s] # 0 /\ rows[docIds[s]].live /\ rows[docIds[s]].text = answer[s].hash
    /\ answer[s].kind = "deleted" => LiveChunks(s) = {} /\ LiveDocs(s) = {}

Fine(s) ==
    /\ \A c, e \in WorksOn(s) : c = e
    /\ \A c \in WorksOn(s) : Works(c) /\ Progress(c) /\ (s \notin partial => Counts(c))
    /\ WorksOn(s) = {} => Kept(s) /\ OneDoc(s) /\ (s \notin partial => Told(s))
    /\ answer[s].kind # "none" => WorksOn(s) = {}
    /\ AnswerHolds(s)

RagInv == RagTypeOK /\ Owned /\ \A s \in Sources \ tainted : Fine(s)

\* An empty server satisfies the invariant.
LEMMA RagInvInit == Init => RagInv
  <1> SUFFICES ASSUME Init PROVE RagInv
    OBVIOUS
  <1>1. RagTypeOK /\ Owned
    BY TypeInit
  <1>2. ASSUME NEW s \in Sources PROVE Fine(s)
    <2>1. /\ LiveChunks(s) = {} /\ LiveDocs(s) = {} /\ IdsOf(s) = {} /\ WorksOn(s) = {}
          /\ chunkIds[s] = <<>> /\ docIds[s] = 0 /\ answer[s].kind = "none"
      BY DEF Init, LiveChunks, LiveDocs, IdsOf, WorksOn, NoTask, NoAnswer
    <2> QED BY <2>1 DEF Fine, Kept, OneDoc, Told, AnswerHolds, IsInjective
  <1> QED BY <1>1, <1>2 DEF RagInv

\* The set of ids in a list, as the maps and the requests are compared with the rows.
LEMMA IdsType ==
    ASSUME RagTypeOK, Owned, NEW s \in Sources, NEW i \in IdsOf(s)
    PROVE  i \in DOMAIN rows /\ rows[i].src = s /\ ~rows[i].doc
  BY TypeParts DEF IdsOf, Owned

\* Of other sources a step changes nothing that Fine speaks of.
LEMMA FineFrame ==
    ASSUME RagTypeOK, Owned, RagTypeOK', NEW c \in Clients, NEW src, Frame(c, src),
           NEW s \in Sources, s # src, Fine(s)
    PROVE  Fine(s)'
  <1>1. /\ rows \in Seq(Row) /\ rows' \in Seq(Row) /\ DOMAIN rows = 1 .. Len(rows)
        /\ docIds[s] \in 0 .. Len(rows)
    BY TypeParts DEF RagTypeOK
  <1>2. /\ chunkIds'[s] = chunkIds[s] /\ docIds'[s] = docIds[s] /\ answer'[s] = answer[s]
        /\ s \in partial' <=> s \in partial
        /\ IdsOf(s)' = IdsOf(s)
    BY DEF Frame, IdsOf
  <1>3. ASSUME NEW i \in DOMAIN rows, rows[i].src = s
        PROVE  rows'[i] = rows[i] /\ i \in DOMAIN rows'
    BY <1>1, <1>3, RowsKeep DEF Frame
  <1>4. ASSUME NEW i \in DOMAIN rows', rows'[i].src = s
        PROVE  i \in DOMAIN rows /\ rows[i].src = s
    <2>1. i \in DOMAIN rows
      BY <1>4 DEF Frame, RowsChange
    <2> QED BY <1>1, <1>4, <2>1, RowsKeep DEF Frame
  <1>5. LiveChunks(s)' = LiveChunks(s) /\ LiveDocs(s)' = LiveDocs(s)
    BY <1>3, <1>4 DEF LiveChunks, LiveDocs
  <1>6. ASSUME NEW e \in WorksOn(s)
        PROVE  task'[e] = task[e] /\ e \in WorksOn(s)'
    <2>1. e # c
      BY DEF WorksOn, Frame
    <2> QED BY <2>1 DEF WorksOn, Frame
  <1>7. ASSUME NEW e \in WorksOn(s)' PROVE e \in WorksOn(s)
    <2>1. e # c
      BY DEF WorksOn, Frame
    <2> QED BY <2>1 DEF WorksOn, Frame
  <1>8. WorksOn(s)' = WorksOn(s)
    BY <1>6, <1>7
  <1>9. \A i \in IdsOf(s) : rows'[i] = rows[i]
    BY <1>3, IdsType
  <1>10. ASSUME NEW text, NEW count PROVE Listed(s, text, count)' <=> Listed(s, text, count)
    BY <1>2, <1>9 DEF Listed
  <1>11. docIds[s] # 0 => rows'[docIds[s]] = rows[docIds[s]]
    BY <1>1, <1>3 DEF Owned
  <1>12. Kept(s)' <=> Kept(s)
    BY <1>2, <1>5 DEF Kept
  <1>13. OneDoc(s)' <=> OneDoc(s)
    BY <1>2, <1>5 DEF OneDoc
  <1>14. Told(s)' <=> Told(s)
    BY <1>2, <1>5, <1>9, <1>11 DEF Told, Listed
  <1>15. AnswerHolds(s)' <=> AnswerHolds(s)
    BY <1>2, <1>5, <1>9, <1>11 DEF AnswerHolds, Listed
  <1>16. ASSUME NEW e \in WorksOn(s)
         PROVE  Works(e)' /\ Progress(e)' /\ (s \notin partial' => Counts(e)')
    <2>1. /\ Works(e) /\ Progress(e) /\ (s \notin partial => Counts(e))
          /\ task'[e] = task[e] /\ task[e].src = s /\ e \in Clients
      BY <1>6 DEF Fine, WorksOn
    <2>2. Works(e)'
      BY <1>2, <1>5, <1>12, <1>13, <2>1 DEF Works
    <2>3. task[e].pc \in {"list", "listdoc"} => rows'[task[e].id] = rows[task[e].id]
      <3>1. task[e].id \in 0 .. Len(rows) /\ TaskOwns(e)
        BY <2>1, Typed DEF Owned
      <3> QED BY <1>1, <1>3, <2>1, <3>1 DEF TaskOwns
    <2>4. Progress(e)'
      BY <1>2, <1>9, <2>1, <2>3 DEF Progress, Listed
    <2>5. s \notin partial' => Counts(e)'
      BY <1>2, <1>5, <1>14, <2>1 DEF Counts
    <2> QED BY <2>2, <2>4, <2>5
  <1> QED BY <1>2, <1>8, <1>12, <1>13, <1>14, <1>15, <1>16 DEF Fine

-----------------------------------------------------------------------------
(* The source that a step is about. *)

\* A step that does not touch the database keeps the live rows of every source.
LEMMA SameLive ==
    ASSUME UNCHANGED rows, NEW s
    PROVE  LiveChunks(s)' = LiveChunks(s) /\ LiveDocs(s)' = LiveDocs(s)
  BY DEF LiveChunks, LiveDocs

\* An insert adds its row to the live ones of its source.
LEMMA InsertLive ==
    ASSUME rows \in Seq(Row), NEW row \in Row, row.live, Insert(row)
    PROVE  /\ row.doc => /\ LiveChunks(row.src)' = LiveChunks(row.src)
                         /\ LiveDocs(row.src)' = LiveDocs(row.src) \cup {NewId}
           /\ ~row.doc => /\ LiveChunks(row.src)' = LiveChunks(row.src) \cup {NewId}
                          /\ LiveDocs(row.src)' = LiveDocs(row.src)
  <1>1. /\ DOMAIN rows' = DOMAIN rows \cup {NewId} /\ NewId \notin DOMAIN rows
        /\ rows'[NewId] = row /\ \A i \in DOMAIN rows : rows'[i] = rows[i]
    BY InsertEffect
  <1> QED BY <1>1 DEF LiveChunks, LiveDocs

\* A delete takes its row from the live ones.
LEMMA DeleteLive ==
    ASSUME rows \in Seq(Row), NEW id \in DOMAIN rows, Delete(id), NEW s
    PROVE  LiveChunks(s)' = LiveChunks(s) \ {id} /\ LiveDocs(s)' = LiveDocs(s) \ {id}
  <1>1. /\ DOMAIN rows' = DOMAIN rows
        /\ \A i \in DOMAIN rows : i # id => rows'[i] = rows[i]
        /\ rows'[id] = [rows[id] EXCEPT !.live = FALSE] /\ rows[id] \in Row
    BY DeleteEffect
  <1>2. rows'[id].live = FALSE
    BY <1>1 DEF Row
  <1> QED BY <1>1, <1>2 DEF LiveChunks, LiveDocs

\* The request that works on a source that stays untainted is the only one, and nothing
\* has been answered about the source since it began.
LEMMA Alone ==
    ASSUME RagInv, NEW c \in Clients, ~At(c, "idle"), Frame(c, Src(c)), Src(c) \notin tainted'
    PROVE  /\ Src(c) \in Sources /\ Src(c) \notin tainted
           /\ WorksOn(Src(c)) = {c} /\ answer[Src(c)].kind = "none"
           /\ Works(c) /\ Progress(c) /\ (Src(c) \notin partial => Counts(c))
  <1>1. Src(c) \in Sources /\ Src(c) \notin tainted
    BY AtWork DEF RagInv, Frame
  <1>2. Fine(Src(c)) /\ c \in WorksOn(Src(c))
    BY <1>1 DEF RagInv, WorksOn
  <1> QED BY <1>1, <1>2 DEF Fine

\* A step that goes on with the request.
LEMMA FineGoesOn ==
    ASSUME NEW c \in Clients, NEW src, Frame(c, src), WorksOn(src) \subseteq {c},
           task'[c].pc # "idle", answer'[src].kind = "none",
           Works(c)', Progress(c)', src \notin partial' => Counts(c)'
    PROVE  Fine(src)'
  <1>1. task'[c].src = src
    BY DEF Frame
  <1>2. WorksOn(src)' = {c}
    <2>1. ASSUME NEW e \in Clients \ {c} PROVE e \notin WorksOn(src)'
      BY DEF Frame, WorksOn
    <2> QED BY <1>1, <2>1 DEF WorksOn
  <1> QED BY <1>2 DEF Fine, AnswerHolds

\* A step that ends it.
LEMMA FineEnds ==
    ASSUME NEW c \in Clients, NEW src, Frame(c, src), WorksOn(src) \subseteq {c},
           task'[c].pc = "idle",
           Kept(src)', OneDoc(src)', AnswerHolds(src)', src \notin partial' => Told(src)'
    PROVE  Fine(src)'
  <1>1. WorksOn(src)' = {}
    <2>1. ASSUME NEW e \in Clients \ {c} PROVE e \notin WorksOn(src)'
      BY DEF Frame, WorksOn
    <2> QED BY <2>1 DEF WorksOn
  <1> QED BY <1>1 DEF Fine

\* A step of the request that leaves the rows and the list of its source alone.
LEMMA SameView ==
    ASSUME UNCHANGED <<rows, chunkIds>>, NEW s
    PROVE  /\ LiveChunks(s)' = LiveChunks(s) /\ LiveDocs(s)' = LiveDocs(s)
           /\ IdsOf(s)' = IdsOf(s) /\ (Kept(s)' <=> Kept(s))
           /\ \A text, count : Listed(s, text, count) => Listed(s, text, count)'
           /\ UNCHANGED docIds => (OneDoc(s)' <=> OneDoc(s)) /\ (Told(s)' <=> Told(s))
  <1>1. LiveChunks(s)' = LiveChunks(s) /\ LiveDocs(s)' = LiveDocs(s) /\ IdsOf(s)' = IdsOf(s)
    BY SameLive DEF IdsOf
  <1>2. \A text, count : Listed(s, text, count) => Listed(s, text, count)'
    BY <1>1 DEF Listed
  <1> QED BY <1>1, <1>2 DEF Kept, OneDoc, Told, Listed

\* Without its first element, a list without repetitions has the others.
LEMMA TailInjective ==
    ASSUME NEW S, NEW l \in Seq(S), l # <<>>, IsInjective(l)
    PROVE  /\ {Tail(l)[k] : k \in DOMAIN Tail(l)} = {l[k] : k \in DOMAIN l} \ {Head(l)}
           /\ IsInjective(Tail(l))
  <1>1. /\ Len(l) \in Nat \ {0} /\ DOMAIN l = 1 .. Len(l) /\ Head(l) = l[1]
        /\ DOMAIN Tail(l) = 1 .. Len(l) - 1 /\ \A k \in DOMAIN Tail(l) : Tail(l)[k] = l[k + 1]
    BY EmptySeq, LenProperties, HeadTailProperties
  <1> DEFINE m == Tail(l)
  <1> HIDE DEF m
  <1>2. \A j, k \in 1 .. Len(l) : l[j] = l[k] => j = k
    BY <1>1 DEF IsInjective
  <1>3. ASSUME NEW k \in DOMAIN m PROVE m[k] \in {l[j] : j \in DOMAIN l} /\ m[k] # Head(l)
    <2>1. k + 1 \in 1 .. Len(l) /\ k + 1 # 1 /\ 1 \in 1 .. Len(l) /\ m[k] = l[k + 1]
      BY <1>1 DEF m
    <2> QED BY <1>1, <1>2, <2>1
  <1>4. ASSUME NEW j \in DOMAIN l, l[j] # Head(l) PROVE \E k \in DOMAIN m : m[k] = l[j]
    <2>1. j - 1 \in 1 .. Len(l) - 1 /\ (j - 1) + 1 = j
      BY <1>1, <1>4
    <2> QED BY <1>1, <2>1 DEF m
  <1>5. IsInjective(m)
    <2> SUFFICES ASSUME NEW j \in DOMAIN m, NEW k \in DOMAIN m, m[j] = m[k] PROVE j = k
      BY DEF IsInjective
    <2>1. /\ j + 1 \in 1 .. Len(l) /\ k + 1 \in 1 .. Len(l) /\ l[j + 1] = l[k + 1]
          /\ j \in Int /\ k \in Int
      BY <1>1 DEF m
    <2> QED BY <1>2, <2>1
  <1> QED BY <1>3, <1>4, <1>5 DEF m

\* With one more element at its end, a list without repetitions has one more.
LEMMA AppendInjectiveIds ==
    ASSUME NEW S, NEW l \in Seq(S), NEW x \in S, IsInjective(l), x \notin {l[k] : k \in DOMAIN l}
    PROVE  /\ {Append(l, x)[k] : k \in DOMAIN Append(l, x)} = {l[k] : k \in DOMAIN l} \cup {x}
           /\ IsInjective(Append(l, x))
  <1> DEFINE m == Append(l, x)
             n == Len(l)
  <1>1. /\ n \in Nat /\ DOMAIN l = 1 .. n /\ DOMAIN m = 1 .. n + 1
        /\ m[n + 1] = x /\ \A k \in 1 .. n : m[k] = l[k]
    BY AppendProperties, LenProperties
  <1> HIDE DEF m, n
  <1>2. \A k \in 1 .. n + 1 : k \in 1 .. n \/ k = n + 1
    BY <1>1
  <1>3. 1 .. n \subseteq 1 .. n + 1 /\ n + 1 \in 1 .. n + 1
    BY <1>1
  <1>4. {m[k] : k \in DOMAIN m} = {l[k] : k \in DOMAIN l} \cup {x}
    BY <1>1, <1>2, <1>3
  <1>5. IsInjective(m)
    <2> SUFFICES ASSUME NEW j \in 1 .. n + 1, NEW k \in 1 .. n + 1, m[j] = m[k] PROVE j = k
      BY <1>1 DEF IsInjective
    <2> QED BY <1>1, <1>2 DEF IsInjective
  <1> QED BY <1>4, <1>5 DEF m

\* Cardinalities, as chunks are inserted one by one.
LEMMA CountOneMore ==
    ASSUME RagTypeOK, NEW s \in Sources, NEW i, i \notin LiveChunks(s)
    PROVE  /\ Cardinality(LiveChunks(s)) \in Nat
           /\ Cardinality(LiveChunks(s) \cup {i}) = Cardinality(LiveChunks(s)) + 1
  <1>1. IsFiniteSet(LiveChunks(s))
    BY RebuildFacts
  <1> QED BY <1>1, FS_AddElement, FS_CardinalityType

\* A step of a request keeps the source that it is about fine, await by await.
LEMMA FineStep ==
    ASSUME RagInv, NEW c \in Clients, Step(c),
           NEW s, s = Src(c), s \notin tainted', NEW t, t = task[c]
    PROVE  Fine(s)'
  <1>i. RagTypeOK /\ Owned
    BY DEF RagInv
  <1>f. RagTypeOK' /\ Owned' /\ Frame(c, s)
    BY <1>i, OwnedStep
  <1>p. ~At(c, "idle")
    BY DEF Step, ReadStatus, CheckStatus, ReadChunkIds, DeleteChunk, ReadDocId, DeleteDoc, RemoveSource,
           InsertChunk, ListChunk, ReadOldDoc, DeleteOldDoc, InsertDoc, ListDoc, DeleteFails, IndexFails
  <1>a. /\ s \in Sources /\ WorksOn(s) = {c} /\ answer[s].kind = "none"
        /\ Works(c) /\ Progress(c) /\ (s \notin partial => Counts(c))
    BY <1>f, <1>p, Alone
  <1>t. /\ rows \in Seq(Row) /\ Len(rows) \in Nat /\ DOMAIN rows = 1 .. Len(rows)
        /\ chunkIds[s] \in Seq(1 .. Len(rows)) /\ docIds[s] \in 0 .. Len(rows)
        /\ t.ids \in Seq(1 .. Len(rows)) /\ t.id \in 0 .. Len(rows) /\ t.next \in Nat
        /\ t.text \in Texts /\ t.hash \in Texts /\ ChunksOf[t.text] \in Nat
        /\ TaskOwns(c)
    BY <1>i, <1>a, Typed DEF Owned
  <1>0. Cardinality({}) = 0
    BY FS_EmptySet
  <1>1. CASE ReadStatus(c)
    <2>1. /\ UNCHANGED <<rows, chunkIds, docIds, answer, partial>>
          /\ After(c, IF docIds[s] = 0 THEN Indexing(t.text) ELSE "meta", t.ids, docIds[s], t.next)
          /\ t.pc = "status"
      BY <1>1, <1>i, ReadStatusEffect DEF ReadStatus
    <2>2. /\ task'[c].pc \in {"meta", Indexing(t.text)} /\ task'[c].src = s
          /\ task'[c].pc = "meta" <=> docIds[s] # 0
          /\ task'[c].id = docIds[s] /\ task'[c].next = t.next /\ task'[c].text = t.text
      BY <2>1 DEF After, Indexing
    <2>3. Kept(s) /\ OneDoc(s) /\ t.next = 0 /\ (s \notin partial => Told(s))
      BY <1>a, <2>1 DEF Works, Progress, Counts, Early
    <2>4. Works(c)'
      BY <2>1, <2>2, <2>3, SameView DEF Works, Indexing
    <2>5. Progress(c)'
      BY <1>t, <2>2, <2>3 DEF Progress, Listed, Indexing, Early, Late
    <2>6. s \notin partial' => Counts(c)'
      <3>1. LiveChunks(s)' = LiveChunks(s) /\ (Told(s)' <=> Told(s))
        BY <2>1, SameView
      <3>2. s \notin partial /\ docIds[s] = 0 => Cardinality(LiveChunks(s)) = 0
        BY <1>0, <2>3 DEF Told
      <3> QED BY <2>1, <2>2, <2>3, <3>1, <3>2 DEF Counts, Indexing, Late
    <2> QED BY <1>a, <1>f, <2>1, <2>2, <2>4, <2>5, <2>6, FineGoesOn DEF Indexing
  <1>2. CASE CheckStatus(c)
    <2>1. /\ UNCHANGED <<rows, chunkIds, docIds, partial>> /\ t.pc = "meta"
          /\ \/ task'[c].pc = "idle" /\ Answers(c, "skipped")
             \/ /\ After(c, IF rows[t.id].live THEN "ids" ELSE Indexing(t.text), t.ids, t.id, t.next)
                /\ UNCHANGED answer
      BY <1>2, <1>i, CheckStatusEffect DEF CheckStatus
    <2>2. Kept(s) /\ OneDoc(s) /\ t.id = docIds[s] /\ t.id # 0 /\ t.next = 0 /\ (s \notin partial => Told(s))
      BY <1>a, <1>t, <2>1 DEF Works, Progress, Counts, TaskOwns, Early
    <2>3. rows[t.id].live
      BY <2>2 DEF OneDoc, LiveDocs
    <2>4. CASE task'[c].pc = "idle" /\ Answers(c, "skipped")
      <3>1. AnswerHolds(s)'
        <4>1. answer'[s].kind = "skipped"
          BY <1>a, <1>i, <2>4, TypeParts DEF Answers
        <4> QED BY <4>1 DEF AnswerHolds
      <3> QED BY <1>a, <1>f, <2>1, <2>2, <2>4, <3>1, SameView, FineEnds
    <2>5. CASE After(c, "ids", t.ids, t.id, t.next) /\ UNCHANGED answer
      <3>1. task'[c].pc = "ids" /\ task'[c].src = s /\ task'[c].next = 0 /\ task'[c].text = t.text
        BY <2>2, <2>5 DEF After
      <3>2. Works(c)'
        BY <2>1, <2>2, <3>1, SameView DEF Works
      <3>3. Progress(c)'
        BY <3>1 DEF Progress, Listed, Early, Late
      <3>4. s \notin partial' => Counts(c)'
        BY <2>1, <2>2, <3>1, SameView DEF Counts, Late
      <3> QED BY <1>a, <1>f, <2>5, <3>1, <3>2, <3>3, <3>4, FineGoesOn
    <2> QED BY <2>1, <2>3, <2>4, <2>5
  <1>3. CASE ReadChunkIds(c)
    <2>1. /\ UNCHANGED <<rows, chunkIds, docIds, answer, partial>> /\ t.pc = "ids"
          /\ task'[c].pc = "rows" /\ task'[c].ids = chunkIds[s] /\ task'[c].src = s
          /\ task'[c].next = t.next /\ task'[c].text = t.text
      BY <1>3, <1>i, ReadChunkIdsEffect, ZenonT(30) DEF ReadChunkIds, After
    <2>2. Kept(s) /\ OneDoc(s) /\ t.next = 0
      BY <1>a, <2>1 DEF Works, Progress, Early
    <2>3. Works(c)'
      BY <2>1, <2>2, SameView DEF Works, Kept, IdsOf
    <2>4. Progress(c)'
      BY <2>1, <2>2 DEF Progress, Listed, Early, Late
    <2>5. Counts(c)'
      BY <2>1 DEF Counts, Late
    <2> QED BY <1>a, <1>f, <2>1, <2>3, <2>4, <2>5, FineGoesOn
  <1>4. CASE DeleteChunk(c)
    <2> DEFINE id == Head(t.ids)
    <2>1. /\ UNCHANGED <<chunkIds, docIds, answer, partial>> /\ t.pc = "rows" /\ t.ids # <<>>
          /\ task'[c].pc = "rows" /\ task'[c].ids = Tail(t.ids) /\ task'[c].src = s
          /\ task'[c].next = t.next /\ task'[c].text = t.text
          /\ Delete(id) /\ id \in DOMAIN rows /\ rows[id].src = s /\ ~rows[id].doc
      BY <1>4, <1>i, DeleteChunkEffect, OwnRow DEF DeleteChunk, After
    <2>2. /\ {t.ids[k] : k \in DOMAIN t.ids} = LiveChunks(s)
          /\ IsInjective(t.ids) /\ OneDoc(s) /\ t.next = 0
      BY <1>a, <2>1 DEF Works, Progress, Early
    <2>3. LiveChunks(s)' = LiveChunks(s) \ {id} /\ LiveDocs(s)' = LiveDocs(s)
      <3>1. id \notin LiveDocs(s)
        BY <2>1 DEF LiveDocs
      <3>2. id \in DOMAIN rows /\ Delete(id)
        BY <2>1
      <3> HIDE DEF id
      <3>3. LiveChunks(s)' = LiveChunks(s) \ {id} /\ LiveDocs(s)' = LiveDocs(s) \ {id}
        BY <1>t, <3>2, DeleteLive
      <3> QED BY <3>1, <3>3
    <2>4. /\ {Tail(t.ids)[k] : k \in DOMAIN Tail(t.ids)} = LiveChunks(s) \ {id}
          /\ IsInjective(Tail(t.ids))
      BY <1>t, <2>1, <2>2, TailInjective
    <2>5. Works(c)'
      <3>1. OneDoc(s)'
        BY <2>1, <2>2, <2>3 DEF OneDoc
      <3>2. IsInjective(task'[c].ids) /\ {task'[c].ids[k] : k \in DOMAIN task'[c].ids} = LiveChunks(s)'
        BY <2>1, <2>3, <2>4
      <3> QED BY <2>1, <3>1, <3>2 DEF Works
    <2>6. Progress(c)'
      BY <2>1, <2>2 DEF Progress, Listed, Early, Late
    <2>7. Counts(c)'
      BY <2>1 DEF Counts, Late
    <2> QED BY <1>a, <1>f, <2>1, <2>5, <2>6, <2>7, FineGoesOn
  <1>5. CASE ReadDocId(c)
    <2>1. /\ UNCHANGED <<rows, chunkIds, docIds, answer, partial>> /\ t.pc = "rows" /\ t.ids = <<>>
          /\ task'[c].pc = IF docIds[s] = 0 THEN "remove" ELSE "docrow"
          /\ task'[c].id = docIds[s] /\ task'[c].src = s
          /\ task'[c].next = t.next /\ task'[c].text = t.text
      BY <1>5, <1>i, ReadDocIdEffect DEF ReadDocId, After
    <2>2. LiveChunks(s) = {} /\ OneDoc(s) /\ t.next = 0
      BY <1>a, <2>1 DEF Works, Progress, Early
    <2>3. Works(c)'
      BY <2>1, <2>2, SameView DEF Works, OneDoc
    <2>4. Progress(c)'
      BY <2>1, <2>2 DEF Progress, Listed, Early, Late
    <2>5. Counts(c)'
      BY <2>1 DEF Counts, Late
    <2> QED BY <1>a, <1>f, <2>1, <2>3, <2>4, <2>5, FineGoesOn
  <1>6. CASE DeleteDoc(c)
    <2>1. /\ UNCHANGED <<chunkIds, docIds, answer, partial>> /\ t.pc = "docrow"
          /\ task'[c].pc = "remove" /\ task'[c].src = s
          /\ task'[c].next = t.next /\ task'[c].text = t.text
          /\ Delete(t.id) /\ t.id \in DOMAIN rows
      BY <1>6, <1>i, DeleteDocEffect, OwnRow DEF DeleteDoc, After
    <2>2. LiveChunks(s) = {} /\ OneDoc(s) /\ t.id = docIds[s] /\ t.next = 0
      BY <1>a, <2>1 DEF Works, Progress, Early
    <2>3. LiveChunks(s)' = {} /\ LiveDocs(s)' = {}
      BY <1>t, <2>1, <2>2, DeleteLive DEF OneDoc
    <2>4. Works(c)'
      BY <2>1, <2>3 DEF Works
    <2>5. Progress(c)'
      BY <2>1, <2>2 DEF Progress, Listed, Early, Late
    <2>6. Counts(c)'
      BY <2>1 DEF Counts, Late
    <2> QED BY <1>a, <1>f, <2>1, <2>4, <2>5, <2>6, FineGoesOn
  <1>7. CASE RemoveSource(c)
    <2>1. /\ UNCHANGED rows /\ t.pc = "remove" /\ chunkIds'[s] = <<>> /\ docIds'[s] = 0
          /\ \/ task'[c].pc = "idle" /\ Answers(c, "deleted")
             \/ After(c, Indexing(t.text), t.ids, t.id, t.next) /\ UNCHANGED answer
      BY <1>7, <1>i, RemoveSourceEffect DEF RemoveSource
    <2>2. LiveChunks(s)' = {} /\ LiveDocs(s)' = {} /\ t.next = 0
      BY <1>a, <2>1, SameLive DEF Works, Progress, Early
    <2>3. Kept(s)' /\ OneDoc(s)' /\ Told(s)'
      BY <2>1, <2>2 DEF Kept, OneDoc, Told, IdsOf, IsInjective
    <2>4. CASE task'[c].pc = "idle" /\ Answers(c, "deleted")
      <3>1. AnswerHolds(s)'
        <4>1. answer'[s].kind = "deleted"
          BY <1>a, <1>i, <2>4, TypeParts DEF Answers
        <4> QED BY <2>2, <4>1 DEF AnswerHolds
      <3> QED BY <1>a, <1>f, <2>3, <2>4, <3>1, FineEnds
    <2>5. CASE After(c, Indexing(t.text), t.ids, t.id, t.next) /\ UNCHANGED answer
      <3>1. /\ task'[c].pc = Indexing(t.text) /\ task'[c].src = s /\ task'[c].next = 0
            /\ task'[c].text = t.text
        BY <2>2, <2>5 DEF After
      <3>2. Works(c)'
        BY <2>1, <2>3, <3>1 DEF Works, Indexing
      <3>3. Progress(c)'
        BY <1>t, <3>1 DEF Progress, Listed, Indexing, Early, Late
      <3>4. Counts(c)'
        BY <1>0, <2>2, <3>1 DEF Counts, Indexing, Late
      <3> QED BY <1>a, <1>f, <2>5, <3>1, <3>2, <3>3, <3>4, FineGoesOn DEF Indexing
    <2> QED BY <2>1, <2>4, <2>5
  <1>8. CASE InsertChunk(c)
    <2> DEFINE row == Chunk(s, t.text, t.next)
    <2>1. /\ UNCHANGED <<chunkIds, docIds, answer, partial>> /\ t.pc = "insert"
          /\ task'[c].pc = "list" /\ task'[c].id = NewId /\ task'[c].src = s
          /\ task'[c].next = t.next /\ task'[c].text = t.text
          /\ Insert(row) /\ row \in Row /\ row.live /\ ~row.doc /\ row.src = s
      BY <1>8, <1>i, InsertChunkEffect DEF InsertChunk, After, Chunk
    <2> HIDE DEF row
    <2>2. /\ Kept(s) /\ OneDoc(s) /\ docIds[s] = 0 /\ Listed(s, t.text, t.next)
          /\ t.next < ChunksOf[t.text] /\ (s \notin partial => Cardinality(LiveChunks(s)) = t.next)
      BY <1>a, <2>1 DEF Works, Progress, Counts
    <2>3. /\ NewId \notin DOMAIN rows /\ rows'[NewId] = row /\ \A i \in DOMAIN rows : rows'[i] = rows[i]
          /\ LiveChunks(s)' = LiveChunks(s) \cup {NewId} /\ LiveDocs(s)' = LiveDocs(s)
      BY <1>t, <2>1, InsertEffect, InsertLive, ZenonT(30)
    <2>4. IdsOf(s)' = IdsOf(s) /\ \A i \in IdsOf(s) : i \in DOMAIN rows
      BY <1>a, <1>i, <2>1, IdsType DEF IdsOf
    <2>5. Works(c)'
      BY <2>1, <2>2, <2>3, <2>4 DEF Works, Kept, OneDoc
    <2>6. Progress(c)'
      BY <2>1, <2>2, <2>3, <2>4 DEF Progress, Listed, Early, Late, row
    <2>7. s \notin partial' => Counts(c)'
      <3>1. NewId \notin LiveChunks(s)
        BY <2>3 DEF LiveChunks
      <3>2. Cardinality(LiveChunks(s)') = Cardinality(LiveChunks(s)) + 1
        BY <1>a, <1>i, <2>3, <3>1, CountOneMore
      <3> QED BY <2>1, <2>2, <3>2 DEF Counts, Late
    <2> QED BY <1>a, <1>f, <2>1, <2>5, <2>6, <2>7, FineGoesOn
  <1>9. CASE ListChunk(c)
    <2>1. /\ UNCHANGED <<rows, docIds, answer, partial>> /\ t.pc = "list"
          /\ chunkIds'[s] = Append(chunkIds[s], t.id)
          /\ task'[c].pc = IF t.next + 1 < ChunksOf[t.text] THEN "insert" ELSE "flush"
          /\ task'[c].next = t.next + 1 /\ task'[c].src = s /\ task'[c].text = t.text
      BY <1>9, <1>i, ListChunkEffect DEF ListChunk, After
    <2>2. /\ LiveChunks(s) = IdsOf(s) \cup {t.id} /\ t.id \notin IdsOf(s)
          /\ IsInjective(chunkIds[s]) /\ OneDoc(s) /\ docIds[s] = 0
          /\ Listed(s, t.text, t.next) /\ rows[t.id] = Chunk(s, t.text, t.next)
          /\ t.next < ChunksOf[t.text] /\ (s \notin partial => Cardinality(LiveChunks(s)) = t.next + 1)
      BY <1>a, <2>1 DEF Works, Progress, Counts
    <2>3. LiveChunks(s)' = LiveChunks(s) /\ LiveDocs(s)' = LiveDocs(s) /\ t.id \in 1 .. Len(rows)
      BY <1>t, <2>1, SameLive DEF TaskOwns
    <2>4. IdsOf(s)' = IdsOf(s) \cup {t.id} /\ IsInjective(chunkIds'[s])
      <3> DEFINE l == chunkIds[s]
      <3> HIDE DEF l
      <3>1. l \in Seq(1 .. Len(rows)) /\ IsInjective(l) /\ t.id \notin {l[k] : k \in DOMAIN l}
        BY <1>t, <2>2 DEF IdsOf, l
      <3>2. /\ {Append(l, t.id)[k] : k \in DOMAIN Append(l, t.id)} = {l[k] : k \in DOMAIN l} \cup {t.id}
            /\ IsInjective(Append(l, t.id))
        BY <2>3, <3>1, AppendInjectiveIds
      <3>3. chunkIds'[s] = Append(l, t.id)
        BY <2>1 DEF l
      <3>4. IdsOf(s) = {l[k] : k \in DOMAIN l}
        BY DEF IdsOf, l
      <3> QED BY <3>2, <3>3, <3>4 DEF IdsOf
    <2>5. Works(c)'
      BY <2>1, <2>2, <2>3, <2>4 DEF Works, Kept, OneDoc
    <2>6. Listed(s, t.text, t.next + 1)'
      <3> SUFFICES ASSUME NEW n \in 0 .. t.next PROVE \E i \in IdsOf(s)' : rows'[i] = Chunk(s, t.text, n)
        BY <1>t DEF Listed
      <3>1. CASE n = t.next
        BY <2>1, <2>2, <2>4, <3>1
      <3>2. CASE n \in 0 .. t.next - 1
        BY <2>1, <2>2, <2>4, <3>2 DEF Listed
      <3> QED BY <1>t, <3>1, <3>2
    <2>7. Progress(c)'
      BY <1>t, <2>1, <2>2, <2>6 DEF Progress, Early, Late
    <2>8. s \notin partial' => Counts(c)'
      BY <2>1, <2>2, <2>3 DEF Counts, Late
    <2> QED BY <1>a, <1>f, <2>1, <2>5, <2>7, <2>8, FineGoesOn
  <1>10. CASE ReadOldDoc(c)
    <2>1. /\ UNCHANGED <<rows, chunkIds, docIds, answer, partial>> /\ t.pc \in {"flush", "upsert"}
          /\ task'[c].pc = IF docIds[s] = 0 THEN "doc" ELSE "olddoc"
          /\ task'[c].src = s /\ task'[c].next = t.next /\ task'[c].text = t.text
      BY <1>10, <1>i, ReadOldDocEffect DEF ReadOldDoc, After
    <2>2. /\ Kept(s) /\ OneDoc(s) /\ docIds[s] = 0 /\ Listed(s, t.text, t.next)
          /\ t.next = ChunksOf[t.text] /\ (s \notin partial => Cardinality(LiveChunks(s)) = t.next)
      BY <1>a, <2>1 DEF Works, Progress, Counts, Late
    <2>3. LiveDocs(s)' = {} /\ Kept(s)' /\ LiveChunks(s)' = LiveChunks(s) /\ docIds'[s] = 0
      BY <2>1, <2>2, SameView DEF OneDoc
    <2>4. Works(c)'
      BY <2>1, <2>2, <2>3 DEF Works
    <2>5. Progress(c)'
      BY <2>1, <2>2, SameView DEF Progress, Early, Late
    <2>6. s \notin partial' => Counts(c)'
      BY <2>1, <2>2, <2>3 DEF Counts, Late
    <2> QED BY <1>a, <1>f, <2>1, <2>4, <2>5, <2>6, FineGoesOn
  <1>11. CASE DeleteOldDoc(c)
    BY <1>11, <1>a DEF DeleteOldDoc, Works
  <1>12. CASE InsertDoc(c)
    <2> DEFINE row == DocEntry(s, t.hash, ChunksOf[t.text])
    <2>1. /\ UNCHANGED <<chunkIds, docIds, answer, partial>> /\ t.pc = "doc"
          /\ task'[c].pc = "listdoc" /\ task'[c].id = NewId /\ task'[c].src = s
          /\ task'[c].next = t.next /\ task'[c].text = t.text /\ task'[c].hash = t.hash
          /\ Insert(row) /\ row \in Row /\ row.live /\ row.doc /\ row.src = s
      BY <1>12, <1>i, InsertDocEffect DEF InsertDoc, After, DocEntry
    <2> HIDE DEF row
    <2>2. /\ Kept(s) /\ LiveDocs(s) = {} /\ docIds[s] = 0 /\ Listed(s, t.text, t.next)
          /\ t.next = ChunksOf[t.text] /\ (s \notin partial => Cardinality(LiveChunks(s)) = t.next)
      BY <1>a, <2>1 DEF Works, Progress, Counts, Late
    <2>3. /\ rows'[NewId] = row /\ \A i \in DOMAIN rows : rows'[i] = rows[i]
          /\ LiveChunks(s)' = LiveChunks(s) /\ LiveDocs(s)' = LiveDocs(s) \cup {NewId}
      BY <1>t, <2>1, InsertEffect, InsertLive
    <2>4. IdsOf(s)' = IdsOf(s) /\ \A i \in IdsOf(s) : i \in DOMAIN rows
      BY <1>a, <1>i, <2>1, IdsType DEF IdsOf
    <2>5. Works(c)'
      BY <2>1, <2>2, <2>3, <2>4 DEF Works, Kept
    <2>6. Progress(c)'
      BY <2>1, <2>2, <2>3, <2>4 DEF Progress, Listed, Early, Late, row
    <2>7. s \notin partial' => Counts(c)'
      BY <2>1, <2>2, <2>3 DEF Counts, Late
    <2> QED BY <1>a, <1>f, <2>1, <2>5, <2>6, <2>7, FineGoesOn
  <1>13. CASE ListDoc(c)
    <2>1. /\ UNCHANGED <<rows, chunkIds>> /\ t.pc = "listdoc" /\ docIds'[s] = t.id /\ t.id \in DOMAIN rows
          /\ task'[c].pc = "idle" /\ Answers(c, "indexed")
          /\ partial' = IF t.hash = t.text THEN partial ELSE partial \cup {s}
      BY <1>13, <1>i, ListDocEffect DEF ListDoc
    <2>2. /\ Kept(s) /\ LiveDocs(s) = {t.id} /\ Listed(s, t.text, t.next)
          /\ rows[t.id] = DocEntry(s, t.hash, ChunksOf[t.text])
          /\ t.next = ChunksOf[t.text] /\ (s \notin partial => Cardinality(LiveChunks(s)) = t.next)
      BY <1>a, <2>1 DEF Works, Progress, Counts, Late
    <2>3. t.id # 0 /\ rows[t.id].live /\ rows[t.id].text = t.hash /\ rows[t.id].n = ChunksOf[t.text]
      BY <1>t, <2>1, <2>2 DEF DocEntry
    <2>4. Kept(s)' /\ OneDoc(s)' /\ LiveChunks(s)' = LiveChunks(s) /\ Listed(s, t.text, t.next)'
      BY <2>1, <2>2, <2>3, SameView DEF OneDoc
    <2>5. AnswerHolds(s)'
      <3>1. answer'[s] = [kind |-> "indexed", text |-> t.text, hash |-> t.hash]
        BY <1>a, <1>i, <2>1, TypeParts DEF Answers
      <3> QED BY <2>1, <2>2, <2>3, <2>4, <3>1 DEF AnswerHolds
    <2>6. s \notin partial' => Told(s)'
      BY <2>1, <2>2, <2>3, <2>4 DEF Told
    <2> QED BY <1>a, <1>f, <2>1, <2>4, <2>5, <2>6, FineEnds
  <1>14. CASE DeleteFails(c)
    BY <1>14, <1>i, DeleteFailsEffect
  <1>15. CASE IndexFails(c)
    <2>1. /\ UNCHANGED <<rows, chunkIds, docIds, answer>> /\ t.pc \in {"insert", "doc", "flush"}
          /\ task'[c].pc = "idle" /\ s \in partial'
      BY <1>15, <1>i, IndexFailsEffect
    <2>2. Kept(s) /\ OneDoc(s)
      BY <1>a, <2>1 DEF Works, OneDoc
    <2>3. Kept(s)' /\ OneDoc(s)'
      BY <2>1, <2>2, SameView
    <2>4. AnswerHolds(s)'
      BY <1>a, <2>1 DEF AnswerHolds
    <2> QED BY <1>a, <1>f, <2>1, <2>3, <2>4, FineEnds
  <1> QED
    BY <1>1, <1>2, <1>3, <1>4, <1>5, <1>6, <1>7, <1>8, <1>9, <1>10, <1>11, <1>12, <1>13, <1>14, <1>15
       DEF Step

\* A new request about a source that nobody works on finds it as the last one left it.
LEMMA FineRequest ==
    ASSUME RagInv, NEW c \in Clients, NEW kind \in {"index", "delete"}, NEW s \in Sources,
           NEW text \in Texts, NEW hash \in Texts, Begin(c, kind, s, text, hash), s \notin tainted'
    PROVE  Fine(s)'
  <1>1. /\ RagTypeOK' /\ Frame(c, s) /\ UNCHANGED <<rows, chunkIds, docIds, partial>>
        /\ answer'[s] = NoAnswer /\ tainted' = IF WorksOn(s) = {} THEN tainted ELSE tainted \cup {s}
        /\ task'[c].pc \in {"status", "ids"} /\ task'[c].src = s /\ task'[c].next = 0
    BY BeginEffect DEF RagInv
  <1>2. WorksOn(s) = {} /\ s \notin tainted
    BY <1>1
  <1>3. Kept(s) /\ OneDoc(s) /\ (s \notin partial => Told(s))
    BY <1>2 DEF RagInv, Fine
  <1>4. Kept(s)' /\ OneDoc(s)' /\ (s \notin partial' => Told(s)')
    BY <1>1, <1>3, SameView
  <1>5. Works(c)'
    BY <1>1, <1>4 DEF Works
  <1>6. Progress(c)'
    BY <1>1 DEF Progress, Listed, Early, Late
  <1>7. s \notin partial' => Counts(c)'
    BY <1>1, <1>4 DEF Counts, Late
  <1>8. answer'[s].kind = "none"
    BY <1>1 DEF NoAnswer
  <1> QED BY <1>1, <1>2, <1>5, <1>6, <1>7, <1>8, FineGoesOn

\* A source that is not tainted has at most one live document entry, at every await.
LEMMA AtMostOneDoc ==
    ASSUME RagInv, NEW s \in Sources \ tainted, NEW i \in LiveDocs(s), NEW j \in LiveDocs(s)
    PROVE  i = j
  <1>1. Fine(s)
    BY DEF RagInv
  <1>2. CASE WorksOn(s) = {}
    BY <1>1, <1>2 DEF Fine, OneDoc
  <1>3. ASSUME NEW c \in WorksOn(s) PROVE i = j
    <2>1. Works(c) /\ c \in Clients /\ task[c].pc # "idle" /\ task[c].src = s
      BY <1>1, <1>3 DEF Fine, WorksOn
    <2>2. task[c].pc \in States
      BY <2>1, Typed DEF RagInv
    <2> QED BY <2>1, <2>2 DEF Works, OneDoc, States
  <1> QED BY <1>2, <1>3

\* A start lists what is there, also after overlapping requests and failed deletes.
LEMMA FineRestart ==
    ASSUME RagInv, Restart, NEW s \in Sources \ tainted'
    PROVE  Fine(s)'
  <1> DEFINE l == Ascending(RebuiltChunks(s))
  <1>1. /\ rows' = rows /\ chunkIds'[s] = l /\ docIds'[s] = RebuiltDoc(s)
        /\ \A c \in Clients : task'[c] = NoTask
        /\ partial' = partial \cup tainted \cup {r \in Sources : WorksOn(r) # {}}
        /\ answer'[s] = IF s \in tainted THEN NoAnswer ELSE answer[s]
        /\ s \in tainted => ~(Cardinality(LiveDocs(s)) > 1)
    BY DEF Restart
  <1>2. /\ IsFiniteSet(LiveDocs(s)) /\ LiveDocs(s) \subseteq 1 .. Len(rows) /\ Len(rows) \in Nat
        /\ {l[k] : k \in DOMAIN l} = LiveChunks(s) /\ IsInjective(l)
        /\ LiveDocs(s) = {} => RebuiltDoc(s) = 0
        /\ LiveDocs(s) # {} => RebuiltDoc(s) \in LiveDocs(s)
    BY RebuildFacts, TypeParts DEF RagInv
  <1> HIDE DEF l
  <1>3. LiveChunks(s)' = LiveChunks(s) /\ LiveDocs(s)' = LiveDocs(s) /\ WorksOn(s)' = {}
    <2>1. WorksOn(s)' = {}
      BY <1>1 DEF WorksOn, NoTask
    <2> QED BY <1>1, <2>1, SameLive
  <1>4. Kept(s)'
    BY <1>1, <1>2, <1>3 DEF Kept, IdsOf
  <1>5. LiveDocs(s) = {RebuiltDoc(s)} \ {0}
    <2>1. ASSUME NEW i \in LiveDocs(s), NEW j \in LiveDocs(s) PROVE i = j
      <3>1. CASE s \in tainted
        <4>1. Cardinality(LiveDocs(s)) \in Nat /\ Cardinality(LiveDocs(s)) <= 1
          BY <1>1, <1>2, <3>1, FS_CardinalityType
        <4>2. {i, j} \subseteq LiveDocs(s) /\ IsFiniteSet({i, j})
          BY <1>2, FS_Subset
        <4>3. Cardinality({i, j}) <= Cardinality(LiveDocs(s)) /\ Cardinality({i, j}) \in Nat
          BY <1>2, <4>2, FS_Subset, FS_CardinalityType
        <4>4. i # j => Cardinality({i, j}) = 2
          <5>1. Cardinality({i}) = 1 /\ IsFiniteSet({i})
            BY FS_Singleton
          <5>2. i # j => Cardinality({i} \cup {j}) = 1 + 1
            BY <5>1, FS_AddElement
          <5>3. {i} \cup {j} = {i, j}
            OBVIOUS
          <5> QED BY <5>2, <5>3
        <4> QED BY <4>1, <4>3, <4>4
      <3>2. CASE s \notin tainted
        BY <3>2, AtMostOneDoc
      <3> QED BY <3>1, <3>2
    <2>2. 0 \notin LiveDocs(s)
      BY <1>2
    <2> QED BY <1>2, <2>1, <2>2
  <1>6. OneDoc(s)'
    BY <1>1, <1>3, <1>5 DEF OneDoc
  <1>7. CASE s \in tainted
    <2>1. s \in partial' /\ answer'[s].kind = "none"
      BY <1>1, <1>7 DEF NoAnswer
    <2> QED BY <1>3, <1>4, <1>6, <2>1 DEF Fine, AnswerHolds
  <1>8. CASE s \notin tainted
    <2>1. Fine(s) /\ answer'[s] = answer[s]
      BY <1>1, <1>8 DEF RagInv
    <2>2. CASE WorksOn(s) # {}
      <3>1. s \in partial' /\ answer'[s].kind = "none"
        BY <1>1, <2>1, <2>2 DEF Fine
      <3> QED BY <1>3, <1>4, <1>6, <3>1 DEF Fine, AnswerHolds
    <2>3. CASE WorksOn(s) = {}
      <3>1. Kept(s) /\ OneDoc(s) /\ (s \notin partial => Told(s)) /\ AnswerHolds(s)
        BY <2>1, <2>3 DEF Fine
      <3>2. IdsOf(s)' = IdsOf(s)
        BY <1>3, <1>4, <3>1 DEF Kept
      <3>3. docIds'[s] = docIds[s]
        <4>1. docIds[s] \in 0 .. Len(rows) /\ RebuiltDoc(s) \in 0 .. Len(rows)
          BY TypeParts, RebuildFacts DEF RagInv
        <4>2. {RebuiltDoc(s)} \ {0} = {docIds[s]} \ {0}
          BY <1>5, <3>1 DEF OneDoc
        <4>3. \A x : (x = RebuiltDoc(s) /\ x # 0) <=> (x = docIds[s] /\ x # 0)
          BY <4>2
        <4>4. RebuiltDoc(s) = docIds[s]
          BY <4>3
        <4> QED BY <1>1, <4>4
      <3>4. \A text, count : Listed(s, text, count)' <=> Listed(s, text, count)
        BY <1>1, <3>2 DEF Listed
      <3>5. AnswerHolds(s)'
        BY <1>1, <1>3, <2>1, <3>1, <3>3, <3>4 DEF AnswerHolds
      <3>6. s \notin partial' => Told(s)'
        BY <1>1, <1>3, <3>1, <3>3, <3>4 DEF Told
      <3> QED BY <1>3, <1>4, <1>6, <3>5, <3>6 DEF Fine
    <2> QED BY <2>2, <2>3
  <1> QED BY <1>7, <1>8

\* Nothing happens.
LEMMA FineStutter ==
    ASSUME UNCHANGED vars, NEW s, Fine(s)
    PROVE  Fine(s)'
  <1>1. /\ WorksOn(s)' = WorksOn(s) /\ IdsOf(s)' = IdsOf(s)
        /\ LiveChunks(s)' = LiveChunks(s) /\ LiveDocs(s)' = LiveDocs(s)
    BY DEF WorksOn, IdsOf, LiveChunks, LiveDocs
  <1>2. (Kept(s)' <=> Kept(s)) /\ (OneDoc(s)' <=> OneDoc(s))
    BY <1>1 DEF Kept, OneDoc
  <1>3. \A text, count : Listed(s, text, count)' <=> Listed(s, text, count)
    BY <1>1 DEF Listed
  <1>4. (Told(s)' <=> Told(s)) /\ (AnswerHolds(s)' <=> AnswerHolds(s))
    BY <1>1, <1>3 DEF Told, AnswerHolds
  <1>5. ASSUME NEW c \in WorksOn(s)
        PROVE  (Works(c)' <=> Works(c)) /\ (Progress(c)' <=> Progress(c)) /\ (Counts(c)' <=> Counts(c))
    <2>1. task[c].src = s /\ task' = task
      BY DEF WorksOn
    <2>2. Works(c)' <=> Works(c)
      BY <1>1, <1>2, <2>1 DEF Works
    <2>3. Progress(c)' <=> Progress(c)
      BY <1>3, <2>1 DEF Progress
    <2>4. Counts(c)' <=> Counts(c)
      BY <1>1, <1>4, <2>1 DEF Counts
    <2> QED BY <2>2, <2>3, <2>4
  <1> QED BY <1>1, <1>2, <1>4, <1>5 DEF Fine

\* The whole invariant is inductive.
LEMMA RagInvNext == RagInv /\ [Next]_vars => RagInv'
  <1> SUFFICES ASSUME RagInv, [Next]_vars PROVE RagInv'
    OBVIOUS
  <1>1. RagTypeOK /\ Owned /\ RagTypeOK' /\ Owned'
    BY OwnedNext DEF RagInv
  <1>2. SUFFICES ASSUME NEW s \in Sources \ tainted' PROVE Fine(s)'
    BY <1>1 DEF RagInv
  <1>3. CASE Restart
    BY <1>3, FineRestart
  <1>4. CASE UNCHANGED vars
    BY <1>4, FineStutter DEF RagInv
  <1>5. ASSUME NEW c \in Clients, Request(c) PROVE Fine(s)'
    <2>1. PICK kind \in {"index", "delete"}, r \in Sources, text \in Texts, hash \in Texts :
             Begin(c, kind, r, text, hash)
      BY <1>5 DEF Request
    <2>2. CASE s = r
      BY <2>1, <2>2, FineRequest
    <2>3. CASE s # r
      <3>1. Frame(c, r)
        BY <1>1, <2>1, BeginEffect
      <3>2. Fine(s)
        BY <2>3, <3>1 DEF RagInv, Frame
      <3> QED BY <1>1, <2>3, <3>1, <3>2, FineFrame
    <2> QED BY <2>2, <2>3
  <1>6. ASSUME NEW c \in Clients, Step(c) PROVE Fine(s)'
    <2> DEFINE r == Src(c)
               u == task[c]
    <2>1. CASE s = r
      BY <1>6, <2>1, FineStep
    <2>2. CASE s # r
      <3>1. Frame(c, task[c].src)
        BY <1>1, <1>6, OwnedStep
      <3>2. Fine(s)
        BY <2>2, <3>1 DEF RagInv, Frame
      <3> QED BY <1>1, <2>2, <3>1, <3>2, FineFrame
    <2> QED BY <2>1, <2>2
  <1> QED BY <1>3, <1>4, <1>5, <1>6 DEF Next

-----------------------------------------------------------------------------
(* What a client of the server relies on. *)

\* At every await of every request the maps, the rows and the local variables of the
\* requests agree about every source that no two requests worked on at once.
THEOREM RagInvHolds == Spec => []RagInv
  <1>1. Init => RagInv
    BY RagInvInit
  <1>2. RagInv /\ [Next]_vars => RagInv'
    BY RagInvNext
  <1> QED BY <1>1, <1>2, PTL DEF Spec

\* Between requests the maps of MetadataIndex list exactly the live rows of a source, each
\* once, whatever failed or crashed before.
THEOREM ListsLiveRows == Spec => []LiveRowsListed
  <1>1. RagInv => LiveRowsListed
    BY DEF RagInv, Fine, Kept, OneDoc, LiveRowsListed, Quiet
  <1> QED BY <1>1, RagInvHolds, PTL

\* After index_file or index_text answered "indexed", every chunk of the text is a listed
\* row and the document entry has its hash, until the next request about the source.
THEOREM IndexedStays == Spec => []IndexedIsThere
  <1>1. RagInv => IndexedIsThere
    BY DEF RagInv, Fine, AnswerHolds, Listed, IndexedIsThere, Present
  <1> QED BY <1>1, RagInvHolds, PTL

\* After delete_source answered, no live row of the source is left.
THEOREM DeletedStaysGone == Spec => []DeletedIsGone
  <1>1. RagInv => DeletedIsGone
    BY DEF RagInv, Fine, AnswerHolds, DeletedIsGone
  <1> QED BY <1>1, RagInvHolds, PTL

\* Between requests document_status reports the hash whose chunks are there and their
\* number.
THEOREM StatusTellsTruth == Spec => []StatusIsTrue
  <1>1. RagInv => StatusIsTrue
    BY DEF RagInv, Fine, Told, Listed, StatusIsTrue, Present, Quiet
  <1> QED BY <1>1, RagInvHolds, PTL
=============================================================================
