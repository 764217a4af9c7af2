-------------------------- MODULE VectorStoreProofs --------------------------
(***************************************************************************)
(* Proofs about VectorStore: its types, the count of the deleted rows, and *)
(* that readers see what a crash would recover.                            *)
(***************************************************************************)
EXTENDS VectorStore, OrderLemmas

(***************************************************************************)
(* Metadata and entries                                                    *)
(***************************************************************************)
\* Row numbers are numbers.
LEMMA IdsAreNumbers == Ids \subseteq Nat /\ Len(<<>>) \in Ids
  BY StoreBoundsAssumption DEF Ids

\* The members of Metas, one by one.
LEMMA MetasType ==
    ASSUME NEW m
    PROVE  m \in Metas <=> /\ m = [i \in DOMAIN m |-> m[i]]
                           /\ DOMAIN m \subseteq Ids
                           /\ \A i \in DOMAIN m : m[i] \in [del : BOOLEAN, data : Data]
  <1>1. ASSUME m \in Metas
        PROVE  /\ m = [i \in DOMAIN m |-> m[i]] /\ DOMAIN m \subseteq Ids
               /\ \A i \in DOMAIN m : m[i] \in [del : BOOLEAN, data : Data]
    <2>1. PICK ids \in SUBSET Ids : m \in [ids -> [del : BOOLEAN, data : Data]]
      BY <1>1 DEF Metas
    <2> QED BY <2>1
  <1>2. ASSUME m = [i \in DOMAIN m |-> m[i]], DOMAIN m \subseteq Ids,
               \A i \in DOMAIN m : m[i] \in [del : BOOLEAN, data : Data]
        PROVE  m \in Metas
    <2>1. m \in [DOMAIN m -> [del : BOOLEAN, data : Data]]
      BY <1>2
    <2>2. DOMAIN m \in SUBSET Ids
      BY <1>2
    <2> QED BY <2>1, <2>2 DEF Metas
  <1> QED BY <1>1, <1>2

\* What put does: it keeps the metadata well formed and decides the entry of one row.
PutIs(p, m, id, del, d) ==
    /\ p \in Metas /\ DOMAIN p = DOMAIN m \cup {id}
    /\ IsDeleted(p, id) <=> del
    /\ p[id].data = d
    /\ \A i : i # id => (IsDeleted(p, i) <=> IsDeleted(m, i))
    /\ \A rs, i : i # id => Entry(rs, p, i) = Entry(rs, m, i)

\* Put does that.
LEMMA PutFacts == \A m \in Metas, id \in Ids, del \in BOOLEAN, d \in Data :
                      PutIs(Put(m, id, del, d), m, id, del, d)
  <1> SUFFICES ASSUME NEW m \in Metas, NEW id \in Ids, NEW del \in BOOLEAN, NEW d \in Data
               PROVE  PutIs(Put(m, id, del, d), m, id, del, d)
    OBVIOUS
  <1> DEFINE p == Put(m, id, del, d)
             e == [del |-> del, data |-> d]
  <1>1. /\ DOMAIN m \subseteq Ids
        /\ \A i \in DOMAIN m : m[i] \in [del : BOOLEAN, data : Data]
    BY MetasType
  <1>2. /\ DOMAIN p = DOMAIN m \cup {id} /\ p[id] = e
        /\ \A i \in DOMAIN m : i # id => p[i] = m[i]
        /\ p = [i \in DOMAIN m \cup {id} |-> p[i]]
    BY DEF Put
  <1>3. e \in [del : BOOLEAN, data : Data] /\ e.del = del /\ e.data = d
    OBVIOUS
  <1> HIDE DEF p, e
  <1>4. p \in Metas
    <2>1. \A i \in DOMAIN p : p[i] \in [del : BOOLEAN, data : Data]
      BY <1>1, <1>2, <1>3
    <2>2. DOMAIN p \subseteq Ids /\ p = [i \in DOMAIN p |-> p[i]]
      BY <1>1, <1>2
    <2> QED BY <2>1, <2>2, MetasType
  <1>5. (IsDeleted(p, id) <=> del) /\ p[id].data = d
    BY <1>2, <1>3 DEF IsDeleted
  <1>6. ASSUME NEW i, i # id
        PROVE  IsDeleted(p, i) <=> IsDeleted(m, i)
    BY <1>2, <1>6 DEF IsDeleted
  <1>7. ASSUME NEW rs, NEW i, i # id
        PROVE  Entry(rs, p, i) = Entry(rs, m, i)
    <2>1. IsDeleted(p, i) <=> IsDeleted(m, i)
      BY <1>6, <1>7
    <2>2. ~IsDeleted(m, i) => p[i] = m[i]
      BY <1>2, <1>7 DEF IsDeleted
    <2> QED BY <2>1, <2>2 DEF Entry
  <1> QED BY <1>2, <1>4, <1>5, <1>6, <1>7 DEF p, PutIs

\* The same for a flag that is known.
LEMMA PutKnown ==
    ASSUME NEW m \in Metas, NEW id \in Ids, NEW d \in Data, NEW kind
    PROVE  /\ kind # "delete" => PutIs(Put(m, id, FALSE, d), m, id, kind = "delete", d)
           /\ kind = "delete" => PutIs(Put(m, id, TRUE, d), m, id, kind = "delete", d)
  <1>1. FALSE \in BOOLEAN /\ TRUE \in BOOLEAN
    OBVIOUS
  <1>2. PutIs(Put(m, id, FALSE, d), m, id, FALSE, d) /\ PutIs(Put(m, id, TRUE, d), m, id, TRUE, d)
    BY <1>1, PutFacts
  <1> QED BY <1>2 DEF PutIs

\* A row that is there is not the mark of a row that is gone.
LEMMA RowIsNotGone == \A v, d : [vec |-> v, data |-> d] # Gone
  <1> SUFFICES ASSUME NEW v, NEW d, [vec |-> v, data |-> d] = Gone PROVE FALSE
    OBVIOUS
  <1>1. "vec" \in DOMAIN [vec |-> v, data |-> d]
    OBVIOUS
  <1>2. DOMAIN Gone = {"deleted"}
    BY DEF Gone
  <1> QED BY <1>1, <1>2

\* The entry of a row says whether it is deleted, and which data it has.
LEMMA EntryFacts ==
    ASSUME NEW rs, NEW m, NEW i
    PROVE  /\ Entry(rs, m, i) = Gone <=> IsDeleted(m, i)
           /\ ~IsDeleted(m, i) => Entry(rs, m, i) = [vec |-> rs[i + 1], data |-> m[i].data]
  BY RowIsNotGone DEF Entry

\* Two entries that are equal are of rows that are both deleted, or both live with the
\* same data.
LEMMA SameEntry ==
    ASSUME NEW rs, NEW m, NEW i, NEW qs, NEW q, Entry(rs, m, i) = Entry(qs, q, i)
    PROVE  /\ IsDeleted(m, i) <=> IsDeleted(q, i)
           /\ ~IsDeleted(m, i) => rs[i + 1] = qs[i + 1] /\ m[i].data = q[i].data
  <1>1. IsDeleted(m, i) <=> IsDeleted(q, i)
    BY EntryFacts
  <1>2. ASSUME ~IsDeleted(m, i)
        PROVE  rs[i + 1] = qs[i + 1] /\ m[i].data = q[i].data
    <2> DEFINE a == [vec |-> rs[i + 1], data |-> m[i].data]
               b == [vec |-> qs[i + 1], data |-> q[i].data]
    <2>1. a = b
      BY <1>1, <1>2, EntryFacts
    <2>2. a.vec = b.vec /\ a.data = b.data
      BY <2>1
    <2> QED BY <2>2
  <1> QED BY <1>1, <1>2

(***************************************************************************)
(* The replay of a log                                                     *)
(***************************************************************************)
\* The log as recovery reads it: only operations.
Logged == [kind : {"insert", "update", "delete"}, id : Ids, vec : Vectors, data : Data]

\* Record j is the last one about its row, or the only one.
IsLast(L, j) == j \in DOMAIN L /\ \A k \in DOMAIN L : k > j => L[k].id # L[j].id
IsSole(L, j) == j \in DOMAIN L /\ \A k \in DOMAIN L : k # j => L[k].id # L[j].id

\* No record among the first k is about row i.
Untouched(L, k, i) == \A j \in DOMAIN L : j <= k => L[j].id # i

\* What a record leaves of its row, whatever it finds there.
Result(r) == IF r.kind = "delete" THEN Gone ELSE [vec |-> r.vec, data |-> r.data]

\* The log and the files fit: only the last record may be about a row that is not in the
\* vector file yet; an insert is the first record about its row, a delete the last; a row
\* whose first record is an update is live in the metadata file; and an insert with no
\* record after it has its vector in the file, and its data, if the metadata has it live.
LogRows(L, R) == \A k \in DOMAIN L :
    \/ L[k].id < Len(R)
    \/ L[k].id = Len(R) /\ L[k].kind = "insert" /\ k = Len(L)
InsertIsFirst(L) == \A j, k \in DOMAIN L : j < k /\ L[k].kind = "insert" => L[j].id # L[k].id
DeleteIsFinal(L) == \A j, k \in DOMAIN L : j < k /\ L[j].kind = "delete" => L[j].id # L[k].id
UpdatesLive(L, M) == \A k \in DOMAIN L : L[k].kind = "update" =>
    \/ ~IsDeleted(M, L[k].id)
    \/ \E j \in DOMAIN L : L[j].id = L[k].id /\ L[j].kind \in {"insert", "delete"}
InsertIsThere(L, R, M) == \A k \in DOMAIN L :
    L[k].kind = "insert" /\ IsSole(L, k) /\ L[k].id < Len(R) =>
        /\ R[L[k].id + 1] = L[k].vec
        /\ ~IsDeleted(M, L[k].id) => M[L[k].id].data = L[k].data

LogFits(L, R, M) ==
    /\ LogRows(L, R) /\ InsertIsFirst(L) /\ DeleteIsFinal(L)
    /\ UpdatesLive(L, M) /\ InsertIsThere(L, R, M)

\* A vector file rs and metadata m after the first k records of L were replayed over the
\* files R and M, in one go or in pieces: rows without a record so far are as they were,
\* rows without a record to come are as their last record left them, and a row that
\* nothing deletes is live from its insert on.
ReplayedRows(k, L, rs, R) ==
    /\ \/ Len(rs) = Len(R)
       \/ Len(rs) = Len(R) + 1 /\ k = Len(L) /\ k > 0 /\ L[k].id = Len(R)
    /\ k = Len(L) => \A j \in DOMAIN L : L[j].id < Len(rs)
OthersKept(k, L, rs, m, R, M) == \A i \in 0 .. Len(R) - 1 : Untouched(L, k, i) =>
    rs[i + 1] = R[i + 1] /\ Entry(rs, m, i) = Entry(R, M, i)
LastDone(k, L, rs, m) == \A j \in DOMAIN L : j <= k /\ IsLast(L, j) => Entry(rs, m, L[j].id) = Result(L[j])
LiveFromInsert(k, L, m) == \A j \in DOMAIN L :
    (\A h \in DOMAIN L : L[h].id = L[j].id => L[h].kind # "delete" /\ (L[h].kind = "insert" => h <= k))
        => ~IsDeleted(m, L[j].id)

Replayed(k, L, rs, m, R, M) ==
    /\ rs \in Seq(Vectors) /\ m \in Metas /\ DOMAIN m \subseteq 0 .. Len(rs) - 1
    /\ ReplayedRows(k, L, rs, R)
    /\ OthersKept(k, L, rs, m, R, M) /\ LastDone(k, L, rs, m) /\ LiveFromInsert(k, L, m)

\* The vector file when record j of L is in it, or needs nothing of it: no other row was
\* touched, and data d are those to be put.
Written(j, L, rs, out, R, d) ==
    /\ out \in Seq(Vectors) /\ d \in Data
    /\ L[j].id < Len(out)
    /\ \A i \in 0 .. Len(rs) - 1 : i # L[j].id => out[i + 1] = rs[i + 1]
    /\ \/ Len(out) = Len(rs)
       \/ Len(out) = Len(rs) + 1 /\ L[j].id = Len(R)
    /\ L[j].kind # "delete" => d = L[j].data /\ (IsLast(L, j) => out[L[j].id + 1] = L[j].vec)

\* What a replay of the whole log gives, row by row.
Recovered(C, L, R, M) ==
    /\ C = [i \in DOMAIN C |-> C[i]]
    /\ DOMAIN C = 1 .. IF \E j \in DOMAIN L : L[j].id = Len(R) THEN Len(R) + 1 ELSE Len(R)
    /\ \A i \in 0 .. Len(R) - 1 : Untouched(L, Len(L), i) => C[i + 1] = Entry(R, M, i)
    /\ \A j \in DOMAIN L : IsLast(L, j) => C[L[j].id + 1] = Result(L[j])

\* The records of a log, one by one.
LEMMA LogType ==
    ASSUME NEW L \in Seq(Logged)
    PROVE  /\ DOMAIN L = 1 .. Len(L) /\ Len(L) \in Nat
           /\ \A j \in DOMAIN L : L[j] \in Logged /\ L[j].id \in Ids /\ L[j].id \in Nat
           /\ \A j \in DOMAIN L : L[j].kind \in {"insert", "update", "delete"} /\ L[j].vec \in Vectors /\ L[j].data \in Data
  <1>1. DOMAIN L = 1 .. Len(L) /\ Len(L) \in Nat /\ \A j \in DOMAIN L : L[j] \in Logged
    OBVIOUS
  <1>2. \A r \in Logged : r.id \in Ids /\ r.kind \in {"insert", "update", "delete"} /\ r.vec \in Vectors /\ r.data \in Data
    BY DEF Logged
  <1> QED BY <1>1, <1>2, IdsAreNumbers

\* A row that a record is about has a last record.
LEMMA LastExists ==
    ASSUME NEW L \in Seq(Logged), NEW i, NEW j \in DOMAIN L, L[j].id = i
    PROVE  \E k \in DOMAIN L : IsLast(L, k) /\ L[k].id = i
  <1> DEFINE Of == {k \in DOMAIN L : L[k].id = i}
  <1>1. Of \subseteq 0 .. Len(L) /\ j \in Of /\ Len(L) \in Nat
    OBVIOUS
  <1>2. PICK k \in Of : \A h \in Of : k >= h
    <2> HIDE DEF Of
    <2> QED BY <1>1, GreatestExists
  <1>3. ASSUME NEW h \in DOMAIN L, h > k PROVE L[h].id # L[k].id
    <2>1. h \in Of => k >= h
      BY <1>2
    <2>2. k \in DOMAIN L /\ L[k].id = i
      BY <1>2
    <2> QED BY <1>3, <2>1, <2>2
  <1> QED BY <1>2, <1>3 DEF IsLast

\* The rows after a recovery are determined by the log and the files.
LEMMA RecoveredUnique ==
    ASSUME NEW L \in Seq(Logged), NEW R \in Seq(Vectors), NEW M, LogRows(L, R),
           NEW C, NEW D, Recovered(C, L, R, M), Recovered(D, L, R, M)
    PROVE  C = D
  <1>1. DOMAIN C = DOMAIN D
    BY DEF Recovered
  <1>2. ASSUME NEW i \in DOMAIN C PROVE C[i] = D[i]
    <2>1. i \in Nat /\ i > 0 /\ Len(R) \in Nat /\ i <= Len(R) + 1
      BY <1>2 DEF Recovered
    <2>2. CASE \E j \in DOMAIN L : L[j].id = i - 1
      <3>1. PICK k \in DOMAIN L : IsLast(L, k) /\ L[k].id = i - 1
        BY <2>2, LastExists
      <3>2. L[k].id + 1 = i
        BY <2>1, <3>1
      <3> QED BY <3>1, <3>2 DEF Recovered
    <2>3. CASE ~ \E j \in DOMAIN L : L[j].id = i - 1
      <3>1. i # Len(R) + 1
        <4>1. i = Len(R) + 1 => \E j \in DOMAIN L : L[j].id = Len(R)
          BY <1>2, <2>1 DEF Recovered
        <4> QED BY <2>1, <2>3, <4>1
      <3>2. i - 1 \in 0 .. Len(R) - 1 /\ (i - 1) + 1 = i
        BY <2>1, <3>1
      <3>3. Untouched(L, Len(L), i - 1)
        BY <2>3 DEF Untouched
      <3> QED BY <3>2, <3>3 DEF Recovered
    <2> QED BY <2>2, <2>3
  <1>3. C = [i \in DOMAIN C |-> C[i]] /\ D = [i \in DOMAIN D |-> D[i]]
    BY DEF Recovered
  <1> QED BY <1>1, <1>2, <1>3

\* After all records the view is what Recovered describes.
LEMMA ReplayedIsRecovered ==
    ASSUME NEW L \in Seq(Logged), NEW R \in Seq(Vectors), NEW M, LogRows(L, R),
           NEW rs, NEW m, Replayed(Len(L), L, rs, m, R, M)
    PROVE  Recovered(View(rs, m), L, R, M)
  <1> DEFINE C == View(rs, m)
  <1>1. rs \in Seq(Vectors) /\ Len(rs) \in Nat /\ Len(R) \in Nat /\ Len(L) \in Nat
    BY DEF Replayed
  <1>2. DOMAIN C = 1 .. Len(rs) /\ C = [i \in DOMAIN C |-> C[i]]
    BY <1>1 DEF View
  <1>3. \A i \in 1 .. Len(rs) : C[i] = Entry(rs, m, i - 1)
    BY <1>1 DEF View
  <1>8. ASSUME NEW j \in DOMAIN L PROVE L[j] \in Logged /\ L[j].id \in Nat /\ L[j].id < Len(rs) /\ j \in 1 .. Len(L)
    <2>1. L[j] \in Logged /\ j \in 1 .. Len(L)
      OBVIOUS
    <2>2. L[j].id \in Nat
      BY <2>1, IdsAreNumbers DEF Logged
    <2> QED BY <2>1, <2>2 DEF Replayed, ReplayedRows
  <1> HIDE DEF C
  <1>4. Len(rs) = IF \E j \in DOMAIN L : L[j].id = Len(R) THEN Len(R) + 1 ELSE Len(R)
    <2>1. \/ Len(rs) = Len(R)
          \/ Len(rs) = Len(R) + 1 /\ Len(L) > 0 /\ L[Len(L)].id = Len(R)
      BY DEF Replayed, ReplayedRows
    <2>2. (\E j \in DOMAIN L : L[j].id = Len(R)) => Len(rs) = Len(R) + 1
      BY <1>1, <1>8, <2>1
    <2>3. Len(rs) = Len(R) + 1 => \E j \in DOMAIN L : L[j].id = Len(R)
      BY <1>1, <2>1
    <2> QED BY <1>1, <2>1, <2>2, <2>3
  <1>5. ASSUME NEW i \in 0 .. Len(R) - 1, Untouched(L, Len(L), i)
        PROVE  C[i + 1] = Entry(R, M, i)
    <2>1. i + 1 \in 1 .. Len(rs) /\ (i + 1) - 1 = i
      BY <1>1, <1>4
    <2>2. C[i + 1] = Entry(rs, m, (i + 1) - 1)
      BY <1>3, <2>1
    <2>3. Entry(rs, m, i) = Entry(R, M, i)
      BY <1>5 DEF Replayed, OthersKept
    <2> QED BY <2>1, <2>2, <2>3
  <1>6. ASSUME NEW j \in DOMAIN L, IsLast(L, j)
        PROVE  C[L[j].id + 1] = Result(L[j])
    <2>1. L[j].id + 1 \in 1 .. Len(rs) /\ (L[j].id + 1) - 1 = L[j].id /\ j <= Len(L)
      BY <1>1, <1>8
    <2>2. C[L[j].id + 1] = Entry(rs, m, (L[j].id + 1) - 1)
      BY <1>3, <2>1
    <2>3. Entry(rs, m, L[j].id) = Result(L[j])
      BY <1>6, <2>1 DEF Replayed, LastDone
    <2> QED BY <2>1, <2>2, <2>3
  <1> QED BY <1>2, <1>4, <1>5, <1>6 DEF Recovered, C

\* Nothing was replayed yet.
LEMMA ReplayStarts ==
    ASSUME NEW L \in Seq(Logged), NEW R \in Seq(Vectors), NEW M \in Metas,
           DOMAIN M \subseteq 0 .. Len(R) - 1, LogFits(L, R, M)
    PROVE  Replayed(0, L, R, M, R, M)
  <1>1. Len(L) \in Nat /\ DOMAIN L = 1 .. Len(L) /\ \A j \in DOMAIN L : L[j] \in Logged
    OBVIOUS
  <1>2. ReplayedRows(0, L, R, R)
    BY <1>1 DEF ReplayedRows
  <1>3. OthersKept(0, L, R, M, R, M)
    BY DEF OthersKept
  <1>4. LastDone(0, L, R, M)
    BY <1>1 DEF LastDone
  <1>5. LiveFromInsert(0, L, M)
    <2> SUFFICES ASSUME NEW j \in DOMAIN L,
                        \A h \in DOMAIN L : L[h].id = L[j].id => L[h].kind # "delete" /\ (L[h].kind = "insert" => h <= 0)
                 PROVE  ~IsDeleted(M, L[j].id)
      BY DEF LiveFromInsert
    <2>1. \A h \in DOMAIN L : L[h].id = L[j].id => L[h].kind \notin {"insert", "delete"}
      BY <1>1
    <2>2. L[j].kind = "update"
      BY <1>1, <2>1 DEF Logged
    <2> QED BY <2>1, <2>2 DEF LogFits, UpdatesLive
  <1> QED BY <1>2, <1>3, <1>4, <1>5 DEF Replayed

\* A record that is not the last one about its row is followed by one; the record after
\* the first k is the last of its row or not, but it is after them.
LEMMA LastSplits ==
    ASSUME NEW L \in Seq(Logged), NEW k \in Nat, NEW n \in DOMAIN L, n = k + 1
    PROVE  /\ \A j \in DOMAIN L : j <= n /\ IsLast(L, j) /\ L[j].id = L[n].id => j = n
           /\ \A i : Untouched(L, n, i) => Untouched(L, k, i) /\ L[n].id # i
           /\ InsertIsFirst(L) /\ L[n].kind = "insert" => Untouched(L, k, L[n].id)
           /\ InsertIsFirst(L) /\ L[n].kind = "insert" /\ IsLast(L, n) => IsSole(L, n)
  <1>1. DOMAIN L \subseteq Nat
    OBVIOUS
  <1>2. ASSUME NEW j \in DOMAIN L, j <= n, IsLast(L, j), L[j].id = L[n].id
        PROVE  j = n
    BY <1>1, <1>2 DEF IsLast
  <1>3. ASSUME NEW i, Untouched(L, n, i)
        PROVE  Untouched(L, k, i) /\ L[n].id # i
    BY <1>1, <1>3 DEF Untouched
  <1>4. ASSUME InsertIsFirst(L), L[n].kind = "insert"
        PROVE  Untouched(L, k, L[n].id)
    BY <1>1, <1>4 DEF Untouched, InsertIsFirst
  <1>5. ASSUME InsertIsFirst(L), L[n].kind = "insert", IsLast(L, n)
        PROVE  IsSole(L, n)
    BY <1>1, <1>5 DEF IsLast, IsSole, InsertIsFirst
  <1> QED BY <1>2, <1>3, <1>4, <1>5

\* The record after the first k is applied: its row is written, or holds what the record
\* brings, and its metadata is put.
LEMMA PutStep ==
    ASSUME NEW L \in Seq(Logged), NEW R \in Seq(Vectors), NEW M \in Metas, LogFits(L, R, M),
           NEW k \in Nat, NEW n \in DOMAIN L, n = k + 1, NEW rs, NEW m, Replayed(k, L, rs, m, R, M),
           NEW out, NEW d, Written(n, L, rs, out, R, d),
           NEW p, PutIs(p, m, L[n].id, L[n].kind = "delete", d)
    PROVE  Replayed(n, L, out, p, R, M)
  <1> DEFINE r == L[n]
  <1>1. /\ r \in Logged /\ r.id \in Ids /\ r.id \in Nat /\ n \in Nat /\ n <= Len(L) /\ Len(L) \in Nat
        /\ \A j \in DOMAIN L : j \in Nat /\ j <= Len(L) /\ L[j] \in Logged /\ L[j].id \in Nat
    BY LogType
  <1>2. /\ rs \in Seq(Vectors) /\ Len(rs) \in Nat /\ Len(R) \in Nat /\ Len(out) \in Nat
        /\ m \in Metas /\ DOMAIN m \subseteq 0 .. Len(rs) - 1
    BY DEF Replayed, Written
  <1>w. /\ out \in Seq(Vectors) /\ d \in Data /\ r.id < Len(out)
        /\ \A i \in 0 .. Len(rs) - 1 : i # r.id => out[i + 1] = rs[i + 1]
        /\ (Len(out) = Len(rs) \/ (Len(out) = Len(rs) + 1 /\ r.id = Len(R)))
        /\ r.kind # "delete" => d = r.data /\ (IsLast(L, n) => out[r.id + 1] = r.vec)
    BY DEF Written
  <1>3. Len(rs) = Len(R)
    <2>1. ReplayedRows(k, L, rs, R)
      BY DEF Replayed
    <2>2. k # Len(L)
      BY <1>1
    <2> QED BY <2>1, <2>2 DEF ReplayedRows
  <1>4. /\ p \in Metas /\ DOMAIN p = DOMAIN m \cup {r.id}
        /\ IsDeleted(p, r.id) <=> r.kind = "delete"
        /\ p[r.id].data = d
        /\ \A i : i # r.id => (IsDeleted(p, i) <=> IsDeleted(m, i))
        /\ \A i : i # r.id => Entry(out, p, i) = Entry(out, m, i)
    BY DEF PutIs
  <1>5. DOMAIN p \subseteq 0 .. Len(out) - 1
    BY <1>1, <1>2, <1>4, <1>w
  <1>6. \A i \in 0 .. Len(rs) - 1 : i # r.id => out[i + 1] = rs[i + 1]
    BY <1>w
  <1>7. \A i \in 0 .. Len(rs) - 1 : i # r.id => Entry(out, p, i) = Entry(rs, m, i)
    BY <1>4, <1>6 DEF Entry
  <1>8. ReplayedRows(n, L, out, R)
    <2>1. \A j \in DOMAIN L : j # n /\ n = Len(L) => L[j].id < Len(R)
      BY <1>1 DEF LogFits, LogRows
    <2>2. r.id = Len(R) => n = Len(L)
      <3>1. \/ r.id < Len(R)
            \/ r.id = Len(R) /\ n = Len(L)
        BY DEF LogFits, LogRows
      <3> QED BY <1>1, <1>2, <3>1
    <2>3. Len(R) <= Len(out) /\ r.id < Len(out)
      BY <1>2, <1>3, <1>w
    <2>4. ASSUME NEW j \in DOMAIN L, n = Len(L) PROVE L[j].id < Len(out)
      <3>1. L[j].id < Len(R) \/ j = n
        BY <2>1, <2>4
      <3> QED BY <1>1, <1>2, <2>3, <3>1
    <2> QED BY <1>3, <1>w, <2>2, <2>4 DEF ReplayedRows
  <1>9. OthersKept(n, L, out, p, R, M)
    <2> SUFFICES ASSUME NEW i \in 0 .. Len(R) - 1, Untouched(L, n, i)
                 PROVE  out[i + 1] = R[i + 1] /\ Entry(out, p, i) = Entry(R, M, i)
      BY DEF OthersKept
    <2>1. Untouched(L, k, i) /\ i # r.id
      <3>1. \A x : Untouched(L, n, x) => Untouched(L, k, x) /\ L[n].id # x
        BY LastSplits
      <3> QED BY <3>1
    <2>2. rs[i + 1] = R[i + 1] /\ Entry(rs, m, i) = Entry(R, M, i)
      BY <2>1 DEF Replayed, OthersKept
    <2> QED BY <1>3, <1>6, <1>7, <2>1, <2>2
  <1>10. LastDone(n, L, out, p)
    <2> SUFFICES ASSUME NEW j \in DOMAIN L, j <= n, IsLast(L, j)
                 PROVE  Entry(out, p, L[j].id) = Result(L[j])
      BY DEF LastDone
    <2>1. CASE j = n
      <3>1. CASE r.kind = "delete"
        BY <1>4, <2>1, <3>1 DEF Entry, Result
      <3>2. CASE r.kind # "delete"
        BY <1>4, <1>w, <2>1, <3>2 DEF Entry, Result
      <3> QED BY <3>1, <3>2
    <2>2. CASE j # n
      <3>1. L[j].id # r.id
        BY <2>2, LastSplits
      <3>2. j <= k /\ L[j].id < Len(R) /\ L[j].id \in 0 .. Len(rs) - 1
        BY <1>1, <1>2, <1>3, <2>2 DEF LogFits, LogRows
      <3>3. Entry(rs, m, L[j].id) = Result(L[j])
        BY <3>2 DEF Replayed, LastDone
      <3> QED BY <1>7, <3>1, <3>2, <3>3
    <2> QED BY <2>1, <2>2
  <1>11. LiveFromInsert(n, L, p)
    <2> SUFFICES ASSUME NEW j \in DOMAIN L,
                        \A h \in DOMAIN L : L[h].id = L[j].id => L[h].kind # "delete" /\ (L[h].kind = "insert" => h <= n)
                 PROVE  ~IsDeleted(p, L[j].id)
      BY DEF LiveFromInsert
    <2>1. CASE L[j].id = r.id
      BY <1>4, <2>1
    <2>2. CASE L[j].id # r.id
      <3>1. \A h \in DOMAIN L : L[h].id = L[j].id => L[h].kind # "delete" /\ (L[h].kind = "insert" => h <= k)
        BY <1>1, <2>2
      <3>2. ~IsDeleted(m, L[j].id)
        BY <3>1 DEF Replayed, LiveFromInsert
      <3> QED BY <1>4, <2>2, <3>2
    <2> QED BY <2>1, <2>2
  <1> QED BY <1>w, <1>4, <1>5, <1>8, <1>9, <1>10, <1>11 DEF Replayed

\* The record after the first k is skipped.
LEMMA SkipStep ==
    ASSUME NEW L \in Seq(Logged), NEW R \in Seq(Vectors), NEW M \in Metas, LogFits(L, R, M),
           NEW k \in Nat, NEW n \in DOMAIN L, n = k + 1, NEW rs, NEW m, Replayed(k, L, rs, m, R, M),
           ReplayOf(L[n], Len(rs), m) = "skip"
    PROVE  Replayed(n, L, rs, m, R, M)
  <1> DEFINE r == L[n]
  <1>1. /\ r \in Logged /\ r.id \in Nat /\ n \in Nat /\ n <= Len(L) /\ Len(L) \in Nat
        /\ \A j \in DOMAIN L : j \in Nat /\ j <= Len(L) /\ L[j] \in Logged /\ L[j].id \in Nat
    BY LogType
  <1>2. /\ rs \in Seq(Vectors) /\ Len(rs) \in Nat /\ Len(R) \in Nat
        /\ m \in Metas /\ DOMAIN m \subseteq 0 .. Len(rs) - 1
    BY DEF Replayed
  <1>3. Len(rs) = Len(R)
    <2>1. ReplayedRows(k, L, rs, R)
      BY DEF Replayed
    <2>2. k # Len(L)
      BY <1>1
    <2> QED BY <2>1, <2>2 DEF ReplayedRows
  <1>4. /\ r.kind \in {"insert", "update", "delete"}
        /\ r.kind = "insert" => r.id < Len(rs) /\ ~IsDeleted(m, r.id)
        /\ r.kind # "insert" => IsDeleted(m, r.id)
    <2>1. r.kind = "insert" => r.id < Len(rs) /\ ~IsDeleted(m, r.id)
      BY <1>1, <1>2 DEF ReplayOf, ReplayOfInsert, NoMeta
    <2>2. r.kind # "insert" => r.id < Len(rs)
      BY <1>1, <1>2, <1>3 DEF LogFits, LogRows
    <2>3. r.kind # "insert" => IsDeleted(m, r.id)
      BY <1>1, <2>2 DEF ReplayOf, Logged
    <2> QED BY <1>1, <2>1, <2>3 DEF Logged
  <1>5. r.id < Len(rs)
    BY <1>1, <1>2, <1>3, <1>4 DEF LogFits, LogRows
  <1>6. ReplayedRows(n, L, rs, R)
    <2>1. \A j \in DOMAIN L : n = Len(L) => L[j].id < Len(rs)
      BY <1>1, <1>2, <1>3, <1>5 DEF LogFits, LogRows
    <2> QED BY <1>3, <2>1 DEF ReplayedRows
  <1>7. OthersKept(n, L, rs, m, R, M)
    BY LastSplits DEF Replayed, OthersKept
  <1>8. LastDone(n, L, rs, m)
    <2> SUFFICES ASSUME NEW j \in DOMAIN L, j <= n, IsLast(L, j)
                 PROVE  Entry(rs, m, L[j].id) = Result(L[j])
      BY DEF LastDone
    <2>1. CASE j = n /\ r.kind = "delete"
      BY <1>4, <2>1 DEF Entry, Result
    <2>2. CASE j = n /\ r.kind = "insert"
      <3>1. IsSole(L, n) /\ Untouched(L, k, r.id)
        BY <2>2, LastSplits DEF LogFits
      <3>2. r.id \in 0 .. Len(R) - 1
        BY <1>1, <1>2, <1>3, <1>5
      <3>3. rs[r.id + 1] = R[r.id + 1] /\ Entry(rs, m, r.id) = Entry(R, M, r.id)
        BY <3>1, <3>2 DEF Replayed, OthersKept
      <3>4. ~IsDeleted(M, r.id) /\ m[r.id].data = M[r.id].data
        BY <1>4, <2>2, <3>3, SameEntry
      <3>5. R[r.id + 1] = r.vec /\ M[r.id].data = r.data
        BY <1>3, <1>5, <2>2, <3>1, <3>4 DEF LogFits, InsertIsThere
      <3> QED BY <1>4, <2>2, <3>3, <3>4, <3>5 DEF Entry, Result
    <2>3. CASE j = n /\ r.kind = "update"
      <3>1. PICK h \in DOMAIN L : L[h].id = r.id /\ (L[h].kind = "delete" \/ (L[h].kind = "insert" /\ h > k))
        <4>1. IsDeleted(m, r.id)
          BY <1>4, <2>3
        <4>2. ~ \A h \in DOMAIN L : L[h].id = r.id => L[h].kind # "delete" /\ (L[h].kind = "insert" => h <= k)
          BY <4>1 DEF Replayed, LiveFromInsert
        <4> QED BY <1>1, <4>2
      <3>2. h <= n /\ h # n /\ h \in Nat
        BY <1>1, <2>3, <3>1 DEF IsLast
      <3>3. L[h].kind = "delete" /\ h < n
        BY <3>1, <3>2
      <3> QED BY <3>1, <3>3 DEF LogFits, DeleteIsFinal
    <2>4. CASE j # n
      BY <1>1, <2>4 DEF Replayed, LastDone
    <2> QED BY <1>4, <2>1, <2>2, <2>3, <2>4
  <1>9. LiveFromInsert(n, L, m)
    <2> SUFFICES ASSUME NEW j \in DOMAIN L,
                        \A h \in DOMAIN L : L[h].id = L[j].id => L[h].kind # "delete" /\ (L[h].kind = "insert" => h <= n)
                 PROVE  ~IsDeleted(m, L[j].id)
      BY DEF LiveFromInsert
    <2>1. CASE L[j].id = r.id /\ r.kind = "insert"
      BY <1>4, <2>1
    <2>2. CASE ~ (L[j].id = r.id /\ r.kind = "insert")
      <3>1. \A h \in DOMAIN L : L[h].id = L[j].id => L[h].kind # "delete" /\ (L[h].kind = "insert" => h <= k)
        BY <1>1, <2>2
      <3> QED BY <3>1 DEF Replayed, LiveFromInsert
    <2> QED BY <2>1, <2>2
  <1> QED BY <1>2, <1>6, <1>7, <1>8, <1>9 DEF Replayed

(***************************************************************************)
(* What a crash and a recovery would give                                  *)
(***************************************************************************)
\* The function inside Committed: the records replayed from the k-th on.
IsReplay(f, L) ==
    f = [k \in 1 .. Len(L) + 1 |->
            [file \in Files |-> IF k > Len(L) THEN View(file.rows, file.meta)
                               ELSE f[k + 1][Apply(file, L[k])]]]

\* A replayed record leaves files that are well formed, and after k records of the log the
\* next one applied makes k + 1.
LEMMA ApplyType ==
    ASSUME NEW file \in Files, NEW r \in Logged
    PROVE  Apply(file, r) \in Files
  <1> DEFINE what == ReplayOf(r, Len(file.rows), file.meta)
             rs == file.rows
             m == file.meta
  <1>1. rs \in Seq(Vectors) /\ m \in Metas /\ Len(rs) \in Nat
    BY DEF Files
  <1>r. \A p \in Seq(Vectors), q \in Metas : [rows |-> p, meta |-> q] \in Files
    BY DEF Files
  <1>2. r.id \in Ids /\ r.id \in Nat /\ r.vec \in Vectors /\ r.data \in Data
    BY IdsAreNumbers DEF Logged
  <1>3. what \in {"insert", "restore", "update", "delete", "skip"}
    BY DEF Logged, ReplayOf, ReplayOfInsert
  <1>4. CASE what = "insert"
    <2>1. Len(rs) \in Ids
      BY <1>1, <1>2, <1>4, StoreBoundsAssumption DEF ReplayOf, ReplayOfInsert, Ids
    <2>2. Put(m, Len(rs), FALSE, r.data) \in Metas
      <3> HIDE DEF rs, m
      <3>1. FALSE \in BOOLEAN
        OBVIOUS
      <3>2. PutIs(Put(m, Len(rs), FALSE, r.data), m, Len(rs), FALSE, r.data)
        BY <1>1, <1>2, <2>1, <3>1, PutFacts
      <3> QED BY <3>2 DEF PutIs
    <2>3. Apply(file, r) = [rows |-> Append(rs, r.vec), meta |-> Put(m, Len(rs), FALSE, r.data)]
      BY <1>4 DEF Apply
    <2>4. Append(rs, r.vec) \in Seq(Vectors)
      BY <1>1, <1>2
    <2> HIDE DEF rs, m
    <2> QED BY <1>r, <2>2, <2>3, <2>4
  <1>5. CASE what = "restore"
    <2>1. Put(m, r.id, FALSE, r.data) \in Metas
      BY <1>1, <1>2, PutFacts DEF PutIs
    <2>2. Apply(file, r) = [rows |-> rs, meta |-> Put(m, r.id, FALSE, r.data)]
      BY <1>5 DEF Apply
    <2> HIDE DEF rs, m
    <2> QED BY <1>1, <1>r, <2>1, <2>2
  <1>6. CASE what = "update"
    <2>1. Put(m, r.id, FALSE, r.data) \in Metas
      BY <1>1, <1>2, PutFacts DEF PutIs
    <2>2. Apply(file, r) = [rows |-> [rs EXCEPT ![r.id + 1] = r.vec], meta |-> Put(m, r.id, FALSE, r.data)]
      BY <1>6 DEF Apply
    <2>3. [rs EXCEPT ![r.id + 1] = r.vec] \in Seq(Vectors)
      <3> HIDE DEF rs
      <3>0. rs \in [1 .. Len(rs) -> Vectors]
        BY <1>1
      <3>1. [rs EXCEPT ![r.id + 1] = r.vec] \in [1 .. Len(rs) -> Vectors]
        BY <1>2, <3>0
      <3> QED BY <1>1, <3>1
    <2> HIDE DEF rs, m
    <2> QED BY <1>r, <2>1, <2>2, <2>3
  <1>7. CASE what = "delete"
    <2>1. r.id \in DOMAIN m
      BY <1>7 DEF ReplayOf, IsDeleted, ReplayOfInsert
    <2>2. m[r.id].data \in Data
      BY <1>1, <2>1, MetasType
    <2>3. Put(m, r.id, TRUE, m[r.id].data) \in Metas
      <3> DEFINE d == m[r.id].data
      <3> HIDE DEF rs, m, d
      <3>1. TRUE \in BOOLEAN /\ d \in Data
        BY <2>2 DEF d
      <3>2. PutIs(Put(m, r.id, TRUE, d), m, r.id, TRUE, d)
        BY <1>1, <1>2, <3>1, PutFacts
      <3> QED BY <3>2 DEF PutIs, d
    <2>4. Apply(file, r) = [rows |-> rs, meta |-> Put(m, r.id, TRUE, m[r.id].data)]
      BY <1>7 DEF Apply
    <2> HIDE DEF rs, m
    <2> QED BY <1>1, <1>r, <2>3, <2>4
  <1>8. CASE what = "skip"
    BY <1>8 DEF Apply
  <1> QED BY <1>3, <1>4, <1>5, <1>6, <1>7, <1>8

\* One record replayed over files that have had the k before it.
LEMMA ApplyStep ==
    ASSUME NEW L \in Seq(Logged), NEW R \in Seq(Vectors), NEW M \in Metas, LogFits(L, R, M),
           NEW k \in Nat, NEW n \in DOMAIN L, n = k + 1,
           NEW file \in Files, Replayed(k, L, file.rows, file.meta, R, M)
    PROVE  Replayed(n, L, Apply(file, L[n]).rows, Apply(file, L[n]).meta, R, M)
  <1> DEFINE rs == file.rows
             m == file.meta
             r == L[n]
             what == ReplayOf(r, Len(rs), m)
  <1>1. rs \in Seq(Vectors) /\ m \in Metas /\ Len(rs) \in Nat /\ Len(R) \in Nat
    BY DEF Files
  <1>2. /\ r \in Logged /\ r.id \in Ids /\ r.id \in Nat /\ r.vec \in Vectors /\ r.data \in Data
        /\ r.kind \in {"insert", "update", "delete"}
    BY LogType
  <1>3. what \in {"insert", "restore", "update", "delete", "skip"}
    BY <1>2 DEF ReplayOf, ReplayOfInsert
  <1>4. CASE what = "insert"
    <2>1. r.id >= Len(rs) /\ r.kind = "insert"
      BY <1>2, <1>4 DEF ReplayOf, ReplayOfInsert
    <2>2. r.id = Len(rs) /\ Len(rs) = Len(R)
      <3>1. r.id <= Len(R) /\ Len(rs) >= Len(R)
        <4>1. r.id < Len(R) \/ r.id = Len(R)
          BY DEF LogFits, LogRows
        <4>2. Len(rs) = Len(R) \/ Len(rs) = Len(R) + 1
          BY DEF Replayed, ReplayedRows
        <4> QED BY <1>1, <1>2, <4>1, <4>2
      <3> QED BY <1>1, <1>2, <2>1, <3>1
    <2> DEFINE out == Append(rs, r.vec)
    <2>3. /\ out \in Seq(Vectors) /\ Len(out) = Len(rs) + 1 /\ out[Len(rs) + 1] = r.vec
          /\ \A i \in 0 .. Len(rs) - 1 : out[i + 1] = rs[i + 1]
      BY <1>1, <1>2
    <2>4. Written(n, L, rs, out, R, r.data)
      <3> HIDE DEF out, rs
      <3> QED BY <1>1, <1>2, <2>1, <2>2, <2>3 DEF Written
    <2> DEFINE p == Put(m, r.id, FALSE, r.data)
    <2>5. PutIs(p, m, r.id, r.kind = "delete", r.data)
      BY <1>1, <1>2, <2>1, IdsAreNumbers, PutKnown
    <2>6. Replayed(n, L, out, p, R, M)
      <3> HIDE DEF out, p
      <3> QED BY <2>4, <2>5, PutStep
    <2>7. Apply(file, r).rows = out /\ Apply(file, r).meta = p
      BY <1>4, <2>2 DEF Apply
    <2> HIDE DEF out, p
    <2> QED BY <2>6, <2>7
  <1>5. CASE what = "restore"
    <2>1. r.id < Len(rs) /\ IsDeleted(m, r.id) /\ r.kind = "insert"
      BY <1>1, <1>2, <1>5 DEF ReplayOf, ReplayOfInsert, NoMeta
    <2>2. Written(n, L, rs, rs, R, r.data)
      <3>1. ASSUME IsLast(L, n) PROVE rs[r.id + 1] = r.vec
        <4>1. IsSole(L, n) /\ Untouched(L, k, r.id)
          BY <2>1, <3>1, LastSplits DEF LogFits
        <4>2. r.id < Len(R) /\ r.id \in 0 .. Len(R) - 1
          <5>1. Len(rs) = Len(R)
            <6>1. n \in Nat /\ n <= Len(L) /\ Len(L) \in Nat
              BY LogType
            <6>2. k # Len(L) /\ ReplayedRows(k, L, rs, R)
              BY <6>1 DEF Replayed
            <6> QED BY <6>2 DEF ReplayedRows
          <5> QED BY <1>1, <1>2, <2>1, <5>1
        <4>3. rs[r.id + 1] = R[r.id + 1]
          BY <4>1, <4>2 DEF Replayed, OthersKept
        <4> QED BY <2>1, <4>1, <4>2, <4>3 DEF LogFits, InsertIsThere
      <3> QED BY <1>1, <1>2, <2>1, <3>1 DEF Written
    <2> DEFINE p == Put(m, r.id, FALSE, r.data)
    <2>3. PutIs(p, m, r.id, r.kind = "delete", r.data)
      BY <1>1, <1>2, <2>1, PutKnown
    <2>4. Replayed(n, L, rs, p, R, M)
      <3> HIDE DEF p
      <3> QED BY <2>2, <2>3, PutStep
    <2>5. Apply(file, r).rows = rs /\ Apply(file, r).meta = p
      BY <1>5 DEF Apply
    <2> HIDE DEF p
    <2> QED BY <2>4, <2>5
  <1>6. CASE what = "update"
    <2>1. r.id < Len(rs) /\ r.kind = "update"
      BY <1>1, <1>2, <1>6 DEF ReplayOf, ReplayOfInsert
    <2> DEFINE out == [rs EXCEPT ![r.id + 1] = r.vec]
    <2>2. rs \in [1 .. Len(rs) -> Vectors]
      BY <1>1
    <2>3. /\ out \in [1 .. Len(rs) -> Vectors] /\ out[r.id + 1] = r.vec
          /\ \A i \in 0 .. Len(rs) - 1 : i # r.id => out[i + 1] = rs[i + 1]
      <3> HIDE DEF rs
      <3> QED BY <1>1, <1>2, <2>1, <2>2
    <2>4. out \in Seq(Vectors) /\ Len(out) = Len(rs)
      <3> HIDE DEF out, rs
      <3>1. Len(rs) \in Nat
        BY <1>1
      <3>2. out \in Seq(Vectors) /\ DOMAIN out = 1 .. Len(rs)
        BY <2>3, <3>1, SeqDef
      <3> QED BY <3>1, <3>2, LenProperties
    <2>5. Written(n, L, rs, out, R, r.data)
      <3> HIDE DEF out, rs
      <3> QED BY <1>2, <2>1, <2>3, <2>4 DEF Written
    <2> DEFINE p == Put(m, r.id, FALSE, r.data)
    <2>6. PutIs(p, m, r.id, r.kind = "delete", r.data)
      BY <1>1, <1>2, <2>1, PutKnown
    <2>7. Replayed(n, L, out, p, R, M)
      <3> HIDE DEF out, p
      <3> QED BY <2>5, <2>6, PutStep
    <2>8. Apply(file, r).rows = out /\ Apply(file, r).meta = p
      BY <1>6 DEF Apply
    <2> HIDE DEF out, p
    <2> QED BY <2>7, <2>8
  <1>7. CASE what = "delete"
    <2>1. r.id < Len(rs) /\ r.kind = "delete" /\ r.id \in DOMAIN m
      BY <1>1, <1>2, <1>7 DEF ReplayOf, ReplayOfInsert, IsDeleted
    <2> DEFINE d == m[r.id].data
    <2>2. d \in Data
      BY <1>1, <2>1, MetasType
    <2>3. Written(n, L, rs, rs, R, d)
      <3> HIDE DEF d
      <3> QED BY <1>1, <1>2, <2>1, <2>2 DEF Written
    <2> DEFINE p == Put(m, r.id, TRUE, d)
    <2>4. PutIs(p, m, r.id, r.kind = "delete", d)
      <3> HIDE DEF d
      <3> QED BY <1>1, <1>2, <2>1, <2>2, PutKnown
    <2>5. Replayed(n, L, rs, p, R, M)
      <3> HIDE DEF d, p
      <3> QED BY <2>3, <2>4, PutStep
    <2>6. Apply(file, r).rows = rs /\ Apply(file, r).meta = p
      BY <1>7 DEF Apply
    <2> HIDE DEF p
    <2> QED BY <2>5, <2>6
  <1>8. CASE what = "skip"
    <2>1. Apply(file, r) = file
      BY <1>8 DEF Apply
    <2>2. Replayed(n, L, rs, m, R, M)
      BY <1>8, SkipStep
    <2> QED BY <2>1, <2>2
  <1> QED BY <1>3, <1>4, <1>5, <1>6, <1>7, <1>8

\* The replay function exists, so CHOOSE finds one.
LEMMA ReplayExists == ASSUME NEW L \in Seq(Logged) PROVE \E f : IsReplay(f, L)
  <1> DEFINE n == Len(L)
             Val == {View(file.rows, file.meta) : file \in Files}
             S == [Files -> Val]
             a == [file \in Files |-> View(file.rows, file.meta)]
             G == [x \in (1 .. n) \X S |-> [file \in Files |-> x[2][Apply(file, L[n + 1 - x[1]])]]]
  <1>1. n \in Nat
    OBVIOUS
  <1>2. a \in S
    OBVIOUS
  <1>3. G \in [(1 .. n) \X S -> S]
    <2> SUFFICES ASSUME NEW j \in 1 .. n, NEW g \in S, NEW file \in Files
                 PROVE  g[Apply(file, L[n + 1 - j])] \in Val
      OBVIOUS
    <2>1. n + 1 - j \in DOMAIN L
      BY LogType
    <2>2. L[n + 1 - j] \in Logged
      BY <2>1, LogType
    <2>3. Apply(file, L[n + 1 - j]) \in Files
      BY <2>2, ApplyType
    <2> HIDE DEF Val
    <2> QED BY <2>3
  <1>4. PICK h \in [0 .. n -> S] : h[0] = a /\ \A k \in 1 .. n : h[k] = G[<<k, h[k - 1]>>]
    <2> HIDE DEF n, S, a, G
    <2>1. \E h : FollowsFrom(h, n, S, a, G)
      BY <1>1, <1>2, <1>3, RecursionExists
    <2> QED BY <2>1 DEF FollowsFrom
  <1> DEFINE f == [k \in 1 .. n + 1 |-> h[n + 1 - k]]
             Body(k) == [file \in Files |-> IF k > n THEN View(file.rows, file.meta)
                                          ELSE f[k + 1][Apply(file, L[k])]]
  <1>5. ASSUME NEW k \in 1 .. n + 1
        PROVE  f[k] = Body(k)
    <2>1. CASE k = n + 1
      <3>1. f[k] = a
        BY <1>1, <1>4, <2>1
      <3>2. k > n
        BY <1>1, <2>1
      <3>3. Body(k) = a
        BY <3>2
      <3> QED BY <3>1, <3>3
    <2>2. CASE k <= n
      <3> DEFINE j == n + 1 - k
      <3>1. /\ j \in 1 .. n /\ j - 1 \in 0 .. n /\ n + 1 - j = k /\ j - 1 = n + 1 - (k + 1)
            /\ k + 1 \in 1 .. n + 1 /\ ~(k > n)
        BY <1>1, <2>2
      <3>2. f[k] = h[j] /\ f[k + 1] = h[j - 1]
        BY <3>1
      <3> HIDE DEF j, f, S, G
      <3>3. h[j] = G[<<j, h[j - 1]>>] /\ <<j, h[j - 1]>> \in (1 .. n) \X S
        BY <1>4, <3>1
      <3>4. G[<<j, h[j - 1]>>] = [file \in Files |-> h[j - 1][Apply(file, L[n + 1 - j])]]
        BY <3>3 DEF G
      <3>5. h[j] = [file \in Files |-> f[k + 1][Apply(file, L[k])]]
        BY <3>1, <3>2, <3>3, <3>4
      <3>6. Body(k) = [file \in Files |-> f[k + 1][Apply(file, L[k])]]
        BY <3>1
      <3> QED BY <3>2, <3>5, <3>6
    <2> QED BY <1>1, <2>1, <2>2
  <1>6. f = [k \in 1 .. n + 1 |-> Body(k)]
    <2> HIDE DEF Body
    <2> QED BY <1>5
  <1> HIDE DEF f
  <1> QED BY <1>6 DEF IsReplay

\* From the k-th record on, over files that have had those before it.
LEMMA ReplayEnds ==
    ASSUME NEW L \in Seq(Logged), NEW R \in Seq(Vectors), NEW M \in Metas, LogFits(L, R, M),
           NEW f, IsReplay(f, L)
    PROVE  \A k \in 1 .. Len(L) + 1 : \A file \in Files :
               Replayed(k - 1, L, file.rows, file.meta, R, M) => Recovered(f[k][file], L, R, M)
  <1> DEFINE n == Len(L)
             Good(k) == \A file \in Files :
                            Replayed(k - 1, L, file.rows, file.meta, R, M) => Recovered(f[k][file], L, R, M)
             Bad == {k \in 1 .. n + 1 : ~Good(k)}
  <1>1. n \in Nat
    OBVIOUS
  <1>2. ASSUME NEW k \in 1 .. n + 1
        PROVE  f[k] = [file \in Files |-> IF k > n THEN View(file.rows, file.meta)
                                        ELSE f[k + 1][Apply(file, L[k])]]
    BY DEF IsReplay
  <1>3. Good(n + 1)
    <2> SUFFICES ASSUME NEW file \in Files, Replayed(n, L, file.rows, file.meta, R, M)
                 PROVE  Recovered(f[n + 1][file], L, R, M)
      BY <1>1
    <2>1. f[n + 1][file] = View(file.rows, file.meta)
      <3>1. n + 1 \in 1 .. n + 1 /\ n + 1 > n
        BY <1>1
      <3>2. f[n + 1] = [g \in Files |-> View(g.rows, g.meta)]
        <4> HIDE DEF n
        <4> QED BY <1>2, <3>1
      <3> QED BY <3>2
    <2>2. LogRows(L, R)
      BY DEF LogFits
    <2>3. Recovered(View(file.rows, file.meta), L, R, M)
      BY <2>2, ReplayedIsRecovered
    <2> QED BY <2>1, <2>3
  <1>4. ASSUME NEW k \in 1 .. n, Good(k + 1)
        PROVE  Good(k)
    <2> SUFFICES ASSUME NEW file \in Files, Replayed(k - 1, L, file.rows, file.meta, R, M)
                 PROVE  Recovered(f[k][file], L, R, M)
      OBVIOUS
    <2>1. k \in DOMAIN L /\ L[k] \in Logged /\ k \in 1 .. n + 1 /\ ~(k > n) /\ k = (k - 1) + 1 /\ k - 1 \in Nat /\ (k + 1) - 1 = k
      BY LogType
    <2>2. Apply(file, L[k]) \in Files
      BY <2>1, ApplyType
    <2>3. f[k][file] = f[k + 1][Apply(file, L[k])]
      BY <1>2, <2>1, ZenonT(30)
    <2>4. Replayed(k, L, Apply(file, L[k]).rows, Apply(file, L[k]).meta, R, M)
      BY <2>1, ApplyStep
    <2>5. Recovered(f[k + 1][Apply(file, L[k])], L, R, M)
      BY <1>4, <2>1, <2>2, <2>4
    <2> QED BY <2>3, <2>5
  <1> HIDE DEF Good
  <1>5. SUFFICES ASSUME Bad # {} PROVE FALSE
    BY DEF Good
  <1>6. PICK x \in Bad : \A y \in Bad : x >= y
    <2>1. Bad \subseteq 0 .. n + 1 /\ n + 1 \in Nat
      BY <1>1
    <2> HIDE DEF Bad
    <2> QED BY <1>5, <2>1, GreatestExists
  <1>7. x \in 1 .. n + 1 /\ ~Good(x)
    BY <1>6
  <1>8. x \in 1 .. n
    BY <1>1, <1>3, <1>7
  <1>9. ~Good(x + 1)
    BY <1>4, <1>7, <1>8
  <1>10. x + 1 \in Bad
    BY <1>1, <1>8, <1>9
  <1>11. x >= x + 1
    BY <1>6, <1>10
  <1> QED BY <1>8, <1>11

\* The rows that a crash now and a recovery would give are what Recovered describes.
LEMMA CommittedFacts ==
    ASSUME log \in Seq(Logged), rows \in Seq(Vectors), metaFlushed \in Metas,
           DOMAIN metaFlushed \subseteq 0 .. Len(rows) - 1, LogFits(log, rows, metaFlushed)
    PROVE  Recovered(Committed, log, rows, metaFlushed)
  <1> DEFINE file == [rows |-> rows, meta |-> metaFlushed]
  <1>1. PICK f : IsReplay(f, log) /\ Committed = f[1][file]
    <2> DEFINE f == CHOOSE f : IsReplay(f, log)
    <2>1. IsReplay(f, log)
      BY ReplayExists
    <2>2. Committed = f[1][file]
      BY DEF Committed, IsReplay
    <2> QED BY <2>1, <2>2
  <1>2. file \in Files /\ file.rows = rows /\ file.meta = metaFlushed
    BY DEF Files
  <1>3. Replayed(0, log, rows, metaFlushed, rows, metaFlushed)
    BY ReplayStarts
  <1>4. 1 \in 1 .. Len(log) + 1 /\ 1 - 1 = 0
    OBVIOUS
  <1> HIDE DEF file
  <1>5. Recovered(f[1][file], log, rows, metaFlushed)
    BY <1>1, <1>2, <1>3, <1>4, ReplayEnds
  <1> QED BY <1>1, <1>5

(***************************************************************************)
(* Types, and what each step of an operation relies on                     *)
(***************************************************************************)
\* Recovery has still to replay the end of the log; only the log of operations is read.
QueueInv ==
    /\ log \in Seq(Logged) /\ todo \in Seq(Logged) /\ Len(todo) <= Len(log)
    /\ \A j \in DOMAIN todo : todo[j] = log[Len(log) - Len(todo) + j]
    /\ phase # "recovering" => todo = <<>>
    /\ pc \in {"row", "meta"} => Len(todo) < Len(log)

\* Where an operation, a flush or a compaction can be, and which row it is about.
PlaceInv ==
    /\ phase = "closed" => pc = "idle"
    /\ phase = "recovering" => pc \notin Renaming \cup {"reopen"} /\ mapped = Mappings
    /\ pc = "row" => /\ op.kind \in {"insert", "update"} /\ "vec" \in mapped
                     /\ op.id = IF op.kind = "insert" THEN Len(rows) ELSE op.id
                     /\ op.kind = "update" => op.id < Len(rows)
    /\ pc \in {"meta", "link"} => op.id < Len(rows)
    /\ pc \in {"checkpoint", "clear"} => todo = <<>> /\ metaFlushed = meta /\ mapped = Mappings
    /\ pc \in {"clear", "reopen"} => log = <<>>
    /\ phase = "up" /\ "meta" \notin mapped => refused \/ pc = "reopen"

\* The files in the middle of a compaction.
CompactInv ==
    /\ pc \in Renaming => Len(rows) = Cardinality({id \in DOMAIN meta : ~meta[id].del})
    /\ pc \in {"renameMeta", "clearLog", "reopen"} => linked \subseteq 0 .. Len(rows) - 1
    /\ pc = "clearLog" => metaFlushed = FreshMeta
    /\ pc \in {"clearLog", "reopen"} =>
        DOMAIN metaFlushed = 0 .. Len(rows) - 1 /\ \A i \in DOMAIN metaFlushed : ~metaFlushed[i].del

TypeInv == StoreTypeOK /\ QueueInv /\ PlaceInv /\ CompactInv

\* Records of the log are operations.
LEMMA LoggedIsOp == Logged \subseteq Op /\ Seq(Logged) \subseteq Seq(Op) /\ NoOp \in Op
  <1>1. Logged \subseteq Op
    BY DEF Logged, Op
  <1>2. (CHOOSE d \in Data : TRUE) \in Data /\ 0 \in Ids
    BY DataAssumption, StoreBoundsAssumption DEF Ids
  <1>3. NoOp \in Op
    BY <1>2, PlaceholderAssumption DEF NoOp, Op
  <1>4. Seq(Logged) \subseteq Seq(Op)
    BY <1>1
  <1> QED BY <1>1, <1>3, <1>4

\* The metadata of a database with no row.
LEMMA NoMetaType == NoMetaAtAll \in Metas /\ DOMAIN NoMetaAtAll = {}
  <1>1. DOMAIN NoMetaAtAll = {} /\ NoMetaAtAll = [i \in DOMAIN NoMetaAtAll |-> NoMetaAtAll[i]]
    BY DEF NoMetaAtAll
  <1> QED BY <1>1, MetasType

\* The rows that a compaction keeps are those that the metadata has live, in order.
LEMMA LiveFacts ==
    ASSUME rows \in Seq(Vectors), meta \in Metas, DOMAIN meta \subseteq 0 .. Len(rows) - 1
    PROVE  /\ {id \in 0 .. Len(rows) - 1 : ~IsDeleted(meta, id)} = {id \in DOMAIN meta : ~meta[id].del}
           /\ LiveIds = Ascending({id \in DOMAIN meta : ~meta[id].del})
           /\ LiveIds \in Seq(0 .. Len(rows) - 1)
           /\ Len(LiveIds) = Cardinality({id \in DOMAIN meta : ~meta[id].del})
  <1> DEFINE Live == {id \in DOMAIN meta : ~meta[id].del}
  <1>1. {id \in 0 .. Len(rows) - 1 : ~IsDeleted(meta, id)} = Live
    BY DEF IsDeleted
  <1>2. LiveIds = Ascending(Live)
    BY <1>1 DEF LiveIds
  <1>3. Live \subseteq 0 .. Len(rows) - 1 /\ Len(rows) \in Nat
    OBVIOUS
  <1>4. IsFiniteSet(0 .. Len(rows) - 1)
    BY <1>3, FS_Interval
  <1>5. IsFiniteSet(Live) /\ Live \subseteq Nat
    BY <1>3, <1>4, FS_Subset
  <1> HIDE DEF Live
  <1>6. Ascending(Live) \in Seq(Live) /\ Len(Ascending(Live)) = Cardinality(Live)
    BY <1>5, AscendingFacts
  <1>7. Ascending(Live) \in Seq(0 .. Len(rows) - 1)
    <2> DEFINE All == 0 .. Len(rows) - 1
    <2>1. Live \subseteq All
      BY <1>3
    <2> HIDE DEF All
    <2>2. Seq(Live) \subseteq Seq(All)
      BY <2>1
    <2> QED BY <1>6, <2>2 DEF All
  <1> QED BY <1>1, <1>2, <1>6, <1>7 DEF Live

\* The metadata of the fresh database has its rows from 0 on, all live.
LEMMA FreshFacts ==
    ASSUME meta \in Metas
    PROVE  /\ FreshMeta \in Metas
           /\ DOMAIN FreshMeta = 0 .. Cardinality({id \in DOMAIN meta : ~meta[id].del}) - 1
           /\ \A i \in DOMAIN FreshMeta : ~FreshMeta[i].del
           /\ Cardinality({id \in DOMAIN meta : ~meta[id].del}) \in 0 .. MaxRows
           /\ \A i \in DOMAIN FreshMeta :
                  FreshMeta[i] = meta[Ascending({id \in DOMAIN meta : ~meta[id].del})[i + 1]]
  <1> DEFINE Live == {id \in DOMAIN meta : ~meta[id].del}
             live == Ascending(Live)
  <1>1. DOMAIN meta \subseteq Ids /\ \A i \in DOMAIN meta : meta[i] \in [del : BOOLEAN, data : Data]
    BY MetasType
  <1>2. Live \subseteq Ids /\ \A id \in Live : meta[id] \in [del : BOOLEAN, data : Data] /\ ~meta[id].del
    BY <1>1
  <1>3. MaxRows \in Nat /\ MaxRows # 0
    BY StoreBoundsAssumption
  <1>4. IsFiniteSet(Ids) /\ Cardinality(Ids) = MaxRows /\ Ids \subseteq Nat
    BY <1>3, FS_Interval DEF Ids
  <1> HIDE DEF Live
  <1>5. IsFiniteSet(Live) /\ Cardinality(Live) <= MaxRows /\ Live \subseteq Nat
    BY <1>2, <1>4, FS_Subset
  <1>6. Cardinality(Live) \in Nat
    BY <1>5, FS_CardinalityType
  <1>7. live \in Seq(Live) /\ Len(live) = Cardinality(Live)
    BY <1>5, AscendingFacts
  <1>8. FreshMeta = [id \in 0 .. Len(live) - 1 |-> meta[live[id + 1]]]
    BY DEF FreshMeta, Live
  <1> HIDE DEF live
  <1>9. \A i \in 0 .. Len(live) - 1 : live[i + 1] \in Live
    <2> SUFFICES ASSUME NEW i \in 0 .. Len(live) - 1 PROVE live[i + 1] \in Live
      OBVIOUS
    <2>1. i + 1 \in 1 .. Len(live)
      BY <1>6, <1>7
    <2> QED BY <1>7, <2>1
  <1>10. /\ DOMAIN FreshMeta = 0 .. Cardinality(Live) - 1
         /\ \A i \in DOMAIN FreshMeta : /\ FreshMeta[i] = meta[live[i + 1]]
                                        /\ FreshMeta[i] \in [del : BOOLEAN, data : Data] /\ ~FreshMeta[i].del
    BY <1>2, <1>7, <1>8, <1>9
  <1>11. DOMAIN FreshMeta \subseteq Ids
    BY <1>3, <1>5, <1>6, <1>10 DEF Ids
  <1>12. FreshMeta = [i \in DOMAIN FreshMeta |-> FreshMeta[i]]
    BY <1>8
  <1>13. FreshMeta \in Metas
    BY <1>10, <1>11, <1>12, MetasType
  <1> QED BY <1>3, <1>5, <1>6, <1>10, <1>13 DEF Live, live

\* Type correctness is kept by the steps that open and close the database.
LEMMA TypeOpen == TypeInv /\ (Open \/ (Restart /\ pc \notin Renaming)) => TypeInv'
  <1> SUFFICES ASSUME TypeInv, Open \/ (Restart /\ pc \notin Renaming) PROVE TypeInv'
    OBVIOUS
  <1>i. StoreTypeOK /\ QueueInv /\ PlaceInv /\ CompactInv
    BY DEF TypeInv
  <1>1. CASE Open
    <2>1. /\ UNCHANGED <<rows, linked, metaFlushed, log, refused, op, pc, restarts, faults>>
          /\ meta' = metaFlushed /\ mapped' = Mappings /\ todo' = log
          /\ phase' = IF log = <<>> THEN "up" ELSE "recovering"
          /\ deletedCount' = Cardinality(DeletedRows(Len(rows), metaFlushed))
      BY <1>1 DEF Open, files, durable, counters
    <2>2. pc = "idle" /\ pc' = "idle"
      BY <1>1, <1>i, <2>1 DEF Open, PlaceInv
    <2>3. deletedCount' \in Nat
      <3>1. DeletedRows(Len(rows), metaFlushed) \subseteq 0 .. Len(rows) - 1 /\ Len(rows) \in Nat
        BY <1>i DEF DeletedRows, StoreTypeOK
      <3>2. IsFiniteSet(0 .. Len(rows) - 1)
        BY <3>1, FS_Interval
      <3> QED BY <2>1, <3>1, <3>2, FS_Subset, FS_CardinalityType
    <2>4. StoreTypeOK'
      BY <1>i, <2>1, <2>2, <2>3 DEF StoreTypeOK, Renaming, Mappings
    <2>5. QueueInv'
      <3>1. \A j \in DOMAIN log : Len(log) - Len(log) + j = j
        BY <1>i DEF QueueInv
      <3>2. log = <<>> => todo' = <<>>
        BY <2>1
      <3> QED BY <1>i, <2>1, <2>2, <3>1, <3>2 DEF QueueInv
    <2>6. PlaceInv' /\ CompactInv'
      BY <2>1, <2>2 DEF PlaceInv, CompactInv, Renaming, Mappings
    <2> QED BY <2>4, <2>5, <2>6 DEF TypeInv
  <1>2. CASE Restart /\ pc \notin Renaming
    <2>1. /\ UNCHANGED <<rows, linked, metaFlushed, log, refused, faults>>
          /\ restarts' = restarts + 1 /\ op' = NoOp /\ pc' = "idle"
          /\ phase' = "closed" /\ todo' = <<>> /\ meta' = NoMetaAtAll /\ deletedCount' = 0 /\ mapped' = {}
      BY <1>2 DEF Restart, Closed, files, durable
    <2>2. linked \cup DOMAIN metaFlushed \subseteq 0 .. Len(rows) - 1
      BY <1>2, <1>i DEF StoreTypeOK, CompactInv
    <2>3. StoreTypeOK'
      BY <1>i, <2>1, <2>2, NoMetaType, LoggedIsOp DEF StoreTypeOK, Renaming
    <2>4. QueueInv' /\ PlaceInv' /\ CompactInv'
      BY <1>i, <2>1 DEF QueueInv, PlaceInv, CompactInv, Renaming
    <2> QED BY <2>3, <2>4 DEF TypeInv
  <1> QED BY <1>1, <1>2

\* Type correctness is kept when an operation is logged, or refused.
LEMMA TypeBegin == TypeInv /\ Operation => TypeInv'
  <1> SUFFICES ASSUME TypeInv, Operation PROVE TypeInv'
    OBVIOUS
  <1>i. StoreTypeOK /\ QueueInv /\ PlaceInv /\ CompactInv
    BY DEF TypeInv
  <1>1. PICK kind \in {"insert", "update", "delete"}, id \in Ids, v \in Vectors, d \in Data :
            LET o == [kind |-> kind, id |-> id, vec |-> v, data |-> d] IN Begin(o) \/ BeginFails(o)
    BY DEF Operation
  <1> DEFINE o == [kind |-> kind, id |-> id, vec |-> v, data |-> d]
  <1>2. o \in Logged /\ o \in Op /\ o.kind \in {"insert", "update", "delete"} /\ o.id \in Ids
    BY DEF Logged, Op
  <1>3. Begin(o) \/ BeginFails(o)
    BY <1>1
  <1> HIDE DEF o
  <1>4. /\ UNCHANGED <<rows, linked, metaFlushed, meta, deletedCount, mapped, phase, todo, restarts>>
        /\ log' = Append(log, o) /\ pc = "idle" /\ phase = "up" /\ "vec" \in mapped
    BY <1>3 DEF Begin, BeginFails, Allowed, Idle, files, memory, counters
  <1>5. log' \in Seq(Logged) /\ todo = <<>> /\ Len(log') = Len(log) + 1
    BY <1>i, <1>2, <1>4 DEF QueueInv
  <1>6. \/ op' = o /\ pc' = (IF o.kind = "delete" THEN "meta" ELSE "row") /\ UNCHANGED <<refused, faults>>
        \/ UNCHANGED <<op, pc>> /\ refused' = TRUE /\ faults' = faults + 1
    BY <1>3 DEF Begin, BeginFails, counters
  <1>7. /\ o.kind = "insert" => o.id = Len(rows)
        /\ o.kind # "insert" => o.id < Len(rows)
    BY <1>2, <1>3 DEF Begin, BeginFails, Allowed, IsLive, NextRow
  <1>8. StoreTypeOK'
    <2>1. log' \in Seq(Op) /\ op' \in Op /\ refused' \in BOOLEAN /\ faults' \in Nat
      <3>1. log' \in Seq(Op)
        BY <1>5, LoggedIsOp
      <3>2. refused' \in BOOLEAN /\ op' \in Op
        BY <1>i, <1>2, <1>6 DEF StoreTypeOK
      <3>3. faults' \in Nat
        BY <1>i, <1>6 DEF StoreTypeOK
      <3> QED BY <3>1, <3>2, <3>3
    <2> QED BY <1>i, <1>2, <1>4, <1>6, <2>1 DEF StoreTypeOK, Renaming
  <1>9. QueueInv'
    <2>1. Len(log) \in Nat /\ Len(<<>>) = 0 /\ DOMAIN <<>> = {}
      BY <1>i DEF QueueInv
    <2> QED BY <1>i, <1>4, <1>5, <2>1 DEF QueueInv
  <1>10. PlaceInv'
    BY <1>i, <1>2, <1>4, <1>6, <1>7 DEF PlaceInv, Renaming
  <1>11. CompactInv'
    BY <1>i, <1>2, <1>4, <1>6 DEF CompactInv, Renaming
  <1> QED BY <1>8, <1>9, <1>10, <1>11 DEF TypeInv

\* Type correctness is kept by a write to the vector file.
LEMMA TypeWrite == TypeInv /\ WriteRow => TypeInv'
  <1> SUFFICES ASSUME TypeInv, WriteRow PROVE TypeInv'
    OBVIOUS
  <1>i. StoreTypeOK /\ QueueInv /\ PlaceInv /\ CompactInv
    BY DEF TypeInv
  <1>1. /\ pc = "row" /\ pc' = "meta"
        /\ UNCHANGED <<linked, metaFlushed, log, refused, meta, deletedCount, mapped, phase, todo, op, restarts, faults>>
        /\ rows' = IF op.kind = "insert" THEN Append(rows, op.vec) ELSE [rows EXCEPT ![op.id + 1] = op.vec]
    BY DEF WriteRow, At, durable, memory, counters
  <1>2. /\ op \in Op /\ op.vec \in Vectors /\ op.id \in Nat /\ op.kind \in {"insert", "update"}
        /\ op.kind = "insert" => op.id = Len(rows)
        /\ op.kind = "update" => op.id < Len(rows)
    BY <1>i, <1>1, IdsAreNumbers DEF StoreTypeOK, Op, PlaceInv
  <1>3. rows' \in Seq(Vectors) /\ Len(rows') >= Len(rows) /\ op.id < Len(rows') /\ Len(rows) \in Nat /\ Len(rows') \in Nat
    <2>1. CASE op.kind = "insert"
      BY <1>i, <1>1, <1>2, <2>1 DEF StoreTypeOK
    <2>2. CASE op.kind = "update"
      <3>1. rows \in [1 .. Len(rows) -> Vectors] /\ Len(rows) \in Nat
        BY <1>i DEF StoreTypeOK
      <3>2. rows' \in [1 .. Len(rows) -> Vectors]
        BY <1>1, <1>2, <2>2, <3>1
      <3>3. rows' \in Seq(Vectors) /\ Len(rows') = Len(rows)
        BY <3>1, <3>2
      <3> QED BY <1>2, <2>2, <3>1, <3>3
    <2> QED BY <1>2, <2>1, <2>2
  <1>4. StoreTypeOK'
    <2>1. linked \cup DOMAIN meta \cup DOMAIN metaFlushed \subseteq 0 .. Len(rows) - 1
      BY <1>i, <1>1 DEF StoreTypeOK, Renaming
    <2>2. linked \cup DOMAIN meta \cup DOMAIN metaFlushed \subseteq 0 .. Len(rows') - 1
      BY <1>3, <2>1
    <2> QED BY <1>i, <1>1, <1>3, <2>2 DEF StoreTypeOK
  <1>5. QueueInv' /\ PlaceInv' /\ CompactInv'
    BY <1>i, <1>1, <1>3 DEF QueueInv, PlaceInv, CompactInv, Renaming
  <1> QED BY <1>4, <1>5 DEF TypeInv

\* Type correctness is kept by the other steps of an operation.
LEMMA TypeStep == TypeInv /\ (PutMeta \/ Finish \/ GrowFails \/ Panics \/ CallPanics) => TypeInv'
  <1> SUFFICES ASSUME TypeInv, PutMeta \/ Finish \/ GrowFails \/ Panics \/ CallPanics PROVE TypeInv'
    OBVIOUS
  <1>i. StoreTypeOK /\ QueueInv /\ PlaceInv /\ CompactInv
    BY DEF TypeInv
  <1>o. op \in Op /\ op.id \in Ids /\ op.data \in Data /\ op.id \in Nat
    BY <1>i, IdsAreNumbers DEF StoreTypeOK, Op
  <1>1. CASE PutMeta
    <2>1. /\ pc = "meta"
          /\ UNCHANGED <<rows, linked, metaFlushed, log, refused, deletedCount, mapped, phase, todo, restarts, faults>>
          /\ meta' = Put(meta, op.id, op.kind = "delete", op.data)
          /\ \/ pc' = "idle" /\ op' = NoOp
             \/ pc' = "link" /\ op' = op
      BY <1>1 DEF PutMeta, At, files, durable, counters
    <2>2. meta' \in Metas /\ DOMAIN meta' = DOMAIN meta \cup {op.id}
      <3> DEFINE del == op.kind = "delete"
      <3>1. del \in BOOLEAN /\ meta \in Metas
        BY <1>i DEF StoreTypeOK
      <3> HIDE DEF del
      <3>2. PutIs(Put(meta, op.id, del, op.data), meta, op.id, del, op.data)
        BY <1>o, <3>1, PutFacts
      <3>3. meta' = Put(meta, op.id, del, op.data)
        BY <2>1 DEF del
      <3> QED BY <3>2, <3>3 DEF PutIs
    <2>3. op.id \in 0 .. Len(rows) - 1
      BY <1>i, <1>o, <2>1 DEF PlaceInv, StoreTypeOK
    <2>4. StoreTypeOK'
      BY <1>i, <2>1, <2>2, <2>3, LoggedIsOp DEF StoreTypeOK, Renaming
    <2>5. QueueInv' /\ PlaceInv' /\ CompactInv'
      BY <1>i, <2>1 DEF QueueInv, PlaceInv, CompactInv, Renaming
    <2> QED BY <2>4, <2>5 DEF TypeInv
  <1>2. CASE Finish
    <2>1. /\ pc = "link" /\ pc' = "idle" /\ op' = NoOp
          /\ UNCHANGED <<rows, metaFlushed, log, refused, meta, mapped, phase, todo, restarts, faults>>
          /\ deletedCount' \in {deletedCount, deletedCount + 1}
          /\ linked' \subseteq linked \cup {op.id}
      BY <1>2 DEF Finish, At, durable, counters, CountedAfter
    <2>2. op.id \in 0 .. Len(rows) - 1
      BY <1>i, <1>o, <2>1 DEF PlaceInv, StoreTypeOK
    <2>3. StoreTypeOK'
      BY <1>i, <1>o, <2>1, <2>2, LoggedIsOp DEF StoreTypeOK, Renaming
    <2>4. QueueInv' /\ PlaceInv' /\ CompactInv'
      BY <1>i, <2>1 DEF QueueInv, PlaceInv, CompactInv, Renaming
    <2> QED BY <2>3, <2>4 DEF TypeInv
  <1>3. CASE GrowFails
    <2>1. /\ pc \in {"row", "meta", "link"} /\ pc' = "idle" /\ op' = NoOp /\ faults' = faults + 1
          /\ UNCHANGED <<rows, linked, metaFlushed, log, restarts>>
          /\ refused' = (refused \/ (phase = "up" /\ pc = "meta"))
      BY <1>3 DEF GrowFails, Uses, files
    <2>2. CASE phase = "recovering"
      <3>1. phase' = "closed" /\ todo' = <<>> /\ meta' = NoMetaAtAll /\ deletedCount' = 0 /\ mapped' = {}
        BY <1>3, <2>2 DEF GrowFails, Closed
      <3>2. StoreTypeOK'
        BY <1>i, <2>1, <3>1, NoMetaType, LoggedIsOp DEF StoreTypeOK, Renaming
      <3>3. QueueInv' /\ PlaceInv' /\ CompactInv'
        BY <1>i, <2>1, <3>1 DEF QueueInv, PlaceInv, CompactInv, Renaming
      <3> QED BY <3>2, <3>3 DEF TypeInv
    <2>3. CASE phase # "recovering"
      <3>1. UNCHANGED <<meta, deletedCount, phase, todo>> /\ mapped' = mapped \ {Uses[pc]}
        BY <1>3, <2>3 DEF GrowFails
      <3>2. phase = "up"
        BY <1>i, <2>1, <2>3 DEF StoreTypeOK, PlaceInv
      <3>3. StoreTypeOK'
        BY <1>i, <2>1, <3>1, LoggedIsOp DEF StoreTypeOK, Renaming
      <3>4. PlaceInv'
        <4>1. pc # "meta" => Uses[pc] # "meta"
          BY <2>1 DEF Uses
        <4>2. "meta" \notin mapped' => refused'
          BY <1>i, <2>1, <3>1, <3>2, <4>1 DEF PlaceInv
        <4> QED BY <2>1, <3>1, <3>2, <4>2 DEF PlaceInv, Renaming
      <3>5. QueueInv' /\ CompactInv'
        BY <1>i, <2>1, <3>1 DEF QueueInv, CompactInv, Renaming
      <3> QED BY <3>3, <3>4, <3>5 DEF TypeInv
    <2> QED BY <2>2, <2>3
  <1>4. CASE Panics
    <2>1. /\ pc \in {"row", "meta", "link"} /\ pc' = "idle" /\ op' = NoOp /\ refused' = (refused \/ pc = "meta")
          /\ UNCHANGED <<rows, linked, metaFlushed, log, meta, deletedCount, mapped, phase, todo, restarts, faults>>
      BY <1>4 DEF Panics, Uses, files, memory, counters
    <2>2. StoreTypeOK'
      BY <1>i, <2>1, LoggedIsOp DEF StoreTypeOK, Renaming
    <2>3. QueueInv' /\ PlaceInv' /\ CompactInv'
      BY <1>i, <2>1 DEF QueueInv, PlaceInv, CompactInv, Renaming
    <2> QED BY <2>2, <2>3 DEF TypeInv
  <1>5. CASE CallPanics
    BY <1>5, <1>i DEF CallPanics, vars, files, durable, memory, counters, TypeInv, StoreTypeOK, QueueInv, PlaceInv, CompactInv, FreshMeta
  <1> QED BY <1>1, <1>2, <1>3, <1>4, <1>5

\* Type correctness is kept by recovery's choice of the next record.
LEMMA TypeReplay == TypeInv /\ ReplayNext => TypeInv'
  <1> SUFFICES ASSUME TypeInv, ReplayNext PROVE TypeInv'
    OBVIOUS
  <1>i. StoreTypeOK /\ QueueInv /\ PlaceInv /\ CompactInv
    BY DEF TypeInv
  <1> DEFINE r == Head(todo)
             what == ReplayOf(r, Len(rows), meta)
  <1>1. /\ phase = "recovering" /\ pc = "idle" /\ todo # <<>> /\ todo' = Tail(todo)
        /\ UNCHANGED <<rows, linked, metaFlushed, log, refused, meta, deletedCount, mapped, phase, restarts, faults>>
    BY DEF ReplayNext, files, durable, memory, counters
  <1>2. todo \in Seq(Logged) /\ Len(todo) \in Nat /\ Len(log) \in Nat /\ Len(todo) > 0 /\ Len(todo) <= Len(log)
    BY <1>i, <1>1 DEF QueueInv
  <1>3. /\ r \in Logged /\ r.id \in Ids /\ r.id \in Nat /\ r.vec \in Vectors /\ r.data \in Data
        /\ r.kind \in {"insert", "update", "delete"}
    <2>1. r = todo[1] /\ 1 \in DOMAIN todo
      BY <1>2
    <2>2. r \in Logged
      BY <1>2, <2>1
    <2> HIDE DEF r
    <2> QED BY <2>2, IdsAreNumbers DEF Logged
  <1>4. todo' \in Seq(Logged) /\ Len(todo') = Len(todo) - 1
    BY <1>1, <1>2
  <1>5. ASSUME NEW j \in DOMAIN todo' PROVE todo'[j] = log'[Len(log') - Len(todo') + j]
    <2>1. j + 1 \in DOMAIN todo /\ todo'[j] = todo[j + 1]
      BY <1>1, <1>2, <1>4
    <2>2. todo[j + 1] = log[Len(log) - Len(todo) + (j + 1)]
      BY <1>i, <2>1 DEF QueueInv
    <2>3. Len(log) - Len(todo) + (j + 1) = Len(log') - Len(todo') + j
      BY <1>1, <1>2, <1>4
    <2> QED BY <1>1, <2>1, <2>2, <2>3
  <1>6. QueueInv'
    BY <1>i, <1>1, <1>2, <1>4, <1>5 DEF QueueInv
  <1>7. \/ UNCHANGED <<op, pc>> /\ what = "skip"
        \/ /\ what # "skip"
           /\ op' = [kind |-> what, vec |-> r.vec, id |-> IF what = "insert" THEN Len(rows) ELSE r.id,
                     data |-> IF what = "delete" THEN meta[r.id].data ELSE r.data]
           /\ pc' = IF what \in {"insert", "update"} THEN "row" ELSE "meta"
    BY DEF ReplayNext
  <1>8. /\ what \in {"insert", "restore", "update", "delete", "skip"}
        /\ what = "insert" => Len(rows) <= r.id
        /\ what \in {"restore", "update", "delete"} => r.id < Len(rows)
        /\ what = "delete" => r.id \in DOMAIN meta
    <2>1. Len(rows) \in Nat
      BY <1>i DEF StoreTypeOK
    <2> QED BY <1>3, <2>1 DEF ReplayOf, ReplayOfInsert, IsDeleted
  <1>9. what # "skip" => op' \in Op /\ op'.kind = what /\ op'.id = (IF what = "insert" THEN Len(rows) ELSE r.id)
    <2>1. what = "insert" => Len(rows) \in Ids
      BY <1>i, <1>3, <1>8, StoreBoundsAssumption DEF Ids, StoreTypeOK
    <2>2. what = "delete" => meta[r.id].data \in Data
      BY <1>i, <1>8, MetasType DEF StoreTypeOK
    <2> HIDE DEF what, r
    <2> QED BY <1>3, <1>7, <1>8, <2>1, <2>2 DEF Op
  <1> HIDE DEF what, r
  <1>10. StoreTypeOK'
    <2>1. op' \in Op /\ pc' \in {"idle", "row", "meta"}
      BY <1>i, <1>1, <1>7, <1>9 DEF StoreTypeOK
    <2>2. todo' \in Seq(Op)
      BY <1>4, LoggedIsOp
    <2> QED BY <1>i, <1>1, <2>1, <2>2 DEF StoreTypeOK, Renaming
  <1>11. PlaceInv'
    <2>1. CASE what = "skip"
      BY <1>i, <1>1, <1>7, <2>1 DEF PlaceInv, Renaming
    <2>2. CASE what # "skip"
      <3>1. /\ op'.kind = what /\ op'.id = (IF what = "insert" THEN Len(rows) ELSE r.id)
            /\ pc' = IF what \in {"insert", "update"} THEN "row" ELSE "meta"
        BY <1>7, <1>9, <2>2
      <3>2. pc' = "row" => /\ op'.kind \in {"insert", "update"} /\ "vec" \in mapped'
                           /\ op'.id = IF op'.kind = "insert" THEN Len(rows') ELSE op'.id
                           /\ op'.kind = "update" => op'.id < Len(rows')
        BY <1>i, <1>1, <1>8, <3>1 DEF PlaceInv, Mappings
      <3>3. pc' \in {"meta", "link"} => op'.id < Len(rows')
        BY <1>1, <1>8, <2>2, <3>1
      <3>4. pc' \in {"row", "meta"}
        BY <3>1
      <3> QED BY <1>i, <1>1, <3>2, <3>3, <3>4 DEF PlaceInv, Renaming
    <2> QED BY <2>1, <2>2
  <1>12. CompactInv'
    BY <1>i, <1>1, <1>7 DEF CompactInv, Renaming
  <1> QED BY <1>6, <1>10, <1>11, <1>12 DEF TypeInv

\* Type correctness is kept by a flush.
LEMMA TypeFlush == TypeInv /\ Flush => TypeInv'
  <1> SUFFICES ASSUME TypeInv, Flush PROVE TypeInv'
    OBVIOUS
  <1>i. StoreTypeOK /\ QueueInv /\ PlaceInv /\ CompactInv
    BY DEF TypeInv
  <1>n. <<>> \in Seq(Logged) /\ <<>> \in Seq(Op) /\ Len(<<>>) = 0 /\ DOMAIN <<>> = {}
    OBVIOUS
  <1>1. CASE FlushData
    <2>1. /\ UNCHANGED <<rows, linked, log, refused, meta, deletedCount, mapped, phase, todo, op, restarts, faults>>
          /\ metaFlushed' = meta /\ pc' = "checkpoint" /\ pc = "idle" /\ mapped = Mappings
          /\ phase = "up" \/ (phase = "recovering" /\ todo = <<>>)
      BY <1>1 DEF FlushData, FlushedMeta, Idle, durable, memory, counters
    <2>2. StoreTypeOK'
      BY <1>i, <2>1 DEF StoreTypeOK, Renaming
    <2>3. QueueInv' /\ PlaceInv' /\ CompactInv'
      BY <1>i, <2>1 DEF QueueInv, PlaceInv, CompactInv, Renaming, Mappings
    <2> QED BY <2>2, <2>3 DEF TypeInv
  <1>2. CASE Checkpoint
    <2>1. /\ UNCHANGED <<rows, linked, metaFlushed, meta, deletedCount, mapped, phase, todo, op, restarts, faults>>
          /\ log' = <<>> /\ refused' = FALSE /\ pc' = "clear" /\ pc = "checkpoint"
      BY <1>2 DEF Checkpoint, files, memory, counters
    <2>2. StoreTypeOK'
      BY <1>i, <1>n, <2>1 DEF StoreTypeOK, Renaming
    <2>3. QueueInv'
      BY <1>i, <1>n, <2>1 DEF QueueInv, PlaceInv
    <2>4. PlaceInv' /\ CompactInv'
      BY <1>i, <1>n, <2>1 DEF PlaceInv, CompactInv, Renaming, Mappings
    <2> QED BY <2>2, <2>3, <2>4 DEF TypeInv
  <1>3. CASE Clear
    <2>1. /\ UNCHANGED <<rows, linked, metaFlushed, log, refused, meta, deletedCount, mapped, todo, op, restarts, faults>>
          /\ pc' = "idle" /\ phase' = "up" /\ pc = "clear"
      BY <1>3 DEF Clear, files, durable, memory, counters
    <2>2. StoreTypeOK'
      BY <1>i, <2>1 DEF StoreTypeOK, Renaming
    <2>3. QueueInv' /\ PlaceInv' /\ CompactInv'
      BY <1>i, <2>1 DEF QueueInv, PlaceInv, CompactInv, Renaming, Mappings
    <2> QED BY <2>2, <2>3 DEF TypeInv
  <1>4. CASE FlushFails
    <2>1. /\ UNCHANGED <<rows, linked, metaFlushed, op, restarts>>
          /\ pc \in {"checkpoint", "clear"} /\ pc' = "idle" /\ faults' = faults + 1
          /\ UNCHANGED <<log, refused>> \/ (log' = <<>> /\ refused' = FALSE)
      BY <1>4 DEF FlushFails, files, durable
    <2>2. \/ /\ phase' = "closed" /\ todo' = <<>> /\ meta' = NoMetaAtAll /\ deletedCount' = 0 /\ mapped' = {}
          \/ phase # "recovering" /\ UNCHANGED <<meta, deletedCount, mapped, phase, todo>>
      BY <1>4 DEF FlushFails, Closed, memory
    <2>3. log' \in Seq(Logged) /\ log' \in Seq(Op) /\ refused' \in BOOLEAN
      BY <1>i, <1>n, <2>1 DEF QueueInv, StoreTypeOK
    <2>4. CASE phase' = "closed" /\ todo' = <<>> /\ meta' = NoMetaAtAll /\ deletedCount' = 0 /\ mapped' = {}
      <3>1. StoreTypeOK'
        BY <1>i, <1>n, <2>1, <2>3, <2>4, NoMetaType DEF StoreTypeOK, Renaming
      <3>2. QueueInv'
        BY <1>n, <2>1, <2>3, <2>4 DEF QueueInv
      <3>3. PlaceInv' /\ CompactInv'
        BY <2>1, <2>4 DEF PlaceInv, CompactInv, Renaming
      <3> QED BY <3>1, <3>2, <3>3 DEF TypeInv
    <2>5. CASE phase # "recovering" /\ UNCHANGED <<meta, deletedCount, mapped, phase, todo>>
      <3>1. StoreTypeOK'
        BY <1>i, <1>n, <2>1, <2>3, <2>5 DEF StoreTypeOK, Renaming
      <3>2. QueueInv'
        BY <1>i, <1>n, <2>1, <2>3, <2>5 DEF QueueInv, PlaceInv
      <3>3. PlaceInv' /\ CompactInv'
        BY <1>i, <2>1, <2>5 DEF PlaceInv, CompactInv, Renaming, Mappings
      <3> QED BY <3>1, <3>2, <3>3 DEF TypeInv
    <2> QED BY <2>2, <2>4, <2>5
  <1> QED BY <1>1, <1>2, <1>3, <1>4 DEF Flush

\* Type correctness is kept by a compaction.
LEMMA TypeCompact == TypeInv /\ Compact => TypeInv'
  <1> SUFFICES ASSUME TypeInv, Compact PROVE TypeInv'
    OBVIOUS
  <1>i. StoreTypeOK /\ QueueInv /\ PlaceInv /\ CompactInv
    BY DEF TypeInv
  <1>n. <<>> \in Seq(Logged) /\ <<>> \in Seq(Op) /\ Len(<<>>) = 0 /\ DOMAIN <<>> = {}
    OBVIOUS
  <1>r. rows \in Seq(Vectors) /\ Len(rows) \in Nat /\ meta \in Metas
    BY <1>i DEF StoreTypeOK
  <1>1. CASE RenameVec
    <2>1. /\ UNCHANGED <<linked, metaFlushed, log, refused, meta, deletedCount, phase, todo, op, restarts>>
          /\ phase = "up" /\ pc = "idle"
          /\ mapped' = mapped \ {"vec", "graph"}
      BY <1>1 DEF RenameVec, Idle, durable
    <2>m. "meta" \in mapped' <=> "meta" \in mapped
      BY <2>1
    <2>2. DOMAIN meta \subseteq 0 .. Len(rows) - 1
      BY <1>i, <2>1 DEF StoreTypeOK, Renaming
    <2>3. CASE rows' = [i \in DOMAIN LiveIds |-> rows[LiveIds[i] + 1]] /\ pc' = "renameGraph" /\ UNCHANGED faults
      <3>1. /\ LiveIds \in Seq(0 .. Len(rows) - 1)
            /\ Len(LiveIds) = Cardinality({id \in DOMAIN meta : ~meta[id].del})
        BY <1>r, <2>2, LiveFacts
      <3>2. rows' \in Seq(Vectors) /\ Len(rows') = Len(LiveIds)
        <4>1. DOMAIN LiveIds = 1 .. Len(LiveIds) /\ Len(LiveIds) \in Nat
          BY <3>1
        <4>2. ASSUME NEW i \in DOMAIN LiveIds PROVE rows[LiveIds[i] + 1] \in Vectors
          <5>1. LiveIds[i] \in 0 .. Len(rows) - 1
            BY <3>1
          <5> QED BY <1>r, <5>1
        <4> HIDE DEF LiveIds
        <4>3. rows' \in [1 .. Len(LiveIds) -> Vectors]
          BY <2>3, <4>1, <4>2
        <4> QED BY <4>1, <4>3
      <3>3. StoreTypeOK'
        BY <1>i, <2>1, <2>3, <3>2 DEF StoreTypeOK, Renaming
      <3>4. QueueInv' /\ PlaceInv'
        BY <1>i, <2>1, <2>m, <2>3 DEF QueueInv, PlaceInv, Renaming
      <3>5. CompactInv'
        BY <1>i, <2>1, <2>3, <3>1, <3>2 DEF CompactInv, Renaming
      <3> QED BY <3>3, <3>4, <3>5 DEF TypeInv
    <2>4. CASE faults' = faults + 1 /\ UNCHANGED <<rows, pc>>
      <3>1. StoreTypeOK'
        BY <1>i, <2>1, <2>4 DEF StoreTypeOK, Renaming
      <3>2. QueueInv' /\ PlaceInv' /\ CompactInv'
        BY <1>i, <2>1, <2>m, <2>4 DEF QueueInv, PlaceInv, CompactInv, Renaming
      <3> QED BY <3>1, <3>2 DEF TypeInv
    <2> QED BY <1>1, <2>3, <2>4 DEF RenameVec
  <1>2. CASE RenameGraph
    <2>1. /\ UNCHANGED <<rows, metaFlushed, log, refused, meta, deletedCount, mapped, phase, todo, op, restarts, faults>>
          /\ pc = "renameGraph" /\ pc' = "renameMeta" /\ linked' \subseteq 0 .. Len(rows) - 1
      BY <1>2 DEF RenameGraph, durable, memory, counters
    <2>2. Len(rows) <= MaxRows
      BY <1>i, <1>r, <2>1, FreshFacts DEF CompactInv, Renaming
    <2>3. linked' \subseteq Ids
      BY <1>r, <2>1, <2>2, StoreBoundsAssumption DEF Ids
    <2>4. StoreTypeOK'
      BY <1>i, <2>1, <2>3 DEF StoreTypeOK, Renaming
    <2>5. QueueInv' /\ PlaceInv' /\ CompactInv'
      BY <1>i, <2>1 DEF QueueInv, PlaceInv, CompactInv, Renaming
    <2> QED BY <2>4, <2>5 DEF TypeInv
  <1>3. CASE RenameMeta
    <2>1. /\ UNCHANGED <<rows, linked, log, refused, meta, deletedCount, mapped, phase, todo, op, restarts, faults>>
          /\ pc = "renameMeta" /\ pc' = "clearLog" /\ metaFlushed' = FreshMeta
      BY <1>3 DEF RenameMeta, durable, memory, counters
    <2>2. FreshMeta' = FreshMeta
      BY <2>1 DEF FreshMeta
    <2>3. StoreTypeOK'
      BY <1>i, <1>r, <2>1, FreshFacts DEF StoreTypeOK, Renaming
    <2>4. QueueInv' /\ PlaceInv'
      BY <1>i, <2>1 DEF QueueInv, PlaceInv, Renaming
    <2>5. CompactInv'
      BY <1>i, <1>r, <2>1, <2>2, FreshFacts DEF CompactInv, Renaming
    <2> QED BY <2>3, <2>4, <2>5 DEF TypeInv
  <1>4. CASE ClearLog
    <2>1. /\ UNCHANGED <<rows, linked, metaFlushed, meta, deletedCount, mapped, phase, todo, op, restarts, faults>>
          /\ pc = "clearLog" /\ pc' = "reopen" /\ log' = <<>> /\ refused' = FALSE
      BY <1>4 DEF ClearLog, files, memory, counters
    <2>2. todo = <<>> /\ phase = "up"
      BY <1>i, <2>1 DEF PlaceInv, QueueInv, StoreTypeOK, Renaming
    <2>3. StoreTypeOK'
      BY <1>i, <1>n, <2>1 DEF StoreTypeOK, Renaming
    <2>4. QueueInv' /\ PlaceInv' /\ CompactInv'
      BY <1>i, <1>n, <2>1, <2>2 DEF QueueInv, PlaceInv, CompactInv, Renaming
    <2> QED BY <2>3, <2>4 DEF TypeInv
  <1>5. CASE Reopen
    <2>1. /\ UNCHANGED <<rows, linked, metaFlushed, log, refused, phase, todo, op, restarts, faults>>
          /\ pc = "reopen" /\ pc' = "idle" /\ meta' = metaFlushed /\ deletedCount' = 0 /\ mapped' = Mappings
      BY <1>5 DEF Reopen, files, durable, counters
    <2>2. linked \cup DOMAIN metaFlushed \subseteq 0 .. Len(rows) - 1
      BY <1>i, <2>1 DEF CompactInv
    <2>3. StoreTypeOK'
      BY <1>i, <2>1, <2>2 DEF StoreTypeOK, Renaming
    <2>4. QueueInv' /\ PlaceInv' /\ CompactInv'
      BY <1>i, <2>1 DEF QueueInv, PlaceInv, CompactInv, Renaming, Mappings
    <2> QED BY <2>3, <2>4 DEF TypeInv
  <1> QED BY <1>1, <1>2, <1>3, <1>4, <1>5 DEF Compact

\* Every value has its type, and metadata and graph nodes are of rows that exist, in every
\* state; crashes between the renames of a compaction are left out.
THEOREM StoreTypeInvariance == ASSUME "compact" \notin Faults PROVE Spec => []TypeInv
  <1>1. Init => TypeInv
    <2> SUFFICES ASSUME Init PROVE TypeInv
      OBVIOUS
    <2>n. <<>> \in Seq(Logged) /\ <<>> \in Seq(Op) /\ <<>> \in Seq(Vectors) /\ Len(<<>>) = 0 /\ DOMAIN <<>> = {}
      OBVIOUS
    <2>1. StoreTypeOK
      BY <2>n, NoMetaType, LoggedIsOp DEF Init, StoreTypeOK
    <2>2. QueueInv /\ PlaceInv /\ CompactInv
      BY <2>n DEF Init, QueueInv, PlaceInv, CompactInv, Renaming
    <2> QED BY <2>1, <2>2 DEF TypeInv
  <1>2. TypeInv /\ [Next]_vars => TypeInv'
    <2> SUFFICES ASSUME TypeInv, [Next]_vars PROVE TypeInv'
      OBVIOUS
    <2>1. CASE UNCHANGED vars
      BY <2>1 DEF vars, files, durable, memory, counters, TypeInv, StoreTypeOK, QueueInv, PlaceInv, CompactInv, FreshMeta
    <2>2. CASE Restart
      BY <2>2, TypeOpen DEF Restart
    <2> QED BY <2>1, <2>2, TypeOpen, TypeBegin, TypeWrite, TypeStep, TypeReplay, TypeFlush, TypeCompact DEF Next, Step
  <1> QED BY <1>1, <1>2, PTL DEF Spec

\* The same for the type invariant that the runs check.
THEOREM StoreTypeCorrect == ASSUME "compact" \notin Faults PROVE Spec => []StoreTypeOK
  <1>1. TypeInv => StoreTypeOK
    BY DEF TypeInv
  <1> QED BY <1>1, StoreTypeInvariance, PTL

(***************************************************************************)
(* The count of the deleted rows                                           *)
(***************************************************************************)
\* A row that an insert has written but not put, or that a delete has put but not counted.
Pending == {id \in Ids : /\ id = op.id
                         /\ \/ pc = "meta" /\ op.kind = "insert"
                            \/ pc = "link" /\ op.kind = "delete"}
Counted == DeletedRows(Len(rows), meta) \ Pending

\* The count is of the database as a whole: every file is mapped and of one numbering.
Whole == mapped = Mappings /\ phase # "closed" /\ pc \notin Renaming \cup {"reopen"}
CountInv == Whole => Cardinality(Counted) <= deletedCount

\* The deleted rows are finitely many, and fewer are no more.
LEMMA CountType ==
    ASSUME StoreTypeOK
    PROVE  /\ IsFiniteSet(Counted) /\ Cardinality(Counted) \in Nat
           /\ \A S \in SUBSET Counted : IsFiniteSet(S) /\ Cardinality(S) <= Cardinality(Counted) /\ Cardinality(S) \in Nat
           /\ \A id : Cardinality(Counted \cup {id}) <= Cardinality(Counted) + 1 /\ IsFiniteSet(Counted \cup {id})
  <1>1. Counted \subseteq 0 .. Len(rows) - 1 /\ Len(rows) \in Nat
    BY DEF Counted, DeletedRows, StoreTypeOK
  <1>2. IsFiniteSet(0 .. Len(rows) - 1)
    BY <1>1, FS_Interval
  <1> HIDE DEF Counted
  <1>3. IsFiniteSet(Counted)
    BY <1>1, <1>2, FS_Subset
  <1>4. Cardinality(Counted) \in Nat
    BY <1>3, FS_CardinalityType
  <1>5. \A S \in SUBSET Counted : IsFiniteSet(S) /\ Cardinality(S) <= Cardinality(Counted) /\ Cardinality(S) \in Nat
    BY <1>3, FS_Subset, FS_CardinalityType
  <1>6. ASSUME NEW id PROVE Cardinality(Counted \cup {id}) <= Cardinality(Counted) + 1 /\ IsFiniteSet(Counted \cup {id})
    BY <1>3, <1>4, FS_AddElement
  <1> QED BY <1>3, <1>4, <1>5, <1>6

\* A step that deletes no row more than it counts keeps the count.
LEMMA CountKept ==
    ASSUME StoreTypeOK, CountInv,
           Whole' => /\ Whole
                     /\ \/ Counted' \subseteq Counted /\ deletedCount' = deletedCount
                        \/ \E id : Counted' \subseteq Counted \cup {id} /\ deletedCount' = deletedCount + 1
    PROVE  CountInv'
  <1> SUFFICES ASSUME Whole' PROVE Cardinality(Counted') <= deletedCount'
    BY DEF CountInv
  <1>1. Cardinality(Counted) <= deletedCount /\ deletedCount \in Nat
    BY DEF CountInv, StoreTypeOK
  <1>2. CASE Counted' \subseteq Counted /\ deletedCount' = deletedCount
    <2>1. Cardinality(Counted') <= Cardinality(Counted) /\ Cardinality(Counted') \in Nat /\ Cardinality(Counted) \in Nat
      BY <1>2, CountType
    <2> QED BY <1>1, <1>2, <2>1
  <1>3. ASSUME NEW id, Counted' \subseteq Counted \cup {id}, deletedCount' = deletedCount + 1
        PROVE  Cardinality(Counted') <= deletedCount'
    <2>1. /\ IsFiniteSet(Counted \cup {id}) /\ Cardinality(Counted \cup {id}) <= Cardinality(Counted) + 1
          /\ Cardinality(Counted) \in Nat
      BY CountType
    <2>2. /\ Cardinality(Counted') <= Cardinality(Counted \cup {id})
          /\ Cardinality(Counted') \in Nat /\ Cardinality(Counted \cup {id}) \in Nat
      BY <1>3, <2>1, FS_Subset, FS_CardinalityType
    <2> QED BY <1>1, <1>3, <2>1, <2>2
  <1> QED BY <1>2, <1>3

\* Every step keeps the count.
LEMMA CountStep == TypeInv /\ CountInv /\ [Next]_vars => CountInv'
  <1> SUFFICES ASSUME TypeInv, CountInv, [Next]_vars PROVE CountInv'
    OBVIOUS
  <1>i. StoreTypeOK /\ QueueInv /\ PlaceInv /\ CompactInv
    BY DEF TypeInv
  <1>o. op.id \in Ids /\ op.id \in Nat /\ op.data \in Data
    BY <1>i, IdsAreNumbers DEF StoreTypeOK, Op
  <1>t. meta \in Metas /\ rows \in Seq(Vectors) /\ Len(rows) \in Nat
    BY <1>i DEF StoreTypeOK
  <1>1. CASE Open
    <2>1. /\ UNCHANGED <<rows, pc, op>> /\ meta' = metaFlushed
          /\ deletedCount' = Cardinality(DeletedRows(Len(rows), metaFlushed)) /\ pc = "idle"
      BY <1>1, <1>i DEF Open, files, PlaceInv
    <2>2. Counted' = DeletedRows(Len(rows), metaFlushed)
      BY <2>1 DEF Counted, Pending
    <2>3. Cardinality(Counted') <= deletedCount'
      <3>1. DeletedRows(Len(rows), metaFlushed) \subseteq 0 .. Len(rows) - 1
        BY DEF DeletedRows
      <3>2. IsFiniteSet(0 .. Len(rows) - 1)
        BY <1>t, FS_Interval
      <3>3. Cardinality(DeletedRows(Len(rows), metaFlushed)) \in Nat
        BY <3>1, <3>2, FS_Subset, FS_CardinalityType
      <3> QED BY <2>1, <2>2, <3>3
    <2> QED BY <2>3 DEF CountInv
  <1>2. ASSUME phase' = "closed" PROVE CountInv'
    BY <1>2 DEF CountInv, Whole
  <1>3. CASE Operation
    <2>1. PICK o : Begin(o) \/ BeginFails(o)
      BY <1>3 DEF Operation
    <2>2. /\ UNCHANGED <<rows, meta, deletedCount, mapped, phase>> /\ pc = "idle"
          /\ \/ op' = o /\ pc' = (IF o.kind = "delete" THEN "meta" ELSE "row")
             \/ UNCHANGED <<op, pc>>
      BY <2>1 DEF Begin, BeginFails, Allowed, Idle, files, memory
    <2>3. Counted' \subseteq Counted
      BY <2>2 DEF Counted, Pending
    <2>4. Whole' => Whole
      BY <2>2 DEF Whole, Renaming
    <2> QED BY <1>i, <2>2, <2>3, <2>4, CountKept
  <1>4. CASE WriteRow
    <2>1. /\ UNCHANGED <<op, meta, deletedCount, mapped, phase>> /\ pc = "row" /\ pc' = "meta"
          /\ rows' = IF op.kind = "insert" THEN Append(rows, op.vec) ELSE [rows EXCEPT ![op.id + 1] = op.vec]
      BY <1>4 DEF WriteRow, At, memory
    <2>2. op.kind = "insert" => op.id = Len(rows)
      BY <1>i, <2>1 DEF PlaceInv
    <2>3. op.vec \in Vectors
      BY <1>i DEF StoreTypeOK, Op
    <2>4. Counted' \subseteq Counted
      <3>1. CASE op.kind = "insert"
        <4>1. Len(rows') = Len(rows) + 1
          BY <1>t, <2>1, <2>3, <3>1
        <4>2. Pending' = {op.id} /\ Pending = {}
          BY <1>o, <2>1, <3>1 DEF Pending
        <4> QED BY <1>t, <2>1, <2>2, <3>1, <4>1, <4>2 DEF Counted, DeletedRows
      <3>2. CASE op.kind # "insert"
        <4>1. Len(rows') = Len(rows)
          <5>1. rows \in [1 .. Len(rows) -> Vectors]
            BY <1>t
          <5>2. rows' \in [1 .. Len(rows) -> Vectors]
            BY <1>o, <2>1, <2>3, <3>2, <5>1
          <5> QED BY <1>t, <5>2
        <4>2. Pending' = {} /\ Pending = {}
          BY <2>1, <3>2 DEF Pending
        <4> QED BY <2>1, <4>1, <4>2 DEF Counted
      <3> QED BY <3>1, <3>2
    <2>5. Whole' => Whole
      BY <2>1 DEF Whole, Renaming
    <2> QED BY <1>i, <2>1, <2>4, <2>5, CountKept
  <1>5. CASE PutMeta
    <2>1. /\ UNCHANGED <<rows, deletedCount, mapped, phase>> /\ pc = "meta"
          /\ meta' = Put(meta, op.id, op.kind = "delete", op.data)
          /\ \/ pc' = "idle" /\ op' = NoOp
             \/ pc' = "link" /\ op' = op
          /\ op.kind # "restore" => pc' = "link" /\ op' = op
      BY <1>5 DEF PutMeta, At, files
    <2>2. /\ IsDeleted(meta', op.id) <=> op.kind = "delete"
          /\ \A i : i # op.id => (IsDeleted(meta', i) <=> IsDeleted(meta, i))
      <3> DEFINE del == op.kind = "delete"
      <3>1. del \in BOOLEAN
        OBVIOUS
      <3> HIDE DEF del
      <3>2. PutIs(Put(meta, op.id, del, op.data), meta, op.id, del, op.data)
        BY <1>o, <1>t, <3>1, PutFacts
      <3>3. meta' = Put(meta, op.id, del, op.data)
        BY <2>1 DEF del
      <3> QED BY <3>2, <3>3 DEF PutIs, del
    <2>3. ASSUME NEW id \in Counted' PROVE id \in Counted
      <3>1. id \in 0 .. Len(rows) - 1 /\ IsDeleted(meta', id) /\ id \notin Pending'
        BY <2>1, <2>3 DEF Counted, DeletedRows
      <3>2. id # op.id
        <4>1. CASE op.kind = "delete"
          <5>1. op.id \in Pending'
            BY <1>o, <2>1, <4>1 DEF Pending
          <5> QED BY <3>1, <5>1
        <4>2. CASE op.kind # "delete"
          BY <2>2, <3>1, <4>2
        <4> QED BY <4>1, <4>2
      <3>3. id \notin Pending /\ IsDeleted(meta, id)
        BY <2>2, <3>1, <3>2 DEF Pending
      <3> QED BY <3>1, <3>3 DEF Counted, DeletedRows
    <2>4. Whole' => Whole
      BY <2>1 DEF Whole, Renaming
    <2>5. Counted' \subseteq Counted
      BY <2>3
    <2> QED BY <1>i, <2>1, <2>4, <2>5, CountKept
  <1>6. CASE Finish
    <2>1. /\ UNCHANGED <<rows, meta, mapped, phase>> /\ pc = "link" /\ pc' = "idle"
          /\ deletedCount' = IF op.kind = "delete" THEN deletedCount + 1 ELSE deletedCount
      BY <1>6 DEF Finish, At, CountedAfter
    <2>2. Counted' \subseteq Counted \cup {op.id} /\ (op.kind # "delete" => Counted' \subseteq Counted)
      BY <2>1 DEF Counted, Pending
    <2>3. Whole' => Whole
      BY <2>1 DEF Whole, Renaming
    <2>4. CASE op.kind = "delete"
      <3>1. deletedCount' = deletedCount + 1
        BY <2>1, <2>4
      <3> QED BY <1>i, <2>2, <2>3, <3>1, CountKept
    <2>5. CASE op.kind # "delete"
      <3>1. deletedCount' = deletedCount
        BY <2>1, <2>5
      <3> QED BY <1>i, <2>2, <2>3, <2>5, <3>1, CountKept
    <2> QED BY <2>4, <2>5
  <1>7. CASE GrowFails
    <2>1. CASE phase = "recovering"
      BY <1>2, <1>7, <2>1 DEF GrowFails, Closed
    <2>2. CASE phase # "recovering"
      <3>1. mapped' = mapped \ {Uses[pc]} /\ Uses[pc] \in {"vec", "meta", "graph"}
        BY <1>7, <2>2 DEF GrowFails, Uses
      <3>2. ~Whole'
        BY <3>1 DEF Whole, Mappings
      <3> QED BY <3>2 DEF CountInv
    <2> QED BY <2>1, <2>2
  <1>8. CASE Panics
    <2>1. mapped' = mapped /\ Uses[pc] \notin mapped /\ Uses[pc] \in {"vec", "meta", "graph"}
      BY <1>8 DEF Panics, Uses, memory
    <2>2. ~Whole'
      BY <2>1 DEF Whole, Mappings
    <2> QED BY <2>2 DEF CountInv
  <1>9. CASE ReplayNext
    <2>1. /\ UNCHANGED <<rows, meta, deletedCount, mapped, phase>> /\ pc = "idle"
          /\ \/ UNCHANGED <<op, pc>>
             \/ pc' = IF op'.kind \in {"insert", "update"} THEN "row" ELSE "meta"
      BY <1>9 DEF ReplayNext, files, memory
    <2>2. Counted' \subseteq Counted
      BY <2>1 DEF Counted, Pending
    <2>3. Whole' => Whole
      BY <2>1 DEF Whole, Renaming
    <2> QED BY <1>i, <2>1, <2>2, <2>3, CountKept
  <1>10. CASE FlushData \/ Checkpoint \/ Clear \/ (FlushFails /\ phase # "recovering") \/ CallPanics \/ UNCHANGED vars
    <2>1. /\ UNCHANGED <<rows, meta, deletedCount, mapped, op>>
          /\ \/ UNCHANGED <<pc, phase>>
             \/ pc \in {"idle", "checkpoint", "clear"} /\ pc' \in {"idle", "checkpoint", "clear"} /\ (phase = "closed" => phase' = "closed")
      BY <1>10, <1>i DEF FlushData, Checkpoint, Clear, FlushFails, CallPanics, Idle, PlaceInv, files, memory, vars
    <2>2. Counted' \subseteq Counted
      BY <2>1 DEF Counted, Pending
    <2>3. Whole' => Whole
      BY <2>1 DEF Whole, Renaming
    <2> QED BY <1>i, <2>1, <2>2, <2>3, CountKept
  <1>11. CASE RenameVec \/ RenameGraph \/ RenameMeta \/ ClearLog
    <2>1. ~Whole'
      BY <1>11 DEF RenameVec, RenameGraph, RenameMeta, ClearLog, Whole, Renaming, Mappings
    <2> QED BY <2>1 DEF CountInv
  <1>12. CASE Reopen
    <2>1. UNCHANGED <<rows, op>> /\ pc = "reopen" /\ pc' = "idle" /\ meta' = metaFlushed /\ deletedCount' = 0
      BY <1>12 DEF Reopen, files
    <2>2. Counted' = {}
      BY <1>i, <2>1 DEF Counted, DeletedRows, IsDeleted, CompactInv
    <2> QED BY <2>1, <2>2, FS_EmptySet DEF CountInv
  <1>13. CASE Restart \/ (FlushFails /\ phase = "recovering")
    BY <1>2, <1>13 DEF Restart, FlushFails, Closed
  <1> QED BY <1>1, <1>3, <1>4, <1>5, <1>6, <1>7, <1>8, <1>9, <1>10, <1>11, <1>12, <1>13 DEF Next, Step, Flush, Compact

\* deleted_count is never below the number of deleted rows, through operations, recoveries,
\* compactions and files that cannot grow.
THEOREM CountsDeletedRows == ASSUME "compact" \notin Faults PROVE Spec => []DeletedRowsCounted
  <1>1. Init => CountInv
    BY DEF Init, CountInv, Whole
  <1>2. TypeInv /\ CountInv => DeletedRowsCounted
    <2> SUFFICES ASSUME TypeInv, CountInv, Idle, mapped = Mappings
                 PROVE  deletedCount >= Cardinality(DeletedRows(Len(rows), meta))
      BY DEF DeletedRowsCounted
    <2>1. Whole /\ Counted = DeletedRows(Len(rows), meta)
      BY DEF Idle, Whole, Renaming, Counted, Pending
    <2>2. deletedCount \in Nat /\ Cardinality(Counted) \in Nat
      BY CountType DEF TypeInv, StoreTypeOK
    <2> QED BY <2>1, <2>2 DEF CountInv
  <1> QED BY <1>1, <1>2, CountStep, StoreTypeInvariance, PTL DEF Spec

(***************************************************************************)
(* What readers see is what a crash would recover                          *)
(***************************************************************************)
\* A record is logged for an allowed operation: it fits, and everything before it was
\* applied.
LEMMA FitsAppend ==
    ASSUME NEW L \in Seq(Logged), NEW R \in Seq(Vectors), NEW M \in Metas, LogFits(L, R, M),
           NEW m, Replayed(Len(L), L, R, m, R, M),
           NEW o \in Logged,
           o.kind = "insert" => o.id = Len(R),
           o.kind # "insert" => o.id < Len(R) /\ ~IsDeleted(m, o.id)
    PROVE  LogFits(Append(L, o), R, M) /\ Replayed(Len(L), Append(L, o), R, m, R, M)
  <1> DEFINE n == Len(L) + 1
             N == Append(L, o)
  <1>1. /\ \A j \in DOMAIN L : j \in Nat /\ j <= Len(L) /\ L[j] \in Logged /\ L[j].id \in Nat
        /\ Len(L) \in Nat /\ Len(R) \in Nat
    BY LogType
  <1>o. o.id \in Nat /\ o.kind \in {"insert", "update", "delete"}
    BY IdsAreNumbers DEF Logged
  <1>2. /\ Len(N) = n /\ N[n] = o /\ n \in DOMAIN N /\ n \in Nat
        /\ \A j \in DOMAIN L : N[j] = L[j] /\ j \in DOMAIN N /\ j # n /\ j < n
        /\ \A j \in DOMAIN N : j = n \/ j \in DOMAIN L
        /\ \A j \in DOMAIN N : j \in Nat /\ j <= n /\ (j > Len(L) <=> j = n)
    OBVIOUS
  <1> HIDE DEF N, n
  <1>n. n = Len(L) + 1
    BY DEF n
  <1>3. \A j \in DOMAIN L : L[j].id < Len(R)
    BY DEF Replayed, ReplayedRows
  <1>4. ASSUME o.kind # "insert", NEW j \in DOMAIN L, L[j].id = o.id PROVE L[j].kind # "delete"
    <2> SUFFICES ASSUME L[j].kind = "delete" PROVE FALSE
      OBVIOUS
    <2>1. IsLast(L, j)
      <3>1. \A k \in DOMAIN L : k > j => L[k].id # L[j].id
        BY <1>1, <1>4 DEF LogFits, DeleteIsFinal
      <3> QED BY <1>4, <3>1 DEF IsLast
    <2>2. Entry(R, m, L[j].id) = Result(L[j])
      BY <1>1, <2>1 DEF Replayed, LastDone
    <2>3. Entry(R, m, o.id) = Gone
      BY <1>4, <2>2 DEF Result
    <2> QED BY <1>4, <2>3, EntryFacts
  <1>5. LogRows(N, R)
    <2> SUFFICES ASSUME NEW k \in DOMAIN N
                 PROVE  N[k].id < Len(R) \/ (N[k].id = Len(R) /\ N[k].kind = "insert" /\ k = Len(N))
      BY DEF LogRows
    <2> QED BY <1>1, <1>o, <1>2, <1>3
  <1>6. InsertIsFirst(N)
    <2> SUFFICES ASSUME NEW j \in DOMAIN N, NEW k \in DOMAIN N, j < k, N[k].kind = "insert" PROVE N[j].id # N[k].id
      BY DEF InsertIsFirst
    <2>1. j \in DOMAIN L
      BY <1>1, <1>2
    <2>2. CASE k = n
      BY <1>1, <1>o, <1>2, <1>3, <2>1, <2>2
    <2>3. CASE k # n
      BY <1>2, <2>1, <2>3 DEF LogFits, InsertIsFirst
    <2> QED BY <2>2, <2>3
  <1>7. DeleteIsFinal(N)
    <2> SUFFICES ASSUME NEW j \in DOMAIN N, NEW k \in DOMAIN N, j < k, N[j].kind = "delete" PROVE N[j].id # N[k].id
      BY DEF DeleteIsFinal
    <2>1. j \in DOMAIN L
      BY <1>1, <1>2
    <2>2. CASE k = n
      BY <1>1, <1>o, <1>2, <1>3, <1>4, <2>1, <2>2
    <2>3. CASE k # n
      BY <1>2, <2>1, <2>3 DEF LogFits, DeleteIsFinal
    <2> QED BY <2>2, <2>3
  <1>8. UpdatesLive(N, M)
    <2> SUFFICES ASSUME NEW k \in DOMAIN N, N[k].kind = "update"
                 PROVE  ~IsDeleted(M, N[k].id) \/ \E j \in DOMAIN N : N[j].id = N[k].id /\ N[j].kind \in {"insert", "delete"}
      BY DEF UpdatesLive
    <2>1. ASSUME NEW h \in DOMAIN L, L[h].id = N[k].id, L[h].kind = "update"
          PROVE  ~IsDeleted(M, N[k].id) \/ \E j \in DOMAIN N : N[j].id = N[k].id /\ N[j].kind \in {"insert", "delete"}
      <3>1. ~IsDeleted(M, L[h].id) \/ \E j \in DOMAIN L : L[j].id = L[h].id /\ L[j].kind \in {"insert", "delete"}
        BY <2>1 DEF LogFits, UpdatesLive
      <3> QED BY <1>2, <2>1, <3>1
    <2>2. CASE k # n
      <3>1. k \in DOMAIN L /\ L[k] = N[k]
        BY <1>2, <2>2
      <3> QED BY <2>1, <3>1
    <2>3. CASE k = n /\ Untouched(L, Len(L), o.id)
      <3>1. o.id \in 0 .. Len(R) - 1
        BY <1>1, <1>o, <1>2, <2>3
      <3>2. Entry(R, m, o.id) = Entry(R, M, o.id)
        BY <2>3, <3>1 DEF Replayed, OthersKept
      <3>3. ~IsDeleted(m, o.id)
        BY <1>2, <2>3
      <3> QED BY <1>2, <2>3, <3>2, <3>3, SameEntry
    <2>4. CASE k = n /\ ~Untouched(L, Len(L), o.id)
      <3>1. PICK h \in DOMAIN L : L[h].id = o.id
        BY <2>4 DEF Untouched
      <3>2. CASE L[h].kind = "update"
        BY <1>2, <2>1, <2>4, <3>1, <3>2
      <3>3. CASE L[h].kind # "update"
        <4>1. L[h].kind \in {"insert", "delete"}
          BY <3>3, LogType
        <4> QED BY <1>2, <2>4, <3>1, <4>1
      <3> QED BY <3>2, <3>3
    <2> QED BY <2>2, <2>3, <2>4
  <1>9. InsertIsThere(N, R, M)
    <2> SUFFICES ASSUME NEW k \in DOMAIN N, N[k].kind = "insert", IsSole(N, k), N[k].id < Len(R)
                 PROVE  /\ R[N[k].id + 1] = N[k].vec
                        /\ ~IsDeleted(M, N[k].id) => M[N[k].id].data = N[k].data
      BY DEF InsertIsThere
    <2>1. k \in DOMAIN L /\ N[k] = L[k]
      BY <1>1, <1>2
    <2>2. IsSole(L, k)
      BY <1>2, <2>1 DEF IsSole
    <2> QED BY <2>1, <2>2 DEF LogFits, InsertIsThere
  <1>10. Replayed(Len(L), N, R, m, R, M)
    <2>1. ReplayedRows(Len(L), N, R, R)
      BY <1>1, <1>2, <1>n DEF ReplayedRows
    <2>2. OthersKept(Len(L), N, R, m, R, M)
      <3> SUFFICES ASSUME NEW i \in 0 .. Len(R) - 1, Untouched(N, Len(L), i) PROVE Entry(R, m, i) = Entry(R, M, i)
        BY DEF OthersKept
      <3>1. Untouched(L, Len(L), i)
        BY <1>2 DEF Untouched
      <3> QED BY <3>1 DEF Replayed, OthersKept
    <2>3. LastDone(Len(L), N, R, m)
      <3> SUFFICES ASSUME NEW j \in DOMAIN N, j <= Len(L), IsLast(N, j) PROVE Entry(R, m, N[j].id) = Result(N[j])
        BY DEF LastDone
      <3>1. j \in DOMAIN L /\ N[j] = L[j]
        BY <1>1, <1>2
      <3>2. IsLast(L, j)
        BY <1>2, <3>1 DEF IsLast
      <3> QED BY <3>1, <3>2 DEF Replayed, LastDone
    <2>4. LiveFromInsert(Len(L), N, m)
      <3> SUFFICES ASSUME NEW j \in DOMAIN N,
                          \A h \in DOMAIN N : N[h].id = N[j].id => N[h].kind # "delete" /\ (N[h].kind = "insert" => h <= Len(L))
                   PROVE  ~IsDeleted(m, N[j].id)
        BY DEF LiveFromInsert
      <3>1. CASE j = n
        BY <1>1, <1>o, <1>2, <3>1
      <3>2. CASE j # n
        <4>1. j \in DOMAIN L /\ N[j] = L[j]
          BY <1>2, <3>2
        <4>2. \A h \in DOMAIN L : L[h].id = L[j].id => L[h].kind # "delete" /\ (L[h].kind = "insert" => h <= Len(L))
          BY <1>2, <4>1
        <4> QED BY <4>1, <4>2 DEF Replayed, LiveFromInsert
      <3> QED BY <3>1, <3>2
    <2> QED BY <2>1, <2>2, <2>3, <2>4 DEF Replayed
  <1> QED BY <1>5, <1>6, <1>7, <1>8, <1>9, <1>10 DEF LogFits, N

\* The vector file out is R with the vector of record r in it.
Stored(out, R, r) ==
    /\ out \in Seq(Vectors) /\ r.id < Len(out) /\ out[r.id + 1] = r.vec
    /\ \A i \in 0 .. Len(R) - 1 : i # r.id => out[i + 1] = R[i + 1]
    /\ \/ Len(out) = Len(R) /\ r.kind = "update"
       \/ Len(out) = Len(R) + 1 /\ r.kind = "insert" /\ r.id = Len(R)

\* The vector of the record after the first k is written to the file: the log fits as
\* before, as much of it is applied, and a recovery would give the same rows.
LEMMA FitsWrite ==
    ASSUME NEW L \in Seq(Logged), NEW R \in Seq(Vectors), NEW M \in Metas, LogFits(L, R, M),
           DOMAIN M \subseteq 0 .. Len(R) - 1,
           NEW k \in Nat, NEW n \in DOMAIN L, n = k + 1, NEW m, Replayed(k, L, R, m, R, M),
           NEW out, Stored(out, R, L[n])
    PROVE  /\ LogFits(L, out, M) /\ Replayed(k, L, out, m, out, M)
           /\ \A C : Recovered(C, L, R, M) => Recovered(C, L, out, M)
  <1> DEFINE r == L[n]
  <1>1. /\ \A j \in DOMAIN L : j \in Nat /\ j <= Len(L) /\ L[j] \in Logged /\ L[j].id \in Nat
        /\ Len(L) \in Nat /\ Len(R) \in Nat /\ Len(out) \in Nat /\ r.id \in Nat /\ n \in Nat
    BY LogType DEF Stored
  <1>2. /\ out \in Seq(Vectors) /\ r.id < Len(out) /\ out[r.id + 1] = r.vec
        /\ \A i \in 0 .. Len(R) - 1 : i # r.id => out[i + 1] = R[i + 1]
        /\ \/ Len(out) = Len(R) /\ r.kind = "update"
           \/ Len(out) = Len(R) + 1 /\ r.kind = "insert" /\ r.id = Len(R)
    BY DEF Stored
  <1>3. LogRows(L, out)
    BY <1>1, <1>2 DEF LogFits, LogRows
  <1>4. InsertIsThere(L, out, M)
    <2> SUFFICES ASSUME NEW j \in DOMAIN L, L[j].kind = "insert", IsSole(L, j), L[j].id < Len(out)
                 PROVE  /\ out[L[j].id + 1] = L[j].vec
                        /\ ~IsDeleted(M, L[j].id) => M[L[j].id].data = L[j].data
      BY DEF InsertIsThere
    <2>1. CASE j = n
      <3>1. r.id = Len(R)
        BY <1>2, <2>1
      <3>2. IsDeleted(M, r.id)
        BY <1>1, <3>1 DEF IsDeleted
      <3> QED BY <1>2, <2>1, <3>2
    <2>2. CASE j # n
      <3>1. L[j].id # r.id
        BY <2>2 DEF IsSole
      <3>n. L[j].id \in Nat /\ L[j].id < Len(out)
        BY <1>1
      <3> HIDE DEF r
      <3>2. L[j].id < Len(R)
        BY <1>1, <1>2, <3>n, <3>1
      <3>i. L[j].id \in 0 .. Len(R) - 1
        BY <1>1, <3>n, <3>2
      <3>3. out[L[j].id + 1] = R[L[j].id + 1]
        BY <1>2, <3>i, <3>1
      <3> QED BY <3>2, <3>3 DEF LogFits, InsertIsThere
    <2> QED BY <2>1, <2>2
  <1>5. LogFits(L, out, M)
    BY <1>3, <1>4 DEF LogFits
  <1>7. OthersKept(k, L, out, m, out, M)
    <2> SUFFICES ASSUME NEW i \in 0 .. Len(out) - 1, Untouched(L, k, i)
                 PROVE  Entry(out, m, i) = Entry(out, M, i)
      BY DEF OthersKept
    <2>1. CASE i < Len(R)
      <3>1. Entry(R, m, i) = Entry(R, M, i)
        BY <1>1, <2>1 DEF Replayed, OthersKept
      <3>2. /\ IsDeleted(m, i) <=> IsDeleted(M, i)
            /\ ~IsDeleted(m, i) => m[i].data = M[i].data
        BY <3>1, SameEntry
      <3> QED BY <3>2 DEF Entry
    <2>2. CASE ~ (i < Len(R))
      <3>0. DOMAIN m \subseteq 0 .. Len(R) - 1
        BY DEF Replayed
      <3>1. i \notin DOMAIN M /\ i \notin DOMAIN m
        BY <1>1, <2>2, <3>0
      <3> QED BY <3>1 DEF Entry, IsDeleted
    <2> QED BY <2>1, <2>2
  <1>8. ReplayedRows(k, L, out, out)
    BY <1>1 DEF ReplayedRows
  <1>9. LastDone(k, L, out, m)
    <2> SUFFICES ASSUME NEW j \in DOMAIN L, j <= k, IsLast(L, j)
                 PROVE  Entry(out, m, L[j].id) = Result(L[j])
      BY DEF LastDone
    <2>0. j < n /\ j # Len(L)
      BY <1>1
    <2>1. L[j].id # r.id /\ j # Len(L)
      BY <2>0 DEF IsLast
    <2>2. L[j].id \in 0 .. Len(R) - 1
      BY <1>1, <2>1 DEF LogFits, LogRows
    <2>3. Entry(R, m, L[j].id) = Result(L[j])
      BY DEF Replayed, LastDone
    <2>4. out[L[j].id + 1] = R[L[j].id + 1]
      BY <1>2, <2>1, <2>2
    <2> QED BY <2>3, <2>4 DEF Entry
  <1>10. Replayed(k, L, out, m, out, M)
    <2>1. DOMAIN m \subseteq 0 .. Len(out) - 1
      BY <1>1, <1>2 DEF Replayed
    <2> QED BY <1>2, <1>7, <1>8, <1>9, <2>1 DEF Replayed
  <1>11. ASSUME NEW C, Recovered(C, L, R, M) PROVE Recovered(C, L, out, M)
    <2>1. (IF \E j \in DOMAIN L : L[j].id = Len(R) THEN Len(R) + 1 ELSE Len(R))
          = IF \E j \in DOMAIN L : L[j].id = Len(out) THEN Len(out) + 1 ELSE Len(out)
      <3>1. CASE Len(out) = Len(R)
        BY <3>1
      <3>2. CASE Len(out) = Len(R) + 1 /\ r.id = Len(R)
        <4>1. ~ \E j \in DOMAIN L : L[j].id = Len(R) + 1
          <5>1. \A j \in DOMAIN L : L[j].id <= Len(R) /\ L[j].id \in Nat
            BY <1>1 DEF LogFits, LogRows
          <5> QED BY <1>1, <5>1
        <4>2. \E j \in DOMAIN L : L[j].id = Len(R)
          BY <3>2
        <4> QED BY <3>2, <4>1, <4>2
      <3> QED BY <1>2, <3>1, <3>2
    <2>2. ASSUME NEW i \in 0 .. Len(out) - 1, Untouched(L, Len(L), i) PROVE C[i + 1] = Entry(out, M, i)
      <3>1. i # r.id
        BY <1>1, <2>2 DEF Untouched
      <3>2. i \in 0 .. Len(R) - 1
        BY <1>1, <1>2, <3>1
      <3>3. C[i + 1] = Entry(R, M, i)
        BY <1>11, <2>2, <3>2 DEF Recovered
      <3>4. out[i + 1] = R[i + 1]
        BY <1>2, <3>1, <3>2
      <3> QED BY <3>3, <3>4 DEF Entry
    <2> QED BY <1>11, <2>1, <2>2 DEF Recovered
  <1> QED BY <1>5, <1>10, <1>11

\* All of the log was applied and the metadata file is written: the log fits the new
\* files, in which it is applied, and a recovery would give the same rows.
LEMMA FitsFlush ==
    ASSUME NEW L \in Seq(Logged), NEW R \in Seq(Vectors), NEW M \in Metas, LogFits(L, R, M),
           NEW m, Replayed(Len(L), L, R, m, R, M)
    PROVE  /\ LogFits(L, R, m) /\ Replayed(Len(L), L, R, m, R, m)
           /\ \A C : Recovered(C, L, R, M) => Recovered(C, L, R, m)
  <1>1. /\ \A j \in DOMAIN L : j \in Nat /\ j <= Len(L) /\ L[j] \in Logged /\ L[j].id \in Nat
        /\ \A j \in DOMAIN L : L[j].kind \in {"insert", "update", "delete"}
        /\ Len(L) \in Nat /\ Len(R) \in Nat
    BY LogType
  <1>2. UpdatesLive(L, m)
    <2> SUFFICES ASSUME NEW j \in DOMAIN L, L[j].kind = "update",
                        ~ \E h \in DOMAIN L : L[h].id = L[j].id /\ L[h].kind \in {"insert", "delete"}
                 PROVE  ~IsDeleted(m, L[j].id)
      BY DEF UpdatesLive
    <2>1. \A h \in DOMAIN L : L[h].id = L[j].id => L[h].kind # "delete" /\ (L[h].kind = "insert" => h <= Len(L))
      OBVIOUS
    <2> QED BY <2>1 DEF Replayed, LiveFromInsert
  <1>3. InsertIsThere(L, R, m)
    <2> SUFFICES ASSUME NEW j \in DOMAIN L, L[j].kind = "insert", IsSole(L, j), L[j].id < Len(R)
                 PROVE  /\ R[L[j].id + 1] = L[j].vec
                        /\ ~IsDeleted(m, L[j].id) => m[L[j].id].data = L[j].data
      BY DEF InsertIsThere
    <2>1. IsLast(L, j)
      BY <1>1 DEF IsLast, IsSole
    <2>2. Entry(R, m, L[j].id) = Result(L[j])
      BY <1>1, <2>1 DEF Replayed, LastDone
    <2>3. R[L[j].id + 1] = L[j].vec
      BY DEF LogFits, InsertIsThere
    <2>4. ASSUME ~IsDeleted(m, L[j].id) PROVE m[L[j].id].data = L[j].data
      <3> DEFINE a == [vec |-> R[L[j].id + 1], data |-> m[L[j].id].data]
                 b == [vec |-> L[j].vec, data |-> L[j].data]
      <3>1. a = b
        BY <2>2, <2>4 DEF Entry, Result
      <3>2. a.data = b.data
        BY <3>1
      <3> QED BY <3>2
    <2> QED BY <2>3, <2>4
  <1>4. LogFits(L, R, m)
    BY <1>2, <1>3 DEF LogFits
  <1>5. Replayed(Len(L), L, R, m, R, m)
    BY DEF Replayed, OthersKept
  <1>6. ASSUME NEW C, Recovered(C, L, R, M) PROVE Recovered(C, L, R, m)
    <2>1. LogRows(L, R)
      BY DEF LogFits
    <2>2. Recovered(View(R, m), L, R, M) /\ Recovered(View(R, m), L, R, m)
      BY <1>5, <2>1, ReplayedIsRecovered
    <2>3. C = View(R, m)
      BY <1>6, <2>1, <2>2, RecoveredUnique
    <2> QED BY <2>2, <2>3
  <1> QED BY <1>4, <1>5, <1>6

\* Nothing is logged: any files fit, and nothing is to be applied.
LEMMA FitsEmpty ==
    ASSUME NEW R \in Seq(Vectors), NEW M \in Metas, DOMAIN M \subseteq 0 .. Len(R) - 1
    PROVE  LogFits(<<>>, R, M) /\ Replayed(0, <<>>, R, M, R, M)
  <1>1. <<>> \in Seq(Logged) /\ DOMAIN <<>> = {}
    OBVIOUS
  <1>2. LogFits(<<>>, R, M)
    BY <1>1 DEF LogFits, LogRows, InsertIsFirst, DeleteIsFinal, UpdatesLive, InsertIsThere
  <1> QED BY <1>1, <1>2, ReplayStarts

\* A record whose vector or metadata is not in memory yet is not counted as applied.
Behind == IF pc \in {"row", "meta"} THEN 1 ELSE 0
Applied == Len(log) - Len(todo) - Behind
Current == log[Len(log) - Len(todo)]

\* The operation in progress is the record that comes next.
OpMatches ==
    pc \in {"row", "meta"} =>
        /\ op.id = Current.id
        /\ op.kind # "restore" => op.kind = Current.kind
        /\ op.kind = "restore" => Current.kind = "insert" /\ pc = "meta"
        /\ op.kind # "delete" => op.data = Current.data
        /\ op.kind \in {"insert", "update"} => op.vec = Current.vec
        /\ pc = "meta" /\ op.kind \in {"insert", "update"} => rows[op.id + 1] = op.vec

\* The log fits the files, and what is in memory is what its first records make of them.
FilesFit == pc \notin Renaming => LogFits(log, rows, metaFlushed)
MemoryFits ==
    phase # "closed" /\ pc \notin Renaming \cup {"reopen"} /\ "vec" \in mapped =>
        Replayed(Applied, log, rows, meta, rows, metaFlushed)

ContentInv == ~refused => OpMatches /\ FilesFit /\ MemoryFits

\* A step that leaves the log, the files and the metadata alone.
LEMMA ContentKept ==
    ASSUME ContentInv, UNCHANGED <<log, rows, metaFlushed, meta, todo>>, refused => refused',
           {pc, pc'} \cap {"row", "meta"} = {},
           pc \in Renaming => pc' \in Renaming, pc = "reopen" => phase' = "closed",
           phase = "closed" => phase' = "closed", mapped' \subseteq mapped \/ phase' = "closed"
    PROVE  ContentInv'
  <1> SUFFICES ASSUME ~refused' PROVE OpMatches' /\ FilesFit' /\ MemoryFits'
    BY DEF ContentInv
  <1>1. FilesFit /\ MemoryFits
    BY DEF ContentInv
  <1>2. Applied' = Applied
    BY DEF Applied, Behind
  <1> QED BY <1>1, <1>2 DEF OpMatches, FilesFit, MemoryFits

\* A step after which nothing is logged.
LEMMA ContentEmpty ==
    ASSUME log' = <<>>, todo' = <<>>, rows' \in Seq(Vectors), metaFlushed' \in Metas,
           DOMAIN metaFlushed' \subseteq 0 .. Len(rows') - 1, pc' \notin {"row", "meta"},
           pc' # "reopen" => meta' = metaFlushed' \/ phase' = "closed"
    PROVE  ContentInv'
  <1>1. LogFits(<<>>, rows', metaFlushed') /\ Replayed(0, <<>>, rows', metaFlushed', rows', metaFlushed')
    BY FitsEmpty
  <1>2. Applied' = 0
    <2>1. Len(log') = 0 /\ Len(todo') = 0 /\ Behind' = 0
      BY DEF Behind
    <2> QED BY <2>1 DEF Applied
  <1> QED BY <1>1, <1>2 DEF ContentInv, OpMatches, FilesFit, MemoryFits

\* A record is logged, or logged and refused.
LEMMA ContentBegin == TypeInv /\ ContentInv /\ Operation => ContentInv'
  <1> SUFFICES ASSUME TypeInv, ContentInv, Operation, ~refused' PROVE OpMatches' /\ FilesFit' /\ MemoryFits'
    BY DEF ContentInv
  <1>i. StoreTypeOK /\ QueueInv /\ PlaceInv
    BY DEF TypeInv
  <1>1. PICK kind \in {"insert", "update", "delete"}, id \in Ids, v \in Vectors, d \in Data :
            LET o == [kind |-> kind, id |-> id, vec |-> v, data |-> d] IN Begin(o) \/ BeginFails(o)
    BY DEF Operation
  <1> DEFINE o == [kind |-> kind, id |-> id, vec |-> v, data |-> d]
  <1>2. o \in Logged /\ o.kind \in {"insert", "update", "delete"}
    BY DEF Logged
  <1>3. Begin(o)
    <2>1. Begin(o) \/ BeginFails(o)
      BY <1>1
    <2> QED BY <2>1 DEF BeginFails
  <1> HIDE DEF o
  <1>4. /\ UNCHANGED <<rows, metaFlushed, meta, mapped, phase, todo>> /\ log' = Append(log, o) /\ op' = o
        /\ pc' = (IF o.kind = "delete" THEN "meta" ELSE "row") /\ refused' = refused
        /\ pc = "idle" /\ phase = "up" /\ "vec" \in mapped
    BY <1>3 DEF Begin, Allowed, Idle, files, memory
  <1>5. /\ o.kind = "insert" => o.id = Len(rows)
        /\ o.kind # "insert" => o.id < Len(rows) /\ ~IsDeleted(meta, o.id)
    BY <1>2, <1>3 DEF Begin, Allowed, NextRow, IsLive
  <1>6. log \in Seq(Logged) /\ rows \in Seq(Vectors) /\ metaFlushed \in Metas /\ todo = <<>> /\ Len(log) \in Nat
    BY <1>i, <1>4 DEF StoreTypeOK, QueueInv
  <1>7. LogFits(log, rows, metaFlushed) /\ Replayed(Len(log), log, rows, meta, rows, metaFlushed)
    <2>1. Applied = Len(log)
      BY <1>4, <1>6 DEF Applied, Behind
    <2> QED BY <1>4, <2>1 DEF ContentInv, FilesFit, MemoryFits, Renaming
  <1>8. LogFits(log', rows, metaFlushed) /\ Replayed(Len(log), log', rows, meta, rows, metaFlushed)
    BY <1>2, <1>4, <1>5, <1>6, <1>7, FitsAppend
  <1>9. Len(log') = Len(log) + 1 /\ log'[Len(log) + 1] = o
    BY <1>2, <1>4, <1>6
  <1>10. Applied' = Len(log) /\ Current' = o
    BY <1>4, <1>6, <1>9 DEF Applied, Behind, Current
  <1>11. OpMatches'
    BY <1>2, <1>4, <1>10 DEF OpMatches
  <1> QED BY <1>4, <1>8, <1>10, <1>11 DEF FilesFit, MemoryFits

\* The record after those that are applied, while an operation is in progress.
LEMMA CurrentFacts ==
    ASSUME TypeInv, pc \in {"row", "meta"}
    PROVE  /\ Applied \in Nat /\ Len(log) - Len(todo) \in DOMAIN log /\ Len(log) - Len(todo) = Applied + 1
           /\ Len(log) - Len(todo) \in Nat /\ Len(log) \in Nat /\ Len(todo) \in Nat
           /\ Current \in Logged /\ Current.id \in Nat /\ Current.id \in Ids
  <1>1. log \in Seq(Logged) /\ todo \in Seq(Logged) /\ Len(todo) < Len(log)
    BY DEF TypeInv, QueueInv
  <1>2. Len(log) \in Nat /\ Len(todo) \in Nat
    BY <1>1
  <1>3. Len(log) - Len(todo) \in DOMAIN log
    BY <1>1, <1>2
  <1>4. Applied = Len(log) - Len(todo) - 1
    BY DEF Applied, Behind
  <1>5. Current \in Logged
    BY <1>1, <1>3 DEF Current
  <1>6. Current.id \in Ids /\ Current.id \in Nat
    BY <1>5, IdsAreNumbers DEF Logged
  <1> QED BY <1>1, <1>2, <1>3, <1>4, <1>5, <1>6

\* What WriteRow makes of the vector file.
LEMMA WriteStores ==
    ASSUME TypeInv, OpMatches, WriteRow
    PROVE  Stored(rows', rows, Current)
  <1>1. /\ pc = "row"
        /\ rows' = IF op.kind = "insert" THEN Append(rows, op.vec) ELSE [rows EXCEPT ![op.id + 1] = op.vec]
    BY DEF WriteRow, At
  <1>2. /\ op.id = Current.id /\ op.vec = Current.vec /\ op.kind = Current.kind /\ op.kind \in {"insert", "update"}
        /\ op.kind = "insert" => op.id = Len(rows)
        /\ op.kind = "update" => op.id < Len(rows)
    BY <1>1 DEF OpMatches, TypeInv, PlaceInv
  <1>3. rows \in Seq(Vectors) /\ Len(rows) \in Nat /\ op.vec \in Vectors /\ op.id \in Nat
    <2>1. rows \in Seq(Vectors) /\ op \in Op
      BY DEF TypeInv, StoreTypeOK
    <2>2. op.vec \in Vectors /\ op.id \in Ids
      BY <2>1 DEF Op
    <2>3. Ids \subseteq Nat
      BY IdsAreNumbers
    <2>4. Len(rows) \in Nat
      BY <2>1
    <2> QED BY <2>1, <2>2, <2>3, <2>4
  <1>4. CASE op.kind = "insert"
    <2>1. rows' = Append(rows, op.vec)
      BY <1>1, <1>4
    <2>2. /\ rows' \in Seq(Vectors) /\ Len(rows') = Len(rows) + 1 /\ rows'[Len(rows) + 1] = op.vec
          /\ \A i \in 1 .. Len(rows) : rows'[i] = rows[i]
      BY <1>3, <2>1
    <2>3. \A i \in 0 .. Len(rows) - 1 : rows'[i + 1] = rows[i + 1]
      BY <1>3, <2>2
    <2> QED BY <1>2, <1>3, <1>4, <2>2, <2>3 DEF Stored
  <1>5. CASE op.kind = "update"
    <2>0. rows \in [1 .. Len(rows) -> Vectors] /\ op.id + 1 \in 1 .. Len(rows)
      BY <1>2, <1>3, <1>5
    <2>1. rows' = [rows EXCEPT ![op.id + 1] = op.vec]
      BY <1>1, <1>5
    <2>2. rows' \in [1 .. Len(rows) -> Vectors] /\ rows'[op.id + 1] = op.vec
      BY <1>3, <2>0, <2>1
    <2>3. rows' \in Seq(Vectors) /\ Len(rows') = Len(rows)
      BY <1>3, <2>2
    <2>4. \A i \in 0 .. Len(rows) - 1 : i # op.id => rows'[i + 1] = rows[i + 1]
      BY <1>3, <2>0, <2>1
    <2> QED BY <1>2, <1>3, <1>5, <2>2, <2>3, <2>4 DEF Stored
  <1> QED BY <1>2, <1>4, <1>5

\* The vector is written.
LEMMA ContentWrite == TypeInv /\ ContentInv /\ WriteRow => ContentInv'
  <1> SUFFICES ASSUME TypeInv, ContentInv, WriteRow, ~refused' PROVE OpMatches' /\ FilesFit' /\ MemoryFits'
    BY DEF ContentInv
  <1>i. StoreTypeOK /\ QueueInv /\ PlaceInv
    BY DEF TypeInv
  <1>1. /\ UNCHANGED <<metaFlushed, meta, mapped, phase, todo, op, log, refused>> /\ pc = "row" /\ pc' = "meta"
    BY DEF WriteRow, At, durable, memory
  <1>2. OpMatches /\ LogFits(log, rows, metaFlushed) /\ Replayed(Applied, log, rows, meta, rows, metaFlushed)
    BY <1>1, <1>i DEF ContentInv, FilesFit, MemoryFits, Renaming, PlaceInv
  <1>3. Stored(rows', rows, log[Len(log) - Len(todo)])
    BY <1>2, WriteStores DEF Current
  <1>4. /\ log \in Seq(Logged) /\ rows \in Seq(Vectors) /\ metaFlushed \in Metas
        /\ DOMAIN metaFlushed \subseteq 0 .. Len(rows) - 1
    BY <1>1, <1>i DEF StoreTypeOK, QueueInv, Renaming
  <1>5. LogFits(log, rows', metaFlushed) /\ Replayed(Applied, log, rows', meta, rows', metaFlushed)
    <2>1. Applied \in Nat /\ Len(log) - Len(todo) \in DOMAIN log /\ Len(log) - Len(todo) = Applied + 1
      BY <1>1, CurrentFacts
    <2> QED BY <1>2, <1>3, <1>4, <2>1, FitsWrite
  <1>6. Applied' = Applied /\ Current' = Current
    BY <1>1 DEF Applied, Behind, Current
  <1>7. OpMatches'
    <2>1. op.kind \in {"insert", "update"} => rows'[op.id + 1] = op.vec
      BY <1>1, <1>2, <1>3 DEF OpMatches, Stored, Current
    <2> QED BY <1>1, <1>2, <1>6, <2>1 DEF OpMatches
  <1> QED BY <1>1, <1>5, <1>6, <1>7 DEF FilesFit, MemoryFits

\* The metadata are put.
LEMMA ContentPut == TypeInv /\ ContentInv /\ PutMeta => ContentInv'
  <1> SUFFICES ASSUME TypeInv, ContentInv, PutMeta, ~refused' PROVE OpMatches' /\ FilesFit' /\ MemoryFits'
    BY DEF ContentInv
  <1>i. StoreTypeOK /\ QueueInv /\ PlaceInv
    BY DEF TypeInv
  <1> DEFINE n == Len(log) - Len(todo)
  <1>1. /\ UNCHANGED <<rows, metaFlushed, mapped, phase, todo, log, refused>> /\ pc = "meta" /\ pc' \in {"idle", "link"}
        /\ meta' = Put(meta, op.id, op.kind = "delete", op.data)
    BY DEF PutMeta, At, durable, files
  <1>2. OpMatches /\ LogFits(log, rows, metaFlushed)
    BY <1>1, <1>i DEF ContentInv, FilesFit, Renaming
  <1>3. OpMatches' /\ FilesFit'
    BY <1>1, <1>2 DEF OpMatches, FilesFit
  <1>4. ASSUME "vec" \in mapped PROVE Replayed(Applied', log, rows, meta', rows, metaFlushed)
    <2>1. Replayed(Applied, log, rows, meta, rows, metaFlushed)
      BY <1>1, <1>4, <1>i DEF ContentInv, MemoryFits, Renaming, PlaceInv
    <2>2. /\ Applied \in Nat /\ n \in DOMAIN log /\ n = Applied + 1 /\ n \in Nat
          /\ Current \in Logged /\ Current.id \in Nat /\ Current.id \in Ids /\ Current = log[n]
      BY <1>1, CurrentFacts DEF Current
    <2>3. /\ log \in Seq(Logged) /\ rows \in Seq(Vectors) /\ metaFlushed \in Metas /\ meta \in Metas
          /\ op.data \in Data /\ Len(rows) \in Nat
      BY <1>i DEF StoreTypeOK, QueueInv, Op
    <2>4. /\ op.id = Current.id /\ op.id < Len(rows)
          /\ op.kind = "delete" <=> Current.kind = "delete"
          /\ op.kind # "delete" => op.data = Current.data
      BY <1>1, <1>2, <1>i DEF OpMatches, PlaceInv
    <2>5. op.kind # "delete" /\ IsLast(log, n) => rows[op.id + 1] = Current.vec
      <3> SUFFICES ASSUME op.kind # "delete", IsLast(log, n) PROVE rows[op.id + 1] = Current.vec
        OBVIOUS
      <3>1. CASE op.kind = "restore"
        <4>1. Current.kind = "insert"
          BY <1>1, <1>2, <3>1 DEF OpMatches
        <4>2. IsSole(log, n)
          <5> HIDE DEF n
          <5>1. log[n].kind = "insert" /\ InsertIsFirst(log)
            BY <1>2, <2>2, <4>1 DEF LogFits
          <5> QED BY <2>2, <2>3, <5>1, LastSplits
        <4> HIDE DEF n
        <4>3. rows[log[n].id + 1] = log[n].vec
          BY <1>2, <2>2, <2>4, <4>1, <4>2 DEF LogFits, InsertIsThere
        <4> QED BY <2>2, <2>4, <4>3
      <3>2. CASE op.kind \in {"insert", "update"}
        BY <1>1, <1>2, <3>2 DEF OpMatches
      <3>3. op.kind \in {"insert", "update", "delete", "restore"}
        BY <1>i DEF StoreTypeOK, Op
      <3> QED BY <3>1, <3>2, <3>3
    <2>6. Written(n, log, rows, rows, rows, op.data)
      <3> HIDE DEF n
      <3> QED BY <2>2, <2>3, <2>4, <2>5 DEF Written
    <2>7. PutIs(meta', meta, log[n].id, log[n].kind = "delete", op.data)
      <3> DEFINE del == op.kind = "delete"
      <3> HIDE DEF n
      <3>1. del \in BOOLEAN
        OBVIOUS
      <3>2. log[n].id = op.id /\ op.id \in Ids /\ (log[n].kind = "delete" <=> del)
        BY <2>2, <2>4
      <3>3. meta' = Put(meta, op.id, del, op.data)
        BY <1>1
      <3> HIDE DEF del
      <3>4. PutIs(meta', meta, op.id, del, op.data)
        BY <2>3, <3>1, <3>2, <3>3, PutFacts
      <3> QED BY <3>2, <3>4 DEF PutIs
    <2>8. Replayed(n, log, rows, meta', rows, metaFlushed)
      <3> HIDE DEF n
      <3> QED BY <1>2, <2>1, <2>2, <2>3, <2>6, <2>7, PutStep
    <2>9. Applied' = n
      BY <1>1, <2>2 DEF Applied, Behind
    <2> QED BY <2>8, <2>9
  <1> QED BY <1>1, <1>3, <1>4 DEF MemoryFits

\* The next record is taken, or skipped.
LEMMA ContentReplay == TypeInv /\ ContentInv /\ ReplayNext => ContentInv'
  <1> SUFFICES ASSUME TypeInv, ContentInv, ReplayNext, ~refused' PROVE OpMatches' /\ FilesFit' /\ MemoryFits'
    BY DEF ContentInv
  <1>i. StoreTypeOK /\ QueueInv /\ PlaceInv
    BY DEF TypeInv
  <1> DEFINE r == Head(todo)
             what == ReplayOf(r, Len(rows), meta)
             k == Len(log) - Len(todo)
  <1>1. /\ UNCHANGED <<rows, metaFlushed, meta, mapped, phase, log, refused>>
        /\ phase = "recovering" /\ pc = "idle" /\ todo # <<>> /\ todo' = Tail(todo)
    BY DEF ReplayNext, files, durable, memory
  <1>w. IF what = "skip" THEN UNCHANGED <<op, pc>>
        ELSE /\ op' = [kind |-> what, vec |-> r.vec,
                       id |-> IF what = "insert" THEN Len(rows) ELSE r.id,
                       data |-> IF what = "delete" THEN meta[r.id].data ELSE r.data]
             /\ pc' = IF what \in {"insert", "update"} THEN "row" ELSE "meta"
    BY DEF ReplayNext
  <1>2. /\ log \in Seq(Logged) /\ todo \in Seq(Logged) /\ Len(todo) <= Len(log) /\ Len(rows) \in Nat
        /\ rows \in Seq(Vectors) /\ metaFlushed \in Metas
        /\ \A j \in DOMAIN todo : todo[j] = log[Len(log) - Len(todo) + j]
    BY <1>i DEF StoreTypeOK, QueueInv
  <1>3. Len(log) \in Nat /\ Len(todo) \in Nat /\ Len(todo') = Len(todo) - 1 /\ Len(todo) > 0 /\ r = todo[1] /\ 1 \in DOMAIN todo
    BY <1>1, <1>2
  <1>4. k \in Nat /\ k + 1 \in Nat /\ r = log[k + 1] /\ r \in Logged /\ Len(log) - Len(todo') = k + 1
    BY <1>2, <1>3
  <1>5. k + 1 \in DOMAIN log
    BY <1>2, <1>3
  <1>6. LogFits(log, rows, metaFlushed) /\ Replayed(k, log, rows, meta, rows, metaFlushed)
    <2>1. Applied = k
      BY <1>1, <1>3 DEF Applied, Behind
    <2>2. "vec" \in mapped
      BY <1>1, <1>i DEF PlaceInv, Mappings
    <2> QED BY <1>1, <2>1, <2>2 DEF ContentInv, FilesFit, MemoryFits, Renaming
  <1>7. Current' = r
    BY <1>1, <1>4 DEF Current
  <1> HIDE DEF k, r, what
  <1>8. CASE what = "skip"
    <2>1. UNCHANGED <<op, pc>>
      BY <1>8, <1>w
    <2>2. OpMatches' /\ FilesFit'
      BY <1>1, <1>6, <2>1 DEF OpMatches, FilesFit
    <2>3. Replayed(k + 1, log, rows, meta, rows, metaFlushed)
      <3>1. ReplayOf(log[k + 1], Len(rows), meta) = "skip"
        BY <1>4, <1>8 DEF what
      <3> DEFINE n == k + 1
      <3>2. n \in DOMAIN log /\ n = k + 1
        BY <1>5
      <3> HIDE DEF n
      <3> QED BY <1>2, <1>4, <1>6, <3>1, <3>2, SkipStep
    <2>4. Applied' = k + 1
      BY <1>1, <1>4, <2>1 DEF Applied, Behind
    <2> QED BY <1>1, <2>2, <2>3, <2>4 DEF MemoryFits
  <1>9. CASE what # "skip"
    <2>1. /\ op'.kind = what /\ op'.vec = r.vec
          /\ op'.id = IF what = "insert" THEN Len(rows) ELSE r.id
          /\ op'.data = IF what = "delete" THEN meta[r.id].data ELSE r.data
          /\ pc' = IF what \in {"insert", "update"} THEN "row" ELSE "meta"
      BY <1>9, <1>w
    <2>2. /\ r.kind \in {"insert", "update", "delete"} /\ r.id \in Nat
          /\ what = "insert" => r.kind = "insert" /\ r.id >= Len(rows)
          /\ what = "restore" => r.kind = "insert"
          /\ what \notin {"insert", "restore"} => r.kind = what
          /\ what \in {"insert", "restore", "update", "delete"}
      <3>1. r.kind \in {"insert", "update", "delete"} /\ r.id \in Nat
        BY <1>4, IdsAreNumbers DEF Logged
      <3> QED BY <1>9, <3>1 DEF what, ReplayOf, ReplayOfInsert
    <2>3. what = "insert" => r.id = Len(rows)
      <3>1. r.id <= Len(rows)
        BY <1>2, <1>4, <1>5, <1>6, <2>2 DEF LogFits, LogRows
      <3> QED BY <1>2, <2>2, <3>1
    <2>4. OpMatches'
      BY <1>7, <2>1, <2>2, <2>3 DEF OpMatches
    <2>5. Applied' = k
      <3>1. Behind' = 1
        BY <2>1 DEF Behind
      <3> QED BY <1>1, <1>4, <3>1 DEF Applied
    <2> QED BY <1>1, <1>6, <2>4, <2>5 DEF FilesFit, MemoryFits
  <1> QED BY <1>8, <1>9

\* The metadata file is written.
LEMMA ContentFlush == TypeInv /\ ContentInv /\ FlushData => ContentInv'
  <1> SUFFICES ASSUME TypeInv, ContentInv, FlushData, ~refused' PROVE OpMatches' /\ FilesFit' /\ MemoryFits'
    BY DEF ContentInv
  <1>1. /\ UNCHANGED <<rows, meta, mapped, phase, todo, log, refused>> /\ metaFlushed' = meta
        /\ pc = "idle" /\ pc' = "checkpoint" /\ mapped = Mappings /\ phase # "closed" /\ todo = <<>>
    BY DEF FlushData, FlushedMeta, Idle, durable, memory, TypeInv, QueueInv
  <1>2. log \in Seq(Logged) /\ rows \in Seq(Vectors) /\ metaFlushed \in Metas /\ Len(log) \in Nat
    BY DEF TypeInv, StoreTypeOK, QueueInv
  <1>3. Applied = Len(log) /\ Applied' = Len(log)
    BY <1>1, <1>2 DEF Applied, Behind
  <1>4. LogFits(log, rows, metaFlushed) /\ Replayed(Len(log), log, rows, meta, rows, metaFlushed)
    BY <1>1, <1>3 DEF ContentInv, FilesFit, MemoryFits, Renaming, Mappings
  <1>5. LogFits(log, rows, meta) /\ Replayed(Len(log), log, rows, meta, rows, meta)
    BY <1>2, <1>4, FitsFlush
  <1> QED BY <1>1, <1>3, <1>5 DEF OpMatches, FilesFit, MemoryFits

\* Every step keeps what is said of the log, the files and the memory.
LEMMA ContentStep == ASSUME "compact" \notin Faults PROVE TypeInv /\ TypeInv' /\ ContentInv /\ [Next]_vars => ContentInv'
  <1> SUFFICES ASSUME TypeInv, TypeInv', ContentInv, [Next]_vars PROVE ContentInv'
    OBVIOUS
  <1>i. StoreTypeOK /\ QueueInv /\ PlaceInv /\ CompactInv
    BY DEF TypeInv
  <1>t. rows' \in Seq(Vectors) /\ metaFlushed' \in Metas
    BY DEF TypeInv, StoreTypeOK
  <1>1. CASE Open
    <2>1. /\ UNCHANGED <<rows, metaFlushed, log, refused, pc>> /\ meta' = metaFlushed /\ todo' = log /\ pc = "idle"
      BY <1>1, <1>i DEF Open, files, durable, PlaceInv
    <2>2. /\ log \in Seq(Logged) /\ rows \in Seq(Vectors) /\ metaFlushed \in Metas /\ Len(log) \in Nat
          /\ DOMAIN metaFlushed \subseteq 0 .. Len(rows) - 1
      BY <1>i, <2>1 DEF StoreTypeOK, QueueInv, Renaming
    <2>3. Applied' = 0
      <3>1. Behind' = 0 /\ Len(log') = Len(log) /\ Len(todo') = Len(log)
        BY <2>1 DEF Behind
      <3> QED BY <2>2, <3>1 DEF Applied
    <2>4. ASSUME ~refused
          PROVE  LogFits(log, rows, metaFlushed) /\ Replayed(0, log, rows, metaFlushed, rows, metaFlushed)
      <3>1. LogFits(log, rows, metaFlushed)
        BY <2>1, <2>4 DEF ContentInv, FilesFit, Renaming
      <3> QED BY <2>2, <3>1, ReplayStarts
    <2> QED BY <2>1, <2>3, <2>4 DEF ContentInv, OpMatches, FilesFit, MemoryFits
  <1>2. CASE Restart
    <2>1. /\ UNCHANGED <<rows, metaFlushed, log, refused>> /\ phase' = "closed" /\ pc' = "idle" /\ pc \notin Renaming
      BY <1>2 DEF Restart, Closed, files, durable
    <2> QED BY <2>1 DEF ContentInv, OpMatches, FilesFit, MemoryFits
  <1>3. CASE GrowFails \/ Panics
    <2>1. /\ UNCHANGED <<rows, metaFlushed, log>> /\ pc \in {"row", "meta", "link"} /\ pc' = "idle" /\ (refused => refused')
      BY <1>3 DEF GrowFails, Panics, files, Uses
    <2>2. CASE pc = "link"
      <3>1. \/ UNCHANGED <<meta, todo, phase>> /\ mapped' \subseteq mapped
            \/ phase' = "closed"
        BY <1>3 DEF GrowFails, Panics, Closed, memory
      <3>2. CASE phase' = "closed"
        BY <2>1, <2>2, <3>2 DEF ContentInv, OpMatches, FilesFit, MemoryFits, Renaming
      <3>3. CASE phase' # "closed"
        BY <2>1, <2>2, <3>1, <3>3, ContentKept DEF Renaming
      <3> QED BY <3>2, <3>3
    <2>3. CASE pc # "link"
      <3>1. refused' \/ phase' = "closed" \/ "vec" \notin mapped'
        <4>1. CASE GrowFails
          <5>1. \/ phase' = "closed"
                \/ phase # "recovering" /\ mapped' = mapped \ {Uses[pc]} /\ (refused' <=> refused \/ (phase = "up" /\ pc = "meta"))
            BY <4>1 DEF GrowFails, Closed
          <5>2. phase # "recovering" => phase = "up"
            BY <1>i, <2>1, <2>3 DEF StoreTypeOK, PlaceInv
          <5> QED BY <2>1, <2>3, <5>1, <5>2 DEF Uses
        <4>2. CASE Panics
          <5>1. Uses[pc] \notin mapped /\ (pc = "meta" => refused')
            BY <4>2 DEF Panics
          <5>2. pc # "row"
            BY <1>i, <5>1 DEF PlaceInv, Uses
          <5> QED BY <2>1, <2>3, <5>1, <5>2
        <4> QED BY <1>3, <4>1, <4>2
      <3> QED BY <2>1, <2>3, <3>1 DEF ContentInv, OpMatches, FilesFit, MemoryFits, Renaming
    <2> QED BY <2>2, <2>3
  <1>4. CASE Finish \/ Clear \/ (FlushFails /\ UNCHANGED durable) \/ CallPanics \/ UNCHANGED vars
    <2>1. CASE UNCHANGED vars \/ CallPanics
      <3>1. UNCHANGED <<rows, metaFlushed, log, refused, meta, mapped, phase, todo, op, pc>>
        BY <2>1 DEF CallPanics, vars, files, durable, memory
      <3> QED BY <3>1 DEF ContentInv, OpMatches, FilesFit, MemoryFits, Applied, Behind, Current
    <2>2. CASE Finish
      <3>1. UNCHANGED <<rows, metaFlushed, log, refused, meta, mapped, phase, todo>> /\ pc = "link" /\ pc' = "idle"
        BY <2>2 DEF Finish, At, durable
      <3> QED BY <3>1, ContentKept DEF Renaming
    <2>3. CASE Clear
      <3>1. UNCHANGED <<rows, metaFlushed, log, refused, meta, mapped, todo>> /\ pc = "clear" /\ pc' = "idle" /\ phase' = "up"
        BY <2>3 DEF Clear, files, durable, memory
      <3> QED BY <1>i, <3>1, ContentKept DEF Renaming, PlaceInv
    <2>4. CASE FlushFails /\ UNCHANGED durable
      <3>1. /\ UNCHANGED <<rows, metaFlushed, log, refused>> /\ pc \in {"checkpoint", "clear"} /\ pc' = "idle"
            /\ UNCHANGED <<meta, mapped, phase, todo>> \/ phase' = "closed"
        BY <2>4 DEF FlushFails, Closed, files, durable, memory
      <3>2. CASE phase' = "closed"
        BY <3>1, <3>2 DEF ContentInv, OpMatches, FilesFit, MemoryFits, Renaming
      <3>3. CASE phase' # "closed"
        BY <3>1, <3>3, ContentKept DEF Renaming
      <3> QED BY <3>2, <3>3
    <2> QED BY <1>4, <2>1, <2>2, <2>3, <2>4
  <1>5. CASE Checkpoint \/ (FlushFails /\ log' = <<>>)
    <2>1. /\ UNCHANGED <<rows, metaFlushed>> /\ log' = <<>> /\ pc \in {"checkpoint", "clear"} /\ pc' \in {"clear", "idle"}
          /\ UNCHANGED <<meta, todo>> \/ (phase' = "closed" /\ todo' = <<>>)
      BY <1>5 DEF Checkpoint, FlushFails, Closed, files, memory
    <2>2. todo = <<>> /\ metaFlushed = meta /\ DOMAIN metaFlushed \subseteq 0 .. Len(rows) - 1
      BY <1>i, <2>1 DEF PlaceInv, StoreTypeOK, Renaming
    <2> QED BY <1>t, <2>1, <2>2, ContentEmpty
  <1>6. CASE RenameVec
    <2>1. /\ UNCHANGED <<metaFlushed, log, refused>> /\ "vec" \notin mapped' /\ pc = "idle"
          /\ \/ pc' \in Renaming
             \/ UNCHANGED <<rows, pc>>
      BY <1>6 DEF RenameVec, Idle, durable, Renaming
    <2> QED BY <2>1 DEF ContentInv, OpMatches, FilesFit, MemoryFits, Renaming
  <1>7. CASE RenameGraph \/ RenameMeta
    <2>1. pc' \in Renaming
      BY <1>7 DEF RenameGraph, RenameMeta, Renaming
    <2> QED BY <2>1 DEF ContentInv, OpMatches, FilesFit, MemoryFits, Renaming
  <1>8. CASE ClearLog
    <2>1. UNCHANGED <<rows, metaFlushed, todo, phase>> /\ log' = <<>> /\ pc = "clearLog" /\ pc' = "reopen"
      BY <1>8 DEF ClearLog, files, memory
    <2>2. todo = <<>> /\ DOMAIN metaFlushed \subseteq 0 .. Len(rows) - 1
      BY <1>i, <2>1 DEF CompactInv, QueueInv, PlaceInv, Renaming
    <2> QED BY <1>t, <2>1, <2>2, ContentEmpty
  <1>9. CASE Reopen
    <2>1. UNCHANGED <<rows, metaFlushed, todo, log>> /\ meta' = metaFlushed /\ pc = "reopen" /\ pc' = "idle"
      BY <1>9 DEF Reopen, files, durable
    <2>2. log = <<>> /\ todo = <<>> /\ DOMAIN metaFlushed \subseteq 0 .. Len(rows) - 1
      <3>1. log = <<>> /\ todo \in Seq(Logged) /\ Len(todo) <= Len(log)
        BY <1>i, <2>1 DEF PlaceInv, QueueInv
      <3>2. Len(todo) = 0
        BY <3>1
      <3> QED BY <1>i, <2>1, <3>1, <3>2 DEF CompactInv
    <2> QED BY <1>t, <2>1, <2>2, ContentEmpty
  <1>10. CASE FlushFails
    <2>1. UNCHANGED durable \/ log' = <<>>
      BY <1>10 DEF FlushFails
    <2> QED BY <1>4, <1>5, <1>10, <2>1
  <1> QED BY <1>1, <1>2, <1>3, <1>4, <1>5, <1>6, <1>7, <1>8, <1>9, <1>10, ContentBegin, ContentWrite, ContentPut,
             ContentReplay, ContentFlush DEF Next, Step, Flush, Compact

\* The log fits the files and the memory in every state.
THEOREM ContentInvariance == ASSUME "compact" \notin Faults PROVE Spec => []ContentInv
  <1>1. Init => ContentInv
    <2> SUFFICES ASSUME Init PROVE ContentInv
      OBVIOUS
    <2>1. log = <<>> /\ rows = <<>> /\ metaFlushed = NoMetaAtAll /\ phase = "closed" /\ pc = "idle"
      BY DEF Init
    <2>2. <<>> \in Seq(Vectors) /\ NoMetaAtAll \in Metas /\ DOMAIN NoMetaAtAll \subseteq 0 .. Len(<<>>) - 1
      BY NoMetaType
    <2>3. LogFits(<<>>, <<>>, NoMetaAtAll)
      BY <2>2, FitsEmpty
    <2> QED BY <2>1, <2>3 DEF ContentInv, OpMatches, FilesFit, MemoryFits
  <1> QED BY <1>1, ContentStep, StoreTypeInvariance, PTL DEF Spec

\* What a crash would recover, row by row.
RecoveredInv == ~refused /\ pc \notin Renaming => Recovered(Committed, log, rows, metaFlushed)
LEMMA CommittedIsRecovered == TypeInv /\ ContentInv => RecoveredInv
  <1> SUFFICES ASSUME TypeInv, ContentInv, ~refused, pc \notin Renaming
               PROVE  Recovered(Committed, log, rows, metaFlushed)
    BY DEF RecoveredInv
  <1>1. log \in Seq(Logged) /\ rows \in Seq(Vectors) /\ metaFlushed \in Metas
    BY DEF TypeInv, StoreTypeOK, QueueInv
  <1>2. DOMAIN metaFlushed \subseteq 0 .. Len(rows) - 1
    BY DEF TypeInv, StoreTypeOK, CompactInv
  <1>3. LogFits(log, rows, metaFlushed)
    BY DEF ContentInv, FilesFit
  <1> QED BY <1>1, <1>2, <1>3, CommittedFacts

\* Between operations the view that reads have is what a crash would recover.
LEMMA ReadsAgree == TypeInv /\ ContentInv => ReadsWhatRecovers
  <1> SUFFICES ASSUME TypeInv, ContentInv, Idle, ~refused PROVE View(rows, meta) = Committed
    BY DEF ReadsWhatRecovers
  <1>1. pc = "idle" /\ phase = "up" /\ "vec" \in mapped
    BY DEF Idle
  <1>2. log \in Seq(Logged) /\ rows \in Seq(Vectors) /\ todo = <<>> /\ Len(log) \in Nat
    BY <1>1 DEF TypeInv, StoreTypeOK, QueueInv
  <1>3. Applied = Len(log)
    BY <1>1, <1>2 DEF Applied, Behind
  <1>4. LogFits(log, rows, metaFlushed) /\ Replayed(Len(log), log, rows, meta, rows, metaFlushed)
    BY <1>1, <1>3 DEF ContentInv, FilesFit, MemoryFits, Renaming
  <1>5. LogRows(log, rows)
    BY <1>4 DEF LogFits
  <1>6. Recovered(View(rows, meta), log, rows, metaFlushed)
    BY <1>2, <1>4, <1>5, ReplayedIsRecovered
  <1>7. Recovered(Committed, log, rows, metaFlushed)
    BY <1>1, CommittedIsRecovered DEF RecoveredInv, Renaming
  <1> QED BY <1>2, <1>5, <1>6, <1>7, RecoveredUnique

\* Readers never see anything but what a crash would recover, unless the log holds a record
\* it refused: for any number of rows, records, crashes and failures.
THEOREM ReadsRecoverable == ASSUME "compact" \notin Faults PROVE Spec => []ReadsWhatRecovers
  BY ReadsAgree, ContentInvariance, StoreTypeInvariance, PTL

(***************************************************************************)
(* The refinement of VectorMap                                             *)
(***************************************************************************)
\* What a recovery would give is known from the files when nothing is logged.
EmptyInv == ~refused /\ pc \notin Renaming /\ log = <<>> => Committed = View(rows, metaFlushed)
SeenInv == RecoveredInv /\ EmptyInv /\ ReadsWhatRecovers

LEMMA SeenHolds == TypeInv /\ ContentInv => SeenInv
  <1> SUFFICES ASSUME TypeInv, ContentInv PROVE SeenInv
    OBVIOUS
  <1>1. RecoveredInv /\ ReadsWhatRecovers
    BY CommittedIsRecovered, ReadsAgree
  <1>2. ASSUME ~refused, pc \notin Renaming, log = <<>> PROVE Committed = View(rows, metaFlushed)
    <2>1. rows \in Seq(Vectors) /\ metaFlushed \in Metas /\ DOMAIN metaFlushed \subseteq 0 .. Len(rows) - 1
      BY <1>2 DEF TypeInv, StoreTypeOK, CompactInv
    <2>2. LogFits(<<>>, rows, metaFlushed) /\ Replayed(0, <<>>, rows, metaFlushed, rows, metaFlushed)
      BY <2>1, FitsEmpty
    <2>3. <<>> \in Seq(Logged) /\ Len(<<>>) = 0 /\ LogRows(<<>>, rows)
      BY <2>2 DEF LogFits
    <2>4. Recovered(View(rows, metaFlushed), <<>>, rows, metaFlushed)
      BY <2>1, <2>2, <2>3, ReplayedIsRecovered
    <2>5. Recovered(Committed, <<>>, rows, metaFlushed)
      BY <1>1, <1>2 DEF RecoveredInv
    <2> QED BY <2>1, <2>3, <2>4, <2>5, RecoveredUnique
  <1> QED BY <1>1, <1>2 DEF SeenInv, EmptyInv

\* The rows seen are a sequence.
LEMMA ViewType ==
    ASSUME NEW R \in Seq(Vectors), NEW m
    PROVE  /\ DOMAIN View(R, m) = 1 .. Len(R) /\ Len(View(R, m)) = Len(R) /\ Len(R) \in Nat
           /\ View(R, m) \in Seq({Entry(R, m, i - 1) : i \in DOMAIN R})
           /\ \A i \in 0 .. Len(R) - 1 : View(R, m)[i + 1] = Entry(R, m, i)
  <1>1. Len(R) \in Nat /\ DOMAIN R = 1 .. Len(R)
    OBVIOUS
  <1> DEFINE V == {Entry(R, m, i - 1) : i \in DOMAIN R}
  <1>2. View(R, m) \in [1 .. Len(R) -> V]
    BY <1>1 DEF View
  <1>3. ASSUME NEW i \in 0 .. Len(R) - 1 PROVE View(R, m)[i + 1] = Entry(R, m, i)
    <2>1. i + 1 \in DOMAIN R /\ (i + 1) - 1 = i
      BY <1>1
    <2>2. View(R, m)[i + 1] = Entry(R, m, (i + 1) - 1)
      BY <2>1 DEF View
    <2> QED BY <2>1, <2>2
  <1> HIDE DEF V
  <1>4. View(R, m) \in Seq(V) /\ Len(View(R, m)) = Len(R)
    BY <1>1, <1>2
  <1> QED BY <1>1, <1>2, <1>3, <1>4 DEF V

\* What a log recovers after one more record.
After(C, o) == IF o.kind = "insert" THEN Append(C, Result(o)) ELSE [C EXCEPT ![o.id + 1] = Result(o)]
LEMMA AppendRecovered ==
    ASSUME NEW L \in Seq(Logged), NEW R \in Seq(Vectors), NEW M, NEW m,
           Recovered(View(R, m), L, R, M), \A j \in DOMAIN L : L[j].id < Len(R),
           NEW o \in Logged, o.id < Len(R) \/ (o.id = Len(R) /\ o.kind = "insert"),
           o.kind = "insert" => o.id = Len(R)
    PROVE  Recovered(After(View(R, m), o), Append(L, o), R, M)
  <1> DEFINE n == Len(L) + 1
             N == Append(L, o)
             C == View(R, m)
             D == After(C, o)
             V == {Entry(R, m, i - 1) : i \in DOMAIN R}
  <1>1. \A j \in DOMAIN L : j \in Nat /\ L[j].id \in Nat
    BY LogType
  <1>o. o.id \in Nat /\ Len(R) \in Nat
    <2>1. o.id \in Ids /\ Len(R) \in Nat
      BY DEF Logged
    <2>2. Ids \subseteq Nat
      BY IdsAreNumbers
    <2> QED BY <2>1, <2>2
  <1>2. /\ Len(N) = n /\ N[n] = o /\ n \in DOMAIN N
        /\ \A j \in DOMAIN L : N[j] = L[j] /\ j \in DOMAIN N /\ j # n /\ j < n /\ j <= Len(L)
        /\ \A j \in DOMAIN N : (j = n \/ j \in DOMAIN L) /\ j <= n
    OBVIOUS
  <1>3. DOMAIN C = 1 .. Len(R) /\ Len(C) = Len(R) /\ C \in Seq(V)
    BY ViewType
  <1> HIDE DEF N, n, C, V
  <1>4. /\ D = [i \in DOMAIN D |-> D[i]]
        /\ DOMAIN D = 1 .. IF o.kind = "insert" THEN Len(R) + 1 ELSE Len(R)
        /\ \A i \in 0 .. Len(R) - 1 : i # o.id => D[i + 1] = C[i + 1]
        /\ D[o.id + 1] = Result(o)
    <2>1. CASE o.kind = "insert"
      <3>1. D = Append(C, Result(o))
        BY <2>1 DEF After
      <3>2. D \in Seq(V \cup {Result(o)}) /\ Len(D) = Len(C) + 1 /\ D[Len(C) + 1] = Result(o)
            /\ \A i \in 1 .. Len(C) : D[i] = C[i]
        <4>1. C \in Seq(V \cup {Result(o)})
          BY <1>3
        <4> HIDE DEF D
        <4> QED BY <3>1, <4>1
      <3> HIDE DEF D
      <3>3. DOMAIN D = 1 .. Len(R) + 1 /\ D = [i \in DOMAIN D |-> D[i]]
        BY <1>3, <3>2
      <3>4. D[o.id + 1] = Result(o)
        BY <1>3, <2>1, <3>2
      <3>5. \A i \in 0 .. Len(R) - 1 : D[i + 1] = C[i + 1]
        BY <1>o, <1>3, <3>2
      <3> QED BY <2>1, <3>3, <3>4, <3>5
    <2>2. CASE o.kind # "insert"
      <3>1. D = [C EXCEPT ![o.id + 1] = Result(o)]
        BY <2>2 DEF After
      <3>2. C \in [1 .. Len(R) -> V] /\ o.id + 1 \in 1 .. Len(R)
        BY <1>3, <1>o, <2>2
      <3> HIDE DEF D
      <3>3. D[o.id + 1] = Result(o) /\ DOMAIN D = 1 .. Len(R) /\ D = [i \in DOMAIN D |-> D[i]]
        BY <3>1, <3>2
      <3>4. \A i \in 0 .. Len(R) - 1 : i # o.id => D[i + 1] = C[i + 1]
        BY <1>o, <3>1, <3>2
      <3> QED BY <2>2, <3>3, <3>4
    <2> QED BY <2>1, <2>2
  <1> HIDE DEF D
  <1>5. /\ DOMAIN D = 1 .. IF \E j \in DOMAIN N : N[j].id = Len(R) THEN Len(R) + 1 ELSE Len(R)
    <2>1. o.kind = "insert" <=> \E j \in DOMAIN N : N[j].id = Len(R)
      <3>1. ASSUME NEW j \in DOMAIN N, N[j].id = Len(R) PROVE o.kind = "insert"
        <4>1. j = n
          BY <1>1, <1>2, <1>o, <3>1
        <4> QED BY <1>2, <1>o, <3>1, <4>1
      <3>2. o.kind = "insert" => N[n].id = Len(R)
        BY <1>2
      <3> QED BY <1>2, <3>1, <3>2
    <2> QED BY <1>4, <2>1
  <1>6. ASSUME NEW i \in 0 .. Len(R) - 1, Untouched(N, Len(N), i) PROVE D[i + 1] = Entry(R, M, i)
    <2>1. i # o.id /\ Untouched(L, Len(L), i)
      BY <1>2, <1>6 DEF Untouched
    <2>2. C[i + 1] = Entry(R, M, i)
      BY <2>1 DEF Recovered, C
    <2> QED BY <1>4, <2>1, <2>2
  <1>7. ASSUME NEW j \in DOMAIN N, IsLast(N, j) PROVE D[N[j].id + 1] = Result(N[j])
    <2>1. CASE j = n
      BY <1>2, <1>4, <2>1
    <2>2. CASE j # n
      <3>1. j \in DOMAIN L /\ N[j] = L[j] /\ j < n
        BY <1>2, <2>2
      <3>2. IsLast(L, j) /\ o.id # L[j].id
        BY <1>2, <1>7, <3>1 DEF IsLast
      <3>3. C[L[j].id + 1] = Result(L[j])
        BY <3>1, <3>2 DEF Recovered, C
      <3>4. L[j].id \in 0 .. Len(R) - 1
        BY <1>1, <1>o, <3>1
      <3> QED BY <1>4, <3>1, <3>2, <3>3, <3>4
    <2> QED BY <2>1, <2>2
  <1> QED BY <1>4, <1>5, <1>6, <1>7 DEF Recovered, D, N, C

\* Neither the files nor the log change, outside the renames: nor does what is seen.
LEMMA SameContent ==
    ASSUME UNCHANGED <<rows, metaFlushed, log>>, pc \notin Renaming, pc' \notin Renaming
    PROVE  Content' = Content
  BY DEF Content, Committed

\* An operation takes effect when it is logged.
LEMMA RefinesBegin ==
    ASSUME TypeInv, ContentInv, ContentInv', SeenInv, SeenInv', Operation, ~refused, ~refused'
    PROVE  Promise!Next
  <1>1. PICK kind \in {"insert", "update", "delete"}, id \in Ids, v \in Vectors, d \in Data :
            LET o == [kind |-> kind, id |-> id, vec |-> v, data |-> d] IN Begin(o) \/ BeginFails(o)
    BY DEF Operation
  <1> DEFINE o == [kind |-> kind, id |-> id, vec |-> v, data |-> d]
  <1>2. o \in Logged /\ o.kind \in {"insert", "update", "delete"} /\ o.vec \in Vectors /\ o.data \in Data
    BY DEF Logged
  <1>3. Begin(o)
    <2>1. Begin(o) \/ BeginFails(o)
      BY <1>1
    <2> QED BY <2>1 DEF BeginFails
  <1> HIDE DEF o
  <1>4. /\ UNCHANGED <<rows, metaFlushed, meta, refused>> /\ log' = Append(log, o) /\ pc' \in {"row", "meta"}
        /\ pc = "idle" /\ Idle
    BY <1>3 DEF Begin, Allowed, Idle, files, memory
  <1>5. /\ o.kind = "insert" => o.id = Len(rows)
        /\ o.kind # "insert" => o.id < Len(rows) /\ ~IsDeleted(meta, o.id)
    BY <1>2, <1>3 DEF Begin, Allowed, NextRow, IsLive
  <1>6. log \in Seq(Logged) /\ rows \in Seq(Vectors) /\ todo = <<>> /\ Len(log) \in Nat /\ o.id \in Nat
    <2>1. log \in Seq(Logged) /\ rows \in Seq(Vectors) /\ todo = <<>> /\ Len(log) \in Nat
      BY <1>4 DEF TypeInv, StoreTypeOK, QueueInv, Idle
    <2>2. o.id \in Nat
      BY <1>2, IdsAreNumbers DEF Logged
    <2> QED BY <2>1, <2>2
  <1>7. Replayed(Len(log), log, rows, meta, rows, metaFlushed) /\ LogFits(log, rows, metaFlushed)
    <2>1. Applied = Len(log)
      BY <1>4, <1>6 DEF Applied, Behind
    <2> QED BY <1>4, <2>1 DEF ContentInv, FilesFit, MemoryFits, Renaming, Idle
  <1>8. Content = View(rows, meta) /\ Recovered(View(rows, meta), log, rows, metaFlushed)
    <2>1. Recovered(View(rows, meta), log, rows, metaFlushed)
      BY <1>6, <1>7, ReplayedIsRecovered DEF LogFits
    <2>2. Recovered(Committed, log, rows, metaFlushed)
      BY <1>4 DEF SeenInv, RecoveredInv, Renaming
    <2>3. View(rows, meta) = Committed
      BY <1>6, <1>7, <2>1, <2>2, RecoveredUnique DEF LogFits
    <2> QED BY <1>4, <2>1, <2>3 DEF Content, Renaming
  <1>9. Recovered(After(Content, o), log', rows, metaFlushed)
    <2>1. \A j \in DOMAIN log : log[j].id < Len(rows)
      BY <1>7 DEF Replayed, ReplayedRows
    <2> QED BY <1>2, <1>4, <1>5, <1>6, <1>8, <2>1, AppendRecovered
  <1>10. Content' = After(Content, o)
    <2>1. Content' = Committed' /\ Recovered(Committed', log', rows, metaFlushed)
      BY <1>4 DEF Content, SeenInv, RecoveredInv, Renaming
    <2>2. LogRows(log', rows) /\ log' \in Seq(Logged)
      BY <1>2, <1>4, <1>6 DEF ContentInv, FilesFit, Renaming, LogFits
    <2> QED BY <1>6, <1>9, <2>1, <2>2, RecoveredUnique
  <1>11. UNCHANGED refused
    BY <1>4
  <1>12. CASE o.kind = "insert"
    <2>1. Result(o) = [vec |-> o.vec, data |-> o.data] /\ Content' = Append(Content, Result(o))
      BY <1>10, <1>12 DEF After, Result
    <2>2. Result(o) \in Promise!Live
      BY <1>2, <2>1 DEF Promise!Live
    <2> QED BY <1>11, <2>1, <2>2 DEF Promise!Next, Promise!Operation, Promise!Insert
  <1>13. CASE o.kind # "insert"
    <2>1. Content' = [Content EXCEPT ![o.id + 1] = Result(o)]
      BY <1>10, <1>13 DEF After
    <2>2. o.id \in 0 .. Len(rows) - 1 /\ o.id + 1 \in 1 .. Len(rows)
      BY <1>5, <1>6, <1>13
    <2>3. Content[o.id + 1] = Entry(rows, meta, o.id) /\ o.id + 1 \in DOMAIN Content
      BY <1>6, <1>8, <2>2, ViewType
    <2>4. Content[o.id + 1] # Promise!Deleted /\ Promise!Deleted = Gone
      BY <1>5, <1>13, <2>3, EntryFacts DEF Promise!Deleted, Gone
    <2>5. CASE o.kind = "update"
      <3>1. Result(o) = [vec |-> o.vec, data |-> o.data]
        BY <2>5 DEF Result
      <3>2. Result(o) \in Promise!Live
        BY <1>2, <3>1 DEF Promise!Live
      <3> QED BY <1>11, <2>1, <2>3, <2>4, <3>2 DEF Promise!Next, Promise!Operation, Promise!Update
    <2>6. CASE o.kind = "delete"
      <3>1. Result(o) = Promise!Deleted
        BY <2>4, <2>6 DEF Result
      <3> QED BY <1>11, <2>1, <2>3, <2>4, <3>1 DEF Promise!Next, Promise!Operation, Promise!Delete
    <2> QED BY <1>2, <1>13, <2>5, <2>6
  <1> QED BY <1>12, <1>13

\* A step writes the vector or the metadata file: what a recovery gives is the same.
LEMMA RefinesWrite ==
    ASSUME TypeInv, ContentInv, ContentInv', TypeInv', SeenInv, SeenInv', WriteRow \/ FlushData, ~refused, ~refused'
    PROVE  Content' = Content
  <1>1. /\ log' = log /\ pc \notin Renaming /\ pc' \notin Renaming
        /\ log \in Seq(Logged) /\ rows' \in Seq(Vectors) /\ rows \in Seq(Vectors) /\ metaFlushed \in Metas
    BY DEF WriteRow, FlushData, At, Idle, durable, TypeInv, StoreTypeOK, QueueInv, Renaming
  <1>2. Recovered(Content, log, rows, metaFlushed) /\ LogFits(log, rows, metaFlushed)
    BY <1>1 DEF SeenInv, RecoveredInv, Content, ContentInv, FilesFit
  <1>3. Recovered(Content', log, rows', metaFlushed') /\ LogRows(log, rows')
    BY <1>1 DEF SeenInv, RecoveredInv, Content, ContentInv, FilesFit, LogFits
  <1>4. Recovered(Content, log, rows', metaFlushed')
    <2>1. CASE WriteRow
      <3>1. pc = "row" /\ metaFlushed' = metaFlushed
        BY <2>1 DEF WriteRow, At
      <3>2. OpMatches /\ Replayed(Applied, log, rows, meta, rows, metaFlushed) /\ DOMAIN metaFlushed \subseteq 0 .. Len(rows) - 1
        BY <3>1 DEF ContentInv, MemoryFits, TypeInv, PlaceInv, StoreTypeOK, Renaming
      <3>3. Stored(rows', rows, log[Len(log) - Len(todo)])
        BY <2>1, <3>2, WriteStores DEF Current
      <3>4. Applied \in Nat /\ Len(log) - Len(todo) \in DOMAIN log /\ Len(log) - Len(todo) = Applied + 1
        BY <3>1, CurrentFacts
      <3>5. \A C : Recovered(C, log, rows, metaFlushed) => Recovered(C, log, rows', metaFlushed)
        BY <1>1, <1>2, <3>2, <3>3, <3>4, FitsWrite
      <3> QED BY <1>2, <3>1, <3>5
    <2>2. CASE FlushData
      <3>1. /\ rows' = rows /\ metaFlushed' = meta /\ pc = "idle" /\ mapped = Mappings /\ phase # "closed" /\ todo = <<>>
        BY <2>2 DEF FlushData, FlushedMeta, Idle, TypeInv, QueueInv
      <3>2. Applied = Len(log)
        BY <1>1, <3>1 DEF Applied, Behind
      <3>3. Replayed(Len(log), log, rows, meta, rows, metaFlushed)
        BY <3>1, <3>2 DEF ContentInv, MemoryFits, Renaming, Mappings
      <3>4. \A C : Recovered(C, log, rows, metaFlushed) => Recovered(C, log, rows, meta)
        BY <1>1, <1>2, <3>3, FitsFlush
      <3> QED BY <1>2, <3>1, <3>4
    <2> QED BY <2>1, <2>2
  <1> QED BY <1>1, <1>3, <1>4, RecoveredUnique

\* The log is emptied when the files hold all of it.
LEMMA RefinesTruncate ==
    ASSUME TypeInv, ContentInv, SeenInv, SeenInv', log' = <<>>, UNCHANGED <<rows, metaFlushed>>,
           pc \in {"checkpoint", "clear"}, pc' \notin Renaming, ~refused, ~refused'
    PROVE  Content' = Content
  <1>1. /\ log \in Seq(Logged) /\ rows \in Seq(Vectors) /\ todo = <<>> /\ metaFlushed = meta
        /\ mapped = Mappings /\ phase # "closed" /\ Len(log) \in Nat
    BY DEF TypeInv, StoreTypeOK, QueueInv, PlaceInv
  <1>2. Applied = Len(log)
    BY <1>1 DEF Applied, Behind
  <1>3. Replayed(Len(log), log, rows, meta, rows, metaFlushed) /\ LogRows(log, rows)
    BY <1>1, <1>2 DEF ContentInv, MemoryFits, FilesFit, LogFits, Renaming, Mappings
  <1>4. Recovered(View(rows, meta), log, rows, metaFlushed)
    BY <1>1, <1>3, ReplayedIsRecovered
  <1>5. Recovered(Committed, log, rows, metaFlushed)
    BY DEF SeenInv, RecoveredInv, Renaming
  <1>6. Committed = View(rows, meta)
    BY <1>1, <1>3, <1>4, <1>5, RecoveredUnique
  <1>7. Committed' = View(rows, metaFlushed)
    BY DEF SeenInv, EmptyInv
  <1> QED BY <1>1, <1>6, <1>7 DEF Content, Renaming

\* A compaction takes effect when the vector file is replaced.
LEMMA RefinesCompact ==
    ASSUME TypeInv, SeenInv, RenameVec, ~refused, pc' = "renameGraph"
    PROVE  Promise!Next
  <1>1. /\ Idle /\ pc = "idle" /\ phase = "up" /\ UNCHANGED <<meta, refused>> /\ Renaming = {"renameGraph", "renameMeta", "clearLog"}
        /\ rows' = [i \in DOMAIN LiveIds |-> rows[LiveIds[i] + 1]]
    BY DEF RenameVec, Idle, durable, Renaming
  <1>2. /\ rows \in Seq(Vectors) /\ meta \in Metas /\ DOMAIN meta \subseteq 0 .. Len(rows) - 1 /\ "meta" \in mapped
        /\ Len(rows) \in Nat
    BY <1>1 DEF TypeInv, StoreTypeOK, PlaceInv
  <1>3. Content = View(rows, meta)
    BY <1>1, <1>2 DEF SeenInv, ReadsWhatRecovers, Content
  <1>4. Content' = View(rows', FreshMeta)
    BY <1>1 DEF Content, FreshMeta
  <1> DEFINE S == {id \in 0 .. Len(rows) - 1 : ~IsDeleted(meta, id)}
             Kept == {i \in DOMAIN Content : Content[i] # Promise!Deleted}
             n == Cardinality(S)
  <1>5. Kept = {id + 1 : id \in S}
    <2>1. DOMAIN Content = 1 .. Len(rows) /\ \A i \in 0 .. Len(rows) - 1 : Content[i + 1] = Entry(rows, meta, i)
      BY <1>2, <1>3, ViewType
    <2>2. Promise!Deleted = Gone
      BY DEF Promise!Deleted, Gone
    <2>3. \A i \in 0 .. Len(rows) - 1 : Content[i + 1] # Promise!Deleted <=> ~IsDeleted(meta, i)
      BY <2>1, <2>2, EntryFacts
    <2>4. ASSUME NEW i \in Kept PROVE i \in {id + 1 : id \in S}
      <3>1. i \in 1 .. Len(rows) /\ Content[i] # Promise!Deleted
        BY <2>1, <2>4
      <3>2. i - 1 \in 0 .. Len(rows) - 1 /\ (i - 1) + 1 = i
        BY <1>2, <3>1
      <3>3. i - 1 \in S
        BY <2>3, <3>1, <3>2
      <3> QED BY <3>2, <3>3
    <2>5. ASSUME NEW id \in S PROVE id + 1 \in Kept
      <3>1. id + 1 \in 1 .. Len(rows)
        BY <1>2
      <3> QED BY <2>1, <2>3, <3>1
    <2> QED BY <2>4, <2>5
  <1>6. S \subseteq Nat /\ IsFiniteSet(S) /\ n \in Nat
    <2>1. IsFiniteSet(0 .. Len(rows) - 1) /\ S \subseteq 0 .. Len(rows) - 1
      BY <1>2, FS_Interval
    <2>2. IsFiniteSet(S)
      BY <2>1, FS_Subset
    <2> QED BY <2>1, <2>2, FS_CardinalityType
  <1>7. /\ S = {id \in DOMAIN meta : ~meta[id].del}
        /\ LiveIds = Ascending(S)
        /\ LiveIds \in Seq(0 .. Len(rows) - 1) /\ Len(LiveIds) = n
    BY <1>2, LiveFacts
  <1>8. /\ DOMAIN FreshMeta = 0 .. n - 1 /\ \A i \in DOMAIN FreshMeta : ~FreshMeta[i].del
        /\ \A i \in DOMAIN FreshMeta : FreshMeta[i] = meta[LiveIds[i + 1]]
    BY <1>2, <1>7, FreshFacts
  <1>9. \A k \in 1 .. n : LiveIds[k] \in S
    BY <1>6, <1>7, AscendingRank
  <1>s. \A id \in S : id \in 0 .. Len(rows) - 1 /\ ~IsDeleted(meta, id)
    OBVIOUS
  <1> HIDE DEF S, Kept, n
  <1>10. Ascending(Kept) = [k \in 1 .. n |-> LiveIds[k] + 1]
    BY <1>5, <1>6, <1>7, AscendingShift DEF n
  <1>11. DOMAIN LiveIds = 1 .. n
    BY <1>7
  <1>12. View(rows', FreshMeta) = [k \in 1 .. n |-> Content[LiveIds[k] + 1]]
    <2>1. View(rows', FreshMeta) = [k \in 1 .. n |-> Entry(rows', FreshMeta, k - 1)]
      BY <1>1, <1>11 DEF View
    <2>2. ASSUME NEW k \in 1 .. n PROVE Entry(rows', FreshMeta, k - 1) = Content[LiveIds[k] + 1]
      <3>1. k - 1 \in DOMAIN FreshMeta /\ (k - 1) + 1 = k
        BY <1>6, <1>8
      <3>2. FreshMeta[k - 1] = meta[LiveIds[k]] /\ ~IsDeleted(FreshMeta, k - 1)
        BY <1>8, <3>1 DEF IsDeleted
      <3>3. rows'[k] = rows[LiveIds[k] + 1]
        BY <1>1, <1>11
      <3>4. Entry(rows', FreshMeta, k - 1) = [vec |-> rows[LiveIds[k] + 1], data |-> meta[LiveIds[k]].data]
        BY <3>1, <3>2, <3>3, EntryFacts
      <3>5. LiveIds[k] \in 0 .. Len(rows) - 1 /\ ~IsDeleted(meta, LiveIds[k])
        BY <1>9, <1>s
      <3>6. Content[LiveIds[k] + 1] = Entry(rows, meta, LiveIds[k])
        BY <1>2, <1>3, <3>5, ViewType
      <3> QED BY <3>4, <3>5, <3>6, EntryFacts
    <2> QED BY <2>1, <2>2
  <1>13. Content' = [k \in DOMAIN Ascending(Kept) |-> Content[Ascending(Kept)[k]]]
    BY <1>4, <1>10, <1>12
  <1>14. Promise!Compact
    <2>1. \A T : Promise!Cardinality(T) = Cardinality(T)
      BY DEF Promise!Cardinality, Cardinality
    <2>2. \A T, x : Promise!Rank(T, x) = Rank(T, x)
      BY <2>1 DEF Promise!Rank, Rank
    <2>3. Promise!Ascending(Kept) = Ascending(Kept)
      BY <2>1, <2>2 DEF Promise!Ascending, Ascending
    <2> QED BY <1>13, <2>3 DEF Promise!Compact, Kept
  <1> QED BY <1>1, <1>14 DEF Promise!Next, Promise!Operation

\* Every step is a step of VectorMap, or changes nothing in it.
LEMMA RefinesStep ==
    ASSUME "compact" \notin Faults, TypeInv, TypeInv', ContentInv, ContentInv', SeenInv, SeenInv', [Next]_vars
    PROVE  [Promise!Next]_<<Content, refused>>
  <1>1. CASE refused \/ refused'
    BY <1>1 DEF Promise!Next, Promise!InDoubt
  <1>2. CASE ~refused /\ ~refused'
    <2>0. refused \in BOOLEAN /\ refused' \in BOOLEAN
      BY DEF TypeInv, StoreTypeOK
    <2> SUFFICES ASSUME Content' # Content PROVE Promise!Next
      BY <1>2, <2>0
    <2>1. CASE Operation
      BY <1>2, <2>1, RefinesBegin
    <2>2. CASE WriteRow \/ FlushData
      BY <1>2, <2>2, RefinesWrite
    <2>3. CASE RenameVec /\ pc' = "renameGraph"
      BY <1>2, <2>3, RefinesCompact
    <2>4. CASE Checkpoint \/ (FlushFails /\ log' = <<>>)
      <3>1. log' = <<>> /\ UNCHANGED <<rows, metaFlushed>> /\ pc \in {"checkpoint", "clear"} /\ pc' \notin Renaming
        BY <2>4 DEF Checkpoint, FlushFails, files, Renaming
      <3> QED BY <1>2, <3>1, RefinesTruncate
    <2>5. CASE RenameGraph \/ RenameMeta
      <3>1. UNCHANGED <<rows, meta>> /\ pc \in Renaming /\ pc' \in Renaming
        BY <2>5 DEF RenameGraph, RenameMeta, memory, Renaming
      <3> QED BY <3>1 DEF Content, FreshMeta
    <2>6. CASE ClearLog
      <3>1. UNCHANGED <<rows, metaFlushed, meta>> /\ log' = <<>> /\ pc = "clearLog" /\ pc' = "reopen"
        BY <2>6 DEF ClearLog, files, memory
      <3>2. metaFlushed = FreshMeta
        BY <3>1 DEF TypeInv, CompactInv
      <3>3. Committed' = View(rows, metaFlushed)
        BY <1>2, <3>1 DEF SeenInv, EmptyInv, Renaming
      <3> QED BY <3>1, <3>2, <3>3 DEF Content, Renaming
    <2>7. CASE UNCHANGED vars \/ CallPanics
      <3>1. UNCHANGED <<rows, metaFlushed, log, meta, pc>>
        BY <2>7 DEF CallPanics, vars, files, durable, memory
      <3> QED BY <3>1 DEF Content, Committed, FreshMeta
    <2>8. CASE Open \/ Restart \/ PutMeta \/ Finish \/ GrowFails \/ Panics \/ ReplayNext \/ Clear \/ Reopen
               \/ (FlushFails /\ UNCHANGED durable) \/ (RenameVec /\ pc' = pc)
      <3>1. UNCHANGED <<rows, metaFlushed, log>>
        BY <2>8 DEF Open, Restart, PutMeta, Finish, GrowFails, Panics, ReplayNext, Clear, Reopen, FlushFails, RenameVec,
                    files, durable, Idle
      <3>2. pc \notin Renaming /\ pc' \notin Renaming
        BY <2>8 DEF Open, Restart, PutMeta, Finish, GrowFails, Panics, ReplayNext, Clear, Reopen, FlushFails, RenameVec,
                    At, Uses, Renaming, Idle, TypeInv, PlaceInv
      <3> QED BY <3>1, <3>2, SameContent
    <2>9. CASE FlushFails
      <3>1. UNCHANGED durable \/ log' = <<>>
        BY <2>9 DEF FlushFails
      <3> QED BY <2>4, <2>8, <2>9, <3>1
    <2>10. CASE RenameVec
      <3>1. pc' \in {pc, "renameGraph"}
        BY <2>10 DEF RenameVec
      <3> QED BY <2>3, <2>8, <2>10, <3>1
    <2> QED BY <2>1, <2>2, <2>4, <2>5, <2>6, <2>7, <2>8, <2>9, <2>10 DEF Next, Step, Flush, Compact
  <1> QED BY <1>1, <1>2

\* Seen through a crash at any step and the recovery after it, the database makes whole
\* operations only: it implements VectorMap, whatever its size and the number of its crashes.
THEOREM StoreRefinesMap == ASSUME "compact" \notin Faults PROVE Spec => ImplementsVectorMap
  <1>1. Init /\ TypeInv /\ SeenInv => Promise!Init
    <2> SUFFICES ASSUME Init, SeenInv PROVE Promise!Init
      OBVIOUS
    <2>1. /\ rows = <<>> /\ log = <<>> /\ ~refused /\ refused = FALSE /\ pc = "idle"
      BY DEF Init
    <2>2. Content = View(<<>>, metaFlushed)
      BY <2>1 DEF SeenInv, EmptyInv, Content, Renaming
    <2>3. View(<<>>, metaFlushed) = <<>>
      BY DEF View
    <2> QED BY <2>1, <2>2, <2>3 DEF Promise!Init
  <1>2. Spec => [](TypeInv /\ ContentInv /\ SeenInv)
    BY StoreTypeInvariance, ContentInvariance, SeenHolds, PTL
  <1>3. ASSUME TypeInv, TypeInv', ContentInv, ContentInv', SeenInv, SeenInv', [Next]_vars
        PROVE  [Promise!Next]_<<Content, refused>>
    BY <1>3, RefinesStep
  <1> QED BY <1>1, <1>2, <1>3, PTL DEF Spec, ImplementsVectorMap, Promise!Spec

=============================================================================
