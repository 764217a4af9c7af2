--------------------------- MODULE WalOrderProofs ---------------------------
(***************************************************************************)
(* A recovery that can read the headers returns every needed record, once  *)
(* and in order, for one caller at a time, any number of records, sizes,   *)
(* restarts, limits on the files, and whichever rename or create of a      *)
(* rotation fails; and with that the log implements DurableLog.            *)
(***************************************************************************)
EXTENDS WalProofs, OrderLemmas

USE DEF diskVars, lsnVars, fileVars, writerVars, callerVars, ghostVars, vars

\* A finite set of numbers that is not empty has a greatest element, and Max is it.
LEMMA MaxFacts ==
    ASSUME NEW S, IsFiniteSet(S), S \subseteq Nat, S # {}
    PROVE  Max(S) \in S /\ \A x \in S : x <= Max(S)
  <1>1. PICK x \in S : \A y \in S : x >= y
    BY HasGreatest
  <1> QED BY <1>1 DEF Max

-----------------------------------------------------------------------------
(* What load_segment reads. *)

\* A record starts at o, and it is the first of the body or the next of a set of records.
Follows(body, o, A) ==
    /\ RecordAt(body, o)
    /\ o = 0 \/ \E p \in 0 .. o - 1 :
                    /\ p + body[p + 1].rec.size = o
                    /\ Grows(body[p + 1].rec, body[o + 1].rec)
                    /\ p \in A

\* The equation that Reads solves.
IsReader(f, body) ==
    f = [o \in 0 .. Len(body) |->
            /\ RecordAt(body, o)
            /\ o = 0 \/ \E p \in 0 .. o - 1 :
                            /\ p + body[p + 1].rec.size = o
                            /\ Grows(body[p + 1].rec, body[o + 1].rec)
                            /\ f[p]]

\* The loop of load_segment computes a function of the body.
LEMMA ReaderExists == ASSUME NEW body, Len(body) \in Nat PROVE \E f : IsReader(f, body)
  <1> DEFINE n == Len(body)
             S == SUBSET (0 .. n)
             a == IF RecordAt(body, 0) THEN {0} ELSE {}
             G == [x \in (1 .. n) \X S |->
                      IF Follows(body, x[1], x[2]) THEN x[2] \cup {x[1]} ELSE x[2]]
  <1>1. n \in Nat /\ a \in S
    OBVIOUS
  <1>2. G \in [(1 .. n) \X S -> S]
    <2>1. ASSUME NEW k \in 1 .. n, NEW A \in S
          PROVE  (IF Follows(body, k, A) THEN A \cup {k} ELSE A) \in S
      BY <1>1
    <2> HIDE DEF S, n
    <2> QED BY <2>1
  <1>3. ASSUME NEW k \in 1 .. n, NEW A \in S
        PROVE  G[<<k, A>>] = IF Follows(body, k, A) THEN A \cup {k} ELSE A
    OBVIOUS
  <1> HIDE DEF G
  <1>4. PICK h \in [0 .. n -> S] : h[0] = a /\ \A k \in 1 .. n : h[k] = G[<<k, h[k - 1]>>]
    <2> HIDE DEF n, S, a
    <2>1. \E h : FollowsFrom(h, n, S, a, G)
      BY <1>1, <1>2, RecursionExists
    <2> QED BY <2>1 DEF FollowsFrom
  <1>5. ASSUME NEW k \in 1 .. n
        PROVE  h[k] = IF Follows(body, k, h[k - 1]) THEN h[k - 1] \cup {k} ELSE h[k - 1]
    <2>1. k - 1 \in 0 .. n
      BY <1>1
    <2>2. h[k - 1] \in S
      BY <1>4, <2>1
    <2> HIDE DEF S, n
    <2> QED BY <1>3, <1>4, <2>2
  <1> DEFINE Settled(k) == h[k] \subseteq 0 .. k /\ \A j \in 0 .. k : j \in h[k] <=> j \in h[j]
             Bad == {k \in 0 .. n : ~Settled(k)}
  <1>6. Bad = {}
    <2> SUFFICES ASSUME Bad # {} PROVE FALSE
      OBVIOUS
    <2>1. PICK k \in Bad : \A j \in Bad : k <= j
      <3>1. Bad \subseteq Nat
        BY <1>1
      <3> HIDE DEF Bad
      <3> QED BY <3>1, LeastExists
    <2>2. k # 0
      BY <1>4
    <2>3. k \in 1 .. n /\ k - 1 \in 0 .. n /\ k - 1 \notin Bad
      <3>1. k \in 0 .. n /\ k - 1 < k
        BY <1>1
      <3>2. k \in 1 .. n /\ k - 1 \in 0 .. n
        BY <1>1, <2>2, <3>1
      <3>3. ~ (k <= k - 1)
        BY <1>1, <3>1
      <3> HIDE DEF Bad
      <3> QED BY <2>1, <3>2, <3>3
    <2>4. Settled(k - 1)
      BY <2>3
    <2>5. h[k] = h[k - 1] \/ h[k] = h[k - 1] \cup {k}
      BY <1>5, <2>3
    <2>6. k \notin h[k - 1]
      BY <2>3, <2>4
    <2>7. h[k] \subseteq 0 .. k
      BY <1>1, <2>3, <2>4, <2>5
    <2>8. ASSUME NEW j \in 0 .. k PROVE j \in h[k] <=> j \in h[j]
      <3>1. CASE j = k
        BY <3>1
      <3>2. CASE j # k
        <4>1. j \in 0 .. k - 1
          BY <1>1, <2>3, <3>2
        <4> QED BY <2>4, <2>5, <3>2, <4>1
      <3> QED BY <3>1, <3>2
    <2> QED BY <2>1, <2>7, <2>8
  <1>7. ASSUME NEW o \in 1 .. n PROVE o \in h[o] <=> Follows(body, o, h[o - 1])
    <2>1. o - 1 \in 0 .. n /\ o - 1 \notin Bad /\ o \notin 0 .. o - 1
      BY <1>1, <1>6
    <2>2. Settled(o - 1)
      BY <2>1
    <2>3. o \notin h[o - 1]
      BY <2>1, <2>2
    <2> QED BY <1>5, <2>3
  <1>8. ASSUME NEW o \in 1 .. n, NEW p \in 0 .. o - 1 PROVE p \in h[o - 1] <=> p \in h[p]
    <2>1. o - 1 \in 0 .. n /\ o - 1 \notin Bad
      BY <1>1, <1>6
    <2> QED BY <2>1
  <1> DEFINE f == [o \in 0 .. n |-> o \in h[o]]
             Turn(o) == /\ RecordAt(body, o)
                        /\ o = 0 \/ \E p \in 0 .. o - 1 :
                                        /\ p + body[p + 1].rec.size = o
                                        /\ Grows(body[p + 1].rec, body[o + 1].rec)
                                        /\ f[p]
  <1>9. ASSUME NEW o \in 0 .. n PROVE (o \in h[o]) <=> Turn(o)
    <2>1. CASE o = 0
      <3>1. o \in h[o] <=> RecordAt(body, 0)
        BY <1>4, <2>1
      <3> QED BY <2>1, <3>1
    <2>2. CASE o # 0
      <3>1. o \in 1 .. n
        BY <1>1, <2>2
      <3>2. \A p \in 0 .. o - 1 : p \in 0 .. n
        BY <1>1, <3>1
      <3>3. \A p \in 0 .. o - 1 : f[p] <=> p \in h[o - 1]
        BY <1>8, <3>1, <3>2
      <3> HIDE DEF f, n
      <3> QED BY <1>7, <2>2, <3>1, <3>3 DEF Follows
    <2> QED BY <2>1, <2>2
  <1>10. f = [o \in 0 .. n |-> Turn(o)]
    <2>1. ASSUME NEW o \in 0 .. n PROVE (o \in h[o]) = Turn(o)
      <3>1. Turn(o) \in BOOLEAN /\ (o \in h[o]) \in BOOLEAN
        OBVIOUS
      <3>2. (o \in h[o]) <=> Turn(o)
        BY <1>9
      <3> HIDE DEF Turn
      <3> QED BY <3>1, <3>2
    <2> DEFINE g == [o \in 0 .. n |-> Turn(o)]
    <2>2. \A o \in 0 .. n : f[o] = g[o]
      <3> HIDE DEF n
      <3> QED BY <2>1
    <2> QED BY <2>2
  <1>11. IsReader(f, body)
    <2> HIDE DEF f
    <2> QED BY <1>10 DEF IsReader
  <1> QED BY <1>11

\* load_segment reads the record at the start of the body and, behind a record it has
\* read, the next one if its LSN is greater; nothing else.
LEMMA ReadsFacts ==
    ASSUME NEW body \in Seq(Cell)
    PROVE  /\ Reads(body) \subseteq 0 .. Len(body)
           /\ \A o \in 0 .. Len(body) : o \in Reads(body) <=> Follows(body, o, Reads(body))
  <1>1. Len(body) \in Nat
    OBVIOUS
  <1> DEFINE f == CHOOSE f : IsReader(f, body)
  <1>2. IsReader(f, body)
    BY <1>1, ReaderExists
  <1>3. Reads(body) = {o \in 0 .. Len(body) : f[o]}
    BY DEF Reads, IsReader
  <1> HIDE DEF f
  <1>4. ASSUME NEW o \in 0 .. Len(body)
        PROVE  o \in Reads(body) <=> Follows(body, o, Reads(body))
    <2>1. f[o] = ( /\ RecordAt(body, o)
                   /\ o = 0 \/ \E p \in 0 .. o - 1 :
                                  /\ p + body[p + 1].rec.size = o
                                  /\ Grows(body[p + 1].rec, body[o + 1].rec)
                                  /\ f[p] )
      <3> DEFINE F(x) == ( /\ RecordAt(body, x)
                           /\ x = 0 \/ \E p \in 0 .. x - 1 :
                                  /\ p + body[p + 1].rec.size = x
                                  /\ Grows(body[p + 1].rec, body[x + 1].rec)
                                  /\ f[p] )
      <3>1. f = [x \in 0 .. Len(body) |-> F(x)]
        BY <1>2 DEF IsReader
      <3> HIDE DEF F
      <3>2. f[o] = F(o)
        BY <3>1
      <3> QED BY <3>2 DEF F
    <2>2. \A p \in 0 .. o - 1 : p \in 0 .. Len(body)
      BY <1>1
    <2>3. \A p \in 0 .. o - 1 : p \in Reads(body) <=> f[p]
      BY <1>3, <2>2
    <2>4. o \in Reads(body) <=> f[o]
      BY <1>3
    <2> QED BY <2>1, <2>3, <2>4, Zenon DEF Follows
  <1> QED BY <1>3, <1>4

-----------------------------------------------------------------------------
(* What a recovery returns. *)

\* The files on disk by their number in the order of load_for_recovery.
FileNos(ss) == DOMAIN ss \cup {ActiveNo(ss)}

\* The active file comes behind every segment.
LEMMA ActiveIsLast ==
    ASSUME NEW ss, DOMAIN ss \subseteq Nat, IsFiniteSet(DOMAIN ss)
    PROVE  ActiveNo(ss) \in Nat /\ \A i \in DOMAIN ss : i < ActiveNo(ss)
  <1> DEFINE S == {0} \cup {i + 1 : i \in DOMAIN ss}
             T == {i + 1 : i \in DOMAIN ss}
             f == [i \in DOMAIN ss |-> i + 1]
  <1>1. IsFiniteSet(T)
    <2>1. f \in Surjection(DOMAIN ss, T)
      BY DEF Surjection
    <2> HIDE DEF f, T
    <2> QED BY <2>1, FS_Surjection
  <1>2. IsFiniteSet(S)
    <2>1. IsFiniteSet({0})
      BY FS_Singleton
    <2> HIDE DEF T
    <2> QED BY <1>1, <2>1, FS_Union DEF T
  <1>3. S \subseteq Nat /\ S # {}
    OBVIOUS
  <1>4. Max(S) \in S /\ \A x \in S : x <= Max(S)
    <2> HIDE DEF S
    <2> QED BY <1>2, <1>3, MaxFacts
  <1>5. ActiveNo(ss) = Max(S)
    BY DEF ActiveNo
  <1>6. ASSUME NEW i \in DOMAIN ss PROVE i < Max(S)
    <2>1. i + 1 \in S /\ i \in Nat
      OBVIOUS
    <2>2. i + 1 <= Max(S) /\ Max(S) \in Nat
      <3> HIDE DEF S
      <3> QED BY <2>1, <1>3, <1>4
    <2> HIDE DEF S
    <2> QED BY <2>1, <2>2
  <1>7. Max(S) \in Nat
    <2> HIDE DEF S
    <2> QED BY <1>3, <1>4
  <1> HIDE DEF S
  <1> QED BY <1>5, <1>6, <1>7

\* The bodies load_for_recovery reads are the segments by id and the active file.
LEMMA BodyFacts ==
    ASSUME NEW ss, NEW w, DOMAIN ss \subseteq Nat, IsFiniteSet(DOMAIN ss)
    PROVE  /\ Body(ss, w, ActiveNo(ss)) = w.body
           /\ \A i \in DOMAIN ss : Body(ss, w, i) = ss[i].body
           /\ FileNos(ss) \subseteq Nat /\ IsFiniteSet(FileNos(ss))
  <1>1. ActiveNo(ss) \in Nat /\ ActiveNo(ss) \notin DOMAIN ss
    BY ActiveIsLast
  <1>2. IsFiniteSet(FileNos(ss))
    BY FS_AddElement DEF FileNos
  <1> QED BY <1>1, <1>2 DEF Body, FileNos

\* The highest last_checkpoint_lsn is that of some header and not below any.
LEMMA HighestCkptFacts ==
    ASSUME NEW ss, NEW w, IsFiniteSet(DOMAIN ss), w.ckpt \in Nat, \A i \in DOMAIN ss : ss[i].ckpt \in Nat
    PROVE  /\ HighestCkpt(ss, w) \in {w.ckpt} \cup {ss[i].ckpt : i \in DOMAIN ss}
           /\ w.ckpt <= HighestCkpt(ss, w)
           /\ \A i \in DOMAIN ss : ss[i].ckpt <= HighestCkpt(ss, w)
  <1> DEFINE T == {ss[i].ckpt : i \in DOMAIN ss}
             S == {w.ckpt} \cup T
             f == [i \in DOMAIN ss |-> ss[i].ckpt]
  <1>1. IsFiniteSet(T)
    <2>1. f \in Surjection(DOMAIN ss, T)
      BY DEF Surjection
    <2> HIDE DEF f, T
    <2> QED BY <2>1, FS_Surjection
  <1>2. IsFiniteSet(S)
    <2>1. IsFiniteSet({w.ckpt})
      BY FS_Singleton
    <2> HIDE DEF T
    <2> QED BY <1>1, <2>1, FS_Union
  <1>3. S \subseteq Nat /\ S # {}
    OBVIOUS
  <1>4. Max(S) \in S /\ \A x \in S : x <= Max(S)
    <2> HIDE DEF S
    <2> QED BY <1>2, <1>3, MaxFacts
  <1> QED BY <1>4 DEF HighestCkpt

\* The records found, as load_for_recovery collects them.
LEMMA FoundFacts ==
    ASSUME NEW ss, NEW w, DOMAIN ss \subseteq Nat, IsFiniteSet(DOMAIN ss),
           w.body \in Seq(Cell), \A i \in DOMAIN ss : ss[i].body \in Seq(Cell)
    PROVE  /\ \A n \in FileNos(ss) : Body(ss, w, n) \in Seq(Cell)
           /\ Found(ss, w) \subseteq Nat \X Nat /\ IsFiniteSet(Found(ss, w))
           /\ \A n, o : <<n, o>> \in Found(ss, w) <=>
                 /\ n \in FileNos(ss) /\ o \in Reads(Body(ss, w, n))
                 /\ Keep(Body(ss, w, n)[o + 1].rec, HighestCkpt(ss, w))
  <1> DEFINE In(n) == {o \in Reads(Body(ss, w, n)) :
                          Keep(Body(ss, w, n)[o + 1].rec, HighestCkpt(ss, w))}
             At(n) == {<<n, o>> : o \in In(n)}
             All == {At(n) : n \in FileNos(ss)}
  <1>1. ASSUME NEW n \in FileNos(ss) PROVE Body(ss, w, n) \in Seq(Cell)
    <2>1. CASE n \in DOMAIN ss
      <3>1. Body(ss, w, n) = ss[n].body
        BY <2>1, BodyFacts
      <3> QED BY <2>1, <3>1
    <2>2. CASE n = ActiveNo(ss)
      BY <2>2, BodyFacts
    <2> QED BY <1>1, <2>1, <2>2 DEF FileNos
  <1>2. ASSUME NEW n \in FileNos(ss) PROVE IsFiniteSet(At(n)) /\ In(n) \subseteq Nat
    <2>1. Reads(Body(ss, w, n)) \subseteq 0 .. Len(Body(ss, w, n)) /\ Len(Body(ss, w, n)) \in Nat
      BY <1>1, ReadsFacts
    <2>2. IsFiniteSet(0 .. Len(Body(ss, w, n)))
      BY <2>1, FS_Interval
    <2>3. In(n) \in SUBSET (0 .. Len(Body(ss, w, n)))
      BY <2>1
    <2>4. IsFiniteSet(In(n))
      <3> HIDE DEF In
      <3> QED BY <2>2, <2>3, FS_Subset
    <2> DEFINE f == [o \in In(n) |-> <<n, o>>]
    <2>5. f \in Surjection(In(n), At(n))
      <3> HIDE DEF In
      <3> QED BY DEF Surjection
    <2>6. IsFiniteSet(At(n))
      <3> HIDE DEF f, In, At
      <3> QED BY <2>4, <2>5, FS_Surjection
    <2> HIDE DEF In, At
    <2> QED BY <2>1, <2>3, <2>6
  <1>3. Found(ss, w) = UNION All
    BY DEF Found, FileNos
  <1>4. IsFiniteSet(UNION All)
    <2> DEFINE f == [n \in FileNos(ss) |-> At(n)]
    <2>1. f \in Surjection(FileNos(ss), All)
      <3> HIDE DEF At
      <3> QED BY DEF Surjection
    <2>2. IsFiniteSet(All)
      <3> HIDE DEF f, All
      <3> QED BY <2>1, BodyFacts, FS_Surjection
    <2>3. \A T \in All : IsFiniteSet(T)
      <3> HIDE DEF At
      <3> QED BY <1>2
    <2> HIDE DEF All
    <2> QED BY <2>2, <2>3, FS_UNION
  <1>5. ASSUME NEW n, NEW o PROVE <<n, o>> \in UNION All <=> n \in FileNos(ss) /\ o \in In(n)
    <2> HIDE DEF In
    <2> QED OBVIOUS
  <1>6. UNION All \subseteq Nat \X Nat
    <2>1. FileNos(ss) \subseteq Nat
      BY BodyFacts
    <2> SUFFICES ASSUME NEW n \in FileNos(ss), NEW z \in At(n) PROVE z \in Nat \X Nat
      OBVIOUS
    <2>2. PICK o \in In(n) : z = <<n, o>>
      OBVIOUS
    <2> HIDE DEF In
    <2> QED BY <1>2, <2>1, <2>2
  <1> HIDE DEF All
  <1> QED BY <1>1, <1>3, <1>4, <1>5, <1>6

\* load_for_recovery returns the records found, each once, by file and offset.
LEMMA LoadFacts ==
    ASSUME NEW ss, NEW w, DOMAIN ss \subseteq Nat, IsFiniteSet(DOMAIN ss),
           w.body \in Seq(Cell), \A i \in DOMAIN ss : ss[i].body \in Seq(Cell)
    PROVE  \E at : /\ at \in [DOMAIN Load(ss, w) -> Found(ss, w)]
                   /\ \A k \in DOMAIN at : Load(ss, w)[k] = Body(ss, w, at[k][1])[at[k][2] + 1].rec
                   /\ \A i, j \in DOMAIN at : i < j => Earlier(at[i], at[j])
                   /\ \A x \in Found(ss, w) : \E k \in DOMAIN at : at[k] = x
                   /\ DOMAIN at \subseteq Nat
  <1> DEFINE found == Found(ss, w)
             E == {xy \in found \X found : Earlier(xy[1], xy[2])}
             at == InOrder(found, E)
  <1>1. found \subseteq Nat \X Nat /\ IsFiniteSet(found)
    BY FoundFacts
  <1>2. ASSUME NEW x \in found, NEW y \in found PROVE <<x, y>> \in E <=> Earlier(x, y)
    OBVIOUS
  <1>3. ASSUME NEW x \in found PROVE x[1] \in Nat /\ x[2] \in Nat /\ x = <<x[1], x[2]>>
    BY <1>1
  <1>4. Load(ss, w) = [k \in DOMAIN at |-> Body(ss, w, at[k][1])[at[k][2] + 1].rec]
    BY DEF Load
  <1> HIDE DEF found, E
  <1>5. \A x \in found : <<x, x>> \notin E
    BY <1>2, <1>3 DEF Earlier
  <1>6. \A x, y, z \in found : <<x, y>> \in E /\ <<y, z>> \in E => <<x, z>> \in E
    BY <1>2, <1>3 DEF Earlier
  <1>7. \A x, y \in found : x = y \/ <<x, y>> \in E \/ <<y, x>> \in E
    <2> SUFFICES ASSUME NEW x \in found, NEW y \in found, ~Earlier(x, y), ~Earlier(y, x) PROVE x = y
      BY <1>2
    <2>1. x[1] = y[1] /\ x[2] = y[2]
      BY <1>3 DEF Earlier
    <2> QED BY <1>3, <2>1
  <1>8. /\ DOMAIN at = 1 .. Cardinality(found) /\ Cardinality(found) \in Nat
        /\ \A k \in DOMAIN at : at[k] \in found
        /\ \A i, j \in DOMAIN at : i < j => <<at[i], at[j]>> \in E
        /\ \A x \in found : \E k \in DOMAIN at : at[k] = x
    BY <1>1, <1>5, <1>6, <1>7, InOrderFacts
  <1>9. at \in [DOMAIN at -> found]
    <2> DEFINE e(k) == CHOOSE x \in found : Cardinality({y \in found : y = x \/ <<y, x>> \in E}) = k
    <2>2. at = [k \in 1 .. Cardinality(found) |-> e(k)]
      BY DEF InOrder
    <2> HIDE DEF e, at
    <2>1. at = [k \in DOMAIN at |-> at[k]]
      BY <2>2
    <2> QED BY <1>8, <2>1
  <1> HIDE DEF at
  <1>10. DOMAIN Load(ss, w) = DOMAIN at
    BY <1>4
  <1>11. \A i, j \in DOMAIN at : i < j => Earlier(at[i], at[j])
    BY <1>2, <1>8
  <1>12. DOMAIN at \subseteq Nat
    BY <1>8
  <1> QED BY <1>4, <1>8, <1>9, <1>10, <1>11, <1>12 DEF found

-----------------------------------------------------------------------------
(* The inductive invariant. *)

\* The system calls that may fail are the rename and the create of a rotation.
RotationFaultsOnly == Faults \subseteq {"rename", "create"}

\* Acknowledged, and not in the flushed data files.
Needed == acked \ covered

\* What must stay readable: the needed records and the one under way.
Wanted == Needed \cup {rec[c].uid : c \in Pending}

Flushing == {c \in Clients : cpc[c] \in {"checkpointing", "checkpointed", "clearing"}}

Bodies == {wal.body} \cup {segs[i].body : i \in DOMAIN segs}
Ckpts == {wal.ckpt, lastCkpt} \cup {segs[i].ckpt : i \in DOMAIN segs}

\* The first m cells are whole records, with LSNs and numbers that grow.
Tiled(b, m) ==
    /\ \A i \in 1 .. m :
         /\ b[i].part \in 1 .. b[i].rec.size /\ b[i].part <= i
         /\ (i - b[i].part) + b[i].rec.size <= m
         /\ \A k \in 1 .. b[i].rec.size : b[(i - b[i].part) + k] = [rec |-> b[i].rec, part |-> k]
    /\ \A i, j \in 1 .. m : i < j =>
         \/ i - b[i].part = j - b[j].part
         \/ b[i].rec.lsn < b[j].rec.lsn /\ b[i].rec.uid < b[j].rec.uid

\* ... and nothing that is wanted lies behind them.
Good(b, m) ==
    /\ m \in 0 .. Len(b)
    /\ Tiled(b, m)
    /\ \A i \in DOMAIN b : b[i].rec.uid \in Wanted => i <= m

\* Records are numbered as they are made; the one under way is the last one made and
\* is in no file before the writer has taken it.
UidInv ==
    /\ covered \subseteq 1 .. made /\ acked \subseteq 1 .. made /\ Uids(recovered) \subseteq 1 .. made
    /\ \A b \in Bodies : \A k \in DOMAIN b : b[k].rec.uid <= made
    /\ \A c \in Pending :
         /\ rec[c].uid = made /\ made > 0 /\ made \notin acked \cup covered
         /\ ~Busy => \A b \in Bodies : \A k \in DOMAIN b : b[k].rec.uid # made

\* A flush leaves nothing needed; an error leaves the writer with /dev/null, and so does
\* a missing file; the writer works on a file without a header only to give it one.
FlushInv ==
    /\ handle # "header"
    /\ Flushing # {} => Needed = {}
    /\ phase = "recovering" => Pending = {}
    /\ wpc = "exit" => phase \in {"closed", "creating"}
    /\ wal.st = "absent" => /\ wal = NoFile /\ handle = "null"
                            /\ wpc \in {"exit", "exiting", "recv", "done", "rotate_create"}
    /\ wpc = "rotate_create" => wal.st = "absent"
    /\ wal.st = "bad" => wpc \in {"rotate_header", "exit"}
    /\ wpc = "done" /\ result = "Err" => handle = "null"
    /\ Busy /\ wpc # "done" => result = "Ok"
    /\ wpc = "truncate_header" => DOMAIN segs = {} /\ wal.body = <<>>
    /\ wpc = "done" /\ result = "Ok" /\ Head(chan).kind = "truncate" =>
         DOMAIN segs = {} /\ wal.body = <<>> /\ cursor = 0 /\ wal.ckpt = lastWritten

AboveCkpts ==
    \A b \in Bodies : \A k \in DOMAIN b : b[k].rec.uid \in Wanted => \A l \in Ckpts : l <= b[k].rec.lsn

\* No header has seen a checkpoint above what is wanted.
CkptInv ==
    /\ wal.ckpt <= wal.cur /\ lastCkpt <= lastWritten
    /\ phase = "up" => \A l \in Ckpts : l <= lastWritten
    /\ \A c \in Pending : ~Busy => lastWritten <= rec[c].lsn
    /\ AboveCkpts

\* A rotated segment has a record that its own header does not cover.
Uncovered(s) ==
    \E o \in Reads(s.body) :
        o + 1 \in DOMAIN s.body /\ s.body[o + 1].rec.uid # 0 /\ s.ckpt <= s.body[o + 1].rec.lsn

SegInv ==
    /\ IsFiniteSet(DOMAIN segs) /\ \A i \in DOMAIN segs : i < nextSegId
    /\ \A i \in DOMAIN segs : segs[i].st = "ok" /\ Uncovered(segs[i])

\* The writer appends to the active file.
Live == phase = "up" /\ handle = "wal" /\ Flushing = {}

\* Wanted records of b are older than those of d.
Older(b, d) ==
    \A k \in DOMAIN b, l \in DOMAIN d :
        b[k].rec.uid \in Wanted /\ d[l].rec.uid \in Wanted => b[k].rec.uid < d[l].rec.uid

FileInv ==
    /\ \A b \in Bodies : \E m \in 0 .. Len(b) : Good(b, m)
    /\ Live => Good(wal.body, cursor) /\ \A i \in 1 .. cursor : wal.body[i].rec.lsn < lastWritten
    /\ \A i \in DOMAIN segs : Older(segs[i].body, wal.body)
    /\ \A i, j \in DOMAIN segs : i < j => Older(segs[i].body, segs[j].body)
    /\ \A u \in Needed : \E b \in Bodies : \E k \in DOMAIN b : b[k].rec.uid = u

OrderParts == UidInv /\ FlushInv /\ CkptInv /\ SegInv /\ FileInv
OrderInv == DiskInv /\ OrderParts

-----------------------------------------------------------------------------
(* The invariant gives the property. *)

\* The types of what is in a file.
LEMMA CellFacts ==
    ASSUME NEW b \in Seq(Cell)
    PROVE  /\ DOMAIN b = 1 .. Len(b) /\ Len(b) \in Nat
           /\ \A i \in DOMAIN b : /\ b[i].rec.uid \in Nat /\ b[i].rec.lsn \in Nat /\ b[i].rec.size \in Nat
                                  /\ b[i].part \in Nat /\ b[i] \in Cell /\ b[i].rec \in Record
  <1>1. DOMAIN b = 1 .. Len(b) /\ Len(b) \in Nat
    OBVIOUS
  <1>2. ASSUME NEW i \in DOMAIN b PROVE b[i] \in Cell
    <2> HIDE DEF Cell
    <2> QED BY <1>1
  <1>3. \A x \in Cell : /\ x.rec \in Record /\ x.part \in Nat
                        /\ x.rec.uid \in Nat /\ x.rec.lsn \in Nat /\ x.rec.size \in Nat
    BY DEF Cell, Record
  <1> QED BY <1>1, <1>2, <1>3

LEMMA BodyTypes == TypeOK => /\ \A b \in Bodies : b \in Seq(Cell)
                             /\ wal.body \in Seq(Cell) /\ \A i \in DOMAIN segs : segs[i].body \in Seq(Cell)
  BY DEF TypeOK, Bodies

\* load_segment reads every record of the tiled part of a body.
LEMMA TiledIsRead ==
    ASSUME NEW b \in Seq(Cell), NEW m \in 0 .. Len(b), Tiled(b, m), NEW j \in 1 .. m
    PROVE  /\ j - b[j].part \in Reads(b) /\ j - b[j].part \in Nat
           /\ (j - b[j].part) + 1 \in DOMAIN b
           /\ b[(j - b[j].part) + 1].rec = b[j].rec
  <1> DEFINE Start(i) == i - b[i].part
             Bad == {i \in 1 .. m : Start(i) \notin Reads(b)}
  <1>1. /\ DOMAIN b = 1 .. Len(b) /\ Len(b) \in Nat /\ m \in Nat /\ m <= Len(b)
        /\ \A i \in 1 .. m : i \in DOMAIN b /\ b[i].rec.size \in Nat /\ b[i].rec.lsn \in Nat /\ b[i].part \in Nat
    BY CellFacts
  <1>2. ASSUME NEW i \in 1 .. m
        PROVE  /\ Start(i) \in Nat /\ Start(i) < i /\ Start(i) + 1 \in 1 .. m
               /\ b[Start(i) + 1] = [rec |-> b[i].rec, part |-> 1]
               /\ RecordAt(b, Start(i))
    <2>1. /\ b[i].part \in 1 .. b[i].rec.size /\ b[i].part <= i
          /\ Start(i) + b[i].rec.size <= m
          /\ \A k \in 1 .. b[i].rec.size : b[Start(i) + k] = [rec |-> b[i].rec, part |-> k]
      BY DEF Tiled
    <2>2. /\ Start(i) \in Nat /\ Start(i) < i /\ Start(i) + 1 \in 1 .. m /\ 1 \in 1 .. b[i].rec.size
          /\ Start(i) < Len(b) /\ Start(i) + b[i].rec.size <= Len(b)
      <3>1. PICK p, z : p = b[i].part /\ z = b[i].rec.size
        OBVIOUS
      <3>2. p \in Nat /\ z \in Nat /\ i \in Nat /\ i >= 1 /\ m \in Nat /\ m <= Len(b) /\ Len(b) \in Nat
        BY <1>1, <3>1
      <3>3. p \in 1 .. z /\ p <= i /\ (i - p) + z <= m
        BY <2>1, <3>1
      <3>4. Start(i) = i - p
        BY <3>1
      <3> HIDE DEF Start
      <3>5. Start(i) \in Nat /\ Start(i) < i /\ Start(i) + 1 \in 1 .. m /\ 1 \in 1 .. z
        BY <3>2, <3>3, <3>4
      <3>6. Start(i) < Len(b) /\ Start(i) + z <= Len(b)
        BY <3>2, <3>3, <3>4
      <3> QED BY <3>1, <3>5, <3>6
    <2>3. b[Start(i) + 1] = [rec |-> b[i].rec, part |-> 1]
      BY <2>1, <2>2
    <2> HIDE DEF Start
    <2>4. b[Start(i) + 1].rec = b[i].rec /\ b[Start(i) + 1].part = 1
      BY <2>3
    <2> QED BY <2>1, <2>2, <2>3, <2>4 DEF RecordAt
  <1>3. Bad = {}
    <2> SUFFICES ASSUME Bad # {} PROVE FALSE
      OBVIOUS
    <2>1. PICK i \in Bad : \A k \in Bad : i <= k
      <3>1. Bad \subseteq Nat
        BY <1>1
      <3> HIDE DEF Bad
      <3> QED BY <3>1, LeastExists
    <2> DEFINE s == Start(i)
               p == Start(s)
    <2>2. i \in 1 .. m /\ s \notin Reads(b)
      OBVIOUS
    <2>3. s \in Nat /\ s < i /\ s + 1 \in 1 .. m /\ RecordAt(b, s) /\ b[s + 1] = [rec |-> b[i].rec, part |-> 1]
      BY <1>2, <2>2
    <2>4. s \in 0 .. Len(b)
      BY <1>1, <2>3
    <2>5. s # 0
      BY <2>2, <2>3, <2>4, ReadsFacts DEF Follows
    <2> HIDE DEF s
    <2>6. s \in 1 .. m /\ s \notin Bad
      BY <1>1, <2>1, <2>2, <2>3, <2>5
    <2>7. p \in Reads(b) /\ p \in Nat /\ p < s /\ b[p + 1] = [rec |-> b[s].rec, part |-> 1]
      BY <1>2, <2>6
    <2>p. p = s - b[s].part
      OBVIOUS
    <2> HIDE DEF p, Start
    <2>8. p + b[s].rec.size = s
      <3>1. /\ b[s].part \in 1 .. b[s].rec.size
            /\ \A k \in 1 .. b[s].rec.size : b[p + k] = [rec |-> b[s].rec, part |-> k]
        BY <2>6, <2>p DEF Tiled
      <3>2. b[s].part \in Nat /\ b[s].rec.size \in Nat
        BY <1>1, <2>6
      <3>3. CASE b[s].part < b[s].rec.size
        <4>1. b[s].part + 1 \in 1 .. b[s].rec.size
          BY <3>2, <3>3
        <4>4. s \in Nat
          BY <2>3
        <4>5. p + (b[s].part + 1) = s + 1
          BY <2>p, <3>2, <4>4
        <4>6. b[p + (b[s].part + 1)] = [rec |-> b[s].rec, part |-> b[s].part + 1]
          BY <3>1, <4>1
        <4>2. b[s + 1].part = b[s].part + 1
          BY <4>5, <4>6
        <4>3. b[s + 1].part = 1
          BY <2>3
        <4> QED BY <3>1, <3>2, <4>2, <4>3
      <3>4. CASE b[s].part = b[s].rec.size
        BY <2>3, <2>p, <3>2, <3>4
      <3> QED BY <3>1, <3>2, <3>3, <3>4
    <2>9. b[s].rec.lsn < b[i].rec.lsn
      <3>1. i \in 1 .. m /\ s \in 1 .. m /\ s < i
        BY <2>2, <2>3, <2>6
      <3>2. \/ s - b[s].part = i - b[i].part
            \/ b[s].rec.lsn < b[i].rec.lsn
        BY <3>1 DEF Tiled
      <3>3. s - b[s].part < s /\ i - b[i].part = s
        BY <2>7, <2>p DEF s, Start
      <3>4. s - b[s].part # s
        BY <2>3, <2>7, <3>3
      <3> QED BY <3>2, <3>3, <3>4
    <2>10. Grows(b[p + 1].rec, b[s + 1].rec) /\ b[p + 1].rec.size = b[s].rec.size
      <3>1. b[p + 1].rec = b[s].rec /\ b[s + 1].rec = b[i].rec
        BY <2>3, <2>7
      <3>2. b[s].rec.lsn \in Nat /\ b[i].rec.lsn \in Nat
        BY <1>1, <2>2, <2>6
      <3> QED BY <2>9, <3>1, <3>2 DEF Grows
    <2>11. p \in 0 .. s - 1
      BY <2>3, <2>7
    <2>12. Follows(b, s, Reads(b))
      BY <2>3, <2>7, <2>8, <2>10, <2>11 DEF Follows
    <2>13. s \in Reads(b)
      BY <2>4, <2>12, ReadsFacts
    <2> QED BY <2>2, <2>13 DEF s
  <1>4. Start(j) \in Reads(b)
    BY <1>3
  <1>5. Start(j) + 1 \in DOMAIN b
    BY <1>1, <1>2
  <1>6. b[Start(j) + 1].rec = b[j].rec /\ Start(j) \in Nat
    <2>1. b[Start(j) + 1] = [rec |-> b[j].rec, part |-> 1] /\ Start(j) \in Nat
      BY <1>2
    <2> HIDE DEF Start
    <2> QED BY <2>1
  <1> QED BY <1>4, <1>5, <1>6

\* The files by number and the bodies are the same thing.
LEMMA FileOfBody ==
    ASSUME TypeOK, SegInv
    PROVE  /\ \A n \in FileNos(segs) : Body(segs, wal, n) \in Bodies
           /\ \A b \in Bodies : \E n \in FileNos(segs) : b = Body(segs, wal, n)
  <1>1. /\ Body(segs, wal, ActiveNo(segs)) = wal.body
        /\ \A i \in DOMAIN segs : Body(segs, wal, i) = segs[i].body
    <2>1. DOMAIN segs \subseteq Nat /\ IsFiniteSet(DOMAIN segs)
      BY DEF TypeOK, SegInv
    <2> QED BY <2>1, BodyFacts
  <1> QED BY <1>1 DEF FileNos, Bodies

\* What SegInv and the types say of the files, as the lemmas on load_for_recovery need it.
LEMMA DiskTypes ==
    ASSUME TypeOK, SegInv
    PROVE  /\ DOMAIN segs \subseteq Nat /\ IsFiniteSet(DOMAIN segs)
           /\ wal.body \in Seq(Cell) /\ \A i \in DOMAIN segs : segs[i].body \in Seq(Cell)
           /\ wal.ckpt \in Nat /\ \A i \in DOMAIN segs : segs[i].ckpt \in Nat
           /\ HighestCkpt(segs, wal) \in Ckpts /\ HighestCkpt(segs, wal) \in Nat
  <1>1. /\ DOMAIN segs \subseteq Nat /\ IsFiniteSet(DOMAIN segs)
        /\ wal.body \in Seq(Cell) /\ \A i \in DOMAIN segs : segs[i].body \in Seq(Cell)
        /\ wal.ckpt \in Nat /\ \A i \in DOMAIN segs : segs[i].ckpt \in Nat
    BY DEF TypeOK, SegInv
  <1>2. HighestCkpt(segs, wal) \in {wal.ckpt} \cup {segs[i].ckpt : i \in DOMAIN segs}
    BY <1>1, HighestCkptFacts
  <1>3. HighestCkpt(segs, wal) \in Ckpts /\ HighestCkpt(segs, wal) \in Nat
    BY <1>1, <1>2 DEF Ckpts
  <1> QED BY <1>1, <1>3

\* A recovery returns the record of every cell of the tiled part of a file that no header
\* covers.
LEMMA TiledIsReturned ==
    ASSUME TypeOK, SegInv, NEW b \in Bodies, NEW m \in 0 .. Len(b), Tiled(b, m), NEW k \in 1 .. m,
           b[k].rec.uid # 0, HighestCkpt(segs, wal) <= b[k].rec.lsn
    PROVE  \E i \in DOMAIN Replay : Replay[i] = b[k].rec
  <1>1. b \in Seq(Cell)
    BY BodyTypes
  <1> DEFINE o == k - b[k].part
  <1>2. o \in Reads(b) /\ b[o + 1].rec = b[k].rec
    BY <1>1, TiledIsRead
  <1> HIDE DEF o
  <1>3. PICK n \in FileNos(segs) : b = Body(segs, wal, n)
    BY FileOfBody
  <1>4. Keep(b[o + 1].rec, HighestCkpt(segs, wal))
    <2>1. k \in DOMAIN b
      BY <1>1
    <2>2. b[k].rec.lsn \in Nat
      BY <1>1, <2>1, CellFacts
    <2> QED BY <1>2, <2>2, DiskTypes DEF Keep
  <1>5. <<n, o>> \in Found(segs, wal)
    BY <1>2, <1>3, <1>4, DiskTypes, FoundFacts
  <1>6. PICK at : /\ DOMAIN at = DOMAIN Replay
                  /\ \A i \in DOMAIN at : Replay[i] = Body(segs, wal, at[i][1])[at[i][2] + 1].rec
                  /\ \A x \in Found(segs, wal) : \E i \in DOMAIN at : at[i] = x
    <2>1. PICK at : /\ at \in [DOMAIN Replay -> Found(segs, wal)]
                    /\ \A i \in DOMAIN at : Replay[i] = Body(segs, wal, at[i][1])[at[i][2] + 1].rec
                    /\ \A x \in Found(segs, wal) : \E i \in DOMAIN at : at[i] = x
      BY DiskTypes, LoadFacts DEF Replay
    <2> QED BY <2>1
  <1>7. PICK i \in DOMAIN Replay : at[i] = <<n, o>>
    BY <1>5, <1>6
  <1>8. Replay[i] = Body(segs, wal, n)[o + 1].rec
    BY <1>6, <1>7
  <1> QED BY <1>2, <1>3, <1>8

\* A recovery returns nothing but records it read from a file, in the order of the files
\* and their offsets.
LEMMA ReturnedFacts ==
    ASSUME TypeOK, SegInv
    PROVE  \E at : /\ DOMAIN at = DOMAIN Replay /\ DOMAIN at \subseteq Nat
                   /\ \A i \in DOMAIN at :
                        /\ at[i][1] \in FileNos(segs) /\ at[i][1] \in Nat /\ at[i][2] \in Nat
                        /\ at[i][2] + 1 \in DOMAIN Body(segs, wal, at[i][1])
                        /\ RecordAt(Body(segs, wal, at[i][1]), at[i][2])
                        /\ Replay[i] = Body(segs, wal, at[i][1])[at[i][2] + 1].rec
                        /\ Keep(Replay[i], HighestCkpt(segs, wal))
                   /\ \A i, j \in DOMAIN at : i < j => Earlier(at[i], at[j])
  <1>1. PICK at : /\ at \in [DOMAIN Replay -> Found(segs, wal)]
                  /\ \A k \in DOMAIN at : Replay[k] = Body(segs, wal, at[k][1])[at[k][2] + 1].rec
                  /\ \A i, j \in DOMAIN at : i < j => Earlier(at[i], at[j])
                  /\ DOMAIN at \subseteq Nat
    BY DiskTypes, LoadFacts DEF Replay
  <1>2. ASSUME NEW i \in DOMAIN at
        PROVE  /\ at[i][1] \in FileNos(segs) /\ at[i][1] \in Nat /\ at[i][2] \in Nat
               /\ at[i][2] + 1 \in DOMAIN Body(segs, wal, at[i][1])
               /\ RecordAt(Body(segs, wal, at[i][1]), at[i][2])
               /\ Keep(Body(segs, wal, at[i][1])[at[i][2] + 1].rec, HighestCkpt(segs, wal))
    <2> DEFINE n == at[i][1]
               o == at[i][2]
    <2>1. at[i] \in Found(segs, wal) /\ Found(segs, wal) \subseteq Nat \X Nat
      BY <1>1, DiskTypes, FoundFacts
    <2>2. at[i] = <<n, o>> /\ n \in Nat /\ o \in Nat
      BY <2>1
    <2> HIDE DEF n, o
    <2>3. <<n, o>> \in Found(segs, wal)
      BY <2>1, <2>2
    <2>4. n \in FileNos(segs) /\ o \in Reads(Body(segs, wal, n)) /\ Body(segs, wal, n) \in Seq(Cell)
          /\ Keep(Body(segs, wal, n)[o + 1].rec, HighestCkpt(segs, wal))
      BY <2>3, DiskTypes, FoundFacts
    <2>5. RecordAt(Body(segs, wal, n), o)
      BY <2>4, ReadsFacts DEF Follows
    <2>6. o + 1 \in DOMAIN Body(segs, wal, n)
      <3>1. o < Len(Body(segs, wal, n))
        BY <2>5 DEF RecordAt
      <3>2. DOMAIN Body(segs, wal, n) = 1 .. Len(Body(segs, wal, n)) /\ Len(Body(segs, wal, n)) \in Nat
        BY <2>4
      <3> QED BY <2>2, <3>1, <3>2
    <2> QED BY <2>2, <2>4, <2>5, <2>6 DEF n, o
  <1>3. DOMAIN at = DOMAIN Replay
    BY <1>1
  <1>4. ASSUME NEW i \in DOMAIN at PROVE Keep(Replay[i], HighestCkpt(segs, wal))
    BY <1>1, <1>2
  <1> QED BY <1>1, <1>2, <1>3, <1>4

\* The invariant is strong enough: a recovery that can read the headers returns the needed
\* records in order.
LEMMA InvGivesDurable ==
    ASSUME TypeOK, UidInv, CkptInv, SegInv, FileInv
    PROVE  DurableInOrder
  <1>1. ASSUME NEW u \in Needed PROVE u \in Uids(Replay)
    <2>1. PICK b \in Bodies : \E k \in DOMAIN b : b[k].rec.uid = u
      BY DEF FileInv
    <2>2. PICK k \in DOMAIN b : b[k].rec.uid = u
      BY <2>1
    <2>3. PICK m \in 0 .. Len(b) : Good(b, m)
      BY DEF FileInv
    <2>4. u \in Wanted /\ u # 0
      BY DEF Wanted, Needed, UidInv
    <2>5. Tiled(b, m) /\ k \in 1 .. m
      <3>1. k <= m /\ Tiled(b, m)
        BY <2>2, <2>3, <2>4 DEF Good
      <3>2. k \in Nat /\ k >= 1 /\ m \in Nat
        BY BodyTypes, CellFacts
      <3> QED BY <3>1, <3>2
    <2>6. HighestCkpt(segs, wal) <= b[k].rec.lsn
      BY <2>2, <2>4, DiskTypes DEF CkptInv, AboveCkpts
    <2>7. PICK i \in DOMAIN Replay : Replay[i] = b[k].rec
      BY <2>2, <2>4, <2>5, <2>6, TiledIsReturned
    <2> QED BY <2>2, <2>7 DEF Uids
  <1>2. ASSUME NEW i \in DOMAIN Replay, NEW j \in DOMAIN Replay, i < j,
               Replay[i].uid \in Needed, Replay[j].uid \in Needed
        PROVE  Replay[i].uid < Replay[j].uid
    <2>1. PICK at : /\ DOMAIN at = DOMAIN Replay
                    /\ \A k \in DOMAIN at :
                         /\ at[k][1] \in FileNos(segs) /\ at[k][1] \in Nat /\ at[k][2] \in Nat
                         /\ at[k][2] + 1 \in DOMAIN Body(segs, wal, at[k][1])
                         /\ RecordAt(Body(segs, wal, at[k][1]), at[k][2])
                         /\ Replay[k] = Body(segs, wal, at[k][1])[at[k][2] + 1].rec
                    /\ \A k, l \in DOMAIN at : k < l => Earlier(at[k], at[l])
      BY ReturnedFacts
    <2> DEFINE f == at[i][1]
               g == at[j][1]
               b == Body(segs, wal, f)
               d == Body(segs, wal, g)
               k == at[i][2] + 1
               l == at[j][2] + 1
    <2>2. /\ f \in FileNos(segs) /\ g \in FileNos(segs) /\ f \in Nat /\ g \in Nat
          /\ k \in DOMAIN b /\ l \in DOMAIN d /\ k \in Nat /\ l \in Nat
          /\ Replay[i] = b[k].rec /\ Replay[j] = d[l].rec
      BY <2>1
    <2>3. f < g \/ (f = g /\ k < l)
      <3>1. Earlier(at[i], at[j])
        BY <1>2, <2>1
      <3>2. at[i][2] \in Nat /\ at[j][2] \in Nat
        BY <2>1
      <3> QED BY <3>1, <3>2 DEF Earlier
    <2>4. b[k].part = 1 /\ d[l].part = 1
      BY <2>1 DEF RecordAt
    <2>5. b \in Bodies /\ d \in Bodies
      BY <2>2, FileOfBody
    <2>6. b[k].rec.uid \in Wanted /\ d[l].rec.uid \in Wanted
      <3>1. Needed \subseteq Wanted
        BY DEF Wanted
      <3> QED BY <1>2, <2>2, <3>1
    <2>9. f = g => b = d
      OBVIOUS
    <2>10. /\ f \in DOMAIN segs => b = segs[f].body
           /\ f = ActiveNo(segs) => b = wal.body
           /\ g \in DOMAIN segs => d = segs[g].body
           /\ g = ActiveNo(segs) => d = wal.body
      <3>1. /\ Body(segs, wal, ActiveNo(segs)) = wal.body
            /\ \A n \in DOMAIN segs : Body(segs, wal, n) = segs[n].body
        BY DiskTypes, BodyFacts
      <3> HIDE DEF f, g
      <3> QED BY <3>1
    <2> HIDE DEF f, g, b, d, k, l
    <2>7. CASE f < g
      <3>1. f \in DOMAIN segs
        <4>1. \A i_1 \in FileNos(segs) : i_1 <= ActiveNo(segs)
          BY DiskTypes, ActiveIsLast DEF FileNos
        <4>2. ActiveNo(segs) \in Nat
          BY DiskTypes, ActiveIsLast
        <4>3. f # ActiveNo(segs)
          BY <2>2, <2>7, <4>1, <4>2
        <4> QED BY <2>2, <4>3 DEF FileNos
      <3>2. Older(b, d)
        <4>1. CASE g \in DOMAIN segs
          BY <2>7, <2>10, <3>1, <4>1 DEF FileInv
        <4>2. CASE g = ActiveNo(segs)
          BY <2>10, <3>1, <4>2 DEF FileInv
        <4> QED BY <2>2, <4>1, <4>2 DEF FileNos
      <3> QED BY <2>2, <2>6, <3>2 DEF Older
    <2>8. CASE f = g /\ k < l
      <3>1. PICK m \in 0 .. Len(b) : Good(b, m)
        BY <2>5 DEF FileInv
      <3>2. b = d
        BY <2>8, <2>9
      <3>3. k \in 1 .. m /\ l \in 1 .. m /\ Tiled(b, m)
        <4>1. k <= m /\ l <= m /\ Tiled(b, m)
          BY <2>2, <2>6, <3>1, <3>2 DEF Good
        <4>2. k >= 1 /\ l >= 1
          BY <2>2, <2>5, BodyTypes, CellFacts
        <4>3. m \in Nat
          BY <2>5, BodyTypes
        <4> QED BY <2>2, <4>1, <4>2, <4>3
      <3>4. k - b[k].part # l - b[l].part
        BY <2>2, <2>4, <2>8, <3>2
      <3>5. b[k].rec.uid < b[l].rec.uid
        BY <2>8, <3>3, <3>4 DEF Tiled
      <3> QED BY <2>2, <3>2, <3>5
    <2> QED BY <2>3, <2>7, <2>8
  <1> QED BY <1>1, <1>2 DEF DurableInOrder, Needed

-----------------------------------------------------------------------------
(* One caller. *)

\* A caller with a record under way is in no flush, and a flush has no record under way.
LEMMA OneAtATime ==
    ASSUME OneCaller, TypeOK, NEW c \in Clients
    PROVE  /\ c \in Pending => Pending = {c} /\ Flushing = {}
           /\ c \notin Pending => Pending = {}
           /\ c \in Flushing => Pending = {}
           /\ c \notin Flushing => Flushing = {}
  BY DEF OneCaller, Pending, Flushing

\* The message in progress tells what its sender is doing.
LEMMA HeadTells ==
    ASSUME TypeOK, ChannelInv, chan # <<>>
    PROVE  /\ Head(chan).from \in Clients
           /\ cpc[Head(chan).from] = WaitsAs(Head(chan).kind)
           /\ Head(chan).kind \in {"checkpoint", "truncate"} => Head(chan).from \in Flushing
  <1> DEFINE Msg == [kind : Kinds, from : Clients, rec : Record]
  <1>1. chan \in Seq(Msg)
    BY DEF TypeOK
  <1>2. Head(chan).from \in Clients
    BY HeadRecordType
  <1> HIDE DEF Msg
  <1>3. 1 \in DOMAIN chan /\ Head(chan) = chan[1]
    <2>1. Head(chan) \in Msg
      BY <1>1, HeadTailProperties
    <2> QED BY <1>1, <2>1, QueueFacts
  <1>4. cpc[Head(chan).from] = WaitsAs(Head(chan).kind)
    BY <1>3 DEF ChannelInv
  <1> QED BY <1>2, <1>4 DEF WaitsAs, Flushing

\* While the writer works for a flush nothing is wanted.
LEMMA NothingWanted ==
    ASSUME OneCaller, TypeOK, ChannelInv, FlushInv, chan # <<>>, Head(chan).kind \in {"checkpoint", "truncate"}
    PROVE  Wanted = {} /\ Needed = {} /\ Pending = {} /\ Flushing # {}
  <1>1. Head(chan).from \in Clients /\ Head(chan).from \in Flushing
    BY HeadTells
  <1>2. Pending = {}
    BY <1>1, OneAtATime
  <1>3. Needed = {}
    BY <1>1 DEF FlushInv
  <1> QED BY <1>1, <1>2, <1>3 DEF Wanted

-----------------------------------------------------------------------------
(* Steps that leave the files alone. *)

\* A tiled part stays good while no more of the body becomes wanted.
LEMMA GoodStays ==
    ASSUME NEW b, NEW m, Good(b, m),
           \A k \in DOMAIN b : b[k].rec.uid \in Wanted' => b[k].rec.uid \in Wanted
    PROVE  Good(b, m)'
  BY DEF Good

\* The files hold what they held.
SameContent == wal'.body = wal.body /\ wal'.ckpt = wal.ckpt /\ wal'.cur = wal.cur /\ segs' = segs

\* What a step keeps that changes no body.
LEMMA SameFiles ==
    ASSUME SegInv, FileInv, AboveCkpts, wal'.body = wal.body, Ckpts' \subseteq Ckpts,
           UNCHANGED <<segs, nextSegId>>,
           \A b \in Bodies : \A k \in DOMAIN b : b[k].rec.uid \in Wanted' => b[k].rec.uid \in Wanted,
           \A u \in Needed' : u \in Needed \/ \E b \in Bodies : \E k \in DOMAIN b : b[k].rec.uid = u,
           Live' => \/ Live /\ UNCHANGED <<cursor, lastWritten>>
                    \/ wal.body = <<>> /\ cursor' = 0
    PROVE  SegInv' /\ FileInv' /\ AboveCkpts'
  <1>1. Bodies' = Bodies
    BY DEF Bodies
  <1>2. SegInv'
    BY DEF SegInv, Uncovered
  <1>3. AboveCkpts'
    BY <1>1 DEF AboveCkpts
  <1>4. ASSUME NEW b \in Bodies PROVE \E m \in 0 .. Len(b) : Good(b, m)'
    <2>1. PICK m \in 0 .. Len(b) : Good(b, m)
      BY DEF FileInv
    <2> QED BY <2>1, GoodStays
  <1>5. ASSUME NEW b \in Bodies, NEW d \in Bodies, Older(b, d) PROVE Older(b, d)'
    BY <1>5 DEF Older
  <1>6. ASSUME Live'
        PROVE  Good(wal.body, cursor)' /\ \A i \in 1 .. cursor' : wal'.body[i].rec.lsn < lastWritten'
    <2>1. CASE Live /\ UNCHANGED <<cursor, lastWritten>>
      <3>1. Good(wal.body, cursor) /\ \A i \in 1 .. cursor : wal.body[i].rec.lsn < lastWritten
        BY <2>1 DEF FileInv
      <3>2. wal.body \in Bodies
        BY DEF Bodies
      <3> QED BY <2>1, <3>1, <3>2 DEF Good
    <2>2. CASE wal.body = <<>> /\ cursor' = 0
      BY <2>2 DEF Good, Tiled
    <2> QED BY <1>6, <2>1, <2>2
  <1>7. \A i \in DOMAIN segs : Older(segs[i].body, wal.body)'
    BY <1>5 DEF FileInv, Bodies
  <1>8. \A i, j \in DOMAIN segs : i < j => Older(segs[i].body, segs[j].body)'
    BY <1>5 DEF FileInv, Bodies
  <1>9. \A u \in Needed' : \E b \in Bodies : \E k \in DOMAIN b : b[k].rec.uid = u
    BY DEF FileInv
  <1>10. \A b \in Bodies' : \E m \in 0 .. Len(b) : Good(b, m)'
    BY <1>1, <1>4
  <1>11. FileInv'
    BY <1>1, <1>6, <1>7, <1>8, <1>9, <1>10 DEF FileInv
  <1> QED BY <1>2, <1>3, <1>11

\* A step that changes no file, makes nothing wanted and does not resume appending.
LEMMA QuietOnDisk ==
    ASSUME OrderParts, SameContent,
           UNCHANGED <<lastCkpt, lastWritten, nextSegId, made, rec, recovered, acked>>,
           covered \subseteq covered', covered' \subseteq 1 .. made,
           Pending' \subseteq Pending,
           Pending' = {} \/ ((Busy' \/ ~Busy) /\ covered' = covered),
           phase' = "up" => phase = "up",
           Live' => Live /\ cursor' = cursor
    PROVE  UidInv' /\ CkptInv' /\ SegInv' /\ FileInv'
  <1> USE DEF OrderParts
  <1>1. Needed' \subseteq Needed
    BY DEF Needed
  <1>2. Wanted' \subseteq Wanted
    BY <1>1 DEF Wanted
  <1>3. Bodies' = Bodies /\ Ckpts' = Ckpts
    BY DEF Bodies, Ckpts, SameContent
  <1>4. SegInv' /\ FileInv' /\ AboveCkpts'
    <2>1. AboveCkpts
      BY DEF CkptInv
    <2>2. \A b \in Bodies : \A k \in DOMAIN b : b[k].rec.uid \in Wanted' => b[k].rec.uid \in Wanted
      BY <1>2
    <2>3. \A u \in Needed' : u \in Needed \/ \E b \in Bodies : \E k \in DOMAIN b : b[k].rec.uid = u
      BY <1>1
    <2> QED BY <1>3, <2>1, <2>2, <2>3, SameFiles DEF SameContent
  <1>5. UidInv'
    BY <1>3 DEF UidInv
  <1>6. CkptInv'
    BY <1>3, <1>4 DEF CkptInv, SameContent
  <1> QED BY <1>4, <1>5, <1>6

\* A caller's send leaves the message in progress and the writer alone, and changes what
\* at most that caller is doing.
LEMMA SendFacts ==
    ASSUME TypeOK, ChannelInv, NEW c \in Clients, NEW kind \in Kinds, NEW waiting \in CallerStates,
           Send(c, kind, waiting), wpc' = wpc
    PROVE  /\ Busy => Head(chan)' = Head(chan)
           /\ cpc'[c] = IF wpc # "exit" THEN waiting ELSE "idle"
           /\ \A d \in Clients : d # c => cpc'[d] = cpc[d]
  BY HeadStays DEF Send, TypeOK, Writing

\* Nothing in FlushInv changes with a send but what is needed and pending.
LEMMA FlushOnSend ==
    ASSUME FlushInv, UNCHANGED <<wal, segs, phase, wpc, result, handle, cursor, lastWritten>>,
           Busy => Head(chan)' = Head(chan),
           Flushing' # {} => Needed' = {},
           phase = "recovering" => Pending' = {}
    PROVE  FlushInv'
  BY DEF FlushInv, Busy

\* send_record: the record was pending before.
LEMMA OrderSendRecord ==
    ASSUME OneCaller, OrderInv, NEW c \in Clients, SendRecord(c)
    PROVE  OrderParts'
  <1> USE DEF OrderInv, DiskInv, Inv, OrderParts
  <1>1. Send(c, "record", "logging") /\ "record" \in Kinds /\ "logging" \in CallerStates /\ cpc[c] = "made"
    BY DEF SendRecord, Kinds, CallerStates
  <1>2. /\ UNCHANGED <<wal, segs, phase, wpc, result, handle, cursor, lastWritten, lastCkpt, nextSegId,
                       made, rec, recovered, acked, covered>>
    BY DEF SendRecord
  <1>3. /\ Busy => Head(chan)' = Head(chan)
        /\ cpc'[c] \in {"logging", "idle"} /\ \A d \in Clients : d # c => cpc'[d] = cpc[d]
    BY <1>1, <1>2, SendFacts
  <1>4. Pending = {c} /\ Flushing = {}
    BY <1>1, OneAtATime DEF Pending
  <1>5. Pending' \subseteq Pending /\ Flushing' = {}
    BY <1>3, <1>4 DEF Pending, Flushing
  <1>6. FlushInv'
    BY <1>2, <1>3, <1>4, <1>5, FlushOnSend DEF FlushInv
  <1>7. UidInv' /\ CkptInv' /\ SegInv' /\ FileInv'
    <2>1. SameContent
      BY <1>2 DEF SameContent
    <2>2. Busy' \/ ~Busy
      BY <1>2 DEF Busy
    <2>3. covered' \subseteq 1 .. made
      BY <1>2 DEF UidInv
    <2>4. Live' => Live /\ cursor' = cursor
      BY <1>2, <1>4 DEF Live
    <2> QED BY <1>2, <1>5, <2>1, <2>2, <2>3, <2>4, QuietOnDisk
  <1> QED BY <1>6, <1>7

\* What is covered by the data files once a flush or a compaction has begun.
LEMMA AppliedCovers ==
    ASSUME UidInv, covered' = covered \cup Applied, UNCHANGED <<acked, made>>
    PROVE  Needed' = {} /\ covered \subseteq covered' /\ covered' \subseteq 1 .. made
  BY DEF UidInv, Applied, Needed

\* flush() and checkpoint(): the data files hold every needed record before it is sent.
LEMMA OrderSendCheckpoint ==
    ASSUME OneCaller, OrderInv, NEW c \in Clients, SendCheckpoint(c)
    PROVE  OrderParts'
  <1> USE DEF OrderInv, DiskInv, Inv, OrderParts
  <1>1. Send(c, "checkpoint", "checkpointing") /\ "checkpoint" \in Kinds /\ "checkpointing" \in CallerStates
        /\ cpc[c] = "idle"
    BY DEF SendCheckpoint, Kinds, CallerStates
  <1>2. /\ UNCHANGED <<wal, segs, phase, wpc, result, handle, cursor, lastWritten, lastCkpt, nextSegId,
                       made, rec, recovered, acked>>
        /\ covered' = covered \cup Applied
    BY DEF SendCheckpoint
  <1>3. /\ Busy => Head(chan)' = Head(chan)
        /\ cpc'[c] \in {"checkpointing", "idle"} /\ \A d \in Clients : d # c => cpc'[d] = cpc[d]
    BY <1>1, <1>2, SendFacts
  <1>4. Pending = {} /\ Flushing = {}
    BY <1>1, OneAtATime DEF Pending, Flushing
  <1>5. Pending' = {}
    BY <1>3, <1>4 DEF Pending
  <1>6. Needed' = {} /\ covered \subseteq covered' /\ covered' \subseteq 1 .. made
    BY <1>2, AppliedCovers
  <1>7. FlushInv'
    BY <1>2, <1>3, <1>5, <1>6, FlushOnSend
  <1>8. UidInv' /\ CkptInv' /\ SegInv' /\ FileInv'
    <2>1. SameContent
      BY <1>2 DEF SameContent
    <2>2. Live' => Live /\ cursor' = cursor
      BY <1>2, <1>4 DEF Live
    <2>3. Pending' \subseteq Pending /\ (phase' = "up" => phase = "up")
      BY <1>2, <1>5
    <2> QED BY <1>2, <1>5, <1>6, <2>1, <2>2, <2>3, QuietOnDisk
  <1> QED BY <1>7, <1>8

\* clear(), behind a checkpoint or on its own.
LEMMA OrderSendTruncate ==
    ASSUME OneCaller, OrderInv, NEW c \in Clients, SendTruncate(c)
    PROVE  OrderParts'
  <1> USE DEF OrderInv, DiskInv, Inv, OrderParts
  <1>1. Send(c, "truncate", "clearing") /\ "truncate" \in Kinds /\ "clearing" \in CallerStates
        /\ cpc[c] \in {"checkpointed", "idle"}
    BY DEF SendTruncate, Kinds, CallerStates
  <1>2. /\ UNCHANGED <<wal, segs, phase, wpc, result, handle, cursor, lastWritten, lastCkpt, nextSegId,
                       made, rec, recovered, acked>>
        /\ covered' = covered \cup (IF cpc[c] = "idle" THEN Applied ELSE {})
    BY DEF SendTruncate
  <1>3. /\ Busy => Head(chan)' = Head(chan)
        /\ cpc'[c] = (IF wpc # "exit" THEN "clearing" ELSE "idle")
        /\ \A d \in Clients : d # c => cpc'[d] = cpc[d]
    BY <1>1, <1>2, SendFacts
  <1>4. Pending = {}
    BY <1>1, OneAtATime DEF Pending
  <1>5. Pending' = {}
    BY <1>3, <1>4 DEF Pending
  <1>6. Needed' = {} /\ covered \subseteq covered' /\ covered' \subseteq 1 .. made
    <2>1. CASE cpc[c] = "idle"
      BY <1>2, <2>1, AppliedCovers
    <2>2. CASE cpc[c] = "checkpointed"
      <3>1. Needed = {}
        BY <2>2 DEF Flushing, FlushInv
      <3>2. covered' = covered
        BY <1>2, <2>2
      <3> QED BY <1>2, <3>1, <3>2 DEF Needed, UidInv
    <2> QED BY <1>1, <2>1, <2>2
  <1>7. FlushInv'
    BY <1>2, <1>3, <1>5, <1>6, FlushOnSend
  <1>8. UidInv' /\ CkptInv' /\ SegInv' /\ FileInv'
    <2>1. SameContent
      BY <1>2 DEF SameContent
    <2>2. Live' => Live /\ cursor' = cursor
      <3>1. CASE wpc = "exit"
        BY <1>2, <3>1 DEF Live, FlushInv
      <3>2. CASE wpc # "exit"
        BY <1>3, <3>2 DEF Live, Flushing
      <3> QED BY <3>1, <3>2
    <2>3. Pending' \subseteq Pending /\ (phase' = "up" => phase = "up")
      BY <1>2, <1>5
    <2> QED BY <1>2, <1>5, <1>6, <2>1, <2>2, <2>3, QuietOnDisk
  <1> QED BY <1>7, <1>8

\* shutdown() changes nothing on disk and nothing that is wanted.
LEMMA OrderSendShutdown ==
    ASSUME OneCaller, OrderInv, NEW c \in Clients, SendShutdown(c)
    PROVE  OrderParts'
  <1> USE DEF OrderInv, DiskInv, Inv, OrderParts
  <1>1. Send(c, "shutdown", "closing") /\ "shutdown" \in Kinds /\ "closing" \in CallerStates
        /\ cpc[c] \in {"idle", "failed"}
    BY DEF SendShutdown, Kinds, CallerStates
  <1>2. /\ UNCHANGED <<wal, segs, phase, wpc, result, handle, cursor, lastWritten, lastCkpt, nextSegId,
                       made, rec, recovered, acked, covered>>
    BY DEF SendShutdown
  <1>3. /\ Busy => Head(chan)' = Head(chan)
        /\ cpc'[c] \in {"closing", "idle"} /\ \A d \in Clients : d # c => cpc'[d] = cpc[d]
    BY <1>1, <1>2, SendFacts
  <1>4. Pending = {} /\ Flushing = {}
    BY <1>1, OneAtATime DEF Pending, Flushing
  <1>5. Pending' = {} /\ Flushing' = {}
    BY <1>3, <1>4 DEF Pending, Flushing
  <1>6. FlushInv'
    BY <1>2, <1>3, <1>5, FlushOnSend
  <1>7. UidInv' /\ CkptInv' /\ SegInv' /\ FileInv'
    <2>1. SameContent
      BY <1>2 DEF SameContent
    <2>2. Live' => Live /\ cursor' = cursor
      BY <1>2, <1>4 DEF Live
    <2>3. covered' \subseteq 1 .. made
      BY <1>2 DEF UidInv
    <2>4. Pending' \subseteq Pending /\ (phase' = "up" => phase = "up") /\ covered \subseteq covered'
      BY <1>2, <1>5
    <2> QED BY <1>2, <1>5, <2>1, <2>2, <2>3, <2>4, QuietOnDisk
  <1> QED BY <1>6, <1>7

\* Opening without a header fails and changes nothing.
LEMMA OrderStutter ==
    ASSUME OrderInv, OpenFails \/ StaysClosed \/ UNCHANGED vars
    PROVE  OrderParts'
  <1>1. UNCHANGED vars
    BY DEF OpenFails, StaysClosed
  <1>2. Pending' = Pending /\ Flushing' = Flushing /\ Busy' = Busy /\ Needed' = Needed /\ Bodies' = Bodies
        /\ Ckpts' = Ckpts
    BY <1>1 DEF Pending, Flushing, Busy, Needed, Bodies, Ckpts
  <1>3. Wanted' = Wanted /\ Live' = Live
    BY <1>1, <1>2 DEF Wanted, Live
  <1>4. SameContent
    BY <1>1 DEF SameContent
  <1>5. FlushInv'
    BY <1>1, <1>2 DEF OrderInv, OrderParts, FlushInv
  <1>6. UidInv' /\ CkptInv' /\ SegInv' /\ FileInv'
    <2>1. OrderParts /\ covered' \subseteq 1 .. made
      BY <1>1 DEF OrderInv, OrderParts, UidInv
    <2> QED BY <1>1, <1>2, <1>3, <1>4, <2>1, QuietOnDisk
  <1> QED BY <1>5, <1>6 DEF OrderParts

\* The first file: new() creates it empty and gives it a header that covers nothing.
LEMMA OrderCreate ==
    ASSUME RotationFaultsOnly, OrderInv, CreateFile \/ CreateHeader
    PROVE  OrderParts'
  <1> USE DEF OrderInv, DiskInv, Inv, OrderParts
  <1>1. /\ UNCHANGED <<segs, wpc, result, handle, cursor, lastWritten, lastCkpt, nextSegId,
                       made, rec, recovered, acked, covered, cpc, chan>>
        /\ phase \in {"closed", "creating"} /\ phase' \in {"closed", "creating"}
    BY DEF CreateFile, CreateHeader
  <1>2. SameContent /\ wal'.st \in {"bad", "ok"}
    <2>1. CASE CreateFile
      <3>1. wal = NoFile /\ wal' = [NoFile EXCEPT !.st = "bad"]
        BY <2>1 DEF CreateFile, FlushInv
      <3> QED BY <1>1, <3>1 DEF SameContent, NoFile
    <2>2. CASE CreateHeader
      <3>1. wal' = [wal EXCEPT !.st = "ok"]
        BY <2>2 DEF CreateHeader, RotationFaultsOnly, MayFail
      <3> QED BY <1>1, <3>1 DEF SameContent, TypeOK
    <2> QED BY <2>1, <2>2
  <1>3. Pending' = Pending /\ Flushing' = Flushing /\ Busy' = Busy /\ Needed' = Needed
    BY <1>1 DEF Pending, Flushing, Busy, Needed
  <1>4. wpc = "exit"
    BY <1>1 DEF PlaceInv
  <1>5. FlushInv'
    BY <1>1, <1>2, <1>3, <1>4 DEF FlushInv
  <1>6. UidInv' /\ CkptInv' /\ SegInv' /\ FileInv'
    <2>1. ~Live' /\ phase' # "up"
      BY <1>1 DEF Live
    <2>2. covered' \subseteq 1 .. made
      BY <1>1 DEF UidInv
    <2>3. Busy' \/ ~Busy
      BY <1>3
    <2> QED BY <1>1, <1>2, <1>3, <2>1, <2>2, <2>3, QuietOnDisk
  <1> QED BY <1>5, <1>6

\* A write or a rotation that fails: the files are as they were, and the handle is that of
\* /dev/null from then on.
LEMMA OrderFails ==
    ASSUME RotationFaultsOnly, OrderInv, WriteFails \/ RotateFails \/ CheckpointRecordFails
                                        \/ HeaderWriteFails \/ HeaderSyncFails
    PROVE  OrderParts'
  <1> USE DEF OrderInv, DiskInv, Inv, OrderParts
  <1>0. ~MayFail("write") /\ ~MayFail("header") /\ ~MayFail("fsync")
    BY DEF RotationFaultsOnly, MayFail
  <1>1. /\ UNCHANGED <<wal, segs, cursor, lastWritten, lastCkpt, nextSegId, phase,
                       made, rec, recovered, acked, covered, cpc, chan>>
        /\ wpc' = "done" /\ result' = "Err" /\ handle' = "null"
    <2>1. CASE WriteFails
      BY <1>0, <2>1 DEF WriteFails, TornWrite, NullWrite, Fails
    <2>2. CASE RotateFails
      BY <1>0, <2>2 DEF RotateFails, Fails, FlushInv
    <2>3. CASE CheckpointRecordFails
      BY <1>0, <2>3 DEF CheckpointRecordFails, TornWrite, NullWrite, Fails
    <2>4. CASE HeaderSyncFails
      BY <1>0, <2>4 DEF HeaderSyncFails
    <2>5. CASE HeaderWriteFails
      BY <1>0, <2>5 DEF HeaderWriteFails, HeaderFails
    <2> QED BY <2>1, <2>2, <2>3, <2>4, <2>5
  <1>2. Pending' = Pending /\ Flushing' = Flushing /\ Needed' = Needed /\ Busy'
    BY <1>1 DEF Pending, Flushing, Needed, Busy
  <1>3. FlushInv'
    <2>1. wal.st # "bad"
      BY <1>0 DEF WriteFails, RotateFails, CheckpointRecordFails, HeaderWriteFails, HeaderSyncFails, HeaderFails,
                  Receives, FlushInv
    <2> QED BY <1>1, <1>2, <2>1 DEF FlushInv
  <1>4. UidInv' /\ CkptInv' /\ SegInv' /\ FileInv'
    <2>1. ~Live' /\ SameContent
      BY <1>1 DEF Live, SameContent
    <2>2. covered' \subseteq 1 .. made
      BY <1>1 DEF UidInv
    <2> QED BY <1>1, <1>2, <2>1, <2>2, QuietOnDisk
  <1> QED BY <1>3, <1>4

\* The end of a session, orderly or not: what is on disk stays.
LEMMA OrderEnds ==
    ASSUME OrderInv, ReceiveShutdown \/ Drained \/ Exit \/ Crash
    PROVE  OrderParts'
  <1> USE DEF OrderInv, DiskInv, Inv, OrderParts
  <1>1. /\ UNCHANGED <<wal, segs, cursor, lastWritten, lastCkpt, nextSegId, handle,
                       made, rec, recovered, acked, covered>>
        /\ wpc' \in {"recv", "exiting", "exit"} /\ ~(wpc' = "exit" /\ phase' # "closed")
        /\ phase' = phase \/ phase' = "closed"
    BY DEF ReceiveShutdown, Drained, Exit, Crash, Receives
  <1>2. Pending' \subseteq Pending /\ Flushing' \subseteq Flushing /\ Needed' = Needed
        /\ (Pending' = {} \/ ~Busy)
    <2>1. CASE ReceiveShutdown
      BY <2>1 DEF ReceiveShutdown, Receives, Pending, Flushing, Needed, Busy
    <2>2. CASE Exit
      BY <2>2 DEF Exit, Waiting, Pending, Flushing, Needed, Busy
    <2>3. CASE Crash
      BY <2>3 DEF Crash, Pending, Flushing, Needed, Busy
    <2>4. CASE Drained
      BY <2>4 DEF Drained, Pending, Flushing, Needed, Busy
    <2> QED BY <2>1, <2>2, <2>3, <2>4
  <1>3. FlushInv'
    <2>1. wal.st = "bad" => wpc' = "exit"
      BY DEF ReceiveShutdown, Drained, Exit, Crash, Receives, FlushInv
    <2> QED BY <1>1, <1>2, <2>1 DEF FlushInv, Busy
  <1>4. UidInv' /\ CkptInv' /\ SegInv' /\ FileInv'
    <2>1. Live' => Live /\ cursor' = cursor
      <3>1. Live' => phase = "up" /\ handle = "wal"
        BY <1>1 DEF Live
      <3>2. Live' => Flushing' = Flushing
        BY <1>1 DEF Live, ReceiveShutdown, Drained, Exit, Crash, Flushing
      <3> QED BY <1>1, <3>1, <3>2 DEF Live
    <2>2. SameContent /\ covered' \subseteq 1 .. made
      BY <1>1 DEF SameContent, UidInv
    <2> QED BY <1>1, <1>2, <2>1, <2>2, QuietOnDisk
  <1> QED BY <1>3, <1>4

\* make_record: the new record has a number and an LSN that no file holds.
LEMMA OrderMakeRecord ==
    ASSUME OneCaller, OrderInv, NEW c \in Clients, NEW size \in Sizes, MakeRecord(c, size)
    PROVE  OrderParts'
  <1> USE DEF OrderInv, DiskInv, Inv, OrderParts
  <1>1. /\ UNCHANGED <<wal, segs, cursor, lastWritten, lastCkpt, nextSegId, handle, phase, wpc, result,
                       recovered, acked, covered, chan>>
        /\ made' = made + 1 /\ made \in Nat /\ phase = "up" /\ cpc[c] = "idle"
        /\ rec'[c] = [uid |-> made + 1, lsn |-> nextLsn, size |-> size]
        /\ cpc'[c] = "made"
    BY DEF MakeRecord, TypeOK
  <1>2. Pending = {} /\ Pending' = {c} /\ Flushing = {} /\ Flushing' = {}
    <2>1. Pending = {} /\ Flushing = {}
      BY <1>1, OneAtATime DEF Pending, Flushing
    <2>2. \A d \in Clients : d = c
      BY DEF OneCaller
    <2> QED BY <1>1, <2>1, <2>2 DEF Pending, Flushing
  <1>3. Needed' = Needed /\ Bodies' = Bodies /\ Ckpts' = Ckpts /\ Busy' = Busy
    BY <1>1 DEF Needed, Bodies, Ckpts, Busy
  <1>4. rec'[c].uid = made + 1 /\ rec'[c].lsn = nextLsn
    BY <1>1
  <1>5. Wanted' = Needed \cup {made + 1} /\ Wanted = Needed
    BY <1>2, <1>3, <1>4 DEF Wanted
  <1>6. \A b \in Bodies : \A k \in DOMAIN b : b[k].rec.uid # made + 1 /\ b[k].rec.uid <= made /\ b[k].rec.uid \in Nat
    <2>1. \A b \in Bodies : \A k \in DOMAIN b : b[k].rec.uid <= made /\ b[k].rec.uid \in Nat
      BY BodyTypes, CellFacts DEF UidInv
    <2> QED BY <1>1, <2>1
  <1>7. SegInv' /\ FileInv' /\ AboveCkpts'
    <2>1. AboveCkpts
      BY DEF CkptInv
    <2>2. \A b \in Bodies : \A k \in DOMAIN b : b[k].rec.uid \in Wanted' => b[k].rec.uid \in Wanted
      BY <1>5, <1>6
    <2>3. Live' => Live /\ UNCHANGED <<cursor, lastWritten>>
      BY <1>1, <1>2 DEF Live
    <2> QED BY <1>1, <1>3, <2>1, <2>2, <2>3, SameFiles
  <1>8. UidInv'
    <2>1. covered \subseteq 1 .. made /\ acked \subseteq 1 .. made /\ Uids(recovered) \subseteq 1 .. made
      BY DEF UidInv
    <2>2. /\ covered' \subseteq 1 .. made' /\ acked' \subseteq 1 .. made' /\ Uids(recovered)' \subseteq 1 .. made'
          /\ made' \notin acked' \cup covered' /\ made' > 0
      <3>1. \A u \in 1 .. made : u \in 1 .. made + 1 /\ u # made + 1
        BY <1>1
      <3>2. made + 1 > 0
        BY <1>1
      <3>3. Uids(recovered)' = Uids(recovered)
        BY <1>1 DEF Uids
      <3> QED BY <1>1, <2>1, <3>1, <3>2, <3>3
    <2>3. \A b \in Bodies : \A k \in DOMAIN b : b[k].rec.uid <= made'
      BY <1>1, <1>6
    <2> QED BY <1>1, <1>2, <1>3, <1>4, <1>6, <2>2, <2>3 DEF UidInv
  <1>9. CkptInv'
    <2>1. lastWritten <= nextLsn
      BY DEF LsnInv
    <2> QED BY <1>1, <1>2, <1>3, <1>4, <1>7, <2>1 DEF CkptInv
  <1>10. FlushInv'
    BY <1>1, <1>2 DEF FlushInv, Busy
  <1> QED BY <1>7, <1>8, <1>9, <1>10

\* A recovery that returns nothing: no header is above the active one.
LEMMA NothingReturned ==
    ASSUME TypeOK, SegInv, Replay = <<>>
    PROVE  \A i \in DOMAIN segs : segs[i].ckpt <= wal.ckpt
  <1> DEFINE h == HighestCkpt(segs, wal)
  <1>1. /\ h \in {wal.ckpt} \cup {segs[i].ckpt : i \in DOMAIN segs} /\ \A i \in DOMAIN segs : segs[i].ckpt <= h
        /\ wal.ckpt <= h
    BY DiskTypes, HighestCkptFacts
  <1>2. h \in Nat
    BY DiskTypes
  <1>3. ASSUME NEW i \in DOMAIN segs, h = segs[i].ckpt PROVE FALSE
    <2> DEFINE b == segs[i].body
    <2>1. PICK o \in Reads(b) : o + 1 \in DOMAIN b /\ b[o + 1].rec.uid # 0 /\ segs[i].ckpt <= b[o + 1].rec.lsn
      BY DEF SegInv, Uncovered
    <2>2. b \in Seq(Cell) /\ b = Body(segs, wal, i) /\ i \in FileNos(segs)
      BY DiskTypes, BodyFacts DEF FileNos
    <2> HIDE DEF b, h
    <2>3. Keep(b[o + 1].rec, h)
      BY <1>2, <1>3, <2>1, <2>2, CellFacts DEF Keep
    <2>4. <<i, o>> \in Found(segs, wal)
      BY <2>1, <2>2, <2>3, DiskTypes, FoundFacts DEF h
    <2>5. PICK at : /\ DOMAIN at = DOMAIN Replay
                    /\ \A x \in Found(segs, wal) : \E k \in DOMAIN at : at[k] = x
      <3>1. PICK at : /\ at \in [DOMAIN Replay -> Found(segs, wal)]
                      /\ \A x \in Found(segs, wal) : \E k \in DOMAIN at : at[k] = x
        BY DiskTypes, LoadFacts DEF Replay
      <3> QED BY <3>1
    <2>6. DOMAIN Replay = {}
      <3>1. DOMAIN <<>> = {}
        OBVIOUS
      <3> QED BY <3>1
    <2> QED BY <2>4, <2>5, <2>6
  <1> HIDE DEF h
  <1>4. h = wal.ckpt
    BY <1>1, <1>3
  <1> QED BY <1>1, <1>4

\* new() and the load before recovery: with nothing to recover nothing is needed, and
\* the counters start above every header.
LEMMA OrderOpen ==
    ASSUME OneCaller, OrderInv, Open
    PROVE  OrderParts'
  <1> USE DEF OrderInv, DiskInv, Inv, OrderParts
  <1>1. /\ UNCHANGED <<wal, segs, chan, cpc, rec, made, acked, covered>>
        /\ lastWritten' = wal.cur /\ lastCkpt' = wal.ckpt /\ cursor' = 0 /\ wal.st = "ok"
        /\ wpc' = "recv" /\ result' = "Ok" /\ recovered' = Replay
        /\ phase' = IF Replay = <<>> THEN "up" ELSE "recovering"
        /\ IsNextSegId(nextSegId')
    BY DEF Open
  <1>2. Pending = {} /\ Pending' = {} /\ Flushing = {} /\ Flushing' = {}
    BY DEF Open, Pending, Flushing
  <1>3. Needed' = Needed /\ Bodies' = Bodies /\ Wanted' = Wanted /\ Wanted = Needed
    BY <1>1, <1>2 DEF Needed, Bodies, Wanted
  <1>4. Replay = <<>> => Needed = {}
    <2>1. Needed \subseteq Uids(Replay)
      BY InvGivesDurable DEF DurableInOrder, Needed, Open
    <2>2. DOMAIN <<>> = {}
      OBVIOUS
    <2> QED BY <2>1, <2>2 DEF Uids
  <1>5. /\ wal.ckpt \in Nat /\ wal.cur \in Nat /\ wal.ckpt <= wal.cur /\ \A i \in DOMAIN segs : segs[i].ckpt \in Nat
    BY DEF TypeOK, CkptInv
  <1>6. UidInv'
    <2>1. PICK at : /\ DOMAIN at = DOMAIN Replay /\ DOMAIN at \subseteq Nat
                    /\ \A i \in DOMAIN at :
                         /\ at[i][1] \in FileNos(segs) /\ at[i][1] \in Nat /\ at[i][2] \in Nat
                         /\ at[i][2] + 1 \in DOMAIN Body(segs, wal, at[i][1])
                         /\ Replay[i] = Body(segs, wal, at[i][1])[at[i][2] + 1].rec
                         /\ Keep(Replay[i], HighestCkpt(segs, wal))
      BY ReturnedFacts
    <2>2. ASSUME NEW i \in DOMAIN Replay PROVE Replay[i].uid \in 1 .. made
      <3> DEFINE b == Body(segs, wal, at[i][1])
                 k == at[i][2] + 1
      <3>1. b \in Bodies /\ k \in DOMAIN b /\ Replay[i] = b[k].rec /\ b[k].rec.uid # 0
        BY <2>1, FileOfBody DEF Keep
      <3> HIDE DEF b, k
      <3>2. b[k].rec.uid \in Nat /\ b[k].rec.uid <= made /\ made \in Nat
        BY <3>1, BodyTypes, CellFacts DEF UidInv, TypeOK
      <3> QED BY <3>1, <3>2
    <2>3. Uids(Replay) \subseteq 1 .. made
      BY <2>2 DEF Uids
    <2>4. Uids(recovered)' = Uids(Replay)
      BY <1>1 DEF Uids
    <2> QED BY <1>1, <1>2, <1>3, <2>3, <2>4 DEF UidInv
  <1>7. FlushInv'
    <2>1. handle' = "wal"
      BY DEF Open
    <2> QED BY <1>1, <1>2, <2>1 DEF FlushInv
  <1>8. Ckpts' \subseteq Ckpts
    BY <1>1 DEF Ckpts
  <1>9. AboveCkpts'
    BY <1>1, <1>3, <1>8 DEF AboveCkpts, CkptInv
  <1>10. CkptInv'
    <2>1. ASSUME Replay = <<>>, NEW l \in Ckpts' PROVE l <= lastWritten'
      <3>1. \A i \in DOMAIN segs : segs[i].ckpt <= wal.ckpt
        BY <2>1, NothingReturned
      <3>2. l = wal.ckpt \/ \E i \in DOMAIN segs : l = segs[i].ckpt
        BY <1>1, <2>1 DEF Ckpts
      <3> QED BY <1>1, <1>5, <3>1, <3>2
    <2> QED BY <1>1, <1>2, <1>5, <1>9, <2>1 DEF CkptInv
  <1>11. SegInv'
    BY <1>1 DEF SegInv, IsNextSegId, Uncovered
  <1>12. FileInv'
    <2>1. ASSUME NEW b \in Bodies PROVE \E m \in 0 .. Len(b) : Good(b, m)'
      BY <1>3 DEF FileInv, Good
    <2>2. ASSUME NEW b \in Bodies, NEW d \in Bodies, Older(b, d) PROVE Older(b, d)'
      BY <1>3, <2>2 DEF Older
    <2>3. ASSUME Live'
          PROVE  Good(wal.body, cursor)' /\ \A i \in 1 .. cursor' : wal'.body[i].rec.lsn < lastWritten'
      <3>1. Wanted' = {}
        BY <1>1, <1>3, <1>4, <2>3 DEF Live
      <3>2. wal'.body \in Seq(Cell) /\ 0 \in 0 .. Len(wal'.body)
        BY <1>1, DiskTypes
      <3> QED BY <1>1, <3>1, <3>2 DEF Good, Tiled
    <2>4. /\ \A i \in DOMAIN segs : Older(segs[i].body, wal.body)'
          /\ \A i, j \in DOMAIN segs : i < j => Older(segs[i].body, segs[j].body)'
      BY <1>1, <2>2 DEF FileInv, Bodies
    <2>5. \A u \in Needed : \E b \in Bodies : \E k \in DOMAIN b : b[k].rec.uid = u
      BY DEF FileInv
    <2> QED BY <1>1, <1>3, <2>1, <2>3, <2>4, <2>5 DEF FileInv
  <1> QED BY <1>6, <1>7, <1>10, <1>11, <1>12

-----------------------------------------------------------------------------
(* The steps of a flush: nothing is wanted while they run. *)

\* With nothing wanted and nobody appending any files will do.
LEMMA NothingToLose ==
    ASSUME TypeOK', Wanted' = {}, ~Live'
    PROVE  FileInv' /\ AboveCkpts'
  <1>1. \A b \in Bodies' : b \in Seq(Cell)
    BY DEF TypeOK, Bodies
  <1>2. ASSUME NEW b \in Bodies' PROVE 0 \in 0 .. Len(b) /\ Good(b, 0)'
    <2>1. 0 \in 0 .. Len(b)
      BY <1>1
    <2> QED BY <2>1 DEF Good, Tiled
  <1>3. Needed' = {}
    BY DEF Wanted
  <1>4. \A b, d : Older(b, d)'
    BY DEF Older
  <1>5. \A b \in Bodies' : \E m \in 0 .. Len(b) : Good(b, m)'
    BY <1>2
  <1>6. FileInv'
    BY <1>3, <1>4, <1>5 DEF FileInv
  <1>7. AboveCkpts'
    BY DEF AboveCkpts
  <1> QED BY <1>6, <1>7

\* What a step keeps that works for a flush: it may remove segments, write cells of no
\* record and raise the active header to last_written_lsn.
LEMMA FlushOnDisk ==
    ASSUME OneCaller, OrderInv, TypeOK', chan # <<>>, Head(chan).kind \in {"checkpoint", "truncate"},
           UNCHANGED <<cpc, rec, made, recovered, acked, covered, lastWritten, nextSegId, phase>>,
           DOMAIN segs' \subseteq DOMAIN segs, \A i \in DOMAIN segs' : segs'[i] = segs[i],
           \A k \in DOMAIN wal'.body : \/ wal'.body[k].rec.uid = 0
                                       \/ k \in DOMAIN wal.body /\ wal'.body[k] = wal.body[k],
           \/ wal'.ckpt = wal.ckpt /\ wal'.cur = wal.cur
           \/ wal'.ckpt = lastWritten /\ wal'.cur >= lastWritten,
           lastCkpt' \in {lastCkpt, lastWritten}
    PROVE  UidInv' /\ CkptInv' /\ SegInv' /\ FileInv' /\ Flushing' # {} /\ Needed' = {} /\ Pending' = {}
  <1> USE DEF OrderInv, DiskInv, Inv, OrderParts
  <1>1. Wanted = {} /\ Needed = {} /\ Pending = {} /\ Flushing # {}
    BY NothingWanted
  <1>2. Needed' = {} /\ Pending' = {} /\ Flushing' # {}
    BY <1>1 DEF Needed, Pending, Flushing
  <1>3. Wanted' = {} /\ ~Live'
    BY <1>2 DEF Wanted, Live
  <1>4. FileInv' /\ AboveCkpts'
    BY <1>3, NothingToLose
  <1>5. SegInv'
    <2>1. IsFiniteSet(DOMAIN segs')
      BY FS_Subset DEF SegInv
    <2>2. \A i \in DOMAIN segs' : i < nextSegId' /\ segs[i].st = "ok" /\ Uncovered(segs[i])
      BY DEF SegInv
    <2> QED BY <2>1, <2>2 DEF SegInv, Uncovered
  <1>6. UidInv'
    <2>1. ASSUME NEW b \in Bodies', NEW k \in DOMAIN b PROVE b[k].rec.uid <= made
      <3>1. \A d \in Bodies : \A i \in DOMAIN d : d[i].rec.uid <= made
        BY DEF UidInv
      <3>2. CASE b = wal'.body
        <4>1. wal.body \in Bodies /\ made \in Nat
          BY DEF Bodies, TypeOK
        <4>2. CASE wal'.body[k].rec.uid = 0
          BY <3>2, <4>1, <4>2
        <4>3. CASE k \in DOMAIN wal.body /\ wal'.body[k] = wal.body[k]
          BY <3>1, <3>2, <4>1, <4>3
        <4> QED BY <3>2, <4>2, <4>3
      <3>3. ASSUME NEW i \in DOMAIN segs', b = segs'[i].body PROVE b[k].rec.uid <= made
        BY <3>1, <3>3 DEF Bodies
      <3> QED BY <3>2, <3>3 DEF Bodies
    <2>2. Uids(recovered)' = Uids(recovered)
      BY DEF Uids
    <2> QED BY <1>2, <2>1, <2>2 DEF UidInv
  <1>7. CkptInv'
    <2>1. lastWritten \in Nat /\ lastCkpt <= lastWritten /\ wal.ckpt <= wal.cur
      BY DEF TypeOK, CkptInv
    <2>2. \A l \in Ckpts' : l \in Ckpts \/ l = lastWritten
      BY DEF Ckpts
    <2>3. wal'.ckpt <= wal'.cur /\ lastCkpt' <= lastWritten'
      BY <2>1
    <2>4. phase' = "up" => \A l \in Ckpts' : l <= lastWritten'
      BY <2>1, <2>2 DEF CkptInv
    <2> QED BY <1>2, <1>4, <2>3, <2>4 DEF CkptInv
  <1> QED BY <1>2, <1>4, <1>5, <1>6, <1>7

\* What is in a body after cells were written into it.
LEMMA OverwriteFacts ==
    ASSUME NEW body \in Seq(Cell), NEW at \in Nat, NEW cells \in Seq(Cell)
    PROVE  /\ Overwrite(body, at, cells) \in Seq(Cell)
           /\ Len(Overwrite(body, at, cells)) = Larger(Len(body), at + Len(cells))
           /\ \A k \in DOMAIN Overwrite(body, at, cells) :
                 Overwrite(body, at, cells)[k] = IF k \in at + 1 .. at + Len(cells) THEN cells[k - at]
                                                 ELSE IF k <= Len(body) THEN body[k] ELSE Hole
  <1>1. Overwrite(body, at, cells) \in Seq(Cell)
    BY OverwriteType
  <1>2. DOMAIN Overwrite(body, at, cells) = 1 .. Larger(Len(body), at + Len(cells))
    BY DEF Overwrite
  <1>3. Larger(Len(body), at + Len(cells)) \in Nat
    <2>1. Len(body) \in Nat /\ at + Len(cells) \in Nat
      OBVIOUS
    <2> QED BY <2>1, LargerFacts
  <1>4. Len(Overwrite(body, at, cells)) = Larger(Len(body), at + Len(cells))
    BY <1>1, <1>2, <1>3, LenProperties
  <1> QED BY <1>1, <1>4 DEF Overwrite

\* do_checkpoint's record has no number: it is no data record.
LEMMA OrderCheckpointRecord ==
    ASSUME OneCaller, OrderInv, TypeOK', CheckpointRecord
    PROVE  OrderParts'
  <1> USE DEF OrderInv, DiskInv, Inv, OrderParts
  <1> DEFINE cells == Encode(CkptRecord(lastWritten))
  <1>1. /\ UNCHANGED <<segs, cpc, rec, made, recovered, acked, covered, lastWritten, lastCkpt, nextSegId,
                       phase, handle, chan>>
        /\ chan # <<>> /\ Head(chan).kind = "checkpoint" /\ handle = "wal"
        /\ wal' = [wal EXCEPT !.body = Overwrite(@, cursor, cells)]
        /\ wpc' = "checkpoint_header" /\ result' = "Ok"
    <2>1. handle = "wal"
      BY DEF CheckpointRecord, FlushInv, TypeOK
    <2> QED BY <2>1 DEF CheckpointRecord, Receives, Put
  <1>2. wal'.body = Overwrite(wal.body, cursor, cells) /\ wal'.st = wal.st /\ wal'.ckpt = wal.ckpt /\ wal'.cur = wal.cur
    BY <1>1 DEF TypeOK
  <1>3. wal.body \in Seq(Cell) /\ cursor \in Nat /\ cells \in Seq(Cell) /\ Len(wal.body) \in Nat /\ Len(cells) \in Nat
    <2>1. CkptRecord(lastWritten) \in Record
      BY CkptRecordType DEF TypeOK
    <2>2. cells \in Seq(Cell)
      BY <2>1, EncodeType
    <2>3. wal.body \in Seq(Cell) /\ cursor \in Nat
      BY DEF TypeOK
    <2> HIDE DEF cells
    <2> QED BY <2>2, <2>3
  <1>4. \A i \in DOMAIN cells : cells[i].rec.uid = 0
    BY DEF Encode, CkptRecord
  <1> HIDE DEF cells
  <1>5. ASSUME NEW k \in DOMAIN wal'.body
        PROVE  \/ wal'.body[k].rec.uid = 0
               \/ k \in DOMAIN wal.body /\ wal'.body[k] = wal.body[k]
    <2> DEFINE b == Overwrite(wal.body, cursor, cells)
    <2>0. /\ b \in Seq(Cell)
          /\ \A i \in DOMAIN b : b[i] = IF i \in cursor + 1 .. cursor + Len(cells) THEN cells[i - cursor]
                                       ELSE IF i <= Len(wal.body) THEN wal.body[i] ELSE Hole
      BY <1>3, OverwriteFacts
    <2> HIDE DEF b
    <2>1. /\ k \in 1 .. Len(wal'.body) /\ Len(wal'.body) \in Nat
          /\ wal'.body[k] = IF k \in cursor + 1 .. cursor + Len(cells) THEN cells[k - cursor]
                            ELSE IF k <= Len(wal.body) THEN wal.body[k] ELSE Hole
      BY <1>2, <2>0 DEF b
    <2>2. CASE k \in cursor + 1 .. cursor + Len(cells)
      <3>1. k - cursor \in DOMAIN cells
        BY <1>3, <2>2
      <3> QED BY <1>4, <2>1, <2>2, <3>1
    <2>3. CASE k \notin cursor + 1 .. cursor + Len(cells) /\ k <= Len(wal.body)
      BY <1>3, <2>1, <2>3
    <2>4. CASE k \notin cursor + 1 .. cursor + Len(cells) /\ ~(k <= Len(wal.body))
      <3>1. Hole.rec.uid = 0
        BY DEF Hole, NoRecord
      <3> QED BY <2>1, <2>4, <3>1
    <2> QED BY <2>2, <2>3, <2>4
  <1>6. UidInv' /\ CkptInv' /\ SegInv' /\ FileInv' /\ Flushing' # {} /\ Needed' = {} /\ Pending' = {}
    BY <1>1, <1>2, <1>5, FlushOnDisk
  <1>7. FlushInv'
    <2>1. wpc = "recv"
      BY DEF CheckpointRecord, Receives
    <2> QED BY <1>1, <1>2, <1>6, <2>1 DEF FlushInv
  <1> QED BY <1>6, <1>7

\* do_checkpoint's header.
LEMMA OrderCheckpointHeader ==
    ASSUME OneCaller, OrderInv, TypeOK', CheckpointHeader
    PROVE  OrderParts'
  <1> USE DEF OrderInv, DiskInv, Inv, OrderParts
  <1>1. /\ UNCHANGED <<segs, cpc, rec, made, recovered, acked, covered, lastWritten, nextSegId, phase, chan, result>>
        /\ wpc = "checkpoint_header" /\ wpc' \in {"cleanup", "done"} /\ handle' = "wal"
        /\ wal' = [wal EXCEPT !.st = "ok", !.ckpt = lastWritten, !.cur = lastWritten + 1]
        /\ lastCkpt' = lastWritten
    BY DEF CheckpointHeader, CheckpointHeaderOf
  <1>2. /\ wal'.body = wal.body /\ wal'.st = "ok" /\ wal'.ckpt = lastWritten /\ wal'.cur = lastWritten + 1
        /\ lastWritten \in Nat
    BY <1>1 DEF TypeOK
  <1>3. chan # <<>> /\ Head(chan).kind = "checkpoint" /\ result = "Ok"
    BY <1>1 DEF PlaceInv, ChannelInv, Busy, FlushInv
  <1>4. UidInv' /\ CkptInv' /\ SegInv' /\ FileInv' /\ Flushing' # {} /\ Needed' = {} /\ Pending' = {}
    <2>1. wal'.cur >= lastWritten
      BY <1>2
    <2> QED BY <1>1, <1>2, <1>3, <2>1, FlushOnDisk
  <1>5. FlushInv'
    BY <1>1, <1>2, <1>3, <1>4 DEF FlushInv
  <1> QED BY <1>4, <1>5

\* The cleanup behind a checkpoint removes a segment, or finds none to remove.
LEMMA OrderCleanup ==
    ASSUME OneCaller, OrderInv, TypeOK', Cleanup
    PROVE  OrderParts'
  <1> USE DEF OrderInv, DiskInv, Inv, OrderParts
  <1>1. /\ UNCHANGED <<wal, cpc, rec, made, recovered, acked, covered, lastWritten, lastCkpt, nextSegId,
                       phase, handle, chan, result, cursor>>
        /\ wpc = "cleanup" /\ wpc' \in {"cleanup", "done"}
        /\ segs' = segs \/ segs' = Without(segs, {Min(Doomed(segs, curSize))})
    BY DEF Cleanup
  <1>2. chan # <<>> /\ Head(chan).kind = "checkpoint" /\ result = "Ok"
    BY <1>1 DEF PlaceInv, ChannelInv, Busy, FlushInv
  <1>3. DOMAIN segs' \subseteq DOMAIN segs /\ \A i \in DOMAIN segs' : segs'[i] = segs[i]
    BY <1>1 DEF Without
  <1>4. UidInv' /\ CkptInv' /\ SegInv' /\ FileInv' /\ Flushing' # {} /\ Needed' = {} /\ Pending' = {}
    BY <1>1, <1>2, <1>3, FlushOnDisk
  <1>5. FlushInv'
    BY <1>1, <1>2, <1>4 DEF FlushInv
  <1> QED BY <1>4, <1>5

\* do_truncate removes a segment.
LEMMA OrderTruncateSegment ==
    ASSUME OneCaller, OrderInv, TypeOK', TruncateSegment
    PROVE  OrderParts'
  <1> USE DEF OrderInv, DiskInv, Inv, OrderParts
  <1>1. /\ UNCHANGED <<wal, cpc, rec, made, recovered, acked, covered, lastWritten, lastCkpt, nextSegId,
                       phase, handle, chan, wpc, result, cursor>>
        /\ chan # <<>> /\ Head(chan).kind = "truncate" /\ wpc = "recv"
        /\ segs' = Without(segs, {Min(DOMAIN segs)})
    BY DEF TruncateSegment, Receives
  <1>2. DOMAIN segs' \subseteq DOMAIN segs /\ \A i \in DOMAIN segs' : segs'[i] = segs[i]
    BY <1>1 DEF Without
  <1>3. UidInv' /\ CkptInv' /\ SegInv' /\ FileInv' /\ Flushing' # {} /\ Needed' = {} /\ Pending' = {}
    BY <1>1, <1>2, FlushOnDisk
  <1>4. FlushInv'
    BY <1>1, <1>3 DEF FlushInv, Busy
  <1> QED BY <1>3, <1>4

\* do_truncate empties the file; the segments are gone by then.
LEMMA OrderTruncateLen ==
    ASSUME OneCaller, RotationFaultsOnly, OrderInv, TypeOK', TruncateLen
    PROVE  OrderParts'
  <1> USE DEF OrderInv, DiskInv, Inv, OrderParts
  <1>1. /\ UNCHANGED <<segs, cpc, rec, made, recovered, acked, covered, lastWritten, lastCkpt, nextSegId,
                       phase, handle, chan, cursor>>
        /\ chan # <<>> /\ Head(chan).kind = "truncate" /\ DOMAIN segs = {}
        /\ \/ handle = "wal" /\ wal' = [wal EXCEPT !.body = <<>>] /\ wpc' = "truncate_header" /\ result' = "Ok"
           \/ handle = "null" /\ wal' = wal /\ wpc' = "done" /\ result' = "Err"
    <2>1. ~MayFail("set_len")
      BY DEF RotationFaultsOnly, MayFail
    <2>2. handle \in {"wal", "null"}
      BY DEF FlushInv, TypeOK
    <2> QED BY <2>1, <2>2 DEF TruncateLen, Receives, Fails, NoSegs
  <1>2. /\ wal'.body = <<>> \/ wal' = wal
        /\ wal'.st = wal.st /\ wal'.ckpt = wal.ckpt /\ wal'.cur = wal.cur
    BY <1>1 DEF TypeOK
  <1>3. UidInv' /\ CkptInv' /\ SegInv' /\ FileInv' /\ Flushing' # {} /\ Needed' = {} /\ Pending' = {}
    <2>1. \A k \in DOMAIN wal'.body : k \in DOMAIN wal.body /\ wal'.body[k] = wal.body[k]
      <3>1. DOMAIN <<>> = {}
        OBVIOUS
      <3> QED BY <1>2, <3>1
    <2> QED BY <1>1, <1>2, <2>1, FlushOnDisk
  <1>4. FlushInv'
    <2>0. wpc = "recv"
      BY DEF TruncateLen, Receives
    <2>1. CASE handle = "wal" /\ wal' = [wal EXCEPT !.body = <<>>] /\ wpc' = "truncate_header" /\ result' = "Ok"
      <3>1. wal'.body = <<>>
        BY <2>1 DEF TypeOK
      <3> QED BY <1>1, <1>2, <1>3, <2>0, <2>1, <3>1 DEF FlushInv
    <2>2. CASE handle = "null" /\ wal' = wal /\ wpc' = "done" /\ result' = "Err"
      BY <1>1, <1>3, <2>0, <2>2 DEF FlushInv
    <2> QED BY <1>1, <2>1, <2>2
  <1> QED BY <1>3, <1>4

\* do_truncate writes the header: the file starts again above all that was written.
LEMMA OrderTruncateHeader ==
    ASSUME OneCaller, OrderInv, TypeOK', TruncateHeader
    PROVE  OrderParts'
  <1> USE DEF OrderInv, DiskInv, Inv, OrderParts
  <1>1. /\ UNCHANGED <<segs, cpc, rec, made, recovered, acked, covered, lastWritten, nextSegId,
                       phase, chan, result>>
        /\ wpc = "truncate_header" /\ wpc' = "done" /\ cursor' = 0 /\ handle' = "wal"
        /\ wal' = [wal EXCEPT !.st = "ok", !.ckpt = lastWritten, !.cur = lastWritten]
        /\ lastCkpt' = lastWritten
    BY DEF TruncateHeader, TruncateHeaderOf
  <1>2. /\ wal'.body = wal.body /\ wal'.st = "ok" /\ wal'.ckpt = lastWritten /\ wal'.cur = lastWritten
        /\ lastWritten \in Nat
    BY <1>1 DEF TypeOK
  <1>3. chan # <<>> /\ Head(chan).kind = "truncate" /\ result = "Ok" /\ DOMAIN segs = {} /\ wal.body = <<>>
    BY <1>1 DEF PlaceInv, ChannelInv, Busy, FlushInv
  <1>4. UidInv' /\ CkptInv' /\ SegInv' /\ FileInv' /\ Flushing' # {} /\ Needed' = {} /\ Pending' = {}
    <2>1. wal'.cur >= lastWritten
      BY <1>2
    <2> QED BY <1>1, <1>2, <1>3, <2>1, FlushOnDisk
  <1>5. FlushInv'
    BY <1>1, <1>2, <1>3, <1>4 DEF FlushInv
  <1> QED BY <1>4, <1>5

-----------------------------------------------------------------------------
(* The steps of a log call. *)

\* A record written behind the tiled part is a part of it from then on.
LEMMA AppendFacts ==
    ASSUME NEW b \in Seq(Cell), NEW m \in 0 .. Len(b), NEW r \in Record,
           NEW nb, Overwrite(b, m, Encode(r)) = nb
    PROVE  /\ nb \in Seq(Cell) /\ DOMAIN nb = 1 .. Len(nb) /\ Len(nb) \in Nat
           /\ m + r.size <= Len(nb) /\ Len(b) <= Len(nb)
           /\ \A i \in DOMAIN nb :
                \/ i \in m + 1 .. m + r.size /\ nb[i] = [rec |-> r, part |-> i - m]
                \/ i \notin m + 1 .. m + r.size /\ i \in DOMAIN b /\ nb[i] = b[i]
  <1> DEFINE cells == Encode(r)
  <1>1. cells \in Seq(Cell) /\ Len(cells) = r.size
    BY EncodeType
  <1>2. \A k \in 1 .. r.size : cells[k] = [rec |-> r, part |-> k]
    BY DEF Encode
  <1> HIDE DEF cells
  <1>3. m \in Nat /\ r.size \in Nat /\ Len(b) \in Nat /\ m <= Len(b) /\ DOMAIN b = 1 .. Len(b)
    BY DEF Record
  <1>4. /\ nb \in Seq(Cell) /\ Len(nb) = Larger(Len(b), m + r.size)
        /\ \A k \in DOMAIN nb : nb[k] = IF k \in m + 1 .. m + r.size THEN cells[k - m]
                                        ELSE IF k <= Len(b) THEN b[k] ELSE Hole
    <2> DEFINE ob == Overwrite(b, m, cells)
    <2>1. /\ ob \in Seq(Cell) /\ Len(ob) = Larger(Len(b), m + Len(cells))
          /\ \A k \in DOMAIN ob : ob[k] = IF k \in m + 1 .. m + Len(cells) THEN cells[k - m]
                                          ELSE IF k <= Len(b) THEN b[k] ELSE Hole
      <3>1. m \in Nat /\ cells \in Seq(Cell)
        BY <1>1, <1>3
      <3> QED BY <3>1, OverwriteFacts
    <2>2. nb = ob
      BY DEF cells
    <2> HIDE DEF ob
    <2> QED BY <1>1, <2>1, <2>2
  <1>5. DOMAIN nb = 1 .. Len(nb) /\ Len(nb) \in Nat
    BY <1>4
  <1>6. m + r.size <= Len(nb) /\ Len(b) <= Len(nb) /\ (Len(nb) = Len(b) \/ Len(nb) = m + r.size)
    BY <1>3, <1>4 DEF Larger
  <1>7. ASSUME NEW i \in DOMAIN nb
        PROVE  \/ i \in m + 1 .. m + r.size /\ nb[i] = [rec |-> r, part |-> i - m]
               \/ i \notin m + 1 .. m + r.size /\ i \in DOMAIN b /\ nb[i] = b[i]
    <2>1. CASE i \in m + 1 .. m + r.size
      <3>1. i - m \in 1 .. r.size
        BY <1>3, <2>1
      <3> QED BY <1>2, <1>4, <2>1, <3>1
    <2>2. CASE i \notin m + 1 .. m + r.size
      <3>1. i \in DOMAIN b /\ i <= Len(b)
        <4>1. i \in Nat /\ i >= 1 /\ i <= Len(nb)
          BY <1>5
        <4>2. i <= Len(b)
          BY <1>3, <1>6, <2>2, <4>1
        <4> QED BY <1>3, <4>1, <4>2
      <3> QED BY <1>4, <2>2, <3>1
    <2> QED BY <2>1, <2>2
  <1> QED BY <1>4, <1>5, <1>6, <1>7

LEMMA AppendIsTiled ==
    ASSUME NEW b \in Seq(Cell), NEW m \in 0 .. Len(b), NEW r \in Record, Tiled(b, m),
           \A i \in 1 .. m : b[i].rec.lsn < r.lsn /\ b[i].rec.uid < r.uid
    PROVE  Tiled(Overwrite(b, m, Encode(r)), m + r.size)
  <1> DEFINE nb == Overwrite(b, m, Encode(r))
             n == m + r.size
  <1>0. Overwrite(b, m, Encode(r)) = nb
    OBVIOUS
  <1> HIDE DEF nb
  <1>1. /\ nb \in Seq(Cell) /\ DOMAIN nb = 1 .. Len(nb) /\ Len(nb) \in Nat
        /\ n <= Len(nb) /\ Len(b) <= Len(nb)
        /\ \A i \in DOMAIN nb :
                \/ i \in m + 1 .. n /\ nb[i] = [rec |-> r, part |-> i - m]
                \/ i \notin m + 1 .. n /\ i \in DOMAIN b /\ nb[i] = b[i]
    BY <1>0, AppendFacts
  <1>2. m \in Nat /\ r.size \in Nat /\ n \in Nat /\ n = m + r.size /\ m <= Len(b)
        /\ DOMAIN b = 1 .. Len(b) /\ Len(b) \in Nat
    BY DEF Record
  <1> HIDE DEF n
  <1>3. ASSUME NEW i \in 1 .. m PROVE nb[i] = b[i]
    <2>1. i \in DOMAIN nb /\ i \notin m + 1 .. n
      BY <1>1, <1>2
    <2> QED BY <1>1, <2>1
  <1>4. ASSUME NEW i \in m + 1 .. n PROVE nb[i] = [rec |-> r, part |-> i - m]
    <2>1. i \in DOMAIN nb /\ i \in m + 1 .. n
      BY <1>1, <1>2
    <2> QED BY <1>1, <2>1
  <1>5. ASSUME NEW i \in m + 1 .. n PROVE nb[i].rec = r /\ nb[i].part = i - m
    <2> DEFINE p == i - m
    <2>1. nb[i] = [rec |-> r, part |-> p]
      BY <1>4
    <2> HIDE DEF p
    <2>2. nb[i].rec = r /\ nb[i].part = p
      BY <2>1
    <2> QED BY <2>2 DEF p
  <1>6. ASSUME NEW i \in 1 .. n
        PROVE  /\ nb[i].part \in 1 .. nb[i].rec.size /\ nb[i].part <= i
               /\ (i - nb[i].part) + nb[i].rec.size <= n
               /\ \A k \in 1 .. nb[i].rec.size : nb[(i - nb[i].part) + k] = [rec |-> nb[i].rec, part |-> k]
    <2>1. CASE i \in 1 .. m
      <3> DEFINE p == b[i].part
                 z == b[i].rec.size
      <3>1. /\ p \in 1 .. z /\ p <= i /\ (i - p) + z <= m
            /\ \A k \in 1 .. z : b[(i - p) + k] = [rec |-> b[i].rec, part |-> k]
        BY <2>1 DEF Tiled
      <3>2. p \in Nat /\ z \in Nat
        BY <1>2, <2>1, CellFacts
      <3>3. nb[i] = b[i]
        BY <1>3, <2>1
      <3> HIDE DEF p, z
      <3>4. (i - p) + z <= n /\ \A k \in 1 .. z : (i - p) + k \in 1 .. m
        BY <1>2, <2>1, <3>1, <3>2
      <3>5. \A k \in 1 .. z : nb[(i - p) + k] = [rec |-> b[i].rec, part |-> k]
        BY <1>3, <3>1, <3>4
      <3> QED BY <3>1, <3>3, <3>4, <3>5 DEF p, z
    <2>2. CASE i \in m + 1 .. n
      <3>1. nb[i].rec = r /\ nb[i].part = i - m
        BY <1>5, <2>2
      <3>2. i - m \in 1 .. r.size /\ i - m <= i /\ i - (i - m) = m
        BY <1>2, <2>2
      <3>3. \A k \in 1 .. r.size : nb[m + k] = [rec |-> r, part |-> k]
        <4> TAKE k \in 1 .. r.size
        <4>1. m + k \in m + 1 .. n /\ (m + k) - m = k
          BY <1>2
        <4> QED BY <1>4, <4>1
      <3>4. m + r.size <= n
        BY <1>2
      <3> QED BY <3>1, <3>2, <3>3, <3>4
    <2> QED BY <1>2, <2>1, <2>2
  <1>7. ASSUME NEW i \in 1 .. n, NEW j \in 1 .. n, i < j
        PROVE  \/ i - nb[i].part = j - nb[j].part
               \/ nb[i].rec.lsn < nb[j].rec.lsn /\ nb[i].rec.uid < nb[j].rec.uid
    <2>1. CASE j \in 1 .. m
      <3>1. i \in 1 .. m
        BY <1>2, <1>7, <2>1
      <3>2. nb[i] = b[i] /\ nb[j] = b[j]
        BY <1>3, <2>1, <3>1
      <3>3. \/ i - b[i].part = j - b[j].part
            \/ b[i].rec.lsn < b[j].rec.lsn /\ b[i].rec.uid < b[j].rec.uid
        BY <1>7, <2>1, <3>1 DEF Tiled
      <3> QED BY <3>2, <3>3
    <2>2. CASE i \in 1 .. m /\ j \in m + 1 .. n
      BY <1>3, <1>5, <2>2
    <2>3. CASE i \in m + 1 .. n
      <3>1. j \in m + 1 .. n
        BY <1>2, <1>7, <2>3
      <3>2. nb[i].part = i - m /\ nb[j].part = j - m
        BY <1>5, <2>3, <3>1
      <3>3. i - (i - m) = m /\ j - (j - m) = m
        BY <1>2
      <3> QED BY <3>2, <3>3
    <2> QED BY <1>2, <2>1, <2>2, <2>3
  <1> QED BY <1>6, <1>7 DEF Tiled, nb, n

\* write_record: the caller's record, the youngest of all, goes behind the tiled part.
LEMMA OrderWriteRecord ==
    ASSUME OneCaller, OrderInv, TypeOK', WriteRecord
    PROVE  OrderParts'
  <1> USE DEF OrderInv, DiskInv, Inv, OrderParts
  <1>a. PICK r, c, b, m : r = Head(chan).rec /\ c = Head(chan).from /\ b = wal.body /\ m = cursor
    OBVIOUS
  <1>b. PICK nb : nb = Overwrite(b, m, Encode(r))
    OBVIOUS
  <1>1. /\ UNCHANGED <<segs, cpc, rec, made, recovered, acked, covered, lastCkpt, nextSegId, phase, handle, chan>>
        /\ chan # <<>> /\ Head(chan).kind = "record" /\ handle = "wal" /\ wpc = "recv"
        /\ wal' = [wal EXCEPT !.body = nb]
        /\ cursor' = m + r.size /\ lastWritten' = Larger(lastWritten, r.lsn + 1)
        /\ wpc' \in {"rotate", "done"} /\ result' = "Ok"
    <2>1. handle = "wal"
      BY DEF WriteRecord, FlushInv, TypeOK
    <2> QED BY <1>a, <1>b, <2>1 DEF WriteRecord, Receives, PastLsn, Put
  <1>2. wal'.body = nb /\ wal'.st = wal.st /\ wal'.ckpt = wal.ckpt /\ wal'.cur = wal.cur
    BY <1>1 DEF TypeOK
  <1>3. /\ r \in Record /\ c \in Pending /\ r = rec[c] /\ r.size > 0
        /\ r.uid \in Nat /\ r.lsn \in Nat /\ r.size \in Nat
    <2>1. r \in Record /\ c \in Pending /\ r = rec[c]
      BY <1>1, <1>a, HeadIsPending, HeadRecordType
    <2>2. rec[c].size > 0
      BY <2>1 DEF PlaceInv
    <2> QED BY <2>1, <2>2 DEF Record
  <1>4. Pending = {c} /\ Flushing = {}
    BY <1>3, OneAtATime DEF Pending
  <1>5. /\ r.uid = made /\ made > 0 /\ made \in Nat
        /\ \A d \in Bodies : \A k \in DOMAIN d : d[k].rec.uid < made /\ d[k].rec.uid \in Nat /\ d[k].rec.lsn \in Nat
    <2>1. r.uid = made /\ made > 0 /\ made \in Nat
      BY <1>3 DEF UidInv, TypeOK
    <2>2. \A d \in Bodies : \A k \in DOMAIN d : d[k].rec.uid <= made /\ d[k].rec.uid # made
      BY <1>1, <1>3 DEF UidInv, Busy
    <2>3. \A d \in Bodies : \A k \in DOMAIN d : d[k].rec.uid \in Nat /\ d[k].rec.lsn \in Nat
      BY BodyTypes, CellFacts
    <2> QED BY <2>1, <2>2, <2>3
  <1>6. lastWritten <= r.lsn /\ lastWritten \in Nat
    BY <1>1, <1>3 DEF CkptInv, Busy, TypeOK
  <1>7. Live
    <2>1. phase # "recovering"
      BY <1>4 DEF FlushInv
    <2>2. phase \notin {"closed", "creating"}
      BY <1>1 DEF PlaceInv
    <2> QED BY <1>1, <1>4, <2>1, <2>2 DEF Live, TypeOK
  <1>8. Good(b, m) /\ \A i \in 1 .. m : b[i].rec.lsn < lastWritten
    BY <1>7, <1>a DEF FileInv
  <1>9. b \in Seq(Cell) /\ m \in 0 .. Len(b) /\ b \in Bodies /\ Tiled(b, m) /\ Len(b) \in Nat
    BY <1>8, <1>a DEF TypeOK, Bodies, Good
  <1>10. /\ nb \in Seq(Cell) /\ DOMAIN nb = 1 .. Len(nb) /\ Len(nb) \in Nat
         /\ m + r.size <= Len(nb) /\ Len(b) <= Len(nb)
         /\ \A i \in DOMAIN nb :
                \/ i \in m + 1 .. m + r.size /\ nb[i] = [rec |-> r, part |-> i - m]
                \/ i \notin m + 1 .. m + r.size /\ i \in DOMAIN b /\ nb[i] = b[i]
    <2>1. Overwrite(b, m, Encode(r)) = nb
      BY <1>b
    <2>2. b \in Seq(Cell) /\ m \in 0 .. Len(b) /\ r \in Record
      BY <1>3, <1>9
    <2> QED BY <2>1, <2>2, AppendFacts
  <1>11. \A i \in 1 .. m : b[i].rec.lsn < r.lsn /\ b[i].rec.uid < r.uid
    <2>1. \A i \in 1 .. m : i \in DOMAIN b
      BY <1>9
    <2> QED BY <1>3, <1>5, <1>6, <1>8, <1>9, <2>1
  <1>12. Tiled(nb, m + r.size)
    BY <1>3, <1>9, <1>11, <1>b, AppendIsTiled
  <1>13. Bodies' = {nb} \cup {segs[i].body : i \in DOMAIN segs} /\ Ckpts' = Ckpts
    BY <1>1, <1>2 DEF Bodies, Ckpts
  <1>14. Needed' = Needed /\ Wanted' = Wanted /\ Wanted = Needed \cup {made}
    <2>1. Needed' = Needed /\ Wanted' = Wanted
      BY <1>1 DEF Needed, Wanted, Pending
    <2> QED BY <1>3, <1>4, <1>5, <2>1 DEF Wanted
  <1>15. ASSUME NEW i \in DOMAIN nb
         PROVE  \/ i \in m + 1 .. m + r.size /\ nb[i].rec = r
                \/ i \in DOMAIN b /\ nb[i] = b[i]
    <2>1. CASE i \in m + 1 .. m + r.size /\ nb[i] = [rec |-> r, part |-> i - m]
      <3> DEFINE p == i - m
      <3>1. nb[i] = [rec |-> r, part |-> p]
        BY <2>1
      <3> HIDE DEF p
      <3> QED BY <2>1, <3>1
    <2>2. CASE i \notin m + 1 .. m + r.size /\ i \in DOMAIN b /\ nb[i] = b[i]
      BY <2>2
    <2> QED BY <1>10, <2>1, <2>2
  <1>16. Good(nb, m + r.size)'
    <2>1. m + r.size \in 0 .. Len(nb)
      BY <1>3, <1>9, <1>10
    <2>2. ASSUME NEW i \in DOMAIN nb, nb[i].rec.uid \in Wanted PROVE i <= m + r.size
      <3>1. CASE i \in m + 1 .. m + r.size
        BY <1>3, <1>9, <3>1
      <3>2. CASE i \in DOMAIN b /\ nb[i] = b[i]
        <4>1. i <= m
          BY <1>8, <2>2, <3>2 DEF Good
        <4> QED BY <1>3, <1>9, <3>2, <4>1
      <3> QED BY <1>15, <3>1, <3>2
    <2> QED BY <1>12, <1>14, <2>1, <2>2 DEF Good, Tiled
  <1>17. lastWritten' >= lastWritten /\ lastWritten' >= r.lsn + 1 /\ lastWritten' \in Nat
    <2>1. r.lsn + 1 \in Nat
      BY <1>3
    <2> QED BY <1>1, <1>6, <2>1, LargerFacts
  <1>18. UidInv'
    <2>1. Uids(recovered)' = Uids(recovered) /\ Pending' = Pending
      BY <1>1 DEF Uids, Pending
    <2>2. ASSUME NEW d \in Bodies', NEW k \in DOMAIN d PROVE d[k].rec.uid <= made
      <3>1. CASE d = nb
        BY <1>3, <1>5, <1>9, <1>15, <3>1
      <3>2. CASE d \in {segs[i].body : i \in DOMAIN segs}
        <4>1. d \in Bodies
          BY <3>2 DEF Bodies
        <4> QED BY <1>5, <4>1
      <3> QED BY <1>13, <3>1, <3>2
    <2>3. Busy'
      BY <1>1 DEF Busy
    <2> QED BY <1>1, <2>1, <2>2, <2>3 DEF UidInv
  <1>19. CkptInv'
    <2>1. \A l \in Ckpts : l <= lastWritten /\ l \in Nat
      <3>1. \A l \in Ckpts : l <= lastWritten
        BY <1>7 DEF CkptInv, Live
      <3>2. wal.ckpt \in Nat /\ lastCkpt \in Nat /\ \A i \in DOMAIN segs : segs[i].ckpt \in Nat
        BY DEF TypeOK
      <3>3. \A l \in Ckpts : l \in Nat
        BY <3>2 DEF Ckpts
      <3> QED BY <3>1, <3>3
    <2>2. AboveCkpts'
      <3>1. ASSUME NEW d \in Bodies', NEW k \in DOMAIN d, d[k].rec.uid \in Wanted, NEW l \in Ckpts
            PROVE  l <= d[k].rec.lsn
        <4>1. CASE d = nb /\ d[k].rec = r
          BY <1>3, <1>6, <2>1, <4>1
        <4>2. CASE d = nb /\ k \in DOMAIN b /\ nb[k] = b[k]
          BY <1>9, <3>1, <4>2 DEF CkptInv, AboveCkpts
        <4>3. CASE d \in {segs[i].body : i \in DOMAIN segs}
          <5>1. d \in Bodies
            BY <4>3 DEF Bodies
          <5> QED BY <3>1, <5>1 DEF CkptInv, AboveCkpts
        <4> QED BY <1>13, <1>15, <4>1, <4>2, <4>3
      <3> QED BY <1>13, <1>14, <3>1 DEF AboveCkpts
    <2>3. wal'.ckpt <= wal'.cur /\ lastCkpt' <= lastWritten'
      <3>1. lastCkpt \in Nat /\ lastCkpt <= lastWritten
        BY DEF TypeOK, CkptInv
      <3> QED BY <1>1, <1>2, <1>6, <1>17, <3>1 DEF CkptInv
    <2>4. \A l \in Ckpts' : l <= lastWritten'
      BY <1>6, <1>13, <1>17, <2>1
    <2>5. Busy'
      BY <1>1 DEF Busy
    <2> QED BY <2>2, <2>3, <2>4, <2>5 DEF CkptInv
  <1>20. SegInv'
    BY <1>1 DEF SegInv, Uncovered
  <1>21. FileInv'
    <2>1. ASSUME NEW d \in Bodies' PROVE \E n \in 0 .. Len(d) : Good(d, n)'
      <3>1. CASE d = nb
        BY <1>16, <3>1 DEF Good
      <3>2. CASE d \in {segs[i].body : i \in DOMAIN segs}
        <4>1. d \in Bodies
          BY <3>2 DEF Bodies
        <4> QED BY <1>14, <4>1 DEF FileInv, Good
      <3> QED BY <1>13, <3>1, <3>2
    <2>2. Good(wal.body, cursor)'
      BY <1>a, <1>1, <1>2, <1>16
    <2>3. ASSUME NEW i \in 1 .. cursor' PROVE wal'.body[i].rec.lsn < lastWritten'
      <3>1. i \in DOMAIN nb /\ (i \in m + 1 .. m + r.size \/ i \in 1 .. m)
        BY <1>1, <1>3, <1>9, <1>10, <1>a
      <3>2. CASE i \in m + 1 .. m + r.size
        <4>1. nb[i].rec = r
          <5>1. nb[i] = [rec |-> r, part |-> i - m]
            BY <1>10, <3>1, <3>2
          <5> DEFINE p == i - m
          <5>2. nb[i] = [rec |-> r, part |-> p]
            BY <5>1
          <5> HIDE DEF p
          <5> QED BY <5>2
        <4> QED BY <1>2, <1>3, <1>17, <4>1
      <3>3. CASE i \in 1 .. m
        <4>1. nb[i] = b[i] /\ i \in DOMAIN b
          BY <1>9, <1>10, <3>1, <3>3
        <4>2. b[i].rec.lsn < lastWritten /\ b[i].rec.lsn \in Nat
          BY <1>5, <1>8, <1>9, <3>3, <4>1
        <4> QED BY <1>2, <1>6, <1>17, <4>1, <4>2
      <3> QED BY <3>1, <3>2, <3>3
    <2>4. ASSUME NEW i \in DOMAIN segs PROVE Older(segs[i].body, nb)'
      <3>1. segs[i].body \in Bodies /\ Older(segs[i].body, b)
        BY <1>a DEF FileInv, Bodies
      <3>d. PICK d : d = segs[i].body
        OBVIOUS
      <3>2. ASSUME NEW k \in DOMAIN d, NEW l \in DOMAIN nb, d[k].rec.uid \in Wanted, nb[l].rec.uid \in Wanted
            PROVE  d[k].rec.uid < nb[l].rec.uid
        <4>1. CASE nb[l].rec = r
          BY <1>5, <3>1, <3>d, <4>1
        <4>2. CASE l \in DOMAIN b /\ nb[l] = b[l]
          BY <3>1, <3>2, <3>d, <4>2 DEF Older
        <4> QED BY <1>15, <4>1, <4>2
      <3>3. \A k \in DOMAIN d, l \in DOMAIN nb :
                d[k].rec.uid \in Wanted' /\ nb[l].rec.uid \in Wanted' => d[k].rec.uid < nb[l].rec.uid
        BY <1>14, <3>2
      <3>4. segs'[i].body = d
        BY <1>1, <3>d
      <3> QED BY <3>3, <3>4 DEF Older
    <2>5. \A i \in DOMAIN segs' : Older(segs[i].body, wal.body)'
      BY <1>1, <1>2, <2>4 DEF Older
    <2>6. \A i, j \in DOMAIN segs' : i < j => Older(segs[i].body, segs[j].body)'
      BY <1>1, <1>14 DEF FileInv, Older
    <2>7. ASSUME NEW u \in Needed' PROVE \E d \in Bodies' : \E k \in DOMAIN d : d[k].rec.uid = u
      <3>1. PICK d \in Bodies : \E k \in DOMAIN d : d[k].rec.uid = u
        BY <1>14 DEF FileInv
      <3>2. CASE d = b
        <4>1. PICK k \in DOMAIN b : b[k].rec.uid = u
          BY <3>1, <3>2
        <4>2. k <= m /\ k \in Nat
          BY <1>8, <1>9, <1>14, <4>1 DEF Good
        <4>3. k \in DOMAIN nb /\ k \notin m + 1 .. m + r.size
          BY <1>3, <1>9, <1>10, <4>1, <4>2
        <4>4. nb[k] = b[k]
          BY <1>10, <4>3
        <4> QED BY <1>13, <4>1, <4>3, <4>4
      <3>3. CASE d \in {segs[i].body : i \in DOMAIN segs}
        BY <1>13, <3>1, <3>3
      <3> QED BY <3>2, <3>3, <1>a DEF Bodies
    <2> QED BY <2>1, <2>2, <2>3, <2>5, <2>6, <2>7 DEF FileInv
  <1>22. FlushInv'
    <2>1. wal.st # "absent"
      BY <1>1 DEF FlushInv
    <2>2. Flushing' = Flushing /\ Pending' = Pending /\ Needed' = Needed
      BY <1>1, <1>14 DEF Flushing, Pending
    <2> QED BY <1>1, <1>2, <1>4, <2>1, <2>2 DEF FlushInv
  <1> QED BY <1>18, <1>19, <1>20, <1>21, <1>22

\* A segment in which the record under way can be read has a record that its header does
\* not cover.
LEMMA HeldIsUncovered ==
    ASSUME OrderInv, NEW u \in Wanted, Holds(wal.body, u), NEW s, s.body = wal.body, s.ckpt = wal.ckpt
    PROVE  Uncovered(s)
  <1> USE DEF OrderInv, DiskInv, Inv, OrderParts
  <1>1. PICK b : b = wal.body
    OBVIOUS
  <1>2. b \in Seq(Cell) /\ b \in Bodies
    BY <1>1 DEF TypeOK, Bodies
  <1>3. PICK k \in DOMAIN b : b[k].rec.uid = u
    BY <1>1 DEF Holds
  <1>4. PICK m \in 0 .. Len(b) : Good(b, m)
    BY <1>2 DEF FileInv
  <1>5. k \in 1 .. m /\ Tiled(b, m)
    <2>1. k <= m /\ Tiled(b, m)
      BY <1>3, <1>4 DEF Good
    <2>2. k \in Nat /\ k >= 1 /\ m \in Nat
      BY <1>2
    <2> QED BY <2>1, <2>2
  <1>6. PICK o : o = k - b[k].part
    OBVIOUS
  <1>7. o \in Reads(b) /\ o + 1 \in DOMAIN b /\ b[o + 1].rec = b[k].rec
    BY <1>2, <1>5, <1>6, TiledIsRead
  <1>8. u # 0
    BY DEF UidInv, Wanted, Needed
  <1>9. wal.ckpt <= b[k].rec.lsn
    BY <1>2, <1>3 DEF CkptInv, AboveCkpts, Ckpts
  <1>10. s.body = b /\ s.ckpt = wal.ckpt
    BY <1>1
  <1> QED BY <1>3, <1>7, <1>8, <1>9, <1>10 DEF Uncovered

\* rotate renames the active file: its content is the youngest segment.
LEMMA OrderRotateRename ==
    ASSUME OneCaller, OrderInv, TypeOK', RotateRename
    PROVE  OrderParts'
  <1> USE DEF OrderInv, DiskInv, Inv, OrderParts
  <1>1. PICK n, s : n = nextSegId /\ s = [st |-> wal.st, ckpt |-> wal.ckpt, body |-> wal.body]
    OBVIOUS
  <1>2. /\ UNCHANGED <<cpc, rec, made, recovered, acked, covered, lastCkpt, lastWritten, phase, result, chan>>
        /\ wpc = "rotate" /\ wpc' = "rotate_create" /\ handle' = "null"
        /\ segs' = [i \in DOMAIN segs \cup {n} |-> IF i = n THEN s ELSE segs[i]]
        /\ wal' = NoFile /\ nextSegId' = n + 1
    BY <1>1 DEF RotateRename
  <1>3. /\ s.body = wal.body /\ s.ckpt = wal.ckpt /\ n \in Nat /\ n \notin DOMAIN segs
        /\ \A i \in DOMAIN segs : i < n /\ i \in Nat
    <2>1. s.body = wal.body /\ s.ckpt = wal.ckpt
      BY <1>1
    <2>2. nextSegId \in Nat /\ \A i \in DOMAIN segs : i < nextSegId /\ i \in Nat
      BY DEF TypeOK, SegInv
    <2>3. nextSegId \notin DOMAIN segs
      BY <2>2
    <2> QED BY <1>1, <2>1, <2>2, <2>3
  <1>4. /\ DOMAIN segs' = DOMAIN segs \cup {n} /\ segs'[n] = s
        /\ \A i \in DOMAIN segs : segs'[i] = segs[i]
    BY <1>2, <1>3
  <1>5. wal'.body = <<>> /\ wal'.ckpt = 0 /\ wal'.cur = 0 /\ wal'.st = "absent"
    BY <1>2 DEF NoFile
  <1>6. Bodies' = Bodies \cup {<<>>} /\ Ckpts' = Ckpts \cup {0}
    <2>1. {segs'[i].body : i \in DOMAIN segs'} = {segs[i].body : i \in DOMAIN segs} \cup {wal.body}
      BY <1>3, <1>4
    <2>2. {segs'[i].ckpt : i \in DOMAIN segs'} = {segs[i].ckpt : i \in DOMAIN segs} \cup {wal.ckpt}
      BY <1>3, <1>4
    <2> QED BY <1>2, <1>5, <2>1, <2>2 DEF Bodies, Ckpts
  <1>7. Needed' = Needed /\ Wanted' = Wanted /\ Pending' = Pending /\ Flushing' = Flushing
    BY <1>2 DEF Needed, Wanted, Pending, Flushing
  <1>8. DOMAIN <<>> = {} /\ Len(<<>>) = 0
    OBVIOUS
  <1>9. UidInv'
    <2>1. Uids(recovered)' = Uids(recovered) /\ Busy'
      BY <1>2 DEF Uids, Busy
    <2>2. \A b \in Bodies' : \A k \in DOMAIN b : b[k].rec.uid <= made
      BY <1>6, <1>8 DEF UidInv
    <2> QED BY <1>2, <1>7, <2>1, <2>2 DEF UidInv
  <1>10. CkptInv'
    <2>1. lastWritten \in Nat /\ lastCkpt <= lastWritten
      BY DEF TypeOK, CkptInv
    <2>2. Busy'
      BY <1>2 DEF Busy
    <2>3. AboveCkpts'
      <3>1. \A b \in Bodies : \A k \in DOMAIN b : 0 <= b[k].rec.lsn
        BY BodyTypes, CellFacts
      <3> QED BY <1>6, <1>7, <1>8, <3>1 DEF AboveCkpts, CkptInv
    <2>4. phase' = "up" => \A l \in Ckpts' : l <= lastWritten'
      BY <1>2, <1>6, <2>1 DEF CkptInv
    <2> QED BY <1>2, <1>5, <2>1, <2>2, <2>3, <2>4 DEF CkptInv
  <1>11. SegInv'
    <2>1. IsFiniteSet(DOMAIN segs')
      BY <1>4, FS_AddElement DEF SegInv
    <2>2. \A i \in DOMAIN segs' : i < nextSegId'
      BY <1>2, <1>3, <1>4
    <2>3. Uncovered(s)
      <3>1. wpc = "rotate" /\ Head(chan).kind = "record" /\ chan # <<>>
        BY <1>2 DEF PlaceInv, ChannelInv, Busy
      <3>2. Holds(wal.body, Head(chan).rec.uid)
        BY <3>1 DEF WrittenInv, FlushInv
      <3>3. Head(chan).rec.uid \in Wanted
        BY <3>1, HeadIsPending DEF Wanted
      <3> QED BY <1>3, <3>2, <3>3, HeldIsUncovered
    <2>4. \A i \in DOMAIN segs : segs[i].st = "ok" /\ Uncovered(segs[i])
      BY DEF SegInv
    <2>6. s.st = "ok"
      BY <1>1, <1>2 DEF FlushInv, TypeOK, FileStates
    <2>5. \A i \in DOMAIN segs' : segs'[i].st = "ok" /\ Uncovered(segs'[i])
      BY <1>4, <2>3, <2>4, <2>6
    <2> QED BY <2>1, <2>2, <2>5 DEF SegInv, Uncovered
  <1>12. FileInv'
    <2>1. ASSUME NEW b \in Bodies' PROVE \E m \in 0 .. Len(b) : Good(b, m)'
      <3>1. CASE b = <<>>
        BY <1>8, <3>1 DEF Good, Tiled
      <3>2. CASE b \in Bodies
        BY <1>7, <3>2 DEF FileInv, Good
      <3> QED BY <1>6, <3>1, <3>2
    <2>2. ~Live'
      BY <1>2 DEF Live
    <2>3. \A i \in DOMAIN segs' : Older(segs[i].body, wal.body)'
      BY <1>5, <1>8 DEF Older
    <2>4. ASSUME NEW i \in DOMAIN segs', NEW j \in DOMAIN segs', i < j
          PROVE  Older(segs[i].body, segs[j].body)'
      <3>1. i \in DOMAIN segs
        BY <1>3, <1>4, <2>4
      <3>2. CASE j = n
        <4>1. Older(segs[i].body, wal.body)
          BY <3>1 DEF FileInv
        <4>2. segs'[i].body = segs[i].body /\ segs'[j].body = wal.body
          BY <1>3, <1>4, <3>1, <3>2
        <4> QED BY <1>7, <4>1, <4>2 DEF Older
      <3>3. CASE j \in DOMAIN segs
        <4>1. Older(segs[i].body, segs[j].body)
          BY <2>4, <3>1, <3>3 DEF FileInv
        <4>2. segs'[i].body = segs[i].body /\ segs'[j].body = segs[j].body
          BY <1>4, <3>1, <3>3
        <4> QED BY <1>7, <4>1, <4>2 DEF Older
      <3> QED BY <1>4, <3>2, <3>3
    <2>5. \A u \in Needed' : \E b \in Bodies' : \E k \in DOMAIN b : b[k].rec.uid = u
      BY <1>6, <1>7 DEF FileInv
    <2> QED BY <2>1, <2>2, <2>3, <2>4, <2>5 DEF FileInv
  <1>13. FlushInv'
    <2>1. result' = "Ok"
      BY <1>2 DEF FlushInv, Busy
    <2> QED BY <1>2, <1>5, <1>7, <2>1 DEF FlushInv
  <1> QED BY <1>9, <1>10, <1>11, <1>12, <1>13

\* rotate creates the next active file and gives it a header: no cell changes.
LEMMA OrderRotateCreate ==
    ASSUME OneCaller, OrderInv, TypeOK', RotateCreate \/ RotateHeader
    PROVE  OrderParts'
  <1> USE DEF OrderInv, DiskInv, Inv, OrderParts
  <1>1. /\ UNCHANGED <<segs, cpc, rec, made, recovered, acked, covered, lastCkpt, lastWritten, nextSegId,
                       phase, result, chan>>
        /\ Busy /\ Busy'
    BY DEF RotateCreate, RotateHeader, Busy
  <1>2. /\ wal'.body = wal.body /\ wal'.st # "absent" /\ wal'.ckpt <= wal'.cur
        /\ wal'.ckpt \in {wal.ckpt, lastCkpt} /\ wpc' # "rotate_create" /\ wpc' # "truncate_header"
        /\ Live' => \/ Live /\ cursor' = cursor
                    \/ wal.body = <<>> /\ cursor' = 0
    <2>1. CASE RotateCreate
      <3>1. wal = NoFile /\ wal' = [NoFile EXCEPT !.st = "bad"] /\ cursor' = 0 /\ wpc' = "rotate_header"
        BY <2>1 DEF RotateCreate, FlushInv
      <3> QED BY <3>1 DEF NoFile
    <2>2. CASE RotateHeader
      <3>1. /\ wal' = [wal EXCEPT !.st = "ok", !.ckpt = lastCkpt, !.cur = lastWritten] /\ wpc' = "done"
            /\ UNCHANGED <<handle, cursor>>
        BY <2>2 DEF RotateHeader, RotateHeaderOf
      <3>2. wal'.body = wal.body /\ wal'.st = "ok" /\ wal'.ckpt = lastCkpt /\ wal'.cur = lastWritten
        BY <3>1 DEF TypeOK
      <3>3. Live' => Live
        BY <1>1, <3>1 DEF Live, Flushing
      <3> QED BY <3>1, <3>2, <3>3 DEF CkptInv
    <2> QED BY <2>1, <2>2
  <1>3. Needed' = Needed /\ Wanted' = Wanted /\ Pending' = Pending /\ Flushing' = Flushing /\ Bodies' = Bodies
    BY <1>1, <1>2 DEF Needed, Wanted, Pending, Flushing, Bodies
  <1>4. Ckpts' \subseteq Ckpts
    BY <1>1, <1>2 DEF Ckpts
  <1>5. SegInv' /\ FileInv' /\ AboveCkpts'
    <2>1. AboveCkpts
      BY DEF CkptInv
    <2>2. Live' => \/ Live /\ UNCHANGED <<cursor, lastWritten>>
                   \/ wal.body = <<>> /\ cursor' = 0
      BY <1>1, <1>2
    <2> QED BY <1>1, <1>2, <1>3, <1>4, <2>1, <2>2, SameFiles
  <1>6. UidInv'
    <2>1. Uids(recovered)' = Uids(recovered)
      BY <1>1 DEF Uids
    <2> QED BY <1>1, <1>3, <2>1 DEF UidInv
  <1>7. CkptInv'
    BY <1>1, <1>2, <1>3, <1>4, <1>5 DEF CkptInv
  <1>8. FlushInv'
    <2>1. result = "Ok"
      BY <1>1 DEF RotateCreate, RotateHeader, FlushInv
    <2>2. Head(chan).kind = "record" /\ wpc' # "exit" /\ wpc' \in {"rotate_header", "done"}
      BY DEF RotateCreate, RotateHeader, PlaceInv
    <2>3. wal'.st = "bad" => wpc' = "rotate_header"
      BY DEF RotateCreate, RotateHeader, RotateHeaderOf, TypeOK
    <2>4. handle' # "header"
      BY DEF RotateCreate, RotateHeader, FlushInv
    <2> QED BY <1>1, <1>2, <1>3, <2>1, <2>2, <2>3, <2>4 DEF FlushInv
  <1> QED BY <1>5, <1>6, <1>7, <1>8

\* What the end of a message does to its sender.
LEMMA AckFacts ==
    ASSUME OneCaller, OrderInv, Acknowledge
    PROVE  /\ UNCHANGED <<wal, segs, lastCkpt, lastWritten, nextSegId, cursor, handle, rec, recovered,
                          made, covered, result>>
           /\ wpc = "done" /\ wpc' = "recv" /\ chan # <<>>
           /\ Head(chan).from \in Clients /\ Clients = {Head(chan).from}
           /\ cpc[Head(chan).from] = WaitsAs(Head(chan).kind)
           /\ cpc'[Head(chan).from] = AfterAck(Head(chan).kind, result = "Ok")
           /\ Pending' = {}
           /\ acked' = IF Head(chan).kind = "record" /\ result = "Ok" THEN acked \cup {Head(chan).rec.uid} ELSE acked
           /\ phase' = IF Head(chan).kind = "truncate" /\ result = "Ok" THEN "up" ELSE phase
  <1> USE DEF OrderInv, DiskInv, Inv, OrderParts
  <1>1. wpc = "done" /\ chan # <<>>
    BY DEF Acknowledge, ChannelInv, Busy
  <1>2. Head(chan).from \in Clients /\ cpc[Head(chan).from] = WaitsAs(Head(chan).kind)
    BY <1>1, HeadTells
  <1>3. Clients = {Head(chan).from}
    BY <1>2 DEF OneCaller
  <1>4. cpc'[Head(chan).from] = AfterAck(Head(chan).kind, result = "Ok")
    BY <1>2 DEF Acknowledge, TypeOK
  <1>5. AfterAck(Head(chan).kind, result = "Ok") \notin {"made", "logging"}
    BY DEF AfterAck
  <1>6. Pending' = {}
    BY <1>3, <1>4, <1>5 DEF Pending
  <1> QED BY <1>1, <1>2, <1>3, <1>4, <1>6 DEF Acknowledge

\* A record acknowledged with Ok is needed from then on, and it is in a file.
LEMMA OrderAckRecord ==
    ASSUME OneCaller, OrderInv, Acknowledge, Head(chan).kind = "record", result = "Ok"
    PROVE  OrderParts'
  <1> USE DEF OrderInv, DiskInv, Inv, OrderParts
  <1>1. PICK c, u : c = Head(chan).from /\ u = Head(chan).rec.uid
    OBVIOUS
  <1>2. /\ UNCHANGED <<wal, segs, lastCkpt, lastWritten, nextSegId, cursor, handle, rec, recovered,
                       made, covered, result, phase>>
        /\ wpc = "done" /\ wpc' = "recv" /\ chan # <<>> /\ Pending' = {} /\ acked' = acked \cup {u}
    BY <1>1, AckFacts
  <1>3. c \in Pending /\ Pending = {c} /\ Flushing = {} /\ Flushing' = {}
    <2>1. Clients = {c} /\ cpc'[c] = "idle"
      <3>1. AfterAck(Head(chan).kind, result = "Ok") = "idle"
        BY DEF AfterAck
      <3> QED BY <1>1, <3>1, AckFacts
    <2>2. c \in Pending
      BY <1>1, <1>2, HeadIsPending
    <2>3. Pending = {c} /\ Flushing = {}
      BY <2>1, <2>2, OneAtATime
    <2>4. Flushing' = {}
      BY <2>1 DEF Flushing
    <2> QED BY <2>2, <2>3, <2>4
  <1>4. u = made /\ made > 0 /\ made \notin acked \cup covered /\ u = rec[c].uid /\ made \in Nat
    <2>1. rec[c].uid = u
      BY <1>1, <1>2, HeadIsPending
    <2> QED BY <1>3, <2>1 DEF UidInv, TypeOK
  <1>5. Needed' = Needed \cup {u} /\ Wanted = Needed \cup {u} /\ Wanted' = Needed \cup {u}
    <2>1. Needed' = Needed \cup {u}
      BY <1>2, <1>4 DEF Needed
    <2> QED BY <1>2, <1>3, <1>4, <2>1 DEF Wanted
  <1>6. \E b \in Bodies : \E k \in DOMAIN b : b[k].rec.uid = u
    <2>2. Readable
      BY <1>2 DEF Readable, FlushInv, SegInv
    <2>1. OnDisk(u)
      BY <1>1, <1>2, <2>2 DEF WrittenInv
    <2> QED BY <2>1 DEF OnDisk, Holds, Bodies
  <1>7. Bodies' = Bodies /\ Ckpts' = Ckpts
    BY <1>2 DEF Bodies, Ckpts
  <1>8. SegInv' /\ FileInv' /\ AboveCkpts'
    <2>1. AboveCkpts
      BY DEF CkptInv
    <2>2. \A b \in Bodies : \A k \in DOMAIN b : b[k].rec.uid \in Wanted' => b[k].rec.uid \in Wanted
      BY <1>5
    <2>3. \A v \in Needed' : v \in Needed \/ \E b \in Bodies : \E k \in DOMAIN b : b[k].rec.uid = v
      BY <1>5, <1>6
    <2>4. Live' => Live /\ UNCHANGED <<cursor, lastWritten>>
      BY <1>2, <1>3 DEF Live
    <2>5. wal'.body = wal.body /\ Ckpts' \subseteq Ckpts
      BY <1>2, <1>7
    <2> QED BY <1>2, <2>1, <2>2, <2>3, <2>4, <2>5, SameFiles
  <1>9. UidInv'
    <2>1. Uids(recovered)' = Uids(recovered)
      BY <1>2 DEF Uids
    <2>2. acked' \subseteq 1 .. made
      <3>1. u \in 1 .. made
        BY <1>4
      <3> QED BY <1>2, <3>1 DEF UidInv
    <2> QED BY <1>2, <1>7, <2>1, <2>2 DEF UidInv
  <1>10. CkptInv'
    BY <1>2, <1>7, <1>8 DEF CkptInv
  <1>11. FlushInv'
    BY <1>2, <1>3 DEF FlushInv, Busy
  <1> QED BY <1>8, <1>9, <1>10, <1>11

\* After a truncation the file starts empty, above every header.
LEMMA OrderAckTruncate ==
    ASSUME OneCaller, OrderInv, Acknowledge, Head(chan).kind = "truncate", result = "Ok"
    PROVE  OrderParts'
  <1> USE DEF OrderInv, DiskInv, Inv, OrderParts
  <1>2. /\ UNCHANGED <<wal, segs, lastCkpt, lastWritten, nextSegId, cursor, handle, rec, recovered,
                       made, acked, covered, result>>
        /\ wpc = "done" /\ wpc' = "recv" /\ chan # <<>> /\ Pending' = {} /\ phase' = "up"
    BY AckFacts
  <1>3. DOMAIN segs = {} /\ wal.body = <<>> /\ cursor = 0 /\ wal.ckpt = lastWritten
    BY <1>2 DEF FlushInv
  <1>4. Wanted = {} /\ Needed = {} /\ Flushing' = {}
    <2>1. Wanted = {} /\ Needed = {}
      BY <1>2, NothingWanted
    <2>2. AfterAck(Head(chan).kind, result = "Ok") = "idle"
      BY DEF AfterAck
    <2>3. Flushing' = {}
      BY <2>2, AckFacts DEF Flushing
    <2> QED BY <2>1, <2>3
  <1>5. Bodies' = Bodies /\ Ckpts' = Ckpts /\ Needed' = {} /\ Wanted' = {}
    BY <1>2, <1>4 DEF Bodies, Ckpts, Needed, Wanted
  <1>6. SegInv' /\ FileInv' /\ AboveCkpts'
    <2>1. AboveCkpts
      BY DEF CkptInv
    <2>2. /\ \A b \in Bodies : \A k \in DOMAIN b : b[k].rec.uid \in Wanted' => b[k].rec.uid \in Wanted
          /\ \A v \in Needed' : v \in Needed \/ \E b \in Bodies : \E k \in DOMAIN b : b[k].rec.uid = v
      BY <1>5
    <2>3. Live' => wal.body = <<>> /\ cursor' = 0
      BY <1>2, <1>3
    <2>4. wal'.body = wal.body /\ Ckpts' \subseteq Ckpts
      BY <1>2, <1>5
    <2> QED BY <1>2, <2>1, <2>2, <2>3, <2>4, SameFiles
  <1>7. UidInv'
    <2>1. Uids(recovered)' = Uids(recovered)
      BY <1>2 DEF Uids
    <2> QED BY <1>2, <1>5, <2>1 DEF UidInv
  <1>8. CkptInv'
    <2>1. \A l \in Ckpts : l <= lastWritten
      <3>1. lastWritten \in Nat /\ lastCkpt <= lastWritten
        BY DEF TypeOK, CkptInv
      <3> QED BY <1>3, <3>1 DEF Ckpts
    <2> QED BY <1>2, <1>5, <1>6, <2>1 DEF CkptInv
  <1>9. FlushInv'
    BY <1>2, <1>4 DEF FlushInv, Busy
  <1> QED BY <1>6, <1>7, <1>8, <1>9

\* Any other answer: an error, a checkpoint or a shutdown.
LEMMA OrderAckOther ==
    ASSUME OneCaller, OrderInv, Acknowledge, ~(Head(chan).kind \in {"record", "truncate"} /\ result = "Ok")
    PROVE  OrderParts'
  <1> USE DEF OrderInv, DiskInv, Inv, OrderParts
  <1>1. PICK c, k : c = Head(chan).from /\ k = Head(chan).kind
    OBVIOUS
  <1>2. /\ UNCHANGED <<wal, segs, lastCkpt, lastWritten, nextSegId, cursor, handle, rec, recovered,
                       made, acked, covered, result, phase>>
        /\ wpc = "done" /\ wpc' = "recv" /\ chan # <<>> /\ Pending' = {}
    BY AckFacts
  <1>3. Clients = {c} /\ c \in Clients /\ cpc[c] = WaitsAs(k) /\ cpc'[c] = AfterAck(k, result = "Ok")
    BY <1>1, AckFacts
  <1>4. Needed' = Needed /\ (Flushing' # {} => Flushing # {})
    <2>1. Needed' = Needed
      BY <1>2 DEF Needed
    <2>2. ASSUME Flushing' # {} PROVE Flushing # {}
      <3>1. AfterAck(k, result = "Ok") \in {"checkpointed", "checkpointing", "clearing"}
        BY <1>3, <2>2 DEF Flushing
      <3>2. k = "checkpoint"
        BY <3>1 DEF AfterAck
      <3> QED BY <1>3, <3>2 DEF Flushing, WaitsAs
    <2> QED BY <2>1, <2>2
  <1>5. Live' => Live /\ cursor' = cursor
    <2>1. CASE result = "Err"
      BY <1>2, <2>1 DEF Live, FlushInv
    <2>2. CASE result = "Ok" /\ k = "checkpoint"
      <3>1. cpc'[c] = "checkpointed"
        BY <1>3, <2>2 DEF AfterAck
      <3> QED BY <1>3, <3>1 DEF Live, Flushing
    <2>3. CASE k = "shutdown"
      <3>1. Flushing = {}
        BY <1>3, <2>3 DEF Flushing, WaitsAs
      <3> QED BY <1>2, <3>1 DEF Live
    <2>4. k \in Kinds /\ result \in {"Ok", "Err"}
      BY <1>1, <1>2, HeadRecordType DEF TypeOK
    <2> QED BY <1>1, <2>1, <2>2, <2>3, <2>4 DEF Kinds
  <1>6. UidInv' /\ CkptInv' /\ SegInv' /\ FileInv'
    <2>1. SameContent /\ covered' \subseteq 1 .. made
      BY <1>2 DEF SameContent, UidInv
    <2> QED BY <1>2, <1>5, <2>1, QuietOnDisk
  <1>7. FlushInv'
    BY <1>2, <1>4 DEF FlushInv, Busy
  <1> QED BY <1>6, <1>7

-----------------------------------------------------------------------------
(* The invariant of the order, and what follows from it. *)

\* The files keep what a recovery needs in every step.
LEMMA OrderStep ==
    ASSUME OneCaller, RotationFaultsOnly, OrderInv, TypeOK', [Next]_vars
    PROVE  OrderParts'
  <1>1. ASSUME NEW c \in Clients, Caller(c) PROVE OrderParts'
    BY <1>1, OrderMakeRecord, OrderSendRecord, OrderSendCheckpoint, OrderSendTruncate, OrderSendShutdown DEF Caller
  <1>2. CASE Opening
    BY <1>2, OrderCreate, OrderOpen, OrderStutter DEF Opening
  <1>3. CASE Acknowledge
    BY <1>3, OrderAckRecord, OrderAckTruncate, OrderAckOther
  <1>4. CASE WriteRecord \/ RotateRename \/ RotateCreate \/ RotateHeader
    BY <1>4, OrderWriteRecord, OrderRotateRename, OrderRotateCreate
  <1>5. CASE CheckpointRecord \/ CheckpointHeader \/ Cleanup \/ TruncateSegment \/ TruncateLen \/ TruncateHeader
    BY <1>5, OrderCheckpointRecord, OrderCheckpointHeader, OrderCleanup, OrderTruncateSegment, OrderTruncateLen, OrderTruncateHeader
  <1>6. CASE WriteFails \/ RotateFails \/ CheckpointRecordFails \/ HeaderWriteFails \/ HeaderSyncFails
    BY <1>6, OrderFails
  <1>7. CASE ReceiveShutdown \/ Drained \/ Exit \/ Crash
    BY <1>7, OrderEnds
  <1>8. CASE UNCHANGED vars
    BY <1>8, OrderStutter
  <1> QED BY <1>1, <1>2, <1>3, <1>4, <1>5, <1>6, <1>7, <1>8 DEF Next, WriterStep

\* Before the first open there is nothing to lose.
LEMMA OrderInit == Init => OrderInv
  <1> SUFFICES ASSUME Init PROVE OrderInv
    OBVIOUS
  <1> USE DEF Init
  <1>1. DiskInv
    BY InvInit DEF DiskInv, PlaceInv, WrittenInv, Pending
  <1>2. /\ wal.body = <<>> /\ wal.ckpt = 0 /\ wal.cur = 0 /\ DOMAIN segs = {} /\ wal.st = "absent"
        /\ Pending = {} /\ Flushing = {} /\ Needed = {} /\ ~Live
    BY DEF NoFile, NoSegs, Pending, Flushing, Needed, Live
  <1>3. Bodies = {<<>>} /\ Ckpts = {0} /\ Wanted = {}
    BY <1>2 DEF Bodies, Ckpts, Wanted
  <1>4. DOMAIN <<>> = {} /\ Len(<<>>) = 0 /\ Uids(<<>>) = {}
    BY DEF Uids
  <1>5. UidInv
    BY <1>2, <1>3, <1>4 DEF UidInv
  <1>6. FlushInv
    BY <1>2 DEF FlushInv, Busy
  <1>7. CkptInv
    BY <1>2, <1>3, <1>4 DEF CkptInv, AboveCkpts
  <1>8. SegInv
    BY <1>2, FS_EmptySet DEF SegInv
  <1>9. FileInv
    <2>1. Good(<<>>, 0)
      BY <1>4 DEF Good, Tiled
    <2> QED BY <1>2, <1>3, <1>4, <2>1 DEF FileInv
  <1> QED BY <1>1, <1>5, <1>6, <1>7, <1>8, <1>9 DEF OrderInv, OrderParts

\* The invariant of the files in every state, for one caller at a time and whichever
\* rename or create of a rotation fails.
THEOREM OrderInvariance ==
    ASSUME OneCaller, RotationFaultsOnly
    PROVE  Spec => []OrderInv
  <1>1. OrderInv /\ [Next]_vars => OrderInv'
    <2> SUFFICES ASSUME OrderInv, [Next]_vars PROVE OrderInv'
      OBVIOUS
    <2>1. Inv' /\ PlaceInv' /\ WrittenInv'
      <3>1. TypeOK' /\ ChannelInv' /\ LsnInv'
        BY TypeStep, ChannelStep, LsnStep DEF OrderInv, DiskInv, Inv
      <3>2. PlaceInv' /\ WrittenInv'
        BY PlaceStep, WrittenStep DEF OrderInv, DiskInv
      <3> QED BY <3>1, <3>2 DEF Inv
    <2>2. OrderParts'
      BY <2>1, OrderStep DEF Inv
    <2> QED BY <2>1, <2>2 DEF OrderInv, DiskInv
  <1> QED BY <1>1, OrderInit, PTL DEF Spec

\* A recovery started in any state in which the headers of all files can be read returns
\* every needed record, once and in order; more may come with them.
THEOREM Durable ==
    ASSUME OneCaller, RotationFaultsOnly
    PROVE  Spec => []DurableInOrder
  <1>1. OrderInv => DurableInOrder
    BY InvGivesDurable DEF OrderInv, OrderParts, DiskInv, Inv
  <1> QED BY <1>1, OrderInvariance, PTL

-----------------------------------------------------------------------------
(* The log implements its abstract specification. *)

\* What the abstract log sees of the state.
Seen == <<made, acked \ covered, covered, [i \in DOMAIN recovered |-> recovered[i].uid]>>

\* A step that leaves the records alone is a stutter of the abstract log.
LEMMA UnseenStep ==
    ASSUME UNCHANGED <<made, acked, covered, recovered>>
    PROVE  UNCHANGED Seen
  BY DEF Seen

\* An opening is a recovery of the abstract log.
LEMMA OpenRecovers ==
    ASSUME OneCaller, OrderInv, Open
    PROVE  Abstract!Recover
  <1>1. UNCHANGED <<made, acked, covered>> /\ recovered' = Replay
    BY DEF Open
  <1>2. DurableInOrder
    BY InvGivesDurable DEF OrderInv, OrderParts, DiskInv, Inv
  <1>r. Readable
    BY DEF Open
  <1>3. PICK s : s = Replay
    OBVIOUS
  <1>4. /\ acked \ covered \subseteq {s[i].uid : i \in DOMAIN s}
        /\ \A i, j \in DOMAIN s : i < j /\ {s[i].uid, s[j].uid} \subseteq acked \ covered => s[i].uid < s[j].uid
    BY <1>2, <1>3, <1>r DEF DurableInOrder, Uids
  <1>5. PICK t : t = [i \in DOMAIN s |-> s[i].uid]
    OBVIOUS
  <1>6. DOMAIN t = DOMAIN s /\ \A i \in DOMAIN s : t[i] = s[i].uid
    BY <1>5
  <1>7. /\ acked \ covered \subseteq {t[i] : i \in DOMAIN t}
        /\ \A i, j \in DOMAIN t : i < j /\ {t[i], t[j]} \subseteq acked \ covered => t[i] < t[j]
    BY <1>4, <1>6
  <1>8. [i \in DOMAIN recovered |-> recovered[i].uid]' = t
    BY <1>1, <1>3, <1>5
  <1>9. Abstract!Returns([i \in DOMAIN recovered |-> recovered[i].uid]')
    BY <1>7, <1>8 DEF Abstract!Returns
  <1> QED BY <1>1, <1>9 DEF Abstract!Recover

\* A flush and a compaction release what is needed; the truncation behind a checkpoint
\* releases nothing more.
LEMMA FlushReleases ==
    ASSUME OneCaller, OrderInv, NEW c \in Clients, SendCheckpoint(c) \/ SendTruncate(c)
    PROVE  Abstract!Release \/ UNCHANGED Seen
  <1>1. UidInv /\ UNCHANGED <<made, acked, recovered>>
    BY DEF OrderInv, OrderParts, SendCheckpoint, SendTruncate
  <1>2. CASE covered' = covered \cup Applied
    <2>1. Needed' = {} /\ covered \subseteq covered' /\ covered' \subseteq 1 .. made
      BY <1>1, <1>2, AppliedCovers
    <2>2. acked \ covered \subseteq covered'
      BY <1>2 DEF Applied
    <2> QED BY <1>1, <2>1, <2>2 DEF Abstract!Release, Needed
  <1>3. CASE covered' = covered
    BY <1>1, <1>3, UnseenStep
  <1> QED BY <1>2, <1>3 DEF SendCheckpoint, SendTruncate

\* An answer with Ok to a record is the acknowledgement of the abstract log.
LEMMA AckIsAcknowledge ==
    ASSUME OneCaller, OrderInv, Acknowledge
    PROVE  Abstract!Acknowledge \/ UNCHANGED Seen
  <1> DEFINE u == Head(chan).rec.uid
  <1>1. /\ UNCHANGED <<made, covered, recovered>> /\ chan # <<>> /\ wpc = "done"
        /\ acked' = IF Head(chan).kind = "record" /\ result = "Ok" THEN acked \cup {u} ELSE acked
    BY AckFacts
  <1>2. CASE Head(chan).kind = "record" /\ result = "Ok"
    <2>1. Head(chan).from \in Pending /\ Head(chan).rec = rec[Head(chan).from]
      BY <1>1, <1>2, HeadIsPending DEF OrderInv, DiskInv, Inv
    <2>2. u = made /\ made > 0 /\ made \notin acked \cup covered /\ made \in Nat
      BY <2>1 DEF OrderInv, OrderParts, UidInv, DiskInv, Inv, TypeOK
    <2>3. acked' = acked \cup {u}
      BY <1>1, <1>2
    <2> HIDE DEF u
    <2>4. u \in (1 .. made) \ ((acked \ covered) \cup covered)
      BY <2>2
    <2>5. acked' \ covered' = (acked \ covered) \cup {u}
      BY <1>1, <2>2, <2>3
    <2> QED BY <1>1, <2>4, <2>5 DEF Abstract!Acknowledge
  <1>3. CASE ~(Head(chan).kind = "record" /\ result = "Ok")
    BY <1>1, <1>3, UnseenStep
  <1> QED BY <1>2, <1>3

\* make_record is the issue of the abstract log.
LEMMA MakeIssues ==
    ASSUME NEW c \in Clients, NEW size \in Sizes, MakeRecord(c, size)
    PROVE  Abstract!Issue
  BY DEF MakeRecord, Abstract!Issue

\* Every step of the log is a step of the abstract log or a stutter.
LEMMA StepRefines ==
    ASSUME OneCaller, OrderInv, [Next]_vars
    PROVE  Abstract!Next \/ UNCHANGED Seen
  <1>1. CASE Open
    BY <1>1, OpenRecovers DEF Abstract!Next
  <1>2. CASE Acknowledge
    BY <1>2, AckIsAcknowledge DEF Abstract!Next
  <1>3. ASSUME NEW c \in Clients, Caller(c) PROVE Abstract!Next \/ UNCHANGED Seen
    <2>1. CASE SendRecord(c) \/ SendShutdown(c)
      <3>1. UNCHANGED <<made, acked, covered, recovered>>
        BY <2>1 DEF SendRecord, SendShutdown
      <3> QED BY <3>1, UnseenStep
    <2>2. CASE SendCheckpoint(c) \/ SendTruncate(c)
      BY <2>2, FlushReleases DEF Abstract!Next
    <2>3. ASSUME NEW size \in Sizes, MakeRecord(c, size) PROVE Abstract!Next
      BY <2>3, MakeIssues DEF Abstract!Next
    <2> QED BY <1>3, <2>1, <2>2, <2>3 DEF Caller
  <1>4. CASE \/ CreateFile \/ CreateHeader \/ OpenFails \/ StaysClosed \/ (WriterStep /\ ~Acknowledge) \/ Crash \/ UNCHANGED vars
    <2>1. UNCHANGED <<made, acked, covered, recovered>>
      BY <1>4 DEF CreateFile, CreateHeader, OpenFails, StaysClosed, WriterStep, WriteRecord, WriteFails, RotateRename,
           RotateCreate, RotateHeader, RotateFails, CheckpointRecord, CheckpointRecordFails, CheckpointHeader,
           Cleanup, HeaderWriteFails, HeaderSyncFails, TruncateSegment, TruncateLen, TruncateHeader, ReceiveShutdown,
           Drained, Exit, Crash
    <2> QED BY <2>1, UnseenStep
  <1> QED BY <1>1, <1>2, <1>3, <1>4 DEF Next, Opening

\* The log implements DurableLog: whatever steps and crashes come between, an opening
\* returns each needed record once and in the order of issue, and only a flush or a
\* compaction makes a record not needed.
THEOREM LogRefines ==
    ASSUME OneCaller, RotationFaultsOnly
    PROVE  Spec => ImplementsDurableLog
  <1>1. Init => Abstract!Init
    <2>1. ASSUME Init PROVE /\ [i \in DOMAIN recovered |-> recovered[i].uid] = <<>>
                            /\ made = 0 /\ acked \ covered = {} /\ covered = {}
      BY <2>1 DEF Init
    <2> QED BY <2>1 DEF Abstract!Init
  <1>2. OrderInv /\ [Next]_vars => [Abstract!Next]_Seen
    BY StepRefines
  <1>3. [Abstract!Next]_Seen <=> [Abstract!Next]_(Abstract!vars)
    BY DEF Seen, Abstract!vars
  <1> QED BY <1>1, <1>2, <1>3, OrderInvariance, PTL DEF Spec, ImplementsDurableLog, Abstract!Spec
=============================================================================
