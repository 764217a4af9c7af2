----------------------------- MODULE HnswProofs -----------------------------
(***************************************************************************)
(* For any vectors, capacities, levels and numbers of rows: the lists and  *)
(* the entry point stay well-formed through every insert, delete and       *)
(* update, and without updates a search finds every live vector as long as *)
(* the lists of the lowest layer do not overflow.                          *)
(***************************************************************************)
EXTENDS Hnsw, OrderLemmas

(***************************************************************************)
(* Loops                                                                   *)
(***************************************************************************)
\* What each turn of a loop of n turns keeps holds after every turn.
LEMMA LoopKeeps ==
    ASSUME NEW n \in Nat, NEW f, NEW T, <<0, f[0]>> \in T,
           \A k \in 1 .. n : <<k - 1, f[k - 1]>> \in T => <<k, f[k]>> \in T
    PROVE  \A k \in 0 .. n : <<k, f[k]>> \in T
  <1> DEFINE Bad == {k \in 0 .. n : <<k, f[k]>> \notin T}
  <1> SUFFICES ASSUME Bad # {} PROVE FALSE
    OBVIOUS
  <1>1. PICK k \in Bad : \A j \in Bad : k <= j
    <2>1. Bad \subseteq Nat
      OBVIOUS
    <2> HIDE DEF Bad
    <2> QED BY <2>1, LeastExists
  <1>2. k # 0
    OBVIOUS
  <1>3. k \in 1 .. n /\ k - 1 \in 0 .. n /\ ~ (k <= k - 1)
    BY <1>2
  <1>4. k - 1 \notin Bad
    <2> HIDE DEF Bad
    <2> QED BY <1>1, <1>3
  <1> QED BY <1>3, <1>4

\* ... also what does not depend on the number of the turn.
LEMMA LoopStays ==
    ASSUME NEW n \in Nat, NEW f, NEW S, f[0] \in S,
           \A k \in 1 .. n : f[k - 1] \in S => f[k] \in S
    PROVE  \A k \in 0 .. n : f[k] \in S
  <1> DEFINE T == Nat \X S
  <1>1. <<0, f[0]>> \in T
    OBVIOUS
  <1>2. \A k \in 1 .. n : <<k - 1, f[k - 1]>> \in T => <<k, f[k]>> \in T
    OBVIOUS
  <1>3. \A k \in 0 .. n : <<k, f[k]>> \in T
    <2> HIDE DEF T
    <2> QED BY <1>1, <1>2, LoopKeeps
  <1> QED BY <1>3

\* The states after each of n turns from a.
IsLoop(f, n, S, a, G) ==
    /\ f = [k \in 0 .. n |-> IF k = 0 THEN a ELSE G[<<k, f[k - 1]>>]]
    /\ \A k \in 0 .. n : f[k] \in S

\* A loop of n turns over a set of states is a function.
LEMMA LoopExists ==
    ASSUME NEW n \in Nat, NEW S, NEW a \in S, NEW G, G \in [(1 .. n) \X S -> S]
    PROVE  \E f : IsLoop(f, n, S, a, G)
  <1>1. PICK f : FollowsFrom(f, n, S, a, G)
    BY RecursionExists
  <1>2. f \in [0 .. n -> S] /\ f[0] = a /\ \A k \in 1 .. n : f[k] = G[<<k, f[k - 1]>>]
    BY <1>1 DEF FollowsFrom
  <1>3. ASSUME NEW k \in 0 .. n PROVE f[k] = IF k = 0 THEN a ELSE G[<<k, f[k - 1]>>]
    <2>1. CASE k = 0
      BY <1>2, <2>1
    <2>2. CASE k # 0
      <3>1. k \in 1 .. n
        BY <2>2
      <3> QED BY <1>2, <2>2, <3>1
    <2> QED BY <2>1, <2>2
  <1>4. f = [k \in 0 .. n |-> IF k = 0 THEN a ELSE G[<<k, f[k - 1]>>]]
    BY <1>2, <1>3
  <1> QED BY <1>2, <1>4 DEF IsLoop

(***************************************************************************)
(* Distances                                                               *)
(***************************************************************************)
Vecs == Seq(Angles \cup {Zero})

\* The rows with a vector.
Real(vs) == {n \in DOMAIN vs : vs[n] # Zero}

\* A finite set of numbers has a greatest.
LEMMA MaxIsGreatest ==
    ASSUME NEW S, IsFiniteSet(S), S \subseteq Nat, S # {}
    PROVE  Max(S) \in S /\ \A x \in S : x <= Max(S)
  <1>1. PICK x \in S : \A y \in S : x >= y
    BY HasGreatest
  <1> QED BY <1>1 DEF Max

\* Any set of numbers has a least.
LEMMA MinIsLeast ==
    ASSUME NEW S, S \subseteq Nat, S # {}
    PROVE  Min(S) \in S /\ \A x \in S : Min(S) <= x
  <1>1. PICK x \in S : \A y \in S : x <= y
    BY LeastExists
  <1> QED BY <1>1 DEF Min

\* A distance is a number, also to a placeholder.
LEMMA DistIsNat ==
    ASSUME NEW vs \in Vecs, NEW n \in DOMAIN vs, NEW v \in Angles
    PROVE  Dist(vs, n, v) \in Nat
  <1>1. Far \in Nat
    <2>1. Max(Angles) \in Nat
      BY AnglesAssumption, MaxIsGreatest
    <2> QED BY <2>1 DEF Far
  <1>2. vs[n] # Zero => vs[n] \in Nat
    <2>1. vs \in Seq(Angles \cup {Zero})
      BY DEF Vecs
    <2>2. vs[n] \in Angles \cup {Zero}
      BY <2>1
    <2> QED BY <2>2, AnglesAssumption
  <1> QED BY <1>1, <1>2, AnglesAssumption DEF Dist, Apart

\* Any two rows are in order.
LEMMA BeforeIsOrder ==
    ASSUME NEW vs \in Vecs, NEW v \in Angles
    PROVE  /\ \A x \in DOMAIN vs : ~Before(vs, v, x, x)
           /\ \A x, y, z \in DOMAIN vs : Before(vs, v, x, y) /\ Before(vs, v, y, z) => Before(vs, v, x, z)
           /\ \A x, y \in DOMAIN vs : x = y \/ Before(vs, v, x, y) \/ Before(vs, v, y, x)
  <1>1. DOMAIN vs \subseteq Nat /\ \A x \in DOMAIN vs : Dist(vs, x, v) \in Nat
    BY DistIsNat DEF Vecs
  <1> QED BY <1>1 DEF Before

\* Of some rows one is the nearest.
LEMMA NearestIsThere ==
    ASSUME NEW vs \in Vecs, NEW v \in Angles, NEW S, S \subseteq DOMAIN vs, S # {}
    PROVE  Nearest(vs, v, S) \in S
  <1> DEFINE D == {Dist(vs, x, v) : x \in S}
             far == CHOOSE d \in D : \A e \in D : d <= e
             T == {x \in S : Dist(vs, x, v) = far}
  <1>1. S \subseteq Nat /\ \A x \in S : Dist(vs, x, v) \in Nat
    BY DistIsNat DEF Vecs
  <1>2. D \subseteq Nat /\ D # {}
    BY <1>1
  <1>3. far \in D /\ \A d \in D : far <= d
    <2> HIDE DEF D
    <2> QED BY <1>2, LeastExists
  <1>4. T # {} /\ T \subseteq Nat
    BY <1>1, <1>3
  <1>5. PICK n \in T : \A m \in T : n <= m
    <2> HIDE DEF T
    <2> QED BY <1>4, LeastExists
  <1>6. ASSUME NEW m \in S \ {n} PROVE Before(vs, v, n, m)
    <2>1. Dist(vs, m, v) \in D /\ Dist(vs, n, v) = far /\ n \in S
      OBVIOUS
    <2>2. far <= Dist(vs, m, v) /\ far \in Nat /\ Dist(vs, m, v) \in Nat
      BY <1>1, <1>2, <1>3, <2>1
    <2>3. CASE Dist(vs, m, v) = far
      <3>1. n <= m /\ n # m /\ n \in Nat /\ m \in Nat
        BY <1>1, <1>5, <2>3
      <3> QED BY <2>1, <2>3, <3>1 DEF Before
    <2>4. CASE Dist(vs, m, v) # far
      BY <2>1, <2>2, <2>4 DEF Before
    <2> QED BY <2>3, <2>4
  <1>7. n \in S
    OBVIOUS
  <1> QED BY <1>6, <1>7 DEF Nearest

\* Sorting returns each row once.
LEMMA SortedFacts ==
    ASSUME NEW vs \in Vecs, NEW v \in Angles, NEW S, S \subseteq DOMAIN vs
    PROVE  /\ Sorted(vs, v, S) \in Seq(S) /\ Range(Sorted(vs, v, S)) = S
           /\ IsInjective(Sorted(vs, v, S))
           /\ Len(Sorted(vs, v, S)) = Cardinality(S)
  <1> DEFINE E == {mn \in S \X S : Before(vs, v, mn[1], mn[2])}
             s == InOrder(S, E)
  <1>1. IsFiniteSet(S)
    <2>1. IsFiniteSet(1 .. Len(vs)) /\ DOMAIN vs = 1 .. Len(vs)
      BY FS_Interval DEF Vecs
    <2> QED BY <2>1, FS_Subset
  <1>2. \A x, y \in S : <<x, y>> \in E <=> Before(vs, v, x, y)
    OBVIOUS
  <1>3. /\ \A x \in S : <<x, x>> \notin E
        /\ \A x, y, z \in S : <<x, y>> \in E /\ <<y, z>> \in E => <<x, z>> \in E
        /\ \A x, y \in S : x = y \/ <<x, y>> \in E \/ <<y, x>> \in E
    <2> HIDE DEF E
    <2> QED BY <1>2, BeforeIsOrder
  <1> HIDE DEF E
  <1>4. /\ DOMAIN s = 1 .. Cardinality(S) /\ Cardinality(S) \in Nat
        /\ \A k \in DOMAIN s : s[k] \in S
        /\ \A i, j \in DOMAIN s : i < j => <<s[i], s[j]>> \in E
        /\ \A x \in S : \E k \in DOMAIN s : s[k] = x
    BY <1>1, <1>3, InOrderFacts
  <1>5. s = [k \in 1 .. Cardinality(S) |-> s[k]]
    BY <1>4 DEF InOrder
  <1>6. s \in Seq(S) /\ Len(s) = Cardinality(S)
    <2> HIDE DEF s
    <2> QED BY <1>4, <1>5
  <1>7. ASSUME NEW i \in DOMAIN s, NEW j \in DOMAIN s, s[i] = s[j] PROVE i = j
    <2>1. ~ (i < j) /\ ~ (j < i)
      BY <1>3, <1>4, <1>7
    <2> QED BY <1>4, <2>1
  <1>8. IsInjective(s) /\ Range(s) = S
    <2> HIDE DEF s
    <2> QED BY <1>4, <1>7 DEF IsInjective, Range
  <1>9. Sorted(vs, v, S) = s
    BY DEF Sorted, E
  <1> QED BY <1>6, <1>8, <1>9

(***************************************************************************)
(* The choice of neighbours                                                *)
(***************************************************************************)
\* The first loop takes places of the list.
LEMMA SpreadFacts ==
    ASSUME NEW vs, NEW v, NEW X, NEW ids \in Seq(X), NEW cap
    PROVE  Spread(vs, v, ids, cap) \subseteq DOMAIN ids
  <1> DEFINE n == Len(ids)
             S == SUBSET (1 .. n)
             Turn(i, sel) == IF /\ Cardinality(sel) < cap
                                /\ \A j \in sel : Dist(vs, ids[j], vs[ids[i]]) >= Dist(vs, ids[i], v)
                             THEN sel \cup {i} ELSE sel
             Eq(f) == f = [i \in 0 .. n |-> IF i = 0 THEN {} ELSE Turn(i, f[i - 1])]
             taken == CHOOSE f : Eq(f)
             G == [x \in (1 .. n) \X S |-> Turn(x[1], x[2])]
  <1>1. n \in Nat /\ DOMAIN ids = 1 .. n
    OBVIOUS
  <1>2. ASSUME NEW i \in 1 .. n, NEW sel \in S PROVE Turn(i, sel) \in S
    OBVIOUS
  <1>3. \E f : Eq(f)
    <2>1. G \in [(1 .. n) \X S -> S]
      <3> HIDE DEF S, Turn, n
      <3> QED BY <1>2
    <2>2. {} \in S
      OBVIOUS
    <2>3. PICK f : IsLoop(f, n, S, {}, G)
      <3> HIDE DEF G, S, n
      <3> QED BY <1>1, <2>1, <2>2, LoopExists
    <2>4. ASSUME NEW i \in 0 .. n, i # 0 PROVE G[<<i, f[i - 1]>>] = Turn(i, f[i - 1])
      <3>1. i \in 1 .. n /\ i - 1 \in 0 .. n
        BY <1>1, <2>4
      <3>2. f[i - 1] \in S
        BY <2>3, <3>1 DEF IsLoop
      <3> HIDE DEF S, Turn, n
      <3> QED BY <3>1, <3>2
    <2> HIDE DEF G, Turn, S, n
    <2>5. f = [i \in 0 .. n |-> IF i = 0 THEN {} ELSE Turn(i, f[i - 1])]
      BY <2>3, <2>4 DEF IsLoop
    <2> QED BY <2>5
  <1>4. Eq(taken)
    <2> HIDE DEF Eq
    <2> QED BY <1>3
  <1>5. \A i \in 0 .. n : taken[i] \in S
    <2> HIDE DEF taken, Turn, S, n
    <2>1. taken[0] = {} /\ {} \in S
      BY <1>1, <1>4 DEF S
    <2>2. ASSUME NEW i \in 1 .. n, taken[i - 1] \in S PROVE taken[i] \in S
      <3>1. i \in 0 .. n /\ i # 0
        BY <1>1
      <3>2. taken[i] = Turn(i, taken[i - 1])
        BY <1>4, <3>1
      <3> QED BY <1>2, <2>2, <3>2
    <2> QED BY <1>1, <2>1, <2>2, LoopStays
  <1>6. Spread(vs, v, ids, cap) = taken[n]
    BY DEF Spread
  <1>7. taken[n] \in S
    <2> HIDE DEF taken, S, n
    <2>1. n \in 0 .. n
      BY <1>1
    <2> QED BY <1>5, <2>1
  <1> HIDE DEF taken
  <1> QED BY <1>6, <1>7

\* A list in another order, or the front of it.
LEMMA SelectFacts ==
    ASSUME NEW vs, NEW v, NEW X, NEW ids \in Seq(X), NEW cap \in Nat
    PROVE  LET sel == SelectNeighbors(vs, v, ids, cap) IN
           /\ sel \in Seq(X) /\ Len(sel) <= cap
           /\ Len(ids) <= cap => sel = ids
           /\ Len(ids) > cap => Len(sel) = cap
           /\ Range(sel) \subseteq Range(ids)
           /\ IsInjective(ids) => IsInjective(sel)
  <1> DEFINE sel == SelectNeighbors(vs, v, ids, cap)
             n == Len(ids)
             spread == Spread(vs, v, ids, cap)
             rest == DOMAIN ids \ spread
             a == Ascending(spread)
             b == Ascending(rest)
             places == a \o b
  <1>1. n \in Nat /\ DOMAIN ids = 1 .. n /\ IsFiniteSet(1 .. n) /\ Cardinality(1 .. n) = n
    <2>1. n \in Nat /\ DOMAIN ids = 1 .. n
      OBVIOUS
    <2> HIDE DEF n
    <2>2. 1 \in Int /\ n \in Int
      BY <2>1
    <2>3. IsFiniteSet(1 .. n) /\ Cardinality(1 .. n) = IF 1 > n THEN 0 ELSE n - 1 + 1
      BY <2>2, FS_Interval
    <2> QED BY <2>1, <2>3
  <1>2. /\ spread \subseteq 1 .. n /\ rest \subseteq 1 .. n
        /\ spread \cup rest = 1 .. n /\ spread \cap rest = {}
    BY <1>1, SpreadFacts
  <1> HIDE DEF spread, rest
  <1>3. /\ IsFiniteSet(spread) /\ IsFiniteSet(rest)
        /\ Cardinality(spread) \in Nat /\ Cardinality(rest) \in Nat
        /\ Cardinality(spread) + Cardinality(rest) = n
    <2>1. IsFiniteSet(spread) /\ IsFiniteSet(rest)
      BY <1>1, <1>2, FS_Subset
    <2>2. Cardinality(spread \cup rest)
            = Cardinality(spread) + Cardinality(rest) - Cardinality(spread \cap rest)
      BY <2>1, FS_Union
    <2>3. Cardinality({}) = 0
      BY FS_EmptySet
    <2>4. Cardinality(spread) \in Nat /\ Cardinality(rest) \in Nat
      BY <2>1, FS_CardinalityType
    <2>5. n = Cardinality(spread) + Cardinality(rest) - 0
      BY <1>1, <1>2, <2>2, <2>3
    <2> HIDE DEF n
    <2> QED BY <2>1, <2>4, <2>5
  <1>4. /\ a \in Seq(spread) /\ Len(a) = Cardinality(spread)
        /\ \A i, j \in DOMAIN a : i < j => a[i] < a[j]
    <2>1. spread \subseteq Nat
      BY <1>2
    <2> QED BY <1>3, <2>1, AscendingFacts
  <1>5. /\ b \in Seq(rest) /\ Len(b) = Cardinality(rest)
        /\ \A i, j \in DOMAIN b : i < j => b[i] < b[j]
    <2>1. rest \subseteq Nat
      BY <1>2
    <2> QED BY <1>3, <2>1, AscendingFacts
  <1> HIDE DEF a, b
  <1>6. /\ places \in Seq(1 .. n) /\ Len(places) = n
        /\ \A i \in 1 .. n : places[i] = IF i <= Len(a) THEN a[i] ELSE b[i - Len(a)]
    <2>1. a \in Seq(1 .. n) /\ b \in Seq(1 .. n)
      BY <1>2, <1>4, <1>5
    <2>2. Len(a) + Len(b) = n
      BY <1>3, <1>4, <1>5
    <2> HIDE DEF n
    <2> QED BY <2>1, <2>2
  <1>7. ASSUME NEW i \in 1 .. n, NEW j \in 1 .. n, i < j PROVE places[i] # places[j]
    <2> DEFINE m == Len(a)
    <2>1. m \in Nat /\ DOMAIN a = 1 .. m /\ DOMAIN b = 1 .. n - m
      BY <1>1, <1>3, <1>4, <1>5
    <2> HIDE DEF n, m, places
    <2>2. CASE j <= m
      <3>1. i \in DOMAIN a /\ j \in DOMAIN a /\ places[i] = a[i] /\ places[j] = a[j]
        BY <1>1, <1>6, <1>7, <2>1, <2>2 DEF m
      <3>2. a[i] < a[j] /\ a[i] \in Nat /\ a[j] \in Nat
        BY SMTT(30), <1>2, <1>4, <1>7, <3>1
      <3> QED BY <3>1, <3>2
    <2>3. CASE i <= m /\ ~ (j <= m)
      <3>1. i \in DOMAIN a /\ j - m \in DOMAIN b /\ places[i] = a[i] /\ places[j] = b[j - m]
        BY <1>1, <1>6, <1>7, <2>1, <2>3 DEF m
      <3>2. a[i] \in spread /\ b[j - m] \in rest
        BY <1>4, <1>5, <3>1
      <3> QED BY <1>2, <3>1, <3>2
    <2>4. CASE ~ (i <= m)
      <3>1. i - m \in DOMAIN b /\ j - m \in DOMAIN b /\ i - m < j - m
            /\ places[i] = b[i - m] /\ places[j] = b[j - m]
        BY <1>1, <1>6, <1>7, <2>1, <2>4 DEF m
      <3>2. b[i - m] < b[j - m] /\ b[i - m] \in Nat /\ b[j - m] \in Nat
        BY <1>2, <1>5, <3>1
      <3> QED BY <3>1, <3>2
    <2> QED BY <2>2, <2>3, <2>4
  <1> HIDE DEF places
  <1>8. sel = IF n <= cap THEN ids ELSE [k \in 1 .. cap |-> ids[places[k]]]
    BY DEF SelectNeighbors, places, a, b, rest, spread
  <1> HIDE DEF sel
  <1>9. CASE n <= cap
    BY <1>1, <1>8, <1>9 DEF sel
  <1>10. CASE ~ (n <= cap)
    <2>1. sel = [k \in 1 .. cap |-> ids[places[k]]]
      BY <1>8, <1>10
    <2>2. \A k \in 1 .. cap : k \in 1 .. n
      BY <1>1, <1>10
    <2>3. \A k \in 1 .. cap : places[k] \in DOMAIN ids
      BY <1>1, <1>6, <2>2
    <2>4. sel \in Seq(X) /\ Len(sel) = cap /\ DOMAIN sel = 1 .. cap
      BY <2>1, <2>3
    <2>5. Range(sel) \subseteq Range(ids)
      BY <2>1, <2>3 DEF Range
    <2>6. ASSUME IsInjective(ids) PROVE IsInjective(sel)
      <3>1. ASSUME NEW i \in DOMAIN sel, NEW j \in DOMAIN sel, sel[i] = sel[j] PROVE i = j
        <4>1. places[i] = places[j]
          BY <2>1, <2>3, <2>4, <2>6, <3>1 DEF IsInjective
        <4>2. ~ (i < j) /\ ~ (j < i)
          BY <1>7, <2>2, <2>4, <4>1
        <4> QED BY <2>4, <4>2
      <3> QED BY <3>1 DEF IsInjective
    <2> QED BY <1>1, <1>10, <2>4, <2>5, <2>6 DEF sel
  <1> QED BY <1>9, <1>10

\* The list of a node by distance has the same rows, without placeholders.
LEMMA ByDistanceFacts ==
    ASSUME NEW vs \in Vecs, NEW v \in Angles, NEW list \in Seq(DOMAIN vs)
    PROVE  LET s == ByDistance(vs, v, list) IN
           /\ s \in Seq(DOMAIN vs) /\ Len(s) <= Len(list)
           /\ Range(s) = Range(list) \cap Real(vs)
           /\ IsInjective(list) => IsInjective(s)
  <1> DEFINE s == ByDistance(vs, v, list)
             real == {i \in DOMAIN list : vs[list[i]] # Zero}
             P(i, j) == \/ Before(vs, v, list[i], list[j])
                        \/ list[i] = list[j] /\ i < j
             E == {ij \in real \X real : P(ij[1], ij[2])}
             places == InOrder(real, E)
             n == Len(list)
  <1>1. n \in Nat /\ DOMAIN list = 1 .. n /\ \A i \in 1 .. n : list[i] \in DOMAIN vs
    OBVIOUS
  <1>2. real \subseteq 1 .. n /\ IsFiniteSet(real) /\ Cardinality(real) <= n
    <2>1. real \subseteq 1 .. n
      BY <1>1
    <2> HIDE DEF real, n
    <2>2. 1 \in Int /\ n \in Int
      BY <1>1
    <2>3. IsFiniteSet(1 .. n) /\ Cardinality(1 .. n) = IF 1 > n THEN 0 ELSE n - 1 + 1
      BY <2>2, FS_Interval
    <2>4. IsFiniteSet(real) /\ Cardinality(real) <= Cardinality(1 .. n)
      BY <2>1, <2>3, FS_Subset
    <2> QED BY <1>1, <2>1, <2>3, <2>4
  <1>3. ASSUME NEW i \in real, NEW j \in real PROVE <<i, j>> \in E <=> P(i, j)
    <2> HIDE DEF real, P
    <2> QED OBVIOUS
  <1>4. \A i \in real : list[i] \in DOMAIN vs /\ i \in Nat
    BY <1>1, <1>2
  <1>5. \A i \in real : vs[list[i]] # Zero
    OBVIOUS
  <1>6. \A i \in 1 .. n : vs[list[i]] # Zero => i \in real
    BY <1>1
  <1> HIDE DEF E, real
  <1>7. \A x \in real : <<x, x>> \notin E
    BY <1>3, <1>4, BeforeIsOrder
  <1>8. \A x, y, z \in real : <<x, y>> \in E /\ <<y, z>> \in E => <<x, z>> \in E
    <2> SUFFICES ASSUME NEW x \in real, NEW y \in real, NEW z \in real, <<x, y>> \in E, <<y, z>> \in E
                 PROVE  <<x, z>> \in E
      OBVIOUS
    <2> DEFINE a == list[x]
               b == list[y]
               c == list[z]
    <2>1. a \in DOMAIN vs /\ b \in DOMAIN vs /\ c \in DOMAIN vs
      BY <1>4
    <2>2. (Before(vs, v, a, b) \/ (a = b /\ x < y)) /\ (Before(vs, v, b, c) \/ (b = c /\ y < z))
      BY <1>3
    <2> HIDE DEF a, b, c
    <2>3. Before(vs, v, a, b) /\ Before(vs, v, b, c) => Before(vs, v, a, c)
      BY <2>1, BeforeIsOrder
    <2>4. x < y /\ y < z => x < z
      BY <1>4
    <2>5. Before(vs, v, a, c) \/ (a = c /\ x < z)
      BY <2>2, <2>3, <2>4
    <2>6. P(x, z)
      BY <2>5 DEF a, c
    <2> HIDE DEF P
    <2> QED BY <1>3, <2>6
  <1>9. \A x, y \in real : x = y \/ <<x, y>> \in E \/ <<y, x>> \in E
    <2> SUFFICES ASSUME NEW x \in real, NEW y \in real, x # y PROVE <<x, y>> \in E \/ <<y, x>> \in E
      OBVIOUS
    <2>1. list[x] = list[y] \/ Before(vs, v, list[x], list[y]) \/ Before(vs, v, list[y], list[x])
      BY <1>4, BeforeIsOrder
    <2>2. x < y \/ y < x
      BY <1>4
    <2>3. P(x, y) \/ P(y, x)
      BY <2>1, <2>2
    <2> HIDE DEF P
    <2> QED BY <1>3, <2>3
  <1>10. /\ DOMAIN places = 1 .. Cardinality(real) /\ Cardinality(real) \in Nat
         /\ \A k \in DOMAIN places : places[k] \in real
         /\ \A i, j \in DOMAIN places : i < j => <<places[i], places[j]>> \in E
         /\ \A x \in real : \E k \in DOMAIN places : places[k] = x
    <2>1. IsFiniteSet(real)
      BY <1>2
    <2> HIDE DEF P, places, s, n
    <2>2. PICK R, F : R = real /\ F = E
      OBVIOUS
    <2>3. /\ IsFiniteSet(R)
          /\ \A x \in R : <<x, x>> \notin F
          /\ \A x, y, z \in R : <<x, y>> \in F /\ <<y, z>> \in F => <<x, z>> \in F
          /\ \A x, y \in R : x = y \/ <<x, y>> \in F \/ <<y, x>> \in F
      BY <2>1, <2>2, <1>7, <1>8, <1>9
    <2>4. /\ DOMAIN InOrder(R, F) = 1 .. Cardinality(R) /\ Cardinality(R) \in Nat
          /\ \A k \in DOMAIN InOrder(R, F) : InOrder(R, F)[k] \in R
          /\ \A i, j \in DOMAIN InOrder(R, F) : i < j => <<InOrder(R, F)[i], InOrder(R, F)[j]>> \in F
          /\ \A x \in R : \E k \in DOMAIN InOrder(R, F) : InOrder(R, F)[k] = x
      BY SMTT(30), <2>3, InOrderFacts
    <2>5. InOrder(R, F) = places
      BY <2>2 DEF places
    <2> QED BY <2>2, <2>4, <2>5
  <1> HIDE DEF places
  <1>11. s = [k \in DOMAIN places |-> list[places[k]]]
    BY DEF ByDistance, places, E, real
  <1> HIDE DEF s
  <1>12. s \in Seq(DOMAIN vs) /\ Len(s) = Cardinality(real) /\ DOMAIN s = DOMAIN places
    <2>1. \A k \in DOMAIN places : list[places[k]] \in DOMAIN vs
      BY <1>4, <1>10
    <2> QED BY <1>10, <1>11, <2>1
  <1>13. Range(s) = Range(list) \cap Real(vs)
    <2>1. ASSUME NEW x \in Range(s) PROVE x \in Range(list) \cap Real(vs)
      <3>1. PICK k \in DOMAIN places : x = list[places[k]]
        BY <1>11 DEF Range
      <3>2. places[k] \in real
        BY <1>10
      <3> QED BY <1>1, <1>2, <1>4, <1>5, <3>1, <3>2 DEF Range, Real
    <2>2. ASSUME NEW x \in Range(list), x \in Real(vs) PROVE x \in Range(s)
      <3>1. PICK i \in 1 .. n : x = list[i]
        BY <1>1 DEF Range
      <3>2. i \in real
        BY <1>6, <2>2, <3>1 DEF Real
      <3>3. PICK k \in DOMAIN places : places[k] = i
        BY <1>10, <3>2
      <3> QED BY <1>11, <3>1, <3>3 DEF Range
    <2> QED BY <2>1, <2>2
  <1>14. ASSUME IsInjective(list) PROVE IsInjective(s)
    <2>1. ASSUME NEW i \in DOMAIN places, NEW j \in DOMAIN places, s[i] = s[j] PROVE i = j
      <3>1. places[i] \in real /\ places[j] \in real
        BY <1>10
      <3>2. places[i] = places[j]
        BY <1>1, <1>2, <1>11, <1>14, <2>1, <3>1 DEF IsInjective
      <3>3. ~ (i < j) /\ ~ (j < i)
        BY <1>7, <1>10, <3>1, <3>2
      <3> QED BY <1>10, <3>3
    <2> QED BY <1>12, <2>1 DEF IsInjective
  <1>15. Len(s) <= Len(list)
    BY <1>2, <1>12
  <1> QED BY <1>12, <1>13, <1>14, <1>15 DEF s

(***************************************************************************)
(* Links                                                                   *)
(***************************************************************************)
\* Neighbour lists that fit their slots and have no node twice.
Graphs(vs) ==
    {g \in [DOMAIN vs -> [Layers -> Seq(DOMAIN vs)]] :
        \A m \in DOMAIN vs, l \in Layers : Len(g[m][l]) <= Capacity(l) /\ IsInjective(g[m][l])}

\* Every list has room for one.
LEMMA CapacityIsPositive == \A l \in Layers : Capacity(l) \in Nat /\ Capacity(l) >= 1
  BY HnswAssumption DEF Capacity

\* A node is pushed once.
LEMMA PushFacts ==
    ASSUME NEW X, NEW ids \in Seq(X), NEW new \in X
    PROVE  /\ Push(ids, new) \in Seq(X) /\ Range(Push(ids, new)) = Range(ids) \cup {new}
           /\ Len(Push(ids, new)) <= Len(ids) + 1
           /\ new \in Range(ids) => Push(ids, new) = ids
           /\ IsInjective(ids) => IsInjective(Push(ids, new))
  <1>1. CASE new \in Range(ids)
    <2>1. Push(ids, new) = ids
      BY <1>1 DEF Push
    <2>2. Len(ids) \in Nat
      OBVIOUS
    <2> QED BY <1>1, <2>1, <2>2
  <1>2. CASE new \notin Range(ids)
    <2> DEFINE p == Append(ids, new)
               n == Len(ids)
    <2>1. Push(ids, new) = p
      BY <1>2 DEF Push
    <2>2. /\ n \in Nat /\ DOMAIN ids = 1 .. n /\ p \in Seq(X) /\ Len(p) = n + 1 /\ DOMAIN p = 1 .. n + 1
          /\ p[n + 1] = new /\ \A i \in 1 .. n : p[i] = ids[i]
      OBVIOUS
    <2> HIDE DEF p, n
    <2>3. \A i \in 1 .. n + 1 : i \in 1 .. n \/ i = n + 1
      BY <2>2
    <2>4. \A i \in 1 .. n : i \in 1 .. n + 1
      BY <2>2
    <2>5. n + 1 \in 1 .. n + 1
      BY <2>2
    <2>6. Range(p) = Range(ids) \cup {new}
      <3>1. ASSUME NEW x \in Range(p) PROVE x \in Range(ids) \cup {new}
        BY <2>2, <2>3 DEF Range
      <3>2. ASSUME NEW x \in Range(ids) PROVE x \in Range(p)
        BY <2>2, <2>4 DEF Range
      <3>3. new \in Range(p)
        BY <2>2, <2>5 DEF Range
      <3> QED BY <3>1, <3>2, <3>3
    <2>7. ASSUME IsInjective(ids) PROVE IsInjective(p)
      <3>1. \A i \in 1 .. n : ids[i] # new
        BY <1>2, <2>2 DEF Range
      <3>2. ASSUME NEW i \in 1 .. n + 1, NEW j \in 1 .. n + 1, p[i] = p[j] PROVE i = j
        BY <2>2, <2>3, <2>7, <3>1, <3>2 DEF IsInjective
      <3> QED BY <2>2, <3>2 DEF IsInjective
    <2> QED BY <1>2, <2>1, <2>2, <2>6, <2>7 DEF n
  <1> QED BY <1>1, <1>2

\* add_link changes one list: to rows of it and the new one, none of them a placeholder,
\* and to all of them if there is room.
LEMMA AddLinkFacts ==
    ASSUME NEW vs \in Vecs, NEW g \in Graphs(vs), NEW id \in Real(vs), NEW new \in Real(vs),
           NEW layer \in Layers
    PROVE  LET h == AddLink(g, vs, id, layer, new) IN
           /\ h \in Graphs(vs)
           /\ \A m \in DOMAIN vs, l \in Layers : m # id \/ l # layer => h[m][l] = g[m][l]
           /\ Range(h[id][layer]) \subseteq (Range(g[id][layer]) \cup {new}) \cap Real(vs)
           /\ (new \in Range(g[id][layer]) \/ Len(g[id][layer]) < Capacity(layer)) =>
                 (Range(g[id][layer]) \cup {new}) \cap Real(vs) \subseteq Range(h[id][layer])
  <1> DEFINE h == AddLink(g, vs, id, layer, new)
             list == g[id][layer]
             pushed == Push(list, new)
             ids == ByDistance(vs, vs[id], pushed)
             cap == Capacity(layer)
             sel == SelectNeighbors(vs, vs[id], ids, cap)
  <1>1. /\ id \in DOMAIN vs /\ new \in DOMAIN vs /\ vs[id] \in Angles
        /\ list \in Seq(DOMAIN vs) /\ Len(list) <= cap /\ IsInjective(list)
        /\ g \in [DOMAIN vs -> [Layers -> Seq(DOMAIN vs)]]
    BY DEF Graphs, Real, Vecs
  <1>2. cap \in Nat
    BY CapacityIsPositive
  <1> HIDE DEF list, cap
  <1>3. /\ pushed \in Seq(DOMAIN vs) /\ Range(pushed) = Range(list) \cup {new}
        /\ Len(pushed) <= Len(list) + 1 /\ (new \in Range(list) => pushed = list)
        /\ IsInjective(pushed)
    BY <1>1, PushFacts
  <1> HIDE DEF pushed
  <1>4. /\ ids \in Seq(DOMAIN vs) /\ Len(ids) <= Len(pushed) /\ Range(ids) = Range(pushed) \cap Real(vs)
        /\ IsInjective(ids)
    BY <1>1, <1>3, ByDistanceFacts
  <1> HIDE DEF ids
  <1>5. /\ sel \in Seq(DOMAIN vs) /\ Len(sel) <= cap /\ (Len(ids) <= cap => sel = ids)
        /\ Range(sel) \subseteq Range(ids) /\ IsInjective(sel)
    BY <1>2, <1>4, SelectFacts
  <1> HIDE DEF sel
  <1>6. h = [g EXCEPT ![id][layer] = sel]
    BY DEF AddLink, sel, ids, pushed, list, cap
  <1> HIDE DEF h
  <1>7. h \in [DOMAIN vs -> [Layers -> Seq(DOMAIN vs)]] /\ h[id][layer] = sel
    BY <1>1, <1>5, <1>6
  <1>8. \A m \in DOMAIN vs, l \in Layers : m # id \/ l # layer => h[m][l] = g[m][l]
    BY <1>1, <1>6
  <1>9. h \in Graphs(vs)
    <2>1. ASSUME NEW m \in DOMAIN vs, NEW l \in Layers
          PROVE  Len(h[m][l]) <= Capacity(l) /\ IsInjective(h[m][l])
      <3>1. CASE m = id /\ l = layer
        BY <1>5, <1>7, <3>1 DEF cap
      <3>2. CASE m # id \/ l # layer
        BY <1>8, <3>2 DEF Graphs
      <3> QED BY <3>1, <3>2
    <2> QED BY <1>7, <2>1 DEF Graphs
  <1>10. Range(h[id][layer]) \subseteq (Range(list) \cup {new}) \cap Real(vs)
    BY <1>3, <1>4, <1>5, <1>7
  <1>11. ASSUME new \in Range(list) \/ Len(list) < cap
         PROVE  (Range(list) \cup {new}) \cap Real(vs) \subseteq Range(h[id][layer])
    <2>1. Len(pushed) \in Nat /\ Len(list) \in Nat /\ Len(ids) \in Nat
      BY <1>1, <1>3, <1>4
    <2>2. Len(ids) <= cap
      BY <1>1, <1>2, <1>3, <1>4, <1>11, <2>1
    <2> QED BY <1>3, <1>4, <1>5, <1>7, <2>2
  <1> QED BY <1>8, <1>9, <1>10, <1>11 DEF h, list, cap

(***************************************************************************)
(* Walks stay among the rows whose lists lead to each other                *)
(***************************************************************************)
Closed(g, P, layer) == \A m \in P : Range(g[m][layer]) \subseteq P

\* A turn of the greedy walk goes to a neighbour with a vector that is nearer, or stays.
LEMMA CloserStays ==
    ASSUME NEW vs \in Vecs, NEW v \in Angles, NEW g \in Graphs(vs), NEW layer \in Layers, NEW skip,
           NEW P, P \subseteq DOMAIN vs, Closed(g, P, layer), NEW ep \in P
    PROVE  /\ Closer(g, vs, v, layer, skip, ep) \in P
           /\ Closer(g, vs, v, layer, skip, ep) \in {ep} \cup Real(vs)
           /\ \/ Closer(g, vs, v, layer, skip, ep) = ep
              \/ Dist(vs, Closer(g, vs, v, layer, skip, ep), v) < Dist(vs, ep, v)
  <1> DEFINE list == g[ep][layer]
             dist(i) == Dist(vs, list[i], v)
             nearer == {i \in DOMAIN list :
                           list[i] \notin skip /\ vs[list[i]] # Zero /\ dist(i) < Dist(vs, ep, v)}
             first == CHOOSE i \in nearer :
                          \A j \in nearer : dist(i) < dist(j) \/ (dist(i) = dist(j) /\ i <= j)
  <1>1. /\ list \in Seq(DOMAIN vs)
        /\ DOMAIN list \subseteq Nat /\ \A i \in DOMAIN list : list[i] \in DOMAIN vs /\ list[i] \in P
    BY DEF Graphs, Closed, Range
  <1> HIDE DEF list
  <1>2. nearer \subseteq Nat /\ nearer \subseteq DOMAIN list /\ \A i \in nearer : vs[list[i]] # Zero
    BY <1>1
  <1>3. \A i \in nearer : dist(i) \in Nat
    BY <1>1, DistIsNat
  <1>6. \A i \in nearer : Dist(vs, list[i], v) < Dist(vs, ep, v)
    OBVIOUS
  <1> HIDE DEF nearer, dist
  <1>4. ASSUME nearer # {} PROVE first \in nearer
    <2> DEFINE D == {dist(i) : i \in nearer}
    <2>1. D \subseteq Nat /\ D # {}
      BY <1>3, <1>4
    <2>2. PICK d \in D : \A e \in D : d <= e
      <3> HIDE DEF D
      <3> QED BY <2>1, LeastExists
    <2> DEFINE T == {i \in nearer : dist(i) = d}
    <2>3. T \subseteq Nat /\ T # {}
      BY <1>2
    <2>4. PICK i \in T : \A j \in T : i <= j
      <3> HIDE DEF T
      <3> QED BY <2>3, LeastExists
    <2>5. ASSUME NEW j \in nearer PROVE dist(i) < dist(j) \/ (dist(i) = dist(j) /\ i <= j)
      <3>1. d <= dist(j) /\ dist(i) = d /\ d \in Nat /\ dist(j) \in Nat
        BY <1>3, <2>1, <2>2
      <3>2. dist(j) = d => i <= j
        BY <2>4
      <3> QED BY <3>1, <3>2
    <2>6. i \in nearer
      OBVIOUS
    <2> QED BY <2>5, <2>6
  <1>5. Closer(g, vs, v, layer, skip, ep) = IF nearer = {} THEN ep ELSE list[first]
    BY DEF Closer, nearer, dist, list
  <1> HIDE DEF first
  <1> QED BY <1>1, <1>2, <1>4, <1>5, <1>6 DEF Real

\* The equation of the greedy walk in one layer.
DescendLoop(f, g, vs, v, layer, skip, ep) ==
    f = [k \in 0 .. Len(vs) |-> IF k = 0 THEN ep ELSE Closer(g, vs, v, layer, skip, f[k - 1])]

\* The greedy walk is what Descend computes.
LEMMA DescendLoopExists ==
    ASSUME NEW vs \in Vecs, NEW v \in Angles, NEW g \in Graphs(vs), NEW layer \in Layers, NEW skip,
           NEW P, P \subseteq DOMAIN vs, Closed(g, P, layer), NEW ep \in P
    PROVE  \E f : DescendLoop(f, g, vs, v, layer, skip, ep) /\ Descend(g, vs, v, layer, skip, ep) = f[Len(vs)]
  <1> DEFINE n == Len(vs)
             Turn(e) == Closer(g, vs, v, layer, skip, e)
             Eq(f) == f = [k \in 0 .. n |-> IF k = 0 THEN ep ELSE Turn(f[k - 1])]
             at == CHOOSE f : Eq(f)
             G == [x \in (1 .. n) \X P |-> Turn(x[2])]
  <1>1. n \in Nat
    BY DEF Vecs
  <1>2. ASSUME NEW e \in P PROVE Turn(e) \in P
    BY CloserStays
  <1>3. Descend(g, vs, v, layer, skip, ep) = at[n]
    BY DEF Descend
  <1>4. \A f : DescendLoop(f, g, vs, v, layer, skip, ep) <=> Eq(f)
    BY DEF DescendLoop
  <1> HIDE DEF Turn, n
  <1>5. \E f : Eq(f)
    <2>1. G \in [(1 .. n) \X P -> P]
      BY <1>2
    <2>2. PICK f : IsLoop(f, n, P, ep, G)
      <3> HIDE DEF G
      <3> QED BY <1>1, <2>1, LoopExists
    <2>3. ASSUME NEW k \in 0 .. n, k # 0 PROVE G[<<k, f[k - 1]>>] = Turn(f[k - 1])
      <3>1. k \in 1 .. n /\ k - 1 \in 0 .. n
        BY <1>1, <2>3
      <3>2. f[k - 1] \in P
        BY <2>2, <3>1 DEF IsLoop
      <3> QED BY <3>1, <3>2
    <2> HIDE DEF G
    <2>4. f = [k \in 0 .. n |-> IF k = 0 THEN ep ELSE Turn(f[k - 1])]
      BY <2>2, <2>3 DEF IsLoop
    <2> QED BY <2>4
  <1>6. Eq(at)
    <2> HIDE DEF Eq
    <2> QED BY <1>5
  <1> HIDE DEF Eq, at
  <1> QED BY <1>3, <1>4, <1>6 DEF n

\* The greedy walk in one layer stays, or goes to rows with vectors.
LEMMA DescendStays ==
    ASSUME NEW vs \in Vecs, NEW v \in Angles, NEW g \in Graphs(vs), NEW layer \in Layers, NEW skip,
           NEW P, P \subseteq DOMAIN vs, Closed(g, P, layer), NEW ep \in P
    PROVE  Descend(g, vs, v, layer, skip, ep) \in {e \in P : e \in {ep} \cup Real(vs)}
  <1> DEFINE n == Len(vs)
             S == {e \in P : e \in {ep} \cup Real(vs)}
             Turn(e) == Closer(g, vs, v, layer, skip, e)
  <1>1. PICK at : /\ DescendLoop(at, g, vs, v, layer, skip, ep)
                  /\ Descend(g, vs, v, layer, skip, ep) = at[n]
    BY DescendLoopExists
  <1>2. at = [k \in 0 .. n |-> IF k = 0 THEN ep ELSE Turn(at[k - 1])]
    BY <1>1 DEF DescendLoop
  <1>3. n \in Nat /\ ep \in S
    BY DEF Vecs
  <1>4. ASSUME NEW e \in S PROVE Turn(e) \in S
    <2>1. e \in P
      OBVIOUS
    <2>2. Turn(e) \in P /\ Turn(e) \in {e} \cup Real(vs)
      BY <2>1, CloserStays
    <2> HIDE DEF Turn
    <2> QED BY <2>2
  <1> HIDE DEF Turn, S, n
  <1>5. at[0] = ep /\ \A k \in 1 .. n : at[k] = Turn(at[k - 1])
    <2>1. 0 \in 0 .. n /\ \A k \in 1 .. n : k \in 0 .. n /\ k # 0
      BY <1>3
    <2> QED BY <1>2, <2>1
  <1>6. \A k \in 1 .. n : at[k - 1] \in S => at[k] \in S
    BY <1>4, <1>5
  <1>7. \A k \in 0 .. n : at[k] \in S
    BY <1>3, <1>5, <1>6, LoopStays
  <1>8. n \in 0 .. n
    BY <1>3
  <1> QED BY <1>1, <1>7, <1>8 DEF S

\* ... and through the layers.
LEMMA DescendToStays ==
    ASSUME NEW vs \in Vecs, NEW v \in Angles, NEW g \in Graphs(vs), NEW high \in Layers,
           NEW low \in Nat \ {0}, NEW skip,
           NEW P, P \subseteq DOMAIN vs, \A l \in Layers : Closed(g, P, l), NEW ep \in P
    PROVE  DescendTo(g, vs, v, low, high, skip, ep) \in {e \in P : e \in {ep} \cup Real(vs)}
  <1> DEFINE S == {e \in P : e \in {ep} \cup Real(vs)}
             Turn(k, e) == Descend(g, vs, v, high + 1 - k, skip, e)
             Eq(f) == f = [k \in 0 .. high |-> IF k = 0 THEN ep ELSE Turn(k, f[k - 1])]
             at == CHOOSE f : Eq(f)
             G == [x \in (1 .. high) \X S |-> Turn(x[1], x[2])]
  <1>1. high \in Nat /\ ep \in S /\ \A k \in 1 .. high : high + 1 - k \in Layers
    BY HnswAssumption DEF Layers
  <1>2. ASSUME NEW k \in 1 .. high, NEW e \in S PROVE Turn(k, e) \in S
    <2>1. e \in P /\ high + 1 - k \in Layers /\ Closed(g, P, high + 1 - k)
      BY <1>1
    <2>2. Turn(k, e) \in {x \in P : x \in {e} \cup Real(vs)}
      BY <2>1, DescendStays
    <2> HIDE DEF Turn
    <2> QED BY <2>2
  <1> HIDE DEF Turn, S
  <1>3. \E f : Eq(f)
    <2>1. G \in [(1 .. high) \X S -> S]
      BY <1>2
    <2>2. PICK f : IsLoop(f, high, S, ep, G)
      <3> HIDE DEF G
      <3> QED BY <1>1, <2>1, LoopExists
    <2>3. ASSUME NEW k \in 0 .. high, k # 0 PROVE G[<<k, f[k - 1]>>] = Turn(k, f[k - 1])
      <3>1. k \in 1 .. high /\ k - 1 \in 0 .. high
        BY <1>1, <2>3
      <3>2. f[k - 1] \in S
        BY <2>2, <3>1 DEF IsLoop
      <3> QED BY <3>1, <3>2
    <2> HIDE DEF G
    <2>4. f = [k \in 0 .. high |-> IF k = 0 THEN ep ELSE Turn(k, f[k - 1])]
      BY <2>2, <2>3 DEF IsLoop
    <2> QED BY <2>4
  <1>4. Eq(at)
    <2> HIDE DEF Eq
    <2> QED BY <1>3
  <1>5. DescendTo(g, vs, v, low, high, skip, ep) = IF high < low THEN ep ELSE at[high + 1 - low]
    BY DEF DescendTo, Turn
  <1> HIDE DEF at
  <1>6. \A k \in 0 .. high : at[k] \in S
    <2>1. at[0] = ep
      BY <1>1, <1>4
    <2>2. \A k \in 1 .. high : k \in 0 .. high /\ k # 0
      BY <1>1
    <2>3. \A k \in 1 .. high : at[k - 1] \in S => at[k] \in S
      BY <1>2, <1>4, <2>2
    <2> QED BY <1>1, <2>1, <2>3, LoopStays
  <1>7. ~ (high < low) => high + 1 - low \in 0 .. high
    BY <1>1
  <1> QED BY <1>1, <1>5, <1>6, <1>7 DEF S

\* Where a walk of search_layer has been, may go, and what it has found.
Walks(P, R, dead) ==
    {w \in [visited : SUBSET P, cand : SUBSET P, res : SUBSET P] :
        w.cand \subseteq w.visited /\ w.res \subseteq w.visited /\ w.res \subseteq R \ dead}

\* A neighbour is visited once, and what is found does not vanish.
LEMMA VisitFacts ==
    ASSUME NEW vs \in Vecs, NEW v, NEW ef \in Nat \ {0}, NEW dead,
           NEW P, P \subseteq DOMAIN vs, NEW w \in Walks(P, Real(vs), dead), NEW n \in P
    PROVE  /\ Visit(vs, v, ef, dead, w, n) \in Walks(P, Real(vs), dead)
           /\ w.res # {} => Visit(vs, v, ef, dead, w, n).res # {}
  <1> DEFINE u == Visit(vs, v, ef, dead, w, n)
             far == Farthest(vs, v, w.res \cup {n})
             res == IF n \in dead THEN w.res
                    ELSE IF ~Full(ef, w) THEN w.res \cup {n}
                    ELSE (w.res \cup {n}) \ {far}
  <1>1. /\ w \in [visited : SUBSET P, cand : SUBSET P, res : SUBSET P]
        /\ w.cand \subseteq w.visited /\ w.res \subseteq w.visited /\ w.res \subseteq Real(vs) \ dead
    BY DEF Walks
  <1>2. CASE n \in w.visited
    <2>1. u = w
      BY <1>2 DEF Visit
    <2> QED BY <2>1
  <1>3. CASE n \notin w.visited /\ (vs[n] = Zero \/ (Full(ef, w) /\ Dist(vs, n, v) >= Worst(vs, v, w)))
    <2>1. u = [w EXCEPT !.visited = @ \cup {n}]
      BY <1>3 DEF Visit
    <2>2. u \in [visited : SUBSET P, cand : SUBSET P, res : SUBSET P]
          /\ u.visited = w.visited \cup {n} /\ u.cand = w.cand /\ u.res = w.res
      BY <1>1, <2>1
    <2> HIDE DEF u
    <2> QED BY <1>1, <2>2 DEF Walks, u
  <1>4. CASE n \notin w.visited /\ ~(vs[n] = Zero \/ (Full(ef, w) /\ Dist(vs, n, v) >= Worst(vs, v, w)))
    <2>1. u = [visited |-> w.visited \cup {n}, cand |-> w.cand \cup {n}, res |-> res]
      BY <1>4 DEF Visit
    <2> HIDE DEF far
    <2>2. n \in Real(vs)
      BY <1>4 DEF Real
    <2>3. /\ res \subseteq P /\ res \subseteq w.visited \cup {n} /\ res \subseteq Real(vs) \ dead
      BY <1>1, <2>2
    <2>4. w.res # {} => res # {}
      BY <1>1, <1>4
    <2> HIDE DEF res
    <2>5. u \in [visited : SUBSET P, cand : SUBSET P, res : SUBSET P]
          /\ u.visited = w.visited \cup {n} /\ u.cand = w.cand \cup {n} /\ u.res = res
      BY <1>1, <2>1, <2>3
    <2> HIDE DEF u
    <2>6. u \in Walks(P, Real(vs), dead)
      BY <1>1, <2>3, <2>5 DEF Walks
    <2> QED BY <2>4, <2>5, <2>6 DEF u
  <1> QED BY <1>2, <1>3, <1>4

\* The equation of the inner loop of search_layer.
VisitLoop(f, vs, v, ef, dead, w, list) ==
    f = [i \in 0 .. Len(list) |-> IF i = 0 THEN w ELSE Visit(vs, v, ef, dead, f[i - 1], list[i])]

\* The inner loop is what VisitAll computes.
LEMMA VisitLoopExists ==
    ASSUME NEW vs \in Vecs, NEW v, NEW ef \in Nat \ {0}, NEW dead,
           NEW P, P \subseteq DOMAIN vs, NEW w \in Walks(P, Real(vs), dead), NEW list \in Seq(P)
    PROVE  \E f : VisitLoop(f, vs, v, ef, dead, w, list) /\ VisitAll(vs, v, ef, dead, w, list) = f[Len(list)]
  <1> DEFINE n == Len(list)
             S == Walks(P, Real(vs), dead)
             Turn(i, x) == Visit(vs, v, ef, dead, x, list[i])
             Eq(f) == f = [i \in 0 .. n |-> IF i = 0 THEN w ELSE Turn(i, f[i - 1])]
             at == CHOOSE f : Eq(f)
             G == [x \in (1 .. n) \X S |-> Turn(x[1], x[2])]
  <1>1. n \in Nat /\ w \in S
    OBVIOUS
  <1>2. ASSUME NEW i \in 1 .. n, NEW x \in S PROVE Turn(i, x) \in S
    <2>1. list[i] \in P
      OBVIOUS
    <2> HIDE DEF n
    <2> QED BY <2>1, VisitFacts
  <1>3. VisitAll(vs, v, ef, dead, w, list) = at[n]
    BY DEF VisitAll
  <1>4. \A f : VisitLoop(f, vs, v, ef, dead, w, list) <=> Eq(f)
    BY DEF VisitLoop
  <1> HIDE DEF Turn, S, n
  <1>5. \E f : Eq(f)
    <2>1. G \in [(1 .. n) \X S -> S]
      BY <1>2
    <2>2. PICK f : IsLoop(f, n, S, w, G)
      <3> HIDE DEF G
      <3> QED BY <1>1, <2>1, LoopExists
    <2>3. ASSUME NEW k \in 0 .. n, k # 0 PROVE G[<<k, f[k - 1]>>] = Turn(k, f[k - 1])
      <3>1. k \in 1 .. n /\ k - 1 \in 0 .. n
        BY <1>1, <2>3
      <3>2. f[k - 1] \in S
        BY <2>2, <3>1 DEF IsLoop
      <3> QED BY <3>1, <3>2
    <2> HIDE DEF G
    <2>4. f = [k \in 0 .. n |-> IF k = 0 THEN w ELSE Turn(k, f[k - 1])]
      BY <2>2, <2>3 DEF IsLoop
    <2> QED BY <2>4
  <1>6. Eq(at)
    <2> HIDE DEF Eq
    <2> QED BY <1>5
  <1> HIDE DEF Eq, at
  <1> QED BY <1>3, <1>4, <1>6 DEF n

\* All neighbours of a candidate.
LEMMA VisitAllFacts ==
    ASSUME NEW vs \in Vecs, NEW v, NEW ef \in Nat \ {0}, NEW dead,
           NEW P, P \subseteq DOMAIN vs, NEW w \in Walks(P, Real(vs), dead), NEW list \in Seq(P)
    PROVE  /\ VisitAll(vs, v, ef, dead, w, list) \in Walks(P, Real(vs), dead)
           /\ w.res # {} => VisitAll(vs, v, ef, dead, w, list).res # {}
  <1> DEFINE n == Len(list)
             S == {x \in Walks(P, Real(vs), dead) : w.res # {} => x.res # {}}
  <1>1. PICK at : VisitLoop(at, vs, v, ef, dead, w, list) /\ VisitAll(vs, v, ef, dead, w, list) = at[n]
    BY SMTT(30), VisitLoopExists
  <1>2. n \in Nat /\ \A i \in 1 .. n : i \in 0 .. n /\ i # 0 /\ list[i] \in P
    OBVIOUS
  <1>3. at = [i \in 0 .. n |-> IF i = 0 THEN w ELSE Visit(vs, v, ef, dead, at[i - 1], list[i])]
    BY <1>1 DEF VisitLoop
  <1> HIDE DEF n
  <1>4. at[0] = w /\ \A i \in 1 .. n : at[i] = Visit(vs, v, ef, dead, at[i - 1], list[i])
    BY SMTT(30), <1>2, <1>3
  <1>5. at[0] \in S
    BY <1>4
  <1>6. ASSUME NEW i \in 1 .. n, at[i - 1] \in S PROVE at[i] \in S
    <2>1. PICK x \in S : x = at[i - 1]
      BY <1>6
    <2>2. x \in Walks(P, Real(vs), dead)
      OBVIOUS
    <2>3. /\ Visit(vs, v, ef, dead, x, list[i]) \in Walks(P, Real(vs), dead)
          /\ x.res # {} => Visit(vs, v, ef, dead, x, list[i]).res # {}
      BY <1>2, <2>2, VisitFacts
    <2> QED BY <1>4, <2>1, <2>3
  <1> HIDE DEF S
  <1>7. \A i \in 0 .. n : at[i] \in S
    BY <1>2, <1>5, <1>6, LoopStays
  <1>8. n \in 0 .. n
    BY <1>2
  <1> QED BY <1>1, <1>7, <1>8 DEF S

\* The next candidate is one, and its neighbours are among the rows.
LEMMA CandidateFacts ==
    ASSUME NEW vs \in Vecs, NEW v \in Angles, NEW g \in Graphs(vs), NEW layer \in Layers, NEW dead,
           NEW P, P \subseteq DOMAIN vs, Closed(g, P, layer), NEW w \in Walks(P, Real(vs), dead), w.cand # {}
    PROVE  LET c == Nearest(vs, v, w.cand) IN
           /\ c \in w.cand /\ g[c][layer] \in Seq(P)
           /\ [w EXCEPT !.cand = @ \ {c}] \in Walks(P, Real(vs), dead)
  <1> DEFINE c == Nearest(vs, v, w.cand)
  <1>1. /\ w \in [visited : SUBSET P, cand : SUBSET P, res : SUBSET P]
        /\ w.cand \subseteq w.visited /\ w.res \subseteq w.visited /\ w.res \subseteq Real(vs) \ dead
    BY DEF Walks
  <1>2. w.cand \subseteq DOMAIN vs
    BY <1>1
  <1>3. c \in w.cand
    BY <1>2, NearestIsThere
  <1> HIDE DEF c
  <1>4. g[c][layer] \in Seq(P)
    <2>1. g[c][layer] \in Seq(DOMAIN vs) /\ Range(g[c][layer]) \subseteq P
      BY <1>1, <1>2, <1>3 DEF Closed, Graphs
    <2>2. \A i \in 1 .. Len(g[c][layer]) : g[c][layer][i] \in P
      BY <2>1 DEF Range
    <2> QED BY <2>1, <2>2
  <1>5. [w EXCEPT !.cand = @ \ {c}] \in Walks(P, Real(vs), dead)
    BY <1>1 DEF Walks
  <1> QED BY <1>3, <1>4, <1>5 DEF c

\* A turn of the outer loop keeps the walk among the rows P.
LEMMA ExpandFacts ==
    ASSUME NEW vs \in Vecs, NEW v \in Angles, NEW g \in Graphs(vs), NEW layer \in Layers,
           NEW ef \in Nat \ {0}, NEW dead,
           NEW P, P \subseteq DOMAIN vs, Closed(g, P, layer), NEW w \in Walks(P, Real(vs), dead)
    PROVE  /\ Expand(g, vs, v, layer, ef, dead, w) \in Walks(P, Real(vs), dead)
           /\ w.res # {} => Expand(g, vs, v, layer, ef, dead, w).res # {}
  <1> DEFINE c == Nearest(vs, v, w.cand)
             x == [w EXCEPT !.cand = @ \ {c}]
             done == w.cand = {} \/ (Full(ef, w) /\ Dist(vs, c, v) > Worst(vs, v, w))
  <1>1. Expand(g, vs, v, layer, ef, dead, w) = IF done THEN w ELSE VisitAll(vs, v, ef, dead, x, g[c][layer])
    BY DEF Expand
  <1>2. CASE done
    BY <1>1, <1>2
  <1>3. CASE ~done
    <2>1. w.cand # {}
      BY <1>3
    <2>2. g[c][layer] \in Seq(P) /\ x \in Walks(P, Real(vs), dead)
      BY <2>1, CandidateFacts
    <2>3. x.res = w.res
      BY DEF Walks
    <2> HIDE DEF x, c
    <2>4. /\ VisitAll(vs, v, ef, dead, x, g[c][layer]) \in Walks(P, Real(vs), dead)
          /\ x.res # {} => VisitAll(vs, v, ef, dead, x, g[c][layer]).res # {}
      BY <2>2, VisitAllFacts
    <2> QED BY <1>1, <1>3, <2>3, <2>4
  <1> QED BY <1>2, <1>3

\* The equation of the outer loop of search_layer.
WalkLoop(f, g, vs, v, layer, ef, dead, ep) ==
    f = [k \in 0 .. Len(vs) |->
            IF k = 0 THEN WalkStart(vs, dead, ep) ELSE Expand(g, vs, v, layer, ef, dead, f[k - 1])]

\* The walk before its first turn.
LEMMA WalkStarts ==
    ASSUME NEW vs \in Vecs, NEW dead, NEW P, P \subseteq DOMAIN vs, NEW ep \in P
    PROVE  /\ WalkStart(vs, dead, ep) \in Walks(P, Real(vs), dead)
           /\ ep \in Real(vs) \ dead => WalkStart(vs, dead, ep).res # {}
  BY DEF WalkStart, Walks, Real

\* The outer loop is what Walk computes.
LEMMA WalkLoopExists ==
    ASSUME NEW vs \in Vecs, NEW v \in Angles, NEW g \in Graphs(vs), NEW layer \in Layers,
           NEW ef \in Nat \ {0}, NEW dead,
           NEW P, P \subseteq DOMAIN vs, Closed(g, P, layer), NEW ep \in P
    PROVE  \E f : /\ WalkLoop(f, g, vs, v, layer, ef, dead, ep)
                  /\ Walk(g, vs, v, layer, ef, dead, ep) = f[Len(vs)].res
  <1> DEFINE n == Len(vs)
             S == Walks(P, Real(vs), dead)
             w == WalkStart(vs, dead, ep)
             Turn(x) == Expand(g, vs, v, layer, ef, dead, x)
             Eq(f) == f = [k \in 0 .. n |-> IF k = 0 THEN w ELSE Turn(f[k - 1])]
             at == CHOOSE f : Eq(f)
             G == [x \in (1 .. n) \X S |-> Turn(x[2])]
  <1>1. n \in Nat /\ w \in S
    <2>1. n \in Nat
      BY DEF Vecs
    <2> HIDE DEF n, S, w
    <2> QED BY <2>1, WalkStarts DEF S, w
  <1>2. ASSUME NEW x \in S PROVE Turn(x) \in S
    BY ExpandFacts
  <1>3. Walk(g, vs, v, layer, ef, dead, ep) = at[n].res
    BY DEF Walk
  <1>4. \A f : WalkLoop(f, g, vs, v, layer, ef, dead, ep) <=> Eq(f)
    BY DEF WalkLoop
  <1> HIDE DEF Turn, S, n, w
  <1>5. \E f : Eq(f)
    <2>1. G \in [(1 .. n) \X S -> S]
      BY <1>2
    <2>2. PICK f : IsLoop(f, n, S, w, G)
      <3> HIDE DEF G
      <3> QED BY <1>1, <2>1, LoopExists
    <2>3. ASSUME NEW k \in 0 .. n, k # 0 PROVE G[<<k, f[k - 1]>>] = Turn(f[k - 1])
      <3>1. k \in 1 .. n /\ k - 1 \in 0 .. n
        BY <1>1, <2>3
      <3>2. f[k - 1] \in S
        BY <2>2, <3>1 DEF IsLoop
      <3> QED BY <3>1, <3>2
    <2> HIDE DEF G
    <2>4. f = [k \in 0 .. n |-> IF k = 0 THEN w ELSE Turn(f[k - 1])]
      BY <2>2, <2>3 DEF IsLoop
    <2> QED BY <2>4
  <1>6. Eq(at)
    <2> HIDE DEF Eq
    <2> QED BY <1>5
  <1> HIDE DEF Eq, at
  <1> QED BY <1>3, <1>4, <1>6 DEF n

\* search_layer finds rows with vectors that are not deleted, each once, and some unless it
\* starts at a placeholder or a deleted row.
LEMMA SearchLayerFacts ==
    ASSUME NEW vs \in Vecs, NEW v \in Angles, NEW g \in Graphs(vs), NEW layer \in Layers,
           NEW ef \in Nat \ {0}, NEW dead,
           NEW P, P \subseteq DOMAIN vs, Closed(g, P, layer), NEW ep \in P
    PROVE  LET found == SearchLayer(g, vs, v, layer, ef, dead, ep) IN
           /\ found \in Seq((P \cap Real(vs)) \ dead) /\ IsInjective(found)
           /\ ep \in Real(vs) \ dead => found # <<>>
           /\ Range(found) = Walk(g, vs, v, layer, ef, dead, ep)
           /\ Len(found) = Cardinality(Walk(g, vs, v, layer, ef, dead, ep))
  <1> DEFINE n == Len(vs)
             w == WalkStart(vs, dead, ep)
             S == {x \in Walks(P, Real(vs), dead) : w.res # {} => x.res # {}}
             res == Walk(g, vs, v, layer, ef, dead, ep)
  <1>1. PICK at : WalkLoop(at, g, vs, v, layer, ef, dead, ep) /\ res = at[n].res
    BY WalkLoopExists
  <1>2. n \in Nat /\ w \in Walks(P, Real(vs), dead) /\ (ep \in Real(vs) \ dead => w.res # {})
    <2>1. n \in Nat
      BY DEF Vecs
    <2>2. w \in Walks(P, Real(vs), dead)
      <3> HIDE DEF n, S, res
      <3> QED BY WalkStarts
    <2>3. ep \in Real(vs) \ dead => w.res # {}
      BY DEF WalkStart, Real
    <2> QED BY <2>1, <2>2, <2>3
  <1>3. at = [k \in 0 .. n |-> IF k = 0 THEN w ELSE Expand(g, vs, v, layer, ef, dead, at[k - 1])]
    BY <1>1 DEF WalkLoop
  <1> HIDE DEF n, w, res
  <1>4. at[0] = w /\ \A k \in 1 .. n : at[k] = Expand(g, vs, v, layer, ef, dead, at[k - 1])
    <2>1. 0 \in 0 .. n /\ \A k \in 1 .. n : k \in 0 .. n /\ k # 0
      BY <1>2
    <2> QED BY <1>3, <2>1
  <1>5. at[0] \in S
    BY <1>2, <1>4
  <1>6. ASSUME NEW k \in 1 .. n, at[k - 1] \in S PROVE at[k] \in S
    <2>1. PICK x \in S : x = at[k - 1]
      BY <1>6
    <2>2. x \in Walks(P, Real(vs), dead)
      OBVIOUS
    <2>3. /\ Expand(g, vs, v, layer, ef, dead, x) \in Walks(P, Real(vs), dead)
          /\ x.res # {} => Expand(g, vs, v, layer, ef, dead, x).res # {}
      BY <2>2, ExpandFacts
    <2> QED BY <1>4, <2>1, <2>3
  <1> HIDE DEF S
  <1>7. \A k \in 0 .. n : at[k] \in S
    BY <1>2, <1>5, <1>6, LoopStays
  <1>8. at[n] \in S
    BY <1>2, <1>7
  <1>9. res \subseteq (P \cap Real(vs)) \ dead /\ (ep \in Real(vs) \ dead => res # {})
    BY <1>1, <1>2, <1>8 DEF S, Walks
  <1> DEFINE found == Sorted(vs, v, res)
  <1>10. found \in Seq(res) /\ Range(found) = res /\ IsInjective(found) /\ Len(found) = Cardinality(res)
    <2>1. res \subseteq DOMAIN vs
      BY <1>9
    <2> QED BY <2>1, SortedFacts
  <1>11. SearchLayer(g, vs, v, layer, ef, dead, ep) = found
    BY DEF SearchLayer, res
  <1> HIDE DEF found
  <1>12. found \in Seq((P \cap Real(vs)) \ dead)
    BY <1>9, <1>10
  <1>13. found = <<>> => Range(found) = {}
    BY DEF Range
  <1> QED BY <1>9, <1>10, <1>11, <1>12, <1>13 DEF res

(***************************************************************************)
(* No loop needs more turns than there are rows                            *)
(***************************************************************************)
\* A neighbour that was visited does not become a candidate again.
Forward(w, u) == w.visited \subseteq u.visited /\ u.cand \cap w.visited \subseteq w.cand

\* Not in one turn of the inner loop.
LEMMA VisitForward ==
    ASSUME NEW vs \in Vecs, NEW v, NEW ef \in Nat \ {0}, NEW dead,
           NEW P, P \subseteq DOMAIN vs, NEW w \in Walks(P, Real(vs), dead), NEW n \in P
    PROVE  Forward(w, Visit(vs, v, ef, dead, w, n))
  <1> DEFINE u == Visit(vs, v, ef, dead, w, n)
             stays == vs[n] = Zero \/ (Full(ef, w) /\ Dist(vs, n, v) >= Worst(vs, v, w))
  <1>1. w \in [visited : SUBSET P, cand : SUBSET P, res : SUBSET P]
    BY DEF Walks
  <1>2. CASE n \in w.visited
    <2>1. u = w
      BY <1>2 DEF Visit
    <2> QED BY <2>1 DEF Forward
  <1>3. CASE n \notin w.visited /\ stays
    <2>1. u = [w EXCEPT !.visited = @ \cup {n}]
      BY <1>3 DEF Visit
    <2>2. u.visited = w.visited \cup {n} /\ u.cand = w.cand
      BY <1>1, <2>1
    <2> HIDE DEF u
    <2> QED BY <2>2 DEF Forward, u
  <1>4. CASE n \notin w.visited /\ ~stays
    <2> DEFINE res == IF n \in dead THEN w.res
                      ELSE IF ~Full(ef, w) THEN w.res \cup {n}
                      ELSE (w.res \cup {n}) \ {Farthest(vs, v, w.res \cup {n})}
    <2>1. u = [visited |-> w.visited \cup {n}, cand |-> w.cand \cup {n}, res |-> res]
      BY <1>4 DEF Visit
    <2> HIDE DEF res
    <2>2. u.visited = w.visited \cup {n} /\ u.cand = w.cand \cup {n}
      BY <2>1
    <2> HIDE DEF u
    <2> QED BY <1>4, <2>2 DEF Forward, u
  <1> QED BY <1>2, <1>3, <1>4

\* ... nor in all of them.
LEMMA VisitAllForward ==
    ASSUME NEW vs \in Vecs, NEW v, NEW ef \in Nat \ {0}, NEW dead,
           NEW P, P \subseteq DOMAIN vs, NEW w \in Walks(P, Real(vs), dead), NEW list \in Seq(P)
    PROVE  Forward(w, VisitAll(vs, v, ef, dead, w, list))
  <1> DEFINE n == Len(list)
             S == {x \in Walks(P, Real(vs), dead) : Forward(w, x)}
  <1>1. PICK at : VisitLoop(at, vs, v, ef, dead, w, list) /\ VisitAll(vs, v, ef, dead, w, list) = at[n]
    BY SMTT(30), VisitLoopExists
  <1>2. n \in Nat /\ \A i \in 1 .. n : i \in 0 .. n /\ i # 0 /\ list[i] \in P
    OBVIOUS
  <1>3. at = [i \in 0 .. n |-> IF i = 0 THEN w ELSE Visit(vs, v, ef, dead, at[i - 1], list[i])]
    BY <1>1 DEF VisitLoop
  <1> HIDE DEF n
  <1>4. at[0] = w /\ \A i \in 1 .. n : at[i] = Visit(vs, v, ef, dead, at[i - 1], list[i])
    BY SMTT(30), <1>2, <1>3
  <1>5. at[0] \in S
    BY <1>4 DEF Forward
  <1>6. ASSUME NEW i \in 1 .. n, at[i - 1] \in S PROVE at[i] \in S
    <2>1. PICK x \in S : x = at[i - 1]
      BY <1>6
    <2>2. x \in Walks(P, Real(vs), dead) /\ Forward(w, x)
      OBVIOUS
    <2> DEFINE y == Visit(vs, v, ef, dead, x, list[i])
    <2>3. y \in Walks(P, Real(vs), dead)
      BY <1>2, <2>2, VisitFacts
    <2>4. Forward(x, y)
      BY <1>2, <2>2, VisitForward
    <2> HIDE DEF y
    <2>5. Forward(w, y)
      BY <2>2, <2>4 DEF Forward
    <2> QED BY <1>4, <2>1, <2>3, <2>5 DEF y
  <1> HIDE DEF S
  <1>7. \A i \in 0 .. n : at[i] \in S
    BY <1>2, <1>5, <1>6, LoopStays
  <1>8. n \in 0 .. n
    BY <1>2
  <1> QED BY <1>1, <1>7, <1>8 DEF S

\* search_layer is through: no candidate is left, or none that is near enough.
Ended(vs, v, ef, w) ==
    w.cand = {} \/ (Full(ef, w) /\ Dist(vs, Nearest(vs, v, w.cand), v) > Worst(vs, v, w))

\* A turn takes a candidate that will not be one again, unless the walk has ended.
LEMMA ExpandTakes ==
    ASSUME NEW vs \in Vecs, NEW v \in Angles, NEW g \in Graphs(vs), NEW layer \in Layers,
           NEW ef \in Nat \ {0}, NEW dead,
           NEW P, P \subseteq DOMAIN vs, Closed(g, P, layer), NEW w \in Walks(P, Real(vs), dead)
    PROVE  LET u == Expand(g, vs, v, layer, ef, dead, w) IN
           IF Ended(vs, v, ef, w) THEN u = w
           ELSE \E c \in w.cand : (w.visited \ w.cand) \cup {c} \subseteq u.visited \ u.cand
  <1> DEFINE c == Nearest(vs, v, w.cand)
             x == [w EXCEPT !.cand = @ \ {c}]
             u == Expand(g, vs, v, layer, ef, dead, w)
  <1>1. CASE Ended(vs, v, ef, w)
    BY <1>1 DEF Ended, Expand
  <1>2. CASE ~Ended(vs, v, ef, w)
    <2>1. u = VisitAll(vs, v, ef, dead, x, g[c][layer]) /\ w.cand # {}
      BY <1>2 DEF Ended, Expand
    <2>2. w \in [visited : SUBSET P, cand : SUBSET P, res : SUBSET P] /\ w.cand \subseteq w.visited
      BY DEF Walks
    <2>3. x.visited = w.visited /\ x.cand = w.cand \ {c}
      BY <2>2
    <2>4. c \in w.cand /\ g[c][layer] \in Seq(P) /\ x \in Walks(P, Real(vs), dead)
      BY <2>1, CandidateFacts
    <2> HIDE DEF c, x, u
    <2>5. Forward(x, u)
      BY <2>1, <2>4, VisitAllForward
    <2>6. (w.visited \ w.cand) \cup {c} \subseteq u.visited \ u.cand
      BY <2>2, <2>3, <2>4, <2>5 DEF Forward
    <2> QED BY <1>2, <2>4, <2>6 DEF u
  <1> QED BY <1>1, <1>2

\* The loop of search_layer has ended after as many turns as there are rows: what Walk
\* returns is what the code returns.
LEMMA WalkEnds ==
    ASSUME NEW vs \in Vecs, NEW v \in Angles, NEW g \in Graphs(vs), NEW layer \in Layers,
           NEW ef \in Nat \ {0}, NEW dead, NEW ep \in DOMAIN vs
    PROVE  \E f : /\ WalkLoop(f, g, vs, v, layer, ef, dead, ep)
                  /\ Walk(g, vs, v, layer, ef, dead, ep) = f[Len(vs)].res
                  /\ Ended(vs, v, ef, f[Len(vs)])
  <1> DEFINE n == Len(vs)
             P == DOMAIN vs
             W == Walks(P, Real(vs), dead)
             T == {x \in Nat \X W : \/ Ended(vs, v, ef, x[2])
                                    \/ Cardinality(x[2].visited \ x[2].cand) >= x[1]}
  <1>1. n \in Nat /\ P = 1 .. n /\ \A k \in 1 .. n : k \in 0 .. n /\ k # 0 /\ k \in Nat /\ k - 1 \in Nat
    BY DEF Vecs
  <1>2. Closed(g, P, layer)
    BY DEF Closed, Graphs, Range
  <1>3. PICK at : /\ WalkLoop(at, g, vs, v, layer, ef, dead, ep)
                  /\ Walk(g, vs, v, layer, ef, dead, ep) = at[n].res
    BY <1>2, WalkLoopExists
  <1>4. at = [k \in 0 .. n |->
                IF k = 0 THEN WalkStart(vs, dead, ep) ELSE Expand(g, vs, v, layer, ef, dead, at[k - 1])]
    BY <1>3 DEF WalkLoop
  <1>5. WalkStart(vs, dead, ep) \in W
    BY WalkStarts
  <1>6. ASSUME NEW w \in W, NEW k \in 1 .. n PROVE Expand(g, vs, v, layer, ef, dead, w) \in W
    BY <1>2, ExpandFacts
  <1>7. ASSUME NEW w \in W
        PROVE  LET u == Expand(g, vs, v, layer, ef, dead, w) IN
               IF Ended(vs, v, ef, w) THEN u = w
               ELSE \E c \in w.cand : (w.visited \ w.cand) \cup {c} \subseteq u.visited \ u.cand
    BY <1>2, ExpandTakes
  <1>8. ASSUME NEW w \in W
        PROVE  /\ w.cand \subseteq w.visited /\ w.visited \subseteq 1 .. n
               /\ IsFiniteSet(w.visited \ w.cand) /\ Cardinality(w.visited \ w.cand) \in Nat
    <2>1. w \in [visited : SUBSET P, cand : SUBSET P, res : SUBSET P] /\ w.cand \subseteq w.visited
      BY DEF Walks
    <2>2. w.visited \subseteq 1 .. n
      BY <1>1, <2>1
    <2>3. IsFiniteSet(1 .. n)
      BY <1>1, FS_Interval
    <2>4. IsFiniteSet(w.visited \ w.cand)
      BY <2>2, <2>3, FS_Subset
    <2> QED BY <2>1, <2>2, <2>4, FS_CardinalityType
  <1> HIDE DEF n, W, P
  <1>9. at[0] = WalkStart(vs, dead, ep) /\ \A k \in 1 .. n : at[k] = Expand(g, vs, v, layer, ef, dead, at[k - 1])
    <2>1. 0 \in 0 .. n
      BY <1>1
    <2> QED BY <1>1, <1>4, <2>1
  <1>10. <<0, at[0]>> \in T
    <2>1. PICK w \in W : w = at[0]
      BY <1>5, <1>9
    <2>2. Cardinality(w.visited \ w.cand) >= 0
      <3>1. Cardinality(w.visited \ w.cand) \in Nat
        BY <1>8
      <3> QED BY <3>1
    <2> QED BY <2>1, <2>2
  <1>11. ASSUME NEW k \in 1 .. n, <<k - 1, at[k - 1]>> \in T PROVE <<k, at[k]>> \in T
    <2>1. PICK w \in W : /\ w = at[k - 1]
                         /\ Ended(vs, v, ef, w) \/ Cardinality(w.visited \ w.cand) >= k - 1
      BY <1>11
    <2> DEFINE u == Expand(g, vs, v, layer, ef, dead, w)
    <2>2. at[k] = u /\ u \in W
      BY <1>6, <1>9, <2>1
    <2>3. k \in Nat
      BY <1>1
    <2>4. CASE Ended(vs, v, ef, w)
      <3>1. u = w
        BY <1>7, <2>4
      <3> HIDE DEF u
      <3> QED BY <2>2, <2>3, <2>4, <3>1
    <2>5. CASE ~Ended(vs, v, ef, w)
      <3>1. PICK c \in w.cand : (w.visited \ w.cand) \cup {c} \subseteq u.visited \ u.cand
        BY <1>7, <2>5
      <3> DEFINE A == w.visited \ w.cand
                 B == u.visited \ u.cand
      <3>2. IsFiniteSet(A) /\ Cardinality(A) \in Nat /\ Cardinality(A) >= k - 1 /\ c \notin A
        BY <1>8, <2>1, <2>5
      <3> HIDE DEF u
      <3>3. IsFiniteSet(B) /\ Cardinality(B) \in Nat
        BY <1>8, <2>2
      <3>4. A \cup {c} \subseteq B
        BY <3>1
      <3> HIDE DEF A, B
      <3>5. Cardinality(A \cup {c}) = Cardinality(A) + 1
        BY <3>2, FS_AddElement
      <3>6. Cardinality(A \cup {c}) <= Cardinality(B)
        BY <3>3, <3>4, FS_Subset
      <3>7. Cardinality(B) >= k
        BY <1>1, <3>2, <3>3, <3>5, <3>6
      <3> QED BY <2>2, <2>3, <3>7 DEF B
    <2> QED BY <2>4, <2>5
  <1>12. <<n, at[n]>> \in T
    <2> HIDE DEF T
    <2>1. \A k \in 0 .. n : <<k, at[k]>> \in T
      BY <1>1, <1>10, <1>11, LoopKeeps
    <2>2. n \in 0 .. n
      BY <1>1
    <2> QED BY <2>1, <2>2
  <1>13. PICK w \in W : w = at[n] /\ (Ended(vs, v, ef, w) \/ Cardinality(w.visited \ w.cand) >= n)
    BY <1>12
  <1>14. Ended(vs, v, ef, w)
    <2> SUFFICES ASSUME ~Ended(vs, v, ef, w) PROVE FALSE
      OBVIOUS
    <2>1. PICK c \in w.cand : TRUE
      BY DEF Ended
    <2> DEFINE A == w.visited \ w.cand
    <2>2. IsFiniteSet(A) /\ Cardinality(A) \in Nat /\ c \notin A /\ A \cup {c} \subseteq 1 .. n /\ Cardinality(A) >= n
      BY <1>8, <1>13
    <2> HIDE DEF A
    <2>3. Cardinality(A \cup {c}) = Cardinality(A) + 1
      BY <2>2, FS_AddElement
    <2>4. IsFiniteSet(1 .. n) /\ Cardinality(1 .. n) = n
      <3>1. 1 \in Int /\ n \in Int
        BY <1>1
      <3>2. IsFiniteSet(1 .. n) /\ Cardinality(1 .. n) = IF 1 > n THEN 0 ELSE n - 1 + 1
        BY <3>1, FS_Interval
      <3> QED BY <1>1, <3>2
    <2>5. Cardinality(A \cup {c}) <= n
      BY <2>2, <2>4, FS_Subset
    <2> QED BY <1>1, <2>2, <2>3, <2>5
  <1> QED BY <1>3, <1>13, <1>14 DEF n

\* The greedy walk has ended after as many turns as there are rows: a further one stays.
LEMMA DescendEnds ==
    ASSUME NEW vs \in Vecs, NEW v \in Angles, NEW g \in Graphs(vs), NEW layer \in Layers, NEW skip,
           NEW ep \in DOMAIN vs
    PROVE  LET end == Descend(g, vs, v, layer, skip, ep) IN Closer(g, vs, v, layer, skip, end) = end
  <1> DEFINE n == Len(vs)
             P == DOMAIN vs
             Turn(e) == Closer(g, vs, v, layer, skip, e)
             Nearer(e) == {m \in P : Dist(vs, m, v) < Dist(vs, e, v)}
             T == {x \in Nat \X P : Turn(x[2]) = x[2] \/ Cardinality(Nearer(x[2])) + x[1] < n}
  <1>1. n \in Nat /\ P = 1 .. n
    BY DEF Vecs
  <1>2. Closed(g, P, layer)
    BY DEF Closed, Graphs, Range
  <1>3. PICK at : /\ DescendLoop(at, g, vs, v, layer, skip, ep)
                  /\ Descend(g, vs, v, layer, skip, ep) = at[n]
    BY <1>2, DescendLoopExists
  <1>4. at = [k \in 0 .. n |-> IF k = 0 THEN ep ELSE Turn(at[k - 1])]
    BY <1>3 DEF DescendLoop
  <1>5. ASSUME NEW e \in P PROVE Dist(vs, e, v) \in Nat
    BY DistIsNat
  <1>6. ASSUME NEW e \in P
        PROVE  Turn(e) \in P /\ (Turn(e) = e \/ Dist(vs, Turn(e), v) < Dist(vs, e, v))
    BY <1>2, CloserStays
  <1> HIDE DEF Turn, P, n
  <1>7. IsFiniteSet(P) /\ Cardinality(P) = n
    <2>1. 1 \in Int /\ n \in Int
      BY <1>1
    <2>2. IsFiniteSet(1 .. n) /\ Cardinality(1 .. n) = IF 1 > n THEN 0 ELSE n - 1 + 1
      BY <2>1, FS_Interval
    <2> QED BY <1>1, <2>2
  <1>8. ASSUME NEW e \in P PROVE IsFiniteSet(Nearer(e)) /\ Cardinality(Nearer(e)) \in Nat
    <2>1. Nearer(e) \subseteq P
      OBVIOUS
    <2> HIDE DEF Nearer
    <2> QED BY <1>7, <2>1, FS_Subset, FS_CardinalityType
  \* One more row than those that are nearer.
  <1>9. ASSUME NEW e \in P, NEW A, A \subseteq P, Nearer(e) \cup {e} \subseteq A
        PROVE  Cardinality(Nearer(e)) + 1 <= Cardinality(A)
    <2>1. e \notin Nearer(e)
      BY <1>5
    <2>2. IsFiniteSet(A) /\ Cardinality(A) \in Nat
      BY <1>7, <1>9, FS_Subset, FS_CardinalityType
    <2> HIDE DEF Nearer
    <2>3. Cardinality(Nearer(e) \cup {e}) = Cardinality(Nearer(e)) + 1
      BY <1>8, <2>1, FS_AddElement
    <2>4. Cardinality(Nearer(e) \cup {e}) <= Cardinality(A)
      BY <1>9, <2>2, FS_Subset
    <2> QED BY <2>3, <2>4
  <1>10. at[0] = ep /\ \A k \in 1 .. n : at[k] = Turn(at[k - 1])
    <2>1. 0 \in 0 .. n /\ \A k \in 1 .. n : k \in 0 .. n /\ k # 0
      BY <1>1
    <2> QED BY <1>4, <2>1
  <1>11. <<0, at[0]>> \in T
    <2>1. ep \in P
      BY DEF P
    <2>2. Nearer(ep) \cup {ep} \subseteq P
      BY <2>1
    <2> HIDE DEF Nearer
    <2>3. Cardinality(Nearer(ep)) + 1 <= n
      BY <1>7, <1>9, <2>1, <2>2
    <2>4. Cardinality(Nearer(ep)) + 0 < n
      BY <1>1, <1>8, <2>1, <2>3
    <2> QED BY <1>10, <2>1, <2>4
  <1>12. ASSUME NEW k \in 1 .. n, <<k - 1, at[k - 1]>> \in T PROVE <<k, at[k]>> \in T
    <2>1. PICK e \in P : e = at[k - 1] /\ (Turn(e) = e \/ Cardinality(Nearer(e)) + (k - 1) < n)
      <3> HIDE DEF Nearer
      <3> QED BY <1>12
    <2>2. k \in Nat /\ at[k] = Turn(e)
      BY <1>1, <1>10, <2>1
    <2>3. CASE Turn(e) = e
      <3> HIDE DEF Nearer
      <3> QED BY <2>2, <2>3
    <2>4. CASE Turn(e) # e
      <3>1. PICK d \in P : d = Turn(e) /\ Dist(vs, d, v) < Dist(vs, e, v)
        BY <1>6, <2>4
      <3>2. Nearer(d) \cup {d} \subseteq Nearer(e)
        <4>1. ASSUME NEW m \in Nearer(d) PROVE m \in Nearer(e)
          <5>1. m \in P /\ Dist(vs, m, v) < Dist(vs, d, v)
            OBVIOUS
          <5>2. Dist(vs, m, v) < Dist(vs, e, v)
            BY <1>5, <3>1, <5>1
          <5> QED BY <5>1, <5>2
        <4> QED BY <3>1, <4>1
      <3>3. Nearer(e) \subseteq P
        OBVIOUS
      <3> HIDE DEF Nearer
      <3>4. Cardinality(Nearer(d)) + 1 <= Cardinality(Nearer(e))
        BY <1>9, <3>2, <3>3
      <3>5. Cardinality(Nearer(d)) \in Nat /\ Cardinality(Nearer(e)) \in Nat
        BY <1>8
      <3>6. Cardinality(Nearer(e)) + (k - 1) < n
        BY <2>1, <2>4
      <3>7. Cardinality(Nearer(d)) + k < n
        BY <1>1, <2>2, <3>4, <3>5, <3>6
      <3> QED BY <2>2, <3>1, <3>7
    <2> QED BY <2>3, <2>4
  <1>13. <<n, at[n]>> \in T
    <2> HIDE DEF T
    <2>1. \A k \in 0 .. n : <<k, at[k]>> \in T
      BY <1>1, <1>11, <1>12, LoopKeeps
    <2>2. n \in 0 .. n
      BY <1>1
    <2> QED BY <2>1, <2>2
  <1>14. PICK e \in P : e = at[n] /\ (Turn(e) = e \/ Cardinality(Nearer(e)) + n < n)
    <2> HIDE DEF Nearer
    <2> QED BY <1>13
  <1>15. Turn(e) = e
    <2> HIDE DEF Nearer
    <2>1. Cardinality(Nearer(e)) \in Nat
      BY <1>8
    <2> QED BY <1>1, <1>14, <2>1
  <1> QED BY <1>3, <1>14, <1>15 DEF Turn

(***************************************************************************)
(* Linking                                                                 *)
(***************************************************************************)
\* Each of two rows gets the other, and if there is room nothing gets lost.
Linked(vs, g, h, id, n, layer) ==
    /\ Range(h[id][layer]) \subseteq Range(g[id][layer]) \cup {n}
    /\ Range(h[n][layer]) \subseteq Range(g[n][layer]) \cup {id}
    /\ (n \in Range(g[id][layer]) \/ Len(g[id][layer]) < Capacity(layer)) =>
          (Range(g[id][layer]) \cup {n}) \cap Real(vs) \subseteq Range(h[id][layer])
    /\ (id \in Range(g[n][layer]) \/ Len(g[n][layer]) < Capacity(layer)) =>
          (Range(g[n][layer]) \cup {id}) \cap Real(vs) \subseteq Range(h[n][layer])

\* Two rows are linked: only their lists change.
LEMMA BothWaysFacts ==
    ASSUME NEW vs \in Vecs, NEW g \in Graphs(vs), NEW id \in Real(vs), NEW n \in Real(vs),
           NEW layer \in Layers
    PROVE  LET h == BothWays(g, vs, id, layer, n) IN
           /\ h \in Graphs(vs)
           /\ \A m \in DOMAIN vs, l \in Layers : m \notin {id, n} \/ l # layer => h[m][l] = g[m][l]
           /\ id # n => Linked(vs, g, h, id, n, layer)
  <1> DEFINE f == AddLink(g, vs, id, layer, n)
             h == AddLink(f, vs, n, layer, id)
  <1>1. id \in DOMAIN vs /\ n \in DOMAIN vs
    BY DEF Real
  <1>2. /\ f \in Graphs(vs)
        /\ \A m \in DOMAIN vs, l \in Layers : m # id \/ l # layer => f[m][l] = g[m][l]
        /\ Range(f[id][layer]) \subseteq (Range(g[id][layer]) \cup {n}) \cap Real(vs)
        /\ (n \in Range(g[id][layer]) \/ Len(g[id][layer]) < Capacity(layer)) =>
              (Range(g[id][layer]) \cup {n}) \cap Real(vs) \subseteq Range(f[id][layer])
    BY AddLinkFacts
  <1> HIDE DEF f
  <1>3. /\ h \in Graphs(vs)
        /\ \A m \in DOMAIN vs, l \in Layers : m # n \/ l # layer => h[m][l] = f[m][l]
        /\ Range(h[n][layer]) \subseteq (Range(f[n][layer]) \cup {id}) \cap Real(vs)
        /\ (id \in Range(f[n][layer]) \/ Len(f[n][layer]) < Capacity(layer)) =>
              (Range(f[n][layer]) \cup {id}) \cap Real(vs) \subseteq Range(h[n][layer])
    BY <1>2, AddLinkFacts
  <1> HIDE DEF h
  <1>4. \A m \in DOMAIN vs, l \in Layers : m \notin {id, n} \/ l # layer => h[m][l] = g[m][l]
    BY <1>2, <1>3
  <1>5. ASSUME id # n PROVE h[id][layer] = f[id][layer] /\ f[n][layer] = g[n][layer]
    BY <1>1, <1>2, <1>3, <1>5
  <1>6. BothWays(g, vs, id, layer, n) = h
    BY DEF BothWays, f, h
  <1>7. id # n => Linked(vs, g, h, id, n, layer)
    BY <1>2, <1>3, <1>5 DEF Linked
  <1> QED BY <1>3, <1>4, <1>6, <1>7

\* The equation of the loop that links the chosen neighbours.
LinkLoop(f, g, vs, id, layer, ns) ==
    f = [i \in 0 .. Len(ns) |-> IF i = 0 THEN g ELSE BothWays(f[i - 1], vs, id, layer, ns[i])]

\* The loop over the neighbours is what LinkAll computes.
LEMMA LinkLoopExists ==
    ASSUME NEW vs \in Vecs, NEW g \in Graphs(vs), NEW id \in Real(vs), NEW layer \in Layers,
           NEW ns \in Seq(Real(vs))
    PROVE  \E f : /\ LinkLoop(f, g, vs, id, layer, ns)
                  /\ LinkAll(g, vs, id, layer, ns) = f[Len(ns)]
                  /\ f[0] = g
                  /\ \A i \in 1 .. Len(ns) : f[i] = BothWays(f[i - 1], vs, id, layer, ns[i])
  <1> DEFINE n == Len(ns)
             S == Graphs(vs)
             Turn(i, x) == BothWays(x, vs, id, layer, ns[i])
             Eq(f) == f = [i \in 0 .. n |-> IF i = 0 THEN g ELSE Turn(i, f[i - 1])]
             at == CHOOSE f : Eq(f)
             G == [x \in (1 .. n) \X S |-> Turn(x[1], x[2])]
  <1>1. n \in Nat /\ g \in S
    OBVIOUS
  <1>2. ASSUME NEW i \in 1 .. n, NEW x \in S PROVE Turn(i, x) \in S
    <2>1. ns[i] \in Real(vs)
      OBVIOUS
    <2> HIDE DEF n
    <2> QED BY <2>1, BothWaysFacts
  <1>3. LinkAll(g, vs, id, layer, ns) = at[n]
    BY DEF LinkAll
  <1>4. \A f : LinkLoop(f, g, vs, id, layer, ns) <=> Eq(f)
    BY DEF LinkLoop
  <1> HIDE DEF Turn, S, n
  <1>5. \E f : Eq(f)
    <2>1. G \in [(1 .. n) \X S -> S]
      BY <1>2
    <2>2. PICK f : IsLoop(f, n, S, g, G)
      <3> HIDE DEF G
      <3> QED BY <1>1, <2>1, LoopExists
    <2>3. ASSUME NEW k \in 0 .. n, k # 0 PROVE G[<<k, f[k - 1]>>] = Turn(k, f[k - 1])
      <3>1. k \in 1 .. n /\ k - 1 \in 0 .. n
        BY <1>1, <2>3
      <3>2. f[k - 1] \in S
        BY <2>2, <3>1 DEF IsLoop
      <3> QED BY <3>1, <3>2
    <2> HIDE DEF G
    <2>4. f = [k \in 0 .. n |-> IF k = 0 THEN g ELSE Turn(k, f[k - 1])]
      BY <2>2, <2>3 DEF IsLoop
    <2> QED BY <2>4
  <1>6. Eq(at)
    <2> HIDE DEF Eq
    <2> QED BY <1>5
  <1> HIDE DEF at
  <1>7. at[0] = g /\ \A i \in 1 .. n : at[i] = Turn(i, at[i - 1])
    <2>1. 0 \in 0 .. n /\ \A i \in 1 .. n : i \in 0 .. n /\ i # 0
      BY <1>1
    <2> QED BY <1>6, <2>1
  <1> HIDE DEF Eq
  <1> QED BY <1>3, <1>4, <1>6, <1>7 DEF n, Turn

\* The lists of placeholders are the same.
Spared(vs, g, h) == \A m \in DOMAIN vs, l \in Layers : vs[m] = Zero => h[m][l] = g[m][l]

\* All neighbours are linked, and the lists keep their form.
LEMMA LinkAllFacts ==
    ASSUME NEW vs \in Vecs, NEW g \in Graphs(vs), NEW id \in Real(vs), NEW layer \in Layers,
           NEW ns \in Seq(Real(vs))
    PROVE  /\ LinkAll(g, vs, id, layer, ns) \in Graphs(vs)
           /\ Spared(vs, g, LinkAll(g, vs, id, layer, ns))
  <1> DEFINE n == Len(ns)
             S == {h \in Graphs(vs) : Spared(vs, g, h)}
  <1>1. PICK at : /\ LinkAll(g, vs, id, layer, ns) = at[n]
                  /\ at[0] = g
                  /\ \A i \in 1 .. n : at[i] = BothWays(at[i - 1], vs, id, layer, ns[i])
    BY LinkLoopExists
  <1>2. n \in Nat /\ \A i \in 1 .. n : ns[i] \in Real(vs)
    OBVIOUS
  <1> HIDE DEF n
  <1>3. at[0] \in S
    BY <1>1 DEF Spared
  <1>4. ASSUME NEW i \in 1 .. n, at[i - 1] \in S PROVE at[i] \in S
    <2>1. PICK x \in Graphs(vs) : x = at[i - 1] /\ Spared(vs, g, x)
      BY <1>4
    <2>2. PICK m \in Real(vs) : m = ns[i]
      BY <1>2
    <2> DEFINE h == BothWays(x, vs, id, layer, m)
    <2>3. /\ h \in Graphs(vs)
          /\ \A k \in DOMAIN vs, l \in Layers : k \notin {id, m} \/ l # layer => h[k][l] = x[k][l]
      BY BothWaysFacts
    <2> HIDE DEF h
    <2>4. Spared(vs, g, h)
      BY <2>1, <2>3 DEF Spared, Real
    <2>5. at[i] = h
      BY <1>1, <2>1, <2>2 DEF h
    <2> QED BY <2>3, <2>4, <2>5
  <1> HIDE DEF S
  <1>5. \A i \in 0 .. n : at[i] \in S
    BY <1>2, <1>3, <1>4, LoopStays
  <1>6. n \in 0 .. n
    BY <1>2
  <1> QED BY <1>1, <1>5, <1>6 DEF S

\* Placeholder or not, every row is a place to start from: the lists hold rows.
LEMMA RowsClosed ==
    ASSUME NEW vs \in Vecs, NEW g \in Graphs(vs), NEW layer \in Layers
    PROVE  Closed(g, DOMAIN vs, layer)
  <1>1. \A m \in DOMAIN vs : g[m][layer] \in Seq(DOMAIN vs)
    BY DEF Graphs
  <1> QED BY <1>1 DEF Closed, Range

\* The neighbours that a node gets in a layer.
Chosen(vs, id, layer, dead, x) ==
    SelectNeighbors(vs, vs[id], SearchLayer(x.g, vs, vs[id], layer, EfConstruction, dead, x.ep), Capacity(layer))

\* From x to y a node is linked to these, all of them among the rows P.
LayerLinked(vs, id, layer, dead, P, x, y) ==
    LET ns == Chosen(vs, id, layer, dead, x) IN
    /\ y \in [g : Graphs(vs), ep : P] /\ Spared(vs, x.g, y.g)
    /\ y.g = LinkAll(x.g, vs, id, layer, ns)
    /\ ns \in Seq(P \cap Real(vs))
    /\ x.ep \in Real(vs) /\ x.ep \notin dead => ns # <<>>

\* Linking in one layer goes to rows that the search can reach.
LEMMA LinkLayerFacts ==
    ASSUME NEW vs \in Vecs, NEW id \in Real(vs), NEW layer \in Layers, NEW dead,
           NEW P, P \subseteq DOMAIN vs, NEW x \in [g : Graphs(vs), ep : P], Closed(x.g, P, layer)
    PROVE  LayerLinked(vs, id, layer, dead, P, x, LinkLayer(vs, id, layer, dead, x))
  <1> DEFINE found == SearchLayer(x.g, vs, vs[id], layer, EfConstruction, dead, x.ep)
             cap == Capacity(layer)
             ns == SelectNeighbors(vs, vs[id], found, cap)
             h == LinkAll(x.g, vs, id, layer, ns)
             y == LinkLayer(vs, id, layer, dead, x)
             R == P \cap Real(vs)
  <1>1. vs[id] \in Angles /\ x.g \in Graphs(vs) /\ x.ep \in P /\ EfConstruction \in Nat \ {0}
    <2>1. vs[id] \in Angles
      BY DEF Real, Vecs
    <2> QED BY <2>1, HnswAssumption
  <1>2. found \in Seq(R \ dead) /\ (x.ep \in Real(vs) \ dead => found # <<>>)
    BY <1>1, SearchLayerFacts
  <1>3. cap \in Nat /\ cap >= 1
    BY CapacityIsPositive
  <1> HIDE DEF found, cap, R
  <1>4. found \in Seq(R) /\ Len(found) \in Nat /\ (found # <<>> => Len(found) >= 1)
    BY <1>2
  <1>5. /\ ns \in Seq(R) /\ (Len(found) <= cap => ns = found)
        /\ (Len(found) > cap => Len(ns) = cap)
    BY <1>3, <1>4, SelectFacts
  <1> HIDE DEF ns
  <1>6. x.ep \in Real(vs) \ dead => ns # <<>>
    BY <1>2, <1>3, <1>4, <1>5
  <1>7. ns \in Seq(Real(vs))
    BY <1>5 DEF R
  <1>8. h \in Graphs(vs) /\ Spared(vs, x.g, h)
    BY <1>1, <1>7, LinkAllFacts
  <1> HIDE DEF h
  <1>9. y = [g |-> h, ep |-> IF found = <<>> THEN x.ep ELSE found[1]]
    BY DEF LinkLayer, h, ns, found, cap
  <1>10. found # <<>> => found[1] \in R
    BY <1>4
  <1> HIDE DEF y
  <1>11. y \in [g : Graphs(vs), ep : P] /\ y.g = h
    BY <1>1, <1>8, <1>9, <1>10 DEF R
  <1>12. ns = Chosen(vs, id, layer, dead, x)
    BY DEF ns, found, cap, Chosen
  <1> QED BY <1>5, <1>6, <1>8, <1>11, <1>12 DEF h, y, R, LayerLinked

\* The loop over the layers, which starts with the given graph and entry point.
LinkTurns(f, g, vs, id, high, dead, ep) ==
    /\ LinkFrom(g, vs, id, high, dead, ep) = f[high + 1].g
    /\ f[0] = [g |-> g, ep |-> ep]
    /\ \A k \in 1 .. high + 1 :
          high + 1 - k \in Layers /\ f[k] = LinkLayer(vs, id, high + 1 - k, dead, f[k - 1])

\* The loop over the layers is what LinkFrom computes.
LEMMA LinkFromExists ==
    ASSUME NEW vs \in Vecs, NEW g \in Graphs(vs), NEW id \in Real(vs), NEW high \in Layers, NEW dead,
           NEW ep \in DOMAIN vs
    PROVE  \E f : LinkTurns(f, g, vs, id, high, dead, ep)
  <1> DEFINE n == high + 1
             S == [g : Graphs(vs), ep : DOMAIN vs]
             a == [g |-> g, ep |-> ep]
             Turn(k, x) == LinkLayer(vs, id, high + 1 - k, dead, x)
             Eq(f) == f = [k \in 0 .. n |-> IF k = 0 THEN a ELSE Turn(k, f[k - 1])]
             at == CHOOSE f : Eq(f)
             G == [x \in (1 .. n) \X S |-> Turn(x[1], x[2])]
  <1>1. n \in Nat /\ a \in S /\ \A k \in 1 .. n : high + 1 - k \in Layers
    BY HnswAssumption DEF Layers
  <1>2. ASSUME NEW k \in 1 .. n, NEW x \in S PROVE Turn(k, x) \in S
    <2>1. PICK l \in Layers : l = high + 1 - k
      BY <1>1
    <2>2. Closed(x.g, DOMAIN vs, l)
      BY RowsClosed
    <2>3. LinkLayer(vs, id, l, dead, x) \in [g : Graphs(vs), ep : DOMAIN vs]
      <3> HIDE DEF n, Turn
      <3> QED BY <2>2, LinkLayerFacts DEF LayerLinked
    <2> QED BY <2>1, <2>3
  <1>3. LinkFrom(g, vs, id, high, dead, ep) = at[n].g
    BY DEF LinkFrom
  <1> HIDE DEF Turn, S, n, a
  <1>5. \E f : Eq(f)
    <2>1. G \in [(1 .. n) \X S -> S]
      BY <1>2
    <2>2. PICK f : IsLoop(f, n, S, a, G)
      <3> HIDE DEF G
      <3> QED BY <1>1, <2>1, LoopExists
    <2>3. ASSUME NEW k \in 0 .. n, k # 0 PROVE G[<<k, f[k - 1]>>] = Turn(k, f[k - 1])
      <3>1. k \in 1 .. n /\ k - 1 \in 0 .. n
        BY <1>1, <2>3
      <3>2. f[k - 1] \in S
        BY <2>2, <3>1 DEF IsLoop
      <3> QED BY <3>1, <3>2
    <2> HIDE DEF G
    <2>4. f = [k \in 0 .. n |-> IF k = 0 THEN a ELSE Turn(k, f[k - 1])]
      BY <2>2, <2>3 DEF IsLoop
    <2> QED BY <2>4
  <1>6. Eq(at)
    <2> HIDE DEF Eq
    <2> QED BY <1>5
  <1> HIDE DEF at
  <1>7. at[0] = a /\ \A k \in 1 .. n : at[k] = Turn(k, at[k - 1])
    <2>1. 0 \in 0 .. n /\ \A k \in 1 .. n : k \in 0 .. n /\ k # 0
      BY <1>1
    <2> QED BY <1>6, <2>1
  <1> HIDE DEF Eq
  <1> QED BY <1>1, <1>3, <1>7 DEF n, a, Turn, LinkTurns

\* Linking a node in all its layers: the lists keep their form, those of placeholders also
\* their rows.
LEMMA LinkFromFacts ==
    ASSUME NEW vs \in Vecs, NEW g \in Graphs(vs), NEW id \in Real(vs), NEW high \in Layers, NEW dead,
           NEW ep \in DOMAIN vs
    PROVE  /\ LinkFrom(g, vs, id, high, dead, ep) \in Graphs(vs)
           /\ Spared(vs, g, LinkFrom(g, vs, id, high, dead, ep))
  <1> DEFINE n == high + 1
             S == {x \in [g : Graphs(vs), ep : DOMAIN vs] : Spared(vs, g, x.g)}
  <1>1. PICK at : /\ LinkFrom(g, vs, id, high, dead, ep) = at[n].g
                  /\ at[0] = [g |-> g, ep |-> ep]
                  /\ \A k \in 1 .. n :
                        high + 1 - k \in Layers /\ at[k] = LinkLayer(vs, id, high + 1 - k, dead, at[k - 1])
    BY LinkFromExists DEF LinkTurns
  <1>2. n \in Nat
    BY DEF Layers
  <1>3. at[0] \in S
    BY <1>1 DEF Spared
  <1>4. ASSUME NEW k \in 1 .. n, at[k - 1] \in S PROVE at[k] \in S
    <2>1. PICK x \in [g : Graphs(vs), ep : DOMAIN vs] : x = at[k - 1] /\ Spared(vs, g, x.g)
      BY <1>4
    <2>2. PICK l \in Layers : l = high + 1 - k /\ at[k] = LinkLayer(vs, id, l, dead, x)
      BY <1>1, <2>1
    <2> DEFINE y == LinkLayer(vs, id, l, dead, x)
    <2>3. Closed(x.g, DOMAIN vs, l)
      BY RowsClosed
    <2>4. y \in [g : Graphs(vs), ep : DOMAIN vs] /\ Spared(vs, x.g, y.g)
      <3> HIDE DEF n, S
      <3> QED BY <2>3, LinkLayerFacts DEF LayerLinked
    <2> HIDE DEF y
    <2>5. Spared(vs, g, y.g)
      BY <2>1, <2>4 DEF Spared
    <2> QED BY <2>2, <2>4, <2>5 DEF y
  <1> HIDE DEF S, n
  <1>5. \A k \in 0 .. n : at[k] \in S
    BY <1>2, <1>3, <1>4, LoopStays
  <1>6. n \in 0 .. n
    BY <1>2
  <1> QED BY <1>1, <1>5, <1>6 DEF S

(***************************************************************************)
(* The invariant                                                           *)
(***************************************************************************)
Rows == [vec : Angles \cup {Zero}, level : Layers, dead : BOOLEAN]

\* A placeholder has no links of its own.
Bare(rs, g) == \A n \in DOMAIN rs, l \in Layers : rs[n].vec = Zero /\ l <= rs[n].level => g[n][l] = <<>>

\* The three are inductive together: add_link keeps a list well-formed only for rows with
\* vectors, the walks of an insert start at the entry point, and what they find are rows.
GraphInv == GraphTypeOK /\ EntryUsable /\ LinksWellFormed

\* What the invariant says of the vectors and lists.
LEMMA InvFacts ==
    ASSUME GraphTypeOK, LinksWellFormed
    PROVE  /\ Vectors \in Vecs /\ DOMAIN Vectors = DOMAIN rows /\ DOMAIN rows = 1 .. Len(rows)
           /\ Len(Vectors) = Len(rows) /\ Len(rows) \in Nat
           /\ \A n \in DOMAIN rows : Vectors[n] = rows[n].vec /\ rows[n] \in Rows
           /\ rows \in Seq(Rows) /\ links \in Graphs(Vectors) /\ Bare(rows, links)
           /\ entry \in 0 .. Len(rows) /\ top \in Layers /\ updates \in Nat
  <1>1. /\ rows \in Seq(Rows) /\ DOMAIN rows = 1 .. Len(rows) /\ Len(rows) \in Nat
        /\ \A n \in DOMAIN rows : rows[n] \in Rows
    <2>1. rows \in Seq(Rows)
      BY DEF GraphTypeOK, Rows
    <2> QED BY <2>1
  <1>2. DOMAIN Vectors = DOMAIN rows /\ \A n \in DOMAIN rows : Vectors[n] = rows[n].vec
    BY DEF Vectors
  <1>3. Vectors \in Vecs /\ Len(Vectors) = Len(rows)
    <2>1. Vectors = [n \in 1 .. Len(rows) |-> rows[n].vec]
      BY <1>1 DEF Vectors
    <2>2. \A n \in 1 .. Len(rows) : rows[n].vec \in Angles \cup {Zero}
      BY <1>1 DEF Rows
    <2> QED BY <1>1, <2>1, <2>2 DEF Vecs
  <1>4. links \in Graphs(Vectors) /\ Bare(rows, links)
    BY <1>2 DEF GraphTypeOK, LinksWellFormed, Graphs, Bare
  <1> QED BY <1>1, <1>2, <1>3, <1>4 DEF GraphTypeOK

\* The invariant, from the lists and rows after a step.
LEMMA InvNext ==
    ASSUME NEW vs, rows' \in Seq(Rows), DOMAIN vs = DOMAIN rows', links' \in Graphs(vs), Bare(rows', links'),
           entry' \in 0 .. Len(rows'), top' \in Layers, updates' \in Nat
    PROVE  GraphTypeOK' /\ LinksWellFormed'
  <1>1. links' \in [DOMAIN rows' -> [Layers -> Seq(DOMAIN rows')]]
    BY DEF Graphs
  <1>2. \A n \in DOMAIN links' : \A l \in Layers :
           Len(links'[n][l]) <= Capacity(l) /\ IsInjective(links'[n][l])
    BY <1>1 DEF Graphs
  <1>3. GraphTypeOK'
    BY <1>1, <1>2 DEF GraphTypeOK, Rows, Layers, Capacity
  <1>4. LinksWellFormed'
    BY <1>1, <1>2 DEF LinksWellFormed, Bare, Layers
  <1> QED BY <1>3, <1>4

\* The greater and the smaller of two numbers.
LEMMA PairFacts ==
    ASSUME NEW a \in Nat, NEW b \in Nat
    PROVE  /\ Max({a, b}) = (IF b > a THEN b ELSE a)
           /\ Min({a, b}) = (IF b < a THEN b ELSE a)
  <1>1. IsFiniteSet({a, b})
    <2>1. IsFiniteSet({a}) /\ {a, b} = {a} \cup {b}
      BY FS_Singleton
    <2> QED BY <2>1, FS_AddElement
  <1>2. Max({a, b}) \in {a, b} /\ \A x \in {a, b} : x <= Max({a, b})
    <2> DEFINE S == {a, b}
    <2>1. IsFiniteSet(S) /\ S \subseteq Nat /\ S # {}
      BY <1>1
    <2> HIDE DEF S
    <2>2. Max(S) \in S /\ \A x \in S : x <= Max(S)
      BY <2>1, MaxIsGreatest
    <2> QED BY <2>2 DEF S
  <1>3. Min({a, b}) \in {a, b} /\ \A x \in {a, b} : Min({a, b}) <= x
    <2> DEFINE S == {a, b}
    <2>1. S \subseteq Nat /\ S # {}
      OBVIOUS
    <2> HIDE DEF S
    <2>2. Min(S) \in S /\ \A x \in S : Min(S) <= x
      BY <2>1, MinIsLeast
    <2> QED BY <2>2 DEF S
  <1> QED BY <1>2, <1>3

\* Lists are cleared up to a level.
LEMMA ClearedFacts ==
    ASSUME NEW vs \in Vecs, NEW g \in Graphs(vs), NEW id \in DOMAIN vs, NEW level \in Layers
    PROVE  /\ Cleared(g, id, level) \in Graphs(vs)
           /\ \A m \in DOMAIN vs, l \in Layers :
                 Cleared(g, id, level)[m][l] = IF m = id /\ l <= level THEN <<>> ELSE g[m][l]
  <1> DEFINE h == Cleared(g, id, level)
             none == [l \in Layers |-> IF l <= level THEN <<>> ELSE g[id][l]]
  <1>1. /\ g \in [DOMAIN vs -> [Layers -> Seq(DOMAIN vs)]]
        /\ \A m \in DOMAIN vs, l \in Layers : Len(g[m][l]) <= Capacity(l) /\ IsInjective(g[m][l])
    BY DEF Graphs
  <1>2. h = [g EXCEPT ![id] = none]
    BY DEF Cleared
  <1>3. <<>> \in Seq(DOMAIN vs) /\ Len(<<>>) = 0 /\ IsInjective(<<>>)
    BY DEF IsInjective
  <1>4. none \in [Layers -> Seq(DOMAIN vs)]
    BY <1>1, <1>3
  <1>5. h \in [DOMAIN vs -> [Layers -> Seq(DOMAIN vs)]]
    <2> HIDE DEF none, h
    <2> QED BY <1>1, <1>2, <1>4
  <1>6. \A m \in DOMAIN vs, l \in Layers : h[m][l] = IF m = id /\ l <= level THEN <<>> ELSE g[m][l]
    BY <1>1, <1>2
  <1> HIDE DEF h, none
  <1>7. \A m \in DOMAIN vs, l \in Layers : Len(h[m][l]) <= Capacity(l) /\ IsInjective(h[m][l])
    BY <1>1, <1>3, <1>6, CapacityIsPositive
  <1> QED BY <1>5, <1>6, <1>7 DEF Graphs, h

\* us and h are vs and g with one more row, which has the vector v and no links.
Extended(vs, v, g, us, h) ==
    /\ us \in Vecs /\ DOMAIN us = DOMAIN vs \cup {Len(vs) + 1} /\ Len(us) = Len(vs) + 1
    /\ us[Len(vs) + 1] = v /\ \A m \in DOMAIN vs : us[m] = vs[m]
    /\ h \in Graphs(us)
    /\ \A l \in Layers : h[Len(vs) + 1][l] = <<>>
    /\ \A m \in DOMAIN vs : h[m] = g[m]

\* A row is added without links.
LEMMA AppendFacts ==
    ASSUME NEW vs \in Vecs, NEW v \in Angles \cup {Zero}, NEW g \in Graphs(vs)
    PROVE  Extended(vs, v, g, Append(vs, v), Append(g, NoLinks))
  <1> DEFINE us == Append(vs, v)
             h == Append(g, NoLinks)
             n == Len(vs)
             X == [Layers -> Seq(DOMAIN vs)]
             Y == [Layers -> Seq(DOMAIN us)]
  <1>1. /\ us \in Vecs /\ n \in Nat /\ DOMAIN vs = 1 .. n /\ DOMAIN us = 1 .. n + 1 /\ Len(us) = n + 1
        /\ us[n + 1] = v /\ \A m \in 1 .. n : us[m] = vs[m]
    BY DEF Vecs
  <1>2. DOMAIN us = DOMAIN vs \cup {n + 1} /\ DOMAIN vs \subseteq DOMAIN us
    BY <1>1
  <1> HIDE DEF us
  <1>3. g \in [1 .. n -> X]
    BY <1>1 DEF Graphs
  <1> HIDE DEF n
  <1>4. NoLinks \in Y /\ \A l \in Layers : NoLinks[l] = <<>>
    BY DEF NoLinks
  <1>5. \A m \in 1 .. n : g[m] \in Y
    <2>1. Seq(DOMAIN vs) \subseteq Seq(DOMAIN us)
      BY <1>2
    <2> QED BY <1>3, <2>1
  <1> HIDE DEF X, Y
  <1>6. g \in Seq(Y) /\ Len(g) = n
    BY <1>1, <1>3, <1>5
  <1>7. DOMAIN h = 1 .. n + 1 /\ h[n + 1] = NoLinks /\ \A m \in 1 .. n : h[m] = g[m]
    BY <1>1, <1>6
  <1>8. h \in Seq(Y)
    BY <1>4, <1>6
  <1>9. h \in [DOMAIN us -> Y]
    <2> HIDE DEF h
    <2> QED BY <1>1, <1>7, <1>8
  <1> HIDE DEF h
  <1>10. ASSUME NEW m \in DOMAIN us, NEW l \in Layers PROVE Len(h[m][l]) <= Capacity(l) /\ IsInjective(h[m][l])
    <2>1. CASE m \in DOMAIN vs
      BY <1>1, <1>7, <2>1 DEF Graphs
    <2>2. CASE m = n + 1
      <3>1. h[m][l] = <<>> /\ Len(<<>>) = 0 /\ IsInjective(<<>>)
        BY <1>4, <1>7, <2>2 DEF IsInjective
      <3> QED BY <3>1, CapacityIsPositive
    <2> QED BY <1>2, <2>1, <2>2
  <1>11. h \in Graphs(us)
    BY <1>9, <1>10 DEF Graphs, Y
  <1> QED BY <1>1, <1>2, <1>4, <1>7, <1>11 DEF us, h, n, Extended

\* HnswIndex::insert: the lists stay well-formed, and the entry point is a node of the top layer.
LEMMA LinkKeeps ==
    ASSUME NEW vs \in Vecs, NEW g \in Graphs(vs), NEW id \in Real(vs), NEW level \in Layers,
           entry \in {0} \cup DOMAIN vs, top \in Layers, Link(g, vs, id, level)
    PROVE  /\ links' \in Graphs(vs) /\ Spared(vs, g, links')
           /\ \/ entry' = id /\ top' = level
              \/ entry # 0 /\ UNCHANGED <<entry, top>>
  <1> DEFINE h == Cleared(g, id, level)
  <1>1. id \in DOMAIN vs
    BY DEF Real
  <1>2. /\ h \in Graphs(vs)
        /\ \A m \in DOMAIN vs, l \in Layers : h[m][l] = IF m = id /\ l <= level THEN <<>> ELSE g[m][l]
    BY <1>1, ClearedFacts
  <1> HIDE DEF h
  <1>3. Spared(vs, g, h)
    BY <1>2 DEF Spared, Real
  <1>4. CASE entry = 0
    <2>1. links' = h /\ entry' = id /\ top' = level
      BY <1>4 DEF Link, h
    <2> QED BY <1>2, <1>3, <2>1
  <1>5. CASE entry # 0
    <2> DEFINE ep == DescendTo(g, vs, vs[id], level + 1, top, {}, entry)
               high == Min({level, top})
    <2>1. /\ links' = LinkFrom(h, vs, id, high, {}, ep)
          /\ entry' = IF level > top THEN id ELSE entry
          /\ top' = Max({level, top})
      BY <1>5 DEF Link, h
    <2>2. level \in Nat /\ top \in Nat /\ level + 1 \in Nat \ {0}
      BY HnswAssumption DEF Layers
    <2>3. ep \in DOMAIN vs
      <3>1. \A l \in Layers : Closed(g, DOMAIN vs, l)
        BY RowsClosed
      <3>2. vs[id] \in Angles
        BY DEF Real, Vecs
      <3>3. entry \in DOMAIN vs
        BY <1>5
      <3>4. ep \in {e \in DOMAIN vs : e \in {entry} \cup Real(vs)}
        <4>1. PICK low, P : low \in Nat \ {0} /\ low = level + 1 /\ P = DOMAIN vs
          BY <2>2
        <4>2. \A l \in Layers : Closed(g, P, l)
          BY <3>1, <4>1
        <4> HIDE DEF ep
        <4>3. DescendTo(g, vs, vs[id], low, top, {}, entry) \in {e \in P : e \in {entry} \cup Real(vs)}
          BY <3>2, <3>3, <4>1, <4>2, DescendToStays
        <4> QED BY <4>1, <4>3 DEF ep
      <3> QED BY <3>4
    <2> HIDE DEF ep
    <2>4. high \in Layers
      BY <2>2, PairFacts
    <2> HIDE DEF high
    <2>5. links' \in Graphs(vs) /\ Spared(vs, h, links')
      BY <1>2, <2>1, <2>3, <2>4, LinkFromFacts
    <2>6. Spared(vs, g, links')
      BY <1>3, <2>5 DEF Spared
    <2>7. IF level > top THEN entry' = id /\ top' = level ELSE entry' = entry /\ top' = top
      BY <2>1, <2>2, PairFacts
    <2> QED BY <1>5, <2>5, <2>6, <2>7
  <1> QED BY <1>4, <1>5

\* insert and insert_raw.
LEMMA InsertKeeps ==
    ASSUME GraphInv, NEW v \in Angles \cup {Zero}, NEW level \in Layers, Insert(v, level)
    PROVE  GraphInv'
  <1> DEFINE vs == Append(Vectors, v)
             id == Len(rows) + 1
             g == Append(links, NoLinks)
             row == [vec |-> v, level |-> level, dead |-> FALSE]
  <1>1. /\ Vectors \in Vecs /\ DOMAIN Vectors = DOMAIN rows /\ DOMAIN rows = 1 .. Len(rows)
        /\ Len(Vectors) = Len(rows) /\ Len(rows) \in Nat
        /\ \A n \in DOMAIN rows : Vectors[n] = rows[n].vec /\ rows[n] \in Rows
        /\ rows \in Seq(Rows) /\ links \in Graphs(Vectors) /\ Bare(rows, links)
        /\ entry \in 0 .. Len(rows) /\ top \in Layers /\ updates \in Nat
    BY InvFacts DEF GraphInv
  <1>2. /\ vs \in Vecs /\ DOMAIN vs = DOMAIN rows \cup {id}
        /\ vs[id] = v /\ \A m \in DOMAIN rows : vs[m] = Vectors[m]
        /\ g \in Graphs(vs)
        /\ \A l \in Layers : g[id][l] = <<>>
        /\ \A m \in DOMAIN rows : g[m] = links[m]
    <2>1. PICK us, h : us = Vectors /\ h = links
      OBVIOUS
    <2>2. us \in Vecs /\ h \in Graphs(us) /\ Len(us) = Len(rows) /\ DOMAIN us = DOMAIN rows
      BY <1>1, <2>1
    <2> DEFINE ws == Append(us, v)
               f == Append(h, NoLinks)
    <2>3. Extended(us, v, h, ws, f)
      BY <2>2, AppendFacts
    <2>4. vs = ws /\ g = f
      BY <2>1
    <2> HIDE DEF ws, f, vs, g
    <2> QED BY <2>1, <2>2, <2>3, <2>4 DEF Extended
  <1> HIDE DEF vs, g
  <1>3. rows' = Append(rows, row) /\ updates' = updates
    BY DEF Insert
  <1>4. row \in Rows
    BY DEF Rows
  <1>5. /\ rows' \in Seq(Rows) /\ Len(rows') = id /\ DOMAIN rows' = DOMAIN rows \cup {id}
        /\ rows'[id] = row /\ \A m \in DOMAIN rows : rows'[m] = rows[m] /\ m # id
    BY <1>1, <1>3, <1>4
  <1>6. DOMAIN vs = DOMAIN rows' /\ \A m \in DOMAIN rows' : vs[m] = rows'[m].vec
    BY <1>1, <1>2, <1>5
  <1>7. Bare(rows', g)
    BY <1>1, <1>2, <1>5 DEF Bare
  <1>8. Live' \subseteq Live \cup {id} /\ (v = Zero => Live' \subseteq Live)
    BY <1>5 DEF Live
  <1>9. entry # 0 => entry \in DOMAIN rows /\ rows'[entry] = rows[entry]
    BY <1>1, <1>5
  <1>10. CASE v = Zero
    <2>1. links' = g /\ entry' = entry /\ top' = top
      BY <1>10 DEF Insert, g
    <2>2. entry' \in 0 .. Len(rows')
      BY <1>1, <1>5, <2>1
    <2>3. GraphTypeOK' /\ LinksWellFormed'
      BY <1>1, <1>2, <1>3, <1>5, <1>6, <1>7, <2>1, <2>2, InvNext
    <2>4. EntryUsable'
      BY <1>8, <1>9, <1>10, <2>1 DEF EntryUsable, GraphInv
    <2> QED BY <2>3, <2>4 DEF GraphInv
  <1>11. CASE v # Zero
    <2>1. Link(g, vs, id, level)
      BY <1>11 DEF Insert, vs, g
    <2>2. id \in Real(vs) /\ entry \in {0} \cup DOMAIN vs
      BY <1>1, <1>2, <1>11 DEF Real
    <2> HIDE DEF id
    <2>3. /\ links' \in Graphs(vs) /\ Spared(vs, g, links')
          /\ \/ entry' = id /\ top' = level
             \/ entry # 0 /\ UNCHANGED <<entry, top>>
      BY <1>1, <1>2, <2>1, <2>2, LinkKeeps
    <2>4. Bare(rows', links')
      BY <1>6, <1>7, <2>3 DEF Bare, Spared
    <2>5. entry' \in 0 .. Len(rows') /\ top' \in Layers /\ entry' # 0
      BY <1>1, <1>5, <2>3 DEF id
    <2>6. GraphTypeOK' /\ LinksWellFormed'
      BY <1>1, <1>3, <1>5, <1>6, <2>3, <2>4, <2>5, InvNext
    <2>7. EntryUsable'
      BY <1>5, <1>9, <1>11, <2>3, <2>5 DEF EntryUsable, GraphInv
    <2> QED BY <2>6, <2>7 DEF GraphInv
  <1> QED BY <1>10, <1>11

\* delete.
LEMMA DeleteKeeps ==
    ASSUME GraphInv, NEW id \in DOMAIN rows, Delete(id)
    PROVE  GraphInv'
  <1>1. /\ DOMAIN Vectors = DOMAIN rows /\ rows \in Seq(Rows) /\ Len(rows) \in Nat /\ DOMAIN rows = 1 .. Len(rows)
        /\ \A n \in DOMAIN rows : Vectors[n] = rows[n].vec /\ rows[n] \in Rows
        /\ links \in Graphs(Vectors) /\ Bare(rows, links)
        /\ entry \in 0 .. Len(rows) /\ top \in Layers /\ updates \in Nat
    BY InvFacts DEF GraphInv
  <1>2. rows' = [rows EXCEPT ![id].dead = TRUE] /\ UNCHANGED <<links, entry, top, updates>>
    BY DEF Delete
  <1>3. [rows[id] EXCEPT !.dead = TRUE] \in Rows
    BY <1>1 DEF Rows
  <1>4. rows' \in Seq(Rows) /\ DOMAIN rows' = DOMAIN rows /\ Len(rows') = Len(rows)
    BY <1>1, <1>2, <1>3
  <1>5. \A n \in DOMAIN rows : /\ rows'[n].vec = rows[n].vec /\ rows'[n].level = rows[n].level
                               /\ rows[n].dead => rows'[n].dead
    BY <1>1, <1>2 DEF Rows
  <1>6. Bare(rows', links')
    BY <1>1, <1>2, <1>4, <1>5 DEF Bare
  <1>7. GraphTypeOK' /\ LinksWellFormed'
    BY <1>1, <1>2, <1>4, <1>6, InvNext
  <1>8. EntryUsable'
    <2>1. Live' \subseteq Live
      BY <1>4, <1>5 DEF Live
    <2>2. entry # 0 => entry \in DOMAIN rows
      BY <1>1
    <2> QED BY <1>2, <1>5, <2>1, <2>2 DEF EntryUsable, GraphInv
  <1> QED BY <1>7, <1>8 DEF GraphInv

\* rebuild_hnsw_node links to what it finds from a node with a list of its own, whichever it starts from.
LEMMA RelinkKeeps ==
    ASSUME NEW vs \in Vecs, NEW g \in Graphs(vs), NEW id \in Real(vs), rows[id].level \in Layers,
           DOMAIN rows = DOMAIN vs, entry \in DOMAIN vs, top \in Layers, Relink(g, vs, id)
    PROVE  links' \in Graphs(vs) /\ Spared(vs, g, links') /\ UNCHANGED <<entry, top>>
  <1> DEFINE start == IF entry # id THEN entry ELSE Min(Indexable(vs, id))
             ep == DescendTo(g, vs, vs[id], 1, top, Dead \cup {id}, start)
  <1>1. UNCHANGED <<entry, top>>
    BY DEF Relink
  <1>2. CASE entry = id /\ Indexable(vs, id) = {}
    <2>1. links' = g
      BY <1>2 DEF Relink
    <2> QED BY <1>1, <2>1 DEF Spared
  <1>3. CASE ~ (entry = id /\ Indexable(vs, id) = {})
    <2>1. links' = LinkFrom(g, vs, id, rows[id].level, Dead, ep)
      BY <1>3 DEF Relink
    <2>2. start \in DOMAIN vs
      <3>1. CASE entry # id
        BY <3>1
      <3>2. CASE entry = id
        <4>1. Indexable(vs, id) \subseteq Nat /\ Indexable(vs, id) # {} /\ Indexable(vs, id) \subseteq DOMAIN vs
          BY <1>3, <3>2 DEF Indexable, Vecs
        <4>2. Min(Indexable(vs, id)) \in Indexable(vs, id)
          BY <4>1, MinIsLeast
        <4> QED BY <3>2, <4>1, <4>2
      <3> QED BY <3>1, <3>2
    <2> HIDE DEF start
    <2>3. ep \in DOMAIN vs
      <3>1. PICK low \in Nat \ {0} : low = 1
        OBVIOUS
      <3> DEFINE P == DOMAIN vs
                 skip == Dead \cup {id}
      <3>2. \A l \in Layers : Closed(g, P, l)
        BY RowsClosed
      <3>3. vs[id] \in Angles /\ start \in P /\ P \subseteq DOMAIN vs
        BY <2>2 DEF Real, Vecs
      <3> HIDE DEF ep, P, skip
      <3>4. DescendTo(g, vs, vs[id], low, top, skip, start) \in {e \in P : e \in {start} \cup Real(vs)}
        BY <3>2, <3>3, DescendToStays
      <3> QED BY <3>1, <3>4 DEF ep, P, skip
    <2> HIDE DEF ep
    <2>4. links' \in Graphs(vs) /\ Spared(vs, g, links')
      BY <2>1, <2>3, LinkFromFacts
    <2> QED BY <1>1, <2>4
  <1> QED BY <1>2, <1>3

\* update, in each of the cases of rebuild_hnsw_node.
LEMMA UpdateKeeps ==
    ASSUME GraphInv, NEW id \in DOMAIN rows, NEW v \in Angles \cup {Zero}, NEW level \in Layers,
           Update(id, v, level)
    PROVE  GraphInv'
  <1> DEFINE vs == [Vectors EXCEPT ![id] = v]
             g == Cleared(links, id, rows[id].level)
             drawn == v # Zero /\ entry = 0
  <1>1. /\ Vectors \in Vecs /\ DOMAIN Vectors = DOMAIN rows /\ DOMAIN rows = 1 .. Len(rows)
        /\ rows \in Seq(Rows) /\ Len(rows) \in Nat
        /\ \A n \in DOMAIN rows : Vectors[n] = rows[n].vec /\ rows[n] \in Rows
        /\ links \in Graphs(Vectors) /\ Bare(rows, links)
        /\ entry \in 0 .. Len(rows) /\ top \in Layers /\ updates \in Nat
    BY InvFacts DEF GraphInv
  <1>2. /\ rows' = [rows EXCEPT ![id].vec = v, ![id].level = level] /\ updates' = updates + 1
        /\ ~rows[id].dead /\ (~drawn => level = rows[id].level)
        /\ IF v = Zero THEN Unlink(g, vs, id)
           ELSE IF drawn THEN Link(g, vs, id, level) ELSE Relink(g, vs, id)
    BY DEF Update
  <1>3. /\ vs \in Vecs /\ DOMAIN vs = DOMAIN rows /\ vs[id] = v
        /\ \A n \in DOMAIN rows : n # id => vs[n] = rows[n].vec
    BY <1>1 DEF Vecs
  <1>4. rows[id].level \in Layers /\ Graphs(vs) = Graphs(Vectors)
    BY <1>1, <1>3 DEF Rows, Graphs
  <1> HIDE DEF vs
  <1>5. /\ g \in Graphs(vs)
        /\ \A m \in DOMAIN rows, l \in Layers :
              g[m][l] = IF m = id /\ l <= rows[id].level THEN <<>> ELSE links[m][l]
    <2>1. PICK h, k : h = links /\ k \in Layers /\ k = rows[id].level
      BY <1>4
    <2>2. h \in Graphs(vs)
      BY <1>1, <1>4, <2>1
    <2>3. /\ Cleared(h, id, k) \in Graphs(vs)
          /\ \A m \in DOMAIN vs, l \in Layers :
                Cleared(h, id, k)[m][l] = IF m = id /\ l <= k THEN <<>> ELSE h[m][l]
      BY <1>3, <2>1, <2>2, ClearedFacts
    <2> QED BY <1>3, <2>1, <2>3
  <1> HIDE DEF g
  <1>6. /\ rows' \in Seq(Rows) /\ DOMAIN rows' = DOMAIN rows /\ Len(rows') = Len(rows)
        /\ rows'[id].vec = v /\ rows'[id].level = level /\ ~rows'[id].dead
        /\ \A n \in DOMAIN rows : n # id => rows'[n] = rows[n]
    <2>1. [rows[id] EXCEPT !.vec = v, !.level = level] \in Rows
      BY <1>1 DEF Rows
    <2>2. rows' = [rows EXCEPT ![id] = [rows[id] EXCEPT !.vec = v, !.level = level]]
      BY <1>1, <1>2 DEF Rows
    <2>3. rows'[id] = [rows[id] EXCEPT !.vec = v, !.level = level]
      BY <1>1, <2>2
    <2>4. rows'[id].vec = v /\ rows'[id].level = level /\ ~rows'[id].dead
      BY <1>1, <1>2, <2>3 DEF Rows
    <2> QED BY <1>1, <2>1, <2>2, <2>4
  <1>7. \A n \in DOMAIN rows' : vs[n] = rows'[n].vec
    BY <1>3, <1>6
  <1>8. Bare(rows', g)
    BY <1>1, <1>2, <1>5, <1>6 DEF Bare
  <1>9. /\ Live' \subseteq Live \cup {id} /\ (v = Zero => Live' \subseteq Live \ {id})
        /\ Live' \ {id} \subseteq Indexable(vs, id)
        /\ Indexable(vs, id) \subseteq DOMAIN rows /\ Indexable(vs, id) \subseteq Nat
        /\ \A n \in Indexable(vs, id) : n # id /\ rows'[n] = rows[n] /\ rows[n].vec # Zero
    BY <1>1, <1>3, <1>6 DEF Live, Indexable
  <1>10. ASSUME links' \in Graphs(vs), Spared(vs, g, links'), entry' \in 0 .. Len(rows'), top' \in Layers
         PROVE  GraphTypeOK' /\ LinksWellFormed'
    <2>1. Bare(rows', links')
      BY <1>3, <1>6, <1>7, <1>8, <1>10 DEF Bare, Spared
    <2>2. updates' \in Nat
      BY <1>1, <1>2
    <2> QED BY <1>3, <1>6, <1>10, <2>1, <2>2, InvNext
  <1>11. CASE v = Zero
    <2>1. links' = g /\ Spared(vs, g, g)
      BY <1>2, <1>11 DEF Unlink, Spared
    <2>2. CASE entry # id
      <3>1. entry' = entry /\ top' = top
        BY <1>2, <1>11, <2>2 DEF Unlink, LosesEntry
      <3>2. entry' \in 0 .. Len(rows')
        BY <1>1, <1>6, <3>1
      <3>3. entry # 0 => entry \in DOMAIN rows
        BY <1>1
      <3>4. EntryUsable'
        BY <1>6, <1>9, <1>11, <2>2, <3>1, <3>3 DEF EntryUsable, GraphInv
      <3> QED BY <1>1, <1>5, <1>10, <2>1, <3>1, <3>2, <3>4 DEF GraphInv
    <2>3. CASE entry = id /\ Indexable(vs, id) = {}
      <3>1. entry' = 0 /\ top' = 0
        BY <1>2, <1>11, <2>3 DEF Unlink, LosesEntry
      <3>2. entry' \in 0 .. Len(rows') /\ top' \in Layers
        BY <1>1, <1>6, <3>1, HnswAssumption DEF Layers
      <3>3. EntryUsable'
        BY <1>9, <1>11, <2>3, <3>1 DEF EntryUsable
      <3> QED BY <1>5, <1>10, <2>1, <3>2, <3>3 DEF GraphInv
    <2>4. CASE entry = id /\ Indexable(vs, id) # {}
      <3> DEFINE m == Min(Indexable(vs, id))
      <3>1. m \in Indexable(vs, id)
        BY <1>9, <2>4, MinIsLeast
      <3>2. entry' = m /\ top' = rows[m].level
        BY <1>2, <1>11, <2>4 DEF Unlink, LosesEntry, TopOf
      <3> HIDE DEF m
      <3>3. entry' \in 0 .. Len(rows') /\ top' \in Layers /\ entry' # 0
        BY <1>1, <1>6, <1>9, <3>1, <3>2 DEF Rows
      <3>4. EntryUsable'
        BY <1>9, <3>1, <3>2, <3>3 DEF EntryUsable
      <3> QED BY <1>5, <1>10, <2>1, <3>3, <3>4 DEF GraphInv
    <2> QED BY <2>2, <2>3, <2>4
  <1>12. CASE v # Zero /\ entry = 0
    <2>1. Link(g, vs, id, level)
      BY <1>2, <1>12
    <2>2. id \in Real(vs) /\ entry \in {0} \cup DOMAIN vs
      BY <1>3, <1>12 DEF Real
    <2>3. links' \in Graphs(vs) /\ Spared(vs, g, links') /\ entry' = id /\ top' = level
      BY <1>1, <1>3, <1>5, <1>12, <2>1, <2>2, LinkKeeps
    <2>4. entry' \in 0 .. Len(rows') /\ top' \in Layers /\ entry' # 0
      BY <1>1, <1>6, <2>3
    <2>5. EntryUsable'
      BY <1>6, <1>12, <2>3, <2>4 DEF EntryUsable
    <2> QED BY <1>10, <2>3, <2>4, <2>5 DEF GraphInv
  <1>13. CASE v # Zero /\ entry # 0
    <2>1. Relink(g, vs, id) /\ level = rows[id].level
      BY <1>2, <1>13
    <2>2. id \in Real(vs) /\ entry \in DOMAIN vs /\ entry \in DOMAIN rows
      BY <1>1, <1>3, <1>13 DEF Real
    <2>3. links' \in Graphs(vs) /\ Spared(vs, g, links') /\ entry' = entry /\ top' = top
      BY <1>1, <1>3, <1>4, <1>5, <2>1, <2>2, RelinkKeeps
    <2>4. entry' \in 0 .. Len(rows') /\ top' \in Layers
      BY <1>1, <1>6, <2>3
    <2>5. EntryUsable'
      <3>1. rows[entry].vec # Zero /\ top = rows[entry].level
        BY <1>13 DEF EntryUsable, GraphInv
      <3>2. rows'[entry].vec # Zero /\ rows'[entry].level = rows[entry].level
        BY <1>6, <1>13, <2>1, <2>2, <3>1
      <3> QED BY <1>13, <2>3, <3>1, <3>2 DEF EntryUsable
    <2> QED BY <1>10, <2>3, <2>4, <2>5 DEF GraphInv
  <1> QED BY <1>11, <1>12, <1>13

\* The empty database.
LEMMA GraphStart == Init => GraphInv
  <1> SUFFICES ASSUME Init PROVE GraphInv
    OBVIOUS
  <1>1. rows = <<>> /\ links = <<>> /\ entry = 0 /\ top = 0 /\ updates = 0
    BY DEF Init
  <1>2. DOMAIN rows = {} /\ DOMAIN links = {} /\ Len(rows) = 0
    BY <1>1
  <1>3. links \in [DOMAIN rows -> [Layers -> Seq(DOMAIN rows)]]
    BY <1>1, <1>2
  <1>4. rows \in Seq([vec : Angles \cup {Zero}, level : Layers, dead : BOOLEAN])
    BY <1>1
  <1>5. 0 \in Layers /\ entry \in 0 .. Len(rows)
    BY <1>1, <1>2, HnswAssumption DEF Layers
  <1>6. GraphTypeOK
    BY <1>1, <1>2, <1>3, <1>4, <1>5 DEF GraphTypeOK
  <1>7. EntryUsable /\ LinksWellFormed
    BY <1>1, <1>2 DEF EntryUsable, LinksWellFormed, Live
  <1> QED BY <1>6, <1>7 DEF GraphInv

\* Every operation keeps the invariant.
LEMMA GraphStep == GraphInv /\ [Next]_vars => GraphInv'
  <1> SUFFICES ASSUME GraphInv, [Next]_vars PROVE GraphInv'
    OBVIOUS
  <1>1. CASE \E v \in Angles \cup {Zero}, level \in Layers : Insert(v, level)
    BY <1>1, InsertKeeps
  <1>2. CASE \E id \in DOMAIN rows : Delete(id)
    BY <1>2, DeleteKeeps
  <1>3. CASE \E id \in DOMAIN rows, v \in Angles \cup {Zero}, level \in Layers : Update(id, v, level)
    BY <1>3, UpdateKeeps
  <1>4. CASE UNCHANGED vars
    BY <1>4 DEF vars, GraphInv, GraphTypeOK, EntryUsable, LinksWellFormed, Live
  <1> QED BY <1>1, <1>2, <1>3, <1>4 DEF Next

\* Every insert, delete and update keeps the three invariants together.
THEOREM GraphInvariance == Spec => []GraphInv
  BY GraphStart, GraphStep, PTL DEF Spec

\* The lists always fit the slots that the file gives them, add_link cuts them to the capacity
\* (m or m0), and hold rows that exist.
THEOREM GraphTypeCorrect == Spec => []GraphTypeOK
  <1>1. GraphInv => GraphTypeOK
    BY DEF GraphInv
  <1> QED BY <1>1, GraphInvariance, PTL

\* However rows are inserted, deleted, emptied and filled again (rebuild_hnsw_node and
\* find_indexable_row), searches start at a node with a vector of the top layer.
THEOREM EntryStaysUsable == Spec => []EntryUsable
  <1>1. GraphInv => EntryUsable
    BY DEF GraphInv
  <1> QED BY <1>1, GraphInvariance, PTL

\* add_link in both directions, over lists that were cut and sorted before, puts no node
\* twice into a list, and a row that lost its vector keeps no links of its own.
THEOREM LinksStayWellFormed == Spec => []LinksWellFormed
  <1>1. GraphInv => LinksWellFormed
    BY DEF GraphInv
  <1> QED BY <1>1, GraphInvariance, PTL

(***************************************************************************)
(* A search that asks for more than there is                               *)
(***************************************************************************)
\* It never has enough.
LEMMA NeverFull ==
    ASSUME NEW vs \in Vecs, NEW ef \in Nat, ef > Len(vs), NEW dead,
           NEW P, P \subseteq DOMAIN vs, NEW w \in Walks(P, Real(vs), dead)
    PROVE  ~Full(ef, w)
  <1>1. Len(vs) \in Nat /\ DOMAIN vs = 1 .. Len(vs)
    BY DEF Vecs
  <1>2. w.res \subseteq 1 .. Len(vs)
    BY <1>1 DEF Walks
  <1>3. IsFiniteSet(1 .. Len(vs)) /\ Cardinality(1 .. Len(vs)) = Len(vs)
    <2>1. 1 \in Int /\ Len(vs) \in Int
      BY <1>1
    <2>2. IsFiniteSet(1 .. Len(vs)) /\ Cardinality(1 .. Len(vs)) = IF 1 > Len(vs) THEN 0 ELSE Len(vs) - 1 + 1
      BY <2>1, FS_Interval
    <2> QED BY <1>1, <2>2
  <1>4. Cardinality(w.res) <= Len(vs) /\ Cardinality(w.res) \in Nat
    <2>1. IsFiniteSet(w.res) /\ Cardinality(w.res) <= Cardinality(1 .. Len(vs))
      BY <1>2, <1>3, FS_Subset
    <2> QED BY <1>3, <2>1, FS_CardinalityType
  <1> QED BY <1>1, <1>4 DEF Full

\* All that was visited is found, but the deleted.
Complete(w, dead) == w.res = w.visited \ dead

\* From w to u all of the list is visited.
Reaches(u, w, list) ==
    u.visited = w.visited \cup Range(list) /\ u.cand = w.cand \cup (Range(list) \ w.visited)

\* All neighbours of a candidate are visited; the new ones become candidates.
LEMMA VisitAllReaches ==
    ASSUME NEW vs \in Vecs, NEW v, NEW ef \in Nat \ {0}, ef > Len(vs), NEW dead,
           NEW P, P \subseteq Real(vs), NEW w \in Walks(P, Real(vs), dead), Complete(w, dead),
           NEW list \in Seq(P)
    PROVE  LET u == VisitAll(vs, v, ef, dead, w, list) IN
           u \in Walks(P, Real(vs), dead) /\ Reaches(u, w, list) /\ Complete(u, dead)
  <1> DEFINE n == Len(list)
             W == Walks(P, Real(vs), dead)
             R(i) == {list[j] : j \in 1 .. i}
             T == {x \in Nat \X W : /\ x[2].visited = w.visited \cup R(x[1])
                                    /\ x[2].cand = w.cand \cup (R(x[1]) \ w.visited)
                                    /\ x[2].res = x[2].visited \ dead}
  <1>1. P \subseteq DOMAIN vs
    BY DEF Real
  <1>2. PICK at : VisitLoop(at, vs, v, ef, dead, w, list) /\ VisitAll(vs, v, ef, dead, w, list) = at[n]
    BY <1>1, VisitLoopExists
  <1>3. /\ n \in Nat /\ DOMAIN list = 1 .. n
        /\ \A i \in 1 .. n : i \in 0 .. n /\ i # 0 /\ i - 1 \in Nat /\ list[i] \in P
    OBVIOUS
  <1>4. at = [i \in 0 .. n |-> IF i = 0 THEN w ELSE Visit(vs, v, ef, dead, at[i - 1], list[i])]
    BY <1>2 DEF VisitLoop
  <1> HIDE DEF n
  <1>5. at[0] = w /\ \A i \in 1 .. n : at[i] = Visit(vs, v, ef, dead, at[i - 1], list[i])
    BY <1>3, <1>4
  <1>6. <<0, at[0]>> \in T
    <2>1. R(0) = {}
      OBVIOUS
    <2> QED BY <1>5, <2>1 DEF Complete
  <1>7. ASSUME NEW i \in 1 .. n, <<i - 1, at[i - 1]>> \in T PROVE <<i, at[i]>> \in T
    <2>1. PICK x \in W : /\ x = at[i - 1]
                         /\ x.visited = w.visited \cup R(i - 1)
                         /\ x.cand = w.cand \cup (R(i - 1) \ w.visited)
                         /\ x.res = x.visited \ dead
      BY <1>7
    <2>2. PICK m \in P : m = list[i]
      BY <1>3
    <2>3. R(i) = R(i - 1) \cup {m}
      BY <1>3, <2>2
    <2> HIDE DEF R
    <2> DEFINE y == Visit(vs, v, ef, dead, x, m)
    <2>4. ~Full(ef, x) /\ vs[m] # Zero
      BY <1>1, NeverFull DEF Real
    <2>5. y \in W
      BY <1>1, VisitFacts
    <2>6. CASE m \in x.visited
      <3>1. y = x
        BY <2>6 DEF Visit
      <3>2. y.visited = w.visited \cup R(i) /\ y.cand = w.cand \cup (R(i) \ w.visited)
        <4>1. x.visited = w.visited \cup R(i)
          BY <2>1, <2>3, <2>6
        <4>2. R(i) \ w.visited = R(i - 1) \ w.visited
          BY <2>1, <2>3, <2>6
        <4> QED BY <2>1, <3>1, <4>1, <4>2
      <3> QED BY <1>3, <1>5, <2>1, <2>2, <2>5, <3>1, <3>2
    <2>7. CASE m \notin x.visited
      <3> DEFINE res == IF m \in dead THEN x.res ELSE x.res \cup {m}
      <3>1. y = [visited |-> x.visited \cup {m}, cand |-> x.cand \cup {m}, res |-> res]
        BY <2>4, <2>7 DEF Visit
      <3>2. y.visited = x.visited \cup {m} /\ y.cand = x.cand \cup {m} /\ y.res = res
        BY <3>1
      <3> HIDE DEF y
      <3>3. y.visited = w.visited \cup R(i) /\ y.cand = w.cand \cup (R(i) \ w.visited)
        BY <2>1, <2>3, <2>7, <3>2
      <3>4. y.res = y.visited \ dead
        BY <2>1, <3>2
      <3> QED BY <1>3, <1>5, <2>1, <2>2, <2>5, <3>3, <3>4 DEF y
    <2> QED BY <2>6, <2>7
  <1> HIDE DEF T
  <1>8. \A i \in 0 .. n : <<i, at[i]>> \in T
    BY <1>3, <1>6, <1>7, LoopKeeps
  <1>9. n \in 0 .. n
    BY <1>3
  <1>10. <<n, at[n]>> \in T
    BY <1>8, <1>9
  <1>11. R(n) = Range(list)
    BY <1>3 DEF Range
  <1> QED BY <1>2, <1>10, <1>11 DEF T, Complete, Reaches

\* A turn of search_layer then takes a candidate and goes on to all its neighbours.
LEMMA ExpandReaches ==
    ASSUME NEW vs \in Vecs, NEW v \in Angles, NEW g \in Graphs(vs), NEW layer \in Layers,
           NEW ef \in Nat \ {0}, ef > Len(vs), NEW dead,
           NEW P, P \subseteq Real(vs), Closed(g, P, layer),
           NEW w \in Walks(P, Real(vs), dead), Complete(w, dead), w.cand # {}
    PROVE  LET c == Nearest(vs, v, w.cand)
               u == Expand(g, vs, v, layer, ef, dead, w)
           IN  /\ c \in w.cand /\ u \in Walks(P, Real(vs), dead)
               /\ u.visited = w.visited \cup Range(g[c][layer])
               /\ u.cand = (w.cand \ {c}) \cup (Range(g[c][layer]) \ w.visited)
               /\ Complete(u, dead)
  <1> DEFINE c == Nearest(vs, v, w.cand)
             x == [w EXCEPT !.cand = @ \ {c}]
             list == g[c][layer]
             y == VisitAll(vs, v, ef, dead, x, list)
             u == Expand(g, vs, v, layer, ef, dead, w)
  <1>1. P \subseteq DOMAIN vs
    BY DEF Real
  <1>2. c \in w.cand /\ list \in Seq(P) /\ x \in Walks(P, Real(vs), dead)
    BY <1>1, CandidateFacts
  <1>3. ~Full(ef, w)
    BY <1>1, NeverFull
  <1>4. u = y
    BY <1>3 DEF Expand
  <1>5. x.visited = w.visited /\ x.cand = w.cand \ {c} /\ Complete(x, dead)
    BY DEF Walks, Complete
  <1> HIDE DEF x, c, list, u
  <1>6. y \in Walks(P, Real(vs), dead) /\ Reaches(y, x, list) /\ Complete(y, dead)
    BY <1>2, <1>5, VisitAllReaches
  <1> HIDE DEF y
  <1> QED BY <1>2, <1>4, <1>5, <1>6 DEF c, u, list, Reaches

\* No part of the rows P can be cut off.
Connected(g, P, layer) == \A C \in SUBSET P : C # {} /\ Closed(g, C, layer) => C = P

\* A walk over connected rows finds all of them but the deleted, and passes through those:
\* each turn takes one more candidate and leaves none of its neighbours out.
LEMMA WalkFindsAll ==
    ASSUME NEW vs \in Vecs, NEW v \in Angles, NEW g \in Graphs(vs), NEW layer \in Layers,
           NEW ef \in Nat \ {0}, ef > Len(vs), NEW dead,
           NEW P, P \subseteq Real(vs), Closed(g, P, layer), Connected(g, P, layer), NEW ep \in P
    PROVE  Walk(g, vs, v, layer, ef, dead, ep) = P \ dead
  <1> DEFINE n == Len(vs)
             W == Walks(P, Real(vs), dead)
             Good(w) == /\ ep \in w.visited /\ w.res = w.visited \ dead
                        /\ \A m \in w.visited \ w.cand : Range(g[m][layer]) \subseteq w.visited
             T == {x \in Nat \X W : /\ Good(x[2])
                                    /\ x[2].cand = {} \/ Cardinality(x[2].visited \ x[2].cand) >= x[1]}
  <1>1. P \subseteq DOMAIN vs
    BY DEF Real
  <1>2. PICK at : /\ WalkLoop(at, g, vs, v, layer, ef, dead, ep)
                  /\ Walk(g, vs, v, layer, ef, dead, ep) = at[n].res
    BY <1>1, WalkLoopExists
  <1>3. n \in Nat /\ DOMAIN vs = 1 .. n /\ \A k \in 1 .. n : k \in 0 .. n /\ k # 0 /\ k - 1 \in Nat
    BY DEF Vecs
  <1>4. at = [k \in 0 .. n |->
                IF k = 0 THEN WalkStart(vs, dead, ep) ELSE Expand(g, vs, v, layer, ef, dead, at[k - 1])]
    BY <1>2 DEF WalkLoop
  <1>5. ASSUME NEW w \in W
        PROVE  /\ w \in [visited : SUBSET P, cand : SUBSET P, res : SUBSET P]
               /\ w.cand \subseteq w.visited /\ w.visited \subseteq 1 .. n
               /\ IsFiniteSet(w.visited \ w.cand) /\ Cardinality(w.visited \ w.cand) \in Nat
    <2>1. w \in [visited : SUBSET P, cand : SUBSET P, res : SUBSET P] /\ w.cand \subseteq w.visited
      BY DEF Walks
    <2>2. w.visited \subseteq 1 .. n
      BY <1>1, <1>3, <2>1
    <2>3. IsFiniteSet(1 .. n)
      BY <1>3, FS_Interval
    <2>4. IsFiniteSet(w.visited \ w.cand)
      BY <2>2, <2>3, FS_Subset
    <2> QED BY <2>1, <2>2, <2>4, FS_CardinalityType
  <1> HIDE DEF n
  <1>6. at[0] = WalkStart(vs, dead, ep) /\ \A k \in 1 .. n : at[k] = Expand(g, vs, v, layer, ef, dead, at[k - 1])
    <2>1. 0 \in 0 .. n
      BY <1>3
    <2> QED BY <1>3, <1>4, <2>1
  <1>7. <<0, at[0]>> \in T
    <2> DEFINE w == WalkStart(vs, dead, ep)
    <2>1. w \in W
      BY <1>1, WalkStarts
    <2>2. w.visited = {ep} /\ w.cand = {ep} /\ w.res = {ep} \ dead
      BY DEF WalkStart, Real
    <2> HIDE DEF w
    <2>3. Good(w)
      BY <2>2
    <2>4. Cardinality(w.visited \ w.cand) >= 0
      <3> HIDE DEF W
      <3>1. Cardinality(w.visited \ w.cand) \in Nat
        BY <1>5, <2>1
      <3> QED BY <3>1
    <2> HIDE DEF W, Good
    <2> QED BY <1>6, <2>1, <2>3, <2>4 DEF w
  <1>8. ASSUME NEW k \in 1 .. n, <<k - 1, at[k - 1]>> \in T PROVE <<k, at[k]>> \in T
    <2>1. PICK w \in W : /\ w = at[k - 1] /\ Good(w)
                         /\ w.cand = {} \/ Cardinality(w.visited \ w.cand) >= k - 1
      <3> HIDE DEF Good, W
      <3> QED BY <1>8
    <2> DEFINE u == Expand(g, vs, v, layer, ef, dead, w)
    <2>2. at[k] = u
      BY <1>6, <2>1
    <2>3. CASE w.cand = {}
      <3>1. u = w
        BY <2>3 DEF Expand
      <3> HIDE DEF u, Good, W
      <3> QED BY <1>3, <2>1, <2>2, <2>3, <3>1
    <2>4. CASE w.cand # {}
      <3> DEFINE c == Nearest(vs, v, w.cand)
      <3>1. Complete(w, dead)
        BY <2>1 DEF Complete
      <3>2. /\ c \in w.cand /\ u \in W /\ u.visited = w.visited \cup Range(g[c][layer])
            /\ u.cand = (w.cand \ {c}) \cup (Range(g[c][layer]) \ w.visited) /\ Complete(u, dead)
        <4> HIDE DEF Good, T
        <4> QED BY <2>4, <3>1, ExpandReaches
      <3> HIDE DEF c, u
      <3>6. u.visited \ u.cand = (w.visited \ w.cand) \cup {c} /\ c \notin w.visited \ w.cand
        BY <1>5, <3>2
      <3>7. Good(u)
        <4>1. ASSUME NEW m \in u.visited \ u.cand PROVE Range(g[m][layer]) \subseteq u.visited
          <5>1. CASE m = c
            BY <3>2, <5>1
          <5>2. CASE m \in w.visited \ w.cand
            BY <2>1, <3>2, <5>2
          <5> QED BY <3>6, <5>1, <5>2
        <4>2. ep \in u.visited
          BY <2>1, <3>2
        <4> QED BY <3>2, <4>1, <4>2 DEF Complete
      <3>8. Cardinality(u.visited \ u.cand) >= k
        <4> DEFINE A == w.visited \ w.cand
        <4>1. IsFiniteSet(A) /\ Cardinality(A) \in Nat /\ Cardinality(A) >= k - 1
          BY <1>5, <2>1, <2>4
        <4>2. u.visited \ u.cand = A \cup {c} /\ c \notin A
          BY <3>6
        <4> HIDE DEF A, Good, T, W
        <4>3. Cardinality(A \cup {c}) = Cardinality(A) + 1
          BY <4>1, <4>2, FS_AddElement
        <4>4. PICK a \in Nat : a = Cardinality(A)
          BY <4>1
        <4>5. Cardinality(u.visited \ u.cand) = a + 1
          BY <4>2, <4>3, <4>4
        <4>6. k \in Nat /\ a >= k - 1
          BY <1>3, <4>1, <4>4
        <4> QED BY <4>5, <4>6
      <3> HIDE DEF Good, W
      <3>9. k \in Nat
        BY <1>3
      <3>10. u \in W
        BY <3>2
      <3> QED BY <2>2, <3>7, <3>8, <3>9, <3>10
    <2> QED BY <2>3, <2>4
  <1>9. <<n, at[n]>> \in T
    <2> HIDE DEF T
    <2>1. \A k \in 0 .. n : <<k, at[k]>> \in T
      BY <1>3, <1>7, <1>8, LoopKeeps
    <2>2. n \in 0 .. n
      BY <1>3
    <2> QED BY <2>1, <2>2
  <1>10. PICK w \in W : /\ w = at[n] /\ Good(w)
                        /\ w.cand = {} \/ Cardinality(w.visited \ w.cand) >= n
    <2> HIDE DEF Good, W
    <2> QED BY <1>9
  <1>11. w.cand = {}
    <2> SUFFICES ASSUME NEW c \in w.cand PROVE FALSE
      OBVIOUS
    <2>1. Cardinality(w.visited \ w.cand) >= n
      BY <1>10
    <2> DEFINE A == w.visited \ w.cand
    <2>2. IsFiniteSet(A) /\ Cardinality(A) \in Nat /\ c \notin A /\ A \cup {c} \subseteq 1 .. n
      BY <1>5
    <2> HIDE DEF A
    <2>3. Cardinality(A \cup {c}) = Cardinality(A) + 1
      BY <2>2, FS_AddElement
    <2>4. IsFiniteSet(1 .. n) /\ Cardinality(1 .. n) = n
      <3>1. 1 \in Int /\ n \in Int
        BY <1>3
      <3>2. IsFiniteSet(1 .. n) /\ Cardinality(1 .. n) = IF 1 > n THEN 0 ELSE n - 1 + 1
        BY <3>1, FS_Interval
      <3> QED BY <1>3, <3>2
    <2>5. Cardinality(A \cup {c}) <= n
      BY <2>2, <2>4, FS_Subset
    <2> QED BY <1>3, <2>1, <2>2, <2>3, <2>5 DEF A
  <1>12. w.visited = P
    <2>1. w.visited \in SUBSET P /\ w.visited # {}
      BY <1>5, <1>10
    <2>2. Closed(g, w.visited, layer)
      BY <1>10, <1>11 DEF Closed
    <2> QED BY <2>1, <2>2 DEF Connected
  <1> QED BY <1>2, <1>10, <1>12

(***************************************************************************)
(* Inserts without updates                                                 *)
(***************************************************************************)
\* The lists of rows of N lead to others of N.
Among(g, N) == \A m \in N, l \in Layers : Range(g[m][l]) \subseteq N \ {m}

\* N with a new row.
Joins(Q, N, id) == Q = N \cup {id}

\* The other layers are as they were.
KeepsOthers(vs, g, h, layer) == \A m \in DOMAIN vs, l \in Layers : l # layer => h[m][l] = g[m][l]

\* What a list of layer 0 holds it still holds.
Grown(g, h, N) == \A m \in N : Range(g[m][0]) \subseteq Range(h[m][0])

\* A list without a node twice is no longer than the set it is from.
LEMMA InjectiveLength ==
    ASSUME NEW S, NEW list \in Seq(S), IsInjective(list), NEW A, IsFiniteSet(A), Range(list) \subseteq A
    PROVE  Len(list) <= Cardinality(A)
  <1> DEFINE n == Len(list)
  <1>1. n \in Nat /\ DOMAIN list = 1 .. n /\ list \in [1 .. n -> S]
    OBVIOUS
  <1> HIDE DEF n
  <1>2. list \in [1 .. n -> A]
    BY <1>1 DEF Range
  <1>3. list \in Injection(1 .. n, A)
    BY <1>1, <1>2 DEF Injection, IsInjective
  <1>4. Cardinality(1 .. n) <= Cardinality(A)
    BY <1>3, FS_Injection
  <1>5. Cardinality(1 .. n) = n
    <2>1. 1 \in Int /\ n \in Int
      BY <1>1
    <2>2. Cardinality(1 .. n) = IF 1 > n THEN 0 ELSE n - 1 + 1
      BY <2>1, FS_Interval
    <2> QED BY <1>1, <2>2
  <1> QED BY <1>4, <1>5 DEF n

\* A row fits into the list of another of layer 0 if the list may hold all the others.
LEMMA RoomForAll ==
    ASSUME NEW vs \in Vecs, Len(vs) <= M0 + 1, NEW g \in Graphs(vs), NEW N, N \subseteq DOMAIN vs,
           Among(g, N), NEW m \in N, NEW n \in N, m # n
    PROVE  n \in Range(g[m][0]) \/ Len(g[m][0]) < Capacity(0)
  <1> SUFFICES ASSUME n \notin Range(g[m][0]) PROVE Len(g[m][0]) < Capacity(0)
    OBVIOUS
  <1> DEFINE k == Len(vs)
             list == g[m][0]
             A == ((1 .. k) \ {m}) \ {n}
  <1>1. k \in Nat /\ DOMAIN vs = 1 .. k /\ 0 \in Layers /\ M0 \in Nat /\ Capacity(0) = M0
    BY HnswAssumption DEF Vecs, Layers, Capacity
  <1>2. list \in Seq(DOMAIN vs) /\ IsInjective(list) /\ Len(list) \in Nat
    BY <1>1 DEF Graphs
  <1>3. Range(list) \subseteq A
    BY <1>1 DEF Among
  <1>4. m \in 1 .. k /\ n \in (1 .. k) \ {m} /\ k <= M0 + 1
    BY <1>1
  <1> HIDE DEF list, k
  <1>5. IsFiniteSet(1 .. k) /\ Cardinality(1 .. k) = k
    <2>1. 1 \in Int /\ k \in Int
      BY <1>1
    <2>2. IsFiniteSet(1 .. k) /\ Cardinality(1 .. k) = IF 1 > k THEN 0 ELSE k - 1 + 1
      BY <2>1, FS_Interval
    <2> QED BY <1>1, <2>2
  <1>6. IsFiniteSet(A) /\ Cardinality(A) = k - 1 - 1
    <2> DEFINE B == (1 .. k) \ {m}
    <2>1. IsFiniteSet(B) /\ Cardinality(B) = k - 1
      BY <1>4, <1>5, FS_RemoveElement
    <2>2. n \in B
      BY <1>4
    <2> HIDE DEF B
    <2>3. IsFiniteSet(B \ {n}) /\ Cardinality(B \ {n}) = Cardinality(B) - 1
      BY <2>1, <2>2, FS_RemoveElement
    <2> QED BY <2>1, <2>3 DEF B
  <1> HIDE DEF A
  <1>7. Len(list) <= Cardinality(A)
    BY <1>2, <1>3, <1>6, InjectiveLength
  <1>8. Len(list) < Capacity(0)
    BY <1>1, <1>2, <1>4, <1>6, <1>7
  <1> QED BY <1>8 DEF list

\* Linking two of the rows keeps them among themselves; with room in layer 0 it only adds.
LEMMA BothWaysAmong ==
    ASSUME NEW vs \in Vecs, NEW g \in Graphs(vs), NEW Q, Q \subseteq Real(vs), Among(g, Q),
           NEW id \in Q, NEW n \in Q, id # n, NEW layer \in Layers
    PROVE  LET h == BothWays(g, vs, id, layer, n) IN
           /\ h \in Graphs(vs) /\ Among(h, Q)
           /\ \A m \in DOMAIN vs, l \in Layers : l # layer => h[m][l] = g[m][l]
           /\ layer = 0 /\ Len(vs) <= M0 + 1 =>
                 Grown(g, h, Q) /\ n \in Range(h[id][0]) /\ id \in Range(h[n][0])
  <1> DEFINE h == BothWays(g, vs, id, layer, n)
  <1>1. id \in Real(vs) /\ n \in Real(vs) /\ Q \subseteq DOMAIN vs
    BY DEF Real
  <1>2. /\ h \in Graphs(vs)
        /\ \A m \in DOMAIN vs, l \in Layers : m \notin {id, n} \/ l # layer => h[m][l] = g[m][l]
        /\ Linked(vs, g, h, id, n, layer)
    BY <1>1, BothWaysFacts
  <1> HIDE DEF h
  <1>3. Among(h, Q)
    <2> SUFFICES ASSUME NEW m \in Q, NEW l \in Layers PROVE Range(h[m][l]) \subseteq Q \ {m}
      BY DEF Among
    <2>1. Range(g[m][l]) \subseteq Q \ {m}
      BY DEF Among
    <2>2. CASE m \notin {id, n} \/ l # layer
      BY <1>1, <1>2, <2>1, <2>2
    <2>3. CASE m = id /\ l = layer
      BY <1>2, <2>1, <2>3 DEF Linked
    <2>4. CASE m = n /\ l = layer
      BY <1>2, <2>1, <2>4 DEF Linked
    <2> QED BY <2>2, <2>3, <2>4
  <1>4. ASSUME layer = 0, Len(vs) <= M0 + 1
        PROVE  Grown(g, h, Q) /\ n \in Range(h[id][0]) /\ id \in Range(h[n][0])
    <2>1. n \in Range(g[id][0]) \/ Len(g[id][0]) < Capacity(0)
      BY <1>1, <1>4, RoomForAll
    <2>2. id \in Range(g[n][0]) \/ Len(g[n][0]) < Capacity(0)
      BY <1>1, <1>4, RoomForAll
    <2>3. /\ (Range(g[id][0]) \cup {n}) \cap Real(vs) \subseteq Range(h[id][0])
          /\ (Range(g[n][0]) \cup {id}) \cap Real(vs) \subseteq Range(h[n][0])
      BY <1>2, <1>4, <2>1, <2>2 DEF Linked
    <2>4. Grown(g, h, Q)
      <3> SUFFICES ASSUME NEW m \in Q PROVE Range(g[m][0]) \subseteq Range(h[m][0])
        BY DEF Grown
      <3>1. Range(g[m][0]) \subseteq Real(vs)
        BY <1>4 DEF Among
      <3>2. CASE m \notin {id, n}
        BY <1>1, <1>2, <1>4, <3>2
      <3>3. CASE m \in {id, n}
        BY <2>3, <3>1, <3>3
      <3> QED BY <3>2, <3>3
    <2> QED BY <1>1, <2>3, <2>4
  <1> QED BY <1>2, <1>3, <1>4 DEF h

\* ... also one after the other.
LEMMA LinkAllAmong ==
    ASSUME NEW vs \in Vecs, NEW g \in Graphs(vs), NEW Q, Q \subseteq Real(vs), Among(g, Q),
           NEW id \in Q, NEW ns \in Seq(Q \ {id}), NEW layer \in Layers
    PROVE  LET h == LinkAll(g, vs, id, layer, ns) IN
           /\ h \in Graphs(vs) /\ Among(h, Q)
           /\ \A m \in DOMAIN vs, l \in Layers : l # layer => h[m][l] = g[m][l]
           /\ layer = 0 /\ Len(vs) <= M0 + 1 =>
                 /\ Grown(g, h, Q)
                 /\ \A n \in Range(ns) : n \in Range(h[id][0]) /\ id \in Range(h[n][0])
  <1> DEFINE n == Len(ns)
             Room == layer = 0 /\ Len(vs) <= M0 + 1
             Good(i, h) == /\ h \in Graphs(vs) /\ Among(h, Q)
                           /\ \A m \in DOMAIN vs, l \in Layers : l # layer => h[m][l] = g[m][l]
                           /\ Room => /\ Grown(g, h, Q)
                                      /\ \A j \in 1 .. i : ns[j] \in Range(h[id][0]) /\ id \in Range(h[ns[j]][0])
             T == {x \in Nat \X Graphs(vs) : Good(x[1], x[2])}
  <1>1. id \in Real(vs) /\ ns \in Seq(Real(vs))
    BY DEF Real
  <1>2. PICK at : /\ LinkAll(g, vs, id, layer, ns) = at[n]
                  /\ at[0] = g
                  /\ \A i \in 1 .. n : at[i] = BothWays(at[i - 1], vs, id, layer, ns[i])
    BY <1>1, LinkLoopExists
  <1>3. /\ n \in Nat /\ DOMAIN ns = 1 .. n
        /\ \A i \in 1 .. n : i \in Nat /\ i - 1 \in Nat /\ ns[i] \in Q \ {id}
    OBVIOUS
  <1> HIDE DEF n, Room
  <1>4. <<0, at[0]>> \in T
    <2>1. Good(0, g)
      BY DEF Grown
    <2> HIDE DEF Good
    <2> QED BY <1>2, <2>1
  <1>5. ASSUME NEW i \in 1 .. n, <<i - 1, at[i - 1]>> \in T PROVE <<i, at[i]>> \in T
    <2>1. PICK x \in Graphs(vs) : x = at[i - 1] /\ Good(i - 1, x)
      <3> HIDE DEF Good
      <3> QED BY <1>5
    <2>2. PICK m \in Q \ {id} : m = ns[i]
      BY <1>3
    <2> DEFINE h == BothWays(x, vs, id, layer, m)
    <2>3. /\ h \in Graphs(vs) /\ Among(h, Q)
          /\ \A k \in DOMAIN vs, l \in Layers : l # layer => h[k][l] = x[k][l]
          /\ Room => Grown(x, h, Q) /\ m \in Range(h[id][0]) /\ id \in Range(h[m][0])
      BY <2>1, <2>2, BothWaysAmong DEF Room
    <2>4. at[i] = h
      BY <1>2, <2>1, <2>2
    <2> HIDE DEF h
    <2>5. ASSUME Room
          PROVE  /\ Grown(g, h, Q)
                 /\ \A j \in 1 .. i : ns[j] \in Range(h[id][0]) /\ id \in Range(h[ns[j]][0])
      <3>1. Grown(g, h, Q)
        BY <2>1, <2>3, <2>5 DEF Grown
      <3>2. ASSUME NEW j \in 1 .. i PROVE ns[j] \in Range(h[id][0]) /\ id \in Range(h[ns[j]][0])
        <4>1. CASE j = i
          BY <2>2, <2>3, <2>5, <4>1
        <4>2. CASE j # i
          <5>1. j \in 1 .. i - 1 /\ ns[j] \in Q
            BY <1>3, <4>2
          <5>2. ns[j] \in Range(x[id][0]) /\ id \in Range(x[ns[j]][0])
            BY <2>1, <2>5, <5>1
          <5> QED BY <2>3, <2>5, <5>1, <5>2 DEF Grown
        <4> QED BY <4>1, <4>2
      <3> QED BY <3>1, <3>2
    <2>6. Good(i, h)
      <3>1. \A k \in DOMAIN vs, l \in Layers : l # layer => h[k][l] = g[k][l]
        BY <2>1, <2>3
      <3> QED BY <2>3, <2>5, <3>1
    <2> HIDE DEF Good
    <2> QED BY <1>3, <2>3, <2>4, <2>6
  <1>6. <<n, at[n]>> \in T
    <2> HIDE DEF T
    <2>1. \A i \in 0 .. n : <<i, at[i]>> \in T
      BY <1>3, <1>4, <1>5, LoopKeeps
    <2>2. n \in 0 .. n
      BY <1>3
    <2> QED BY <2>1, <2>2
  <1>7. Good(n, at[n])
    <2> HIDE DEF Good
    <2> QED BY <1>6
  <1>8. \A m \in Range(ns) : \E j \in 1 .. n : ns[j] = m
    BY <1>3 DEF Range
  <1> QED BY <1>2, <1>7, <1>8 DEF Room

\* A new row is linked in one layer: both ways with some row of N, if only there is room.
LEMMA LinkLayerAmong ==
    ASSUME NEW vs \in Vecs, NEW N, N \subseteq Real(vs), NEW id \in Real(vs) \ N, NEW layer \in Layers,
           NEW Q, Joins(Q, N, id),
           NEW x \in [g : Graphs(vs), ep : N], Among(x.g, Q), Closed(x.g, N, layer)
    PROVE  LET y == LinkLayer(vs, id, layer, {}, x) IN
           /\ y \in [g : Graphs(vs), ep : N] /\ Among(y.g, Q)
           /\ KeepsOthers(vs, x.g, y.g, layer)
           /\ layer = 0 /\ Len(vs) <= M0 + 1 =>
                 /\ Grown(x.g, y.g, Q)
                 /\ \E n \in N : n \in Range(y.g[id][0]) /\ id \in Range(y.g[n][0])
  <1> DEFINE ns == Chosen(vs, id, layer, {}, x)
             y == LinkLayer(vs, id, layer, {}, x)
  <1>1. N \subseteq DOMAIN vs /\ id \in Real(vs) /\ x.ep \in Real(vs) /\ x.ep \notin {}
    BY DEF Real
  <1>2. /\ y \in [g : Graphs(vs), ep : N] /\ y.g = LinkAll(x.g, vs, id, layer, ns)
        /\ ns \in Seq(N \cap Real(vs)) /\ ns # <<>>
    <2>1. LayerLinked(vs, id, layer, {}, N, x, y)
      <3> HIDE DEF y
      <3> QED BY <1>1, LinkLayerFacts DEF y
    <2> HIDE DEF ns, y
    <2> QED BY <1>1, <2>1 DEF LayerLinked, ns
  <1> HIDE DEF ns, y
  <1>3. Q \subseteq Real(vs) /\ id \in Q /\ Q \ {id} = N /\ ns \in Seq(N) /\ x.g \in Graphs(vs)
    <2>1. N \cap Real(vs) = N
      OBVIOUS
    <2> QED BY <1>2, <2>1 DEF Joins
  <1>4. ns[1] \in N /\ ns[1] \in Range(ns)
    BY <1>2, <1>3 DEF Range
  <1>5. PICK f : f = x.g
    OBVIOUS
  <1>6. f \in Graphs(vs) /\ Among(f, Q) /\ ns \in Seq(Q \ {id})
    BY <1>3, <1>5
  <1> DEFINE h == LinkAll(f, vs, id, layer, ns)
  <1>7. /\ h \in Graphs(vs) /\ Among(h, Q)
        /\ \A m \in DOMAIN vs, l \in Layers : l # layer => h[m][l] = f[m][l]
        /\ layer = 0 /\ Len(vs) <= M0 + 1 =>
              /\ Grown(f, h, Q)
              /\ \A n \in Range(ns) : n \in Range(h[id][0]) /\ id \in Range(h[n][0])
    BY <1>3, <1>6, LinkAllAmong
  <1>8. y.g = h
    BY <1>2, <1>5
  <1> HIDE DEF h
  <1> QED BY <1>2, <1>4, <1>5, <1>7, <1>8 DEF y, KeepsOthers

\* A new row is linked to rows that were connected.
LEMMA StillConnected ==
    ASSUME NEW N, NEW id, id \notin N, NEW f, Connected(f, N, 0), Among(f, N), 0 \in Layers,
           NEW h, \A m \in N : Range(f[m][0]) \subseteq Range(h[m][0]),
           NEW n \in N, n \in Range(h[id][0]), id \in Range(h[n][0])
    PROVE  Connected(h, N \cup {id}, 0)
  <1> SUFFICES ASSUME NEW C \in SUBSET (N \cup {id}), C # {}, Closed(h, C, 0) PROVE C = N \cup {id}
    BY DEF Connected
  <1>1. C \cap N # {}
    BY DEF Closed
  <1>2. Closed(f, C \cap N, 0)
    BY DEF Closed, Among
  <1>3. C \cap N = N
    BY <1>1, <1>2 DEF Connected
  <1>4. id \in C
    BY <1>3 DEF Closed
  <1> QED BY <1>3, <1>4

\* A new row is linked in all its layers.
LEMMA LinkFromAmong ==
    ASSUME NEW vs \in Vecs, NEW N, N \subseteq Real(vs), NEW id \in Real(vs) \ N,
           NEW g \in Graphs(vs), Among(g, N), \A l \in Layers : g[id][l] = <<>>,
           NEW ep \in N, NEW high \in Layers
    PROVE  LET h == LinkFrom(g, vs, id, high, {}, ep) IN
           /\ Among(h, N \cup {id})
           /\ Len(vs) <= M0 + 1 /\ Connected(g, N, 0) => Connected(h, N \cup {id}, 0)
  <1> DEFINE S == [g : Graphs(vs), ep : N]
             Q == N \cup {id}
             Same(k, f) == \A m \in DOMAIN vs, l \in Layers : l + k <= high => f[m][l] = g[m][l]
             T == {x \in Nat \X S : Among(x[2].g, Q) /\ Same(x[1], x[2].g)}
  <1>1. /\ high \in Nat /\ Layers \subseteq Nat /\ 0 \in Layers /\ N \subseteq DOMAIN vs /\ ep \in DOMAIN vs
        /\ id \in Real(vs) /\ id \in DOMAIN vs /\ id \notin N
    BY HnswAssumption DEF Layers, Real
  <1>2. PICK at : /\ LinkFrom(g, vs, id, high, {}, ep) = at[high + 1].g
                  /\ at[0] = [g |-> g, ep |-> ep]
                  /\ \A k \in 1 .. high + 1 :
                        high + 1 - k \in Layers /\ at[k] = LinkLayer(vs, id, high + 1 - k, {}, at[k - 1])
    <2>1. PICK f : LinkTurns(f, g, vs, id, high, {}, ep)
      BY <1>1, LinkFromExists
    <2> HIDE DEF S, Q, Same, T
    <2> QED BY <2>1 DEF LinkTurns
  <1>3. ASSUME NEW x \in S, NEW l \in Layers, \A m \in DOMAIN vs : x.g[m][l] = g[m][l]
        PROVE  Closed(x.g, N, l)
    BY <1>1, <1>3 DEF Closed, Among
  <1>0. Joins(Q, N, id)
    BY DEF Joins
  <1>4. <<0, at[0]>> \in T
    <2>1. at[0] \in S /\ at[0].g = g
      BY <1>2
    <2>2. Among(g, Q)
      <3>1. ASSUME NEW l \in Layers PROVE Range(g[id][l]) = {}
        BY DEF Range
      <3> QED BY <3>1, <1>1 DEF Among
    <2> QED BY <2>1, <2>2
  <1>5. ASSUME NEW k \in 1 .. high, <<k - 1, at[k - 1]>> \in T PROVE <<k, at[k]>> \in T
    <2>1. PICK x \in S : x = at[k - 1] /\ Among(x.g, Q) /\ Same(k - 1, x.g)
      <3> HIDE DEF Same, S
      <3> QED BY <1>5
    <2>2. PICK l \in Layers : l = high + 1 - k /\ at[k] = LinkLayer(vs, id, l, {}, x)
      BY <1>1, <1>2, <2>1
    <2>3. \A m \in DOMAIN vs : x.g[m][l] = g[m][l]
      BY <1>1, <2>1, <2>2
    <2>4. Closed(x.g, N, l)
      BY <1>3, <2>3
    <2> DEFINE y == LinkLayer(vs, id, l, {}, x)
    <2>5. /\ y \in S /\ Among(y.g, Q)
          /\ \A m \in DOMAIN vs, j \in Layers : j # l => y.g[m][j] = x.g[m][j]
      <3> HIDE DEF Same, T, Q
      <3>1. y \in S
        BY <1>0, <2>1, <2>4, LinkLayerAmong
      <3>2. Among(y.g, Q)
        BY <1>0, <2>1, <2>4, LinkLayerAmong
      <3>3. KeepsOthers(vs, x.g, y.g, l)
        BY <1>0, <2>1, <2>4, LinkLayerAmong
      <3> QED BY <3>1, <3>2, <3>3 DEF KeepsOthers
    <2> HIDE DEF y
    <2>6. Same(k, y.g)
      <3> SUFFICES ASSUME NEW m \in DOMAIN vs, NEW j \in Layers, j + k <= high PROVE y.g[m][j] = g[m][j]
        OBVIOUS
      <3>1. j # l /\ j + (k - 1) <= high
        BY <1>1, <2>2
      <3> QED BY <2>1, <2>5, <3>1
    <2>7. k \in Nat
      OBVIOUS
    <2> HIDE DEF Same, S
    <2> QED BY <2>2, <2>5, <2>6, <2>7 DEF y
  <1>6. <<high, at[high]>> \in T
    <2> HIDE DEF T
    <2>1. \A k \in 0 .. high : <<k, at[k]>> \in T
      BY <1>1, <1>4, <1>5, LoopKeeps
    <2>2. high \in 0 .. high
      BY <1>1
    <2> QED BY <2>1, <2>2
  <1>7. PICK x \in S : x = at[high] /\ Among(x.g, Q) /\ Same(high, x.g)
    <2> HIDE DEF Same, S
    <2> QED BY <1>6
  <1>8. at[high + 1] = LinkLayer(vs, id, 0, {}, x)
    <2>1. high + 1 \in 1 .. high + 1 /\ high + 1 - (high + 1) = 0 /\ (high + 1) - 1 = high
      BY <1>1
    <2> QED BY <1>2, <1>7, <2>1
  <1>9. \A m \in DOMAIN vs : x.g[m][0] = g[m][0]
    BY <1>1, <1>7
  <1>10. Closed(x.g, N, 0)
    BY <1>1, <1>3, <1>9
  <1> DEFINE y == LinkLayer(vs, id, 0, {}, x)
             h == LinkFrom(g, vs, id, high, {}, ep)
  <1>11. /\ Among(y.g, Q)
         /\ Len(vs) <= M0 + 1 =>
               /\ Grown(x.g, y.g, Q)
               /\ \E n \in N : n \in Range(y.g[id][0]) /\ id \in Range(y.g[n][0])
    <2> HIDE DEF Same, T, Q
    <2> QED BY <1>0, <1>1, <1>7, <1>10, LinkLayerAmong
  <1>12. h = y.g
    BY <1>2, <1>8
  <1> HIDE DEF y, h
  <1>13. ASSUME Len(vs) <= M0 + 1, Connected(g, N, 0) PROVE Connected(h, Q, 0)
    <2>1. PICK n \in N : n \in Range(h[id][0]) /\ id \in Range(h[n][0])
      BY <1>11, <1>12, <1>13
    <2>2. \A m \in N : Range(g[m][0]) \subseteq Range(h[m][0])
      BY <1>1, <1>9, <1>11, <1>12, <1>13 DEF Grown
    <2> HIDE DEF Same, T, S
    <2> QED BY <1>1, <1>13, <2>1, <2>2, StillConnected
  <1> QED BY <1>11, <1>12, <1>13 DEF h

Vectored == {n \in DOMAIN rows : rows[n].vec # Zero}

\* As long as there were no updates, the rows with vectors lead to each other only and,
\* if the lists of layer 0 may hold all of them, none of these rows is cut off from another.
Plain ==
    updates = 0 =>
        /\ entry = 0 => Vectored = {}
        /\ Among(links, Vectored)
        /\ Len(rows) <= M0 + 1 => Connected(links, Vectored, 0)

\* Whether rows are connected depends on their lists only.
LEMMA SameLists ==
    ASSUME NEW N, NEW g, NEW h, \A m \in N, l \in Layers : h[m][l] = g[m][l]
    PROVE  /\ Among(g, N) => Among(h, N)
           /\ Connected(g, N, 0) => Connected(h, N, 0)
  <1>1. 0 \in Layers
    BY HnswAssumption DEF Layers
  <1>2. Among(g, N) => Among(h, N)
    BY DEF Among
  <1>3. ASSUME NEW C \in SUBSET N, Closed(h, C, 0) PROVE Closed(g, C, 0)
    BY <1>1, <1>3 DEF Closed
  <1> QED BY <1>2, <1>3 DEF Connected

\* HnswIndex::insert with an entry point that has a vector, in a graph of rows N that have one.
LEMMA LinkPlain ==
    ASSUME NEW vs \in Vecs, NEW N, N \subseteq Real(vs), NEW id \in Real(vs) \ N,
           NEW g \in Graphs(vs), Among(g, N), \A l \in Layers : g[id][l] = <<>>,
           NEW level \in Layers, entry \in N \cup {0}, entry = 0 => N = {}, 0 \notin N, top \in Layers,
           Link(g, vs, id, level)
    PROVE  /\ Among(links', N \cup {id})
           /\ Len(vs) <= M0 + 1 /\ Connected(g, N, 0) => Connected(links', N \cup {id}, 0)
  <1> DEFINE h == Cleared(g, id, level)
  <1>1. id \in DOMAIN vs /\ N \subseteq DOMAIN vs /\ 0 \in Layers
    BY HnswAssumption DEF Real, Layers
  <1>2. /\ h \in Graphs(vs)
        /\ \A m \in DOMAIN vs, l \in Layers : h[m][l] = IF m = id /\ l <= level THEN <<>> ELSE g[m][l]
    BY <1>1, ClearedFacts
  <1> HIDE DEF h
  <1>3. (\A l \in Layers : h[id][l] = <<>>) /\ \A m \in N, l \in Layers : h[m][l] = g[m][l]
    BY <1>1, <1>2
  <1>4. Among(h, N) /\ (Connected(g, N, 0) => Connected(h, N, 0))
    BY <1>3, SameLists
  <1>5. CASE entry = 0
    <2>1. links' = h /\ N = {}
      BY <1>5 DEF Link, h
    <2>2. \A l \in Layers : Range(h[id][l]) = {}
      BY <1>3 DEF Range
    <2>3. Among(h, {id}) /\ Connected(h, {id}, 0)
      BY <2>2 DEF Among, Connected
    <2>4. N \cup {id} = {id}
      BY <2>1
    <2> QED BY <2>1, <2>3, <2>4
  <1>6. CASE entry # 0
    <2> DEFINE ep == DescendTo(g, vs, vs[id], level + 1, top, {}, entry)
               high == Min({level, top})
    <2>1. links' = LinkFrom(h, vs, id, high, {}, ep)
      BY <1>6 DEF Link, h
    <2>2. level \in Nat /\ top \in Nat /\ level + 1 \in Nat \ {0}
      BY HnswAssumption DEF Layers
    <2>3. ep \in N
      <3>1. \A l \in Layers : Closed(g, N, l)
        BY DEF Closed, Among
      <3>2. vs[id] \in Angles
        BY DEF Real, Vecs
      <3>3. entry \in N
        BY <1>6
      <3>4. PICK low : low \in Nat \ {0} /\ low = level + 1
        BY <2>2
      <3> HIDE DEF ep
      <3>5. DescendTo(g, vs, vs[id], low, top, {}, entry) \in {e \in N : e \in {entry} \cup Real(vs)}
        BY <1>1, <3>1, <3>2, <3>3, <3>4, DescendToStays
      <3> QED BY <3>4, <3>5 DEF ep
    <2> HIDE DEF ep
    <2>4. high \in Layers
      BY <2>2, PairFacts
    <2> HIDE DEF high
    <2>5. /\ Among(LinkFrom(h, vs, id, high, {}, ep), N \cup {id})
          /\ Len(vs) <= M0 + 1 /\ Connected(h, N, 0) => Connected(LinkFrom(h, vs, id, high, {}, ep), N \cup {id}, 0)
      BY <1>2, <1>3, <1>4, <2>3, <2>4, LinkFromAmong
    <2> QED BY <1>4, <2>1, <2>5
  <1> QED BY <1>5, <1>6

\* insert leaves no row cut off: the new one is linked both ways in layer 0.
LEMMA InsertPlain ==
    ASSUME GraphInv, Plain, NEW v \in Angles \cup {Zero}, NEW level \in Layers, Insert(v, level)
    PROVE  Plain'
  <1> SUFFICES ASSUME updates' = 0
               PROVE  /\ entry' = 0 => Vectored' = {}
                      /\ Among(links', Vectored')
                      /\ Len(rows') <= M0 + 1 => Connected(links', Vectored', 0)
    BY DEF Plain, Among, Connected, Closed, Layers
  <1> DEFINE id == Len(rows) + 1
             N == Vectored
  <1>1. /\ Vectors \in Vecs /\ DOMAIN Vectors = DOMAIN rows /\ DOMAIN rows = 1 .. Len(rows)
        /\ Len(Vectors) = Len(rows) /\ Len(rows) \in Nat
        /\ \A n \in DOMAIN rows : Vectors[n] = rows[n].vec /\ rows[n] \in Rows
        /\ rows \in Seq(Rows) /\ links \in Graphs(Vectors)
        /\ entry \in 0 .. Len(rows) /\ top \in Layers
    BY InvFacts DEF GraphInv
  <1>2. PICK us, f : us = Vectors /\ f = links
    OBVIOUS
  <1> DEFINE vs == Append(us, v)
             g == Append(f, NoLinks)
  <1>3. /\ us \in Vecs /\ f \in Graphs(us) /\ Len(us) = Len(rows) /\ DOMAIN us = DOMAIN rows
        /\ \A n \in DOMAIN rows : us[n] = rows[n].vec
    BY <1>1, <1>2
  <1>4. Extended(us, v, f, vs, g)
    BY <1>3, AppendFacts
  <1> HIDE DEF vs, g
  <1>5. /\ vs \in Vecs /\ g \in Graphs(vs) /\ DOMAIN vs = DOMAIN rows \cup {id} /\ Len(vs) = id
        /\ vs[id] = v /\ (\A l \in Layers : g[id][l] = <<>>)
        /\ \A m \in DOMAIN rows : vs[m] = rows[m].vec /\ g[m] = links[m]
    BY <1>2, <1>3, <1>4 DEF Extended
  <1>6. /\ rows' = Append(rows, [vec |-> v, level |-> level, dead |-> FALSE]) /\ updates = 0
        /\ IF v = Zero THEN links' = g /\ UNCHANGED <<entry, top>> ELSE Link(g, vs, id, level)
    BY <1>2 DEF Insert, vs, g
  <1>7. /\ entry = 0 => N = {}
        /\ Among(links, N)
        /\ Len(rows) <= M0 + 1 => Connected(links, N, 0)
    BY <1>6 DEF Plain
  <1>8. /\ Len(rows') = id /\ DOMAIN rows' = DOMAIN rows \cup {id} /\ rows'[id].vec = v
        /\ \A m \in DOMAIN rows : rows'[m] = rows[m] /\ m # id /\ m # 0
    BY <1>1, <1>6 DEF Rows
  <1>9. N \subseteq DOMAIN rows /\ 0 \notin N /\ id \notin N /\ id # 0
    BY <1>1 DEF Vectored
  <1>10. Vectored' = IF v = Zero THEN N ELSE N \cup {id}
    <2>1. Vectored' = {m \in DOMAIN rows' : rows'[m].vec # Zero}
      BY DEF Vectored
    <2> HIDE DEF id
    <2> QED BY <1>8, <2>1 DEF Vectored
  <1>11. \A m \in N, l \in Layers : g[m][l] = links[m][l]
    BY <1>5, <1>9
  <1>12. Among(g, N) /\ (Len(rows) <= M0 + 1 => Connected(g, N, 0))
    <2> HIDE DEF N
    <2>1. Among(links, N) => Among(g, N)
      BY <1>11, SameLists
    <2>2. Connected(links, N, 0) => Connected(g, N, 0)
      BY <1>11, SameLists
    <2> QED BY <1>7, <2>1, <2>2
  <1>13. Len(rows') <= M0 + 1 => Len(rows) <= M0 + 1
    BY <1>1, <1>8, HnswAssumption
  <1>14. CASE v = Zero
    <2>1. links' = g /\ entry' = entry
      BY <1>6, <1>14
    <2> QED BY <1>7, <1>10, <1>12, <1>13, <1>14, <2>1
  <1>15. CASE v # Zero
    <2>1. Link(g, vs, id, level)
      BY <1>6, <1>15
    <2>2. N \subseteq Real(vs) /\ id \in Real(vs) /\ id \notin N
      BY <1>5, <1>9, <1>15 DEF Real, Vectored
    <2>3. entry \in N \cup {0}
      BY <1>1 DEF EntryUsable, GraphInv, Vectored
    <2> HIDE DEF N, id
    <2>4. /\ Among(links', N \cup {id})
          /\ Len(vs) <= M0 + 1 /\ Connected(g, N, 0) => Connected(links', N \cup {id}, 0)
      BY <1>1, <1>5, <1>7, <1>9, <1>12, <2>1, <2>2, <2>3, LinkPlain
    <2>5. entry' # 0
      <3>1. entry \in {0} \cup DOMAIN vs
        BY <1>5, <1>9, <2>3
      <3>2. \/ entry' = id /\ top' = level
            \/ entry # 0 /\ UNCHANGED <<entry, top>>
        BY <1>1, <1>5, <2>1, <2>2, <3>1, LinkKeeps
      <3> QED BY <1>9, <3>2
    <2>6. Vectored' = N \cup {id}
      BY <1>10, <1>15
    <2>7. Len(rows') <= M0 + 1 => Connected(links', N \cup {id}, 0)
      BY <1>5, <1>8, <1>12, <1>13, <2>4
    <2> QED BY <2>4, <2>5, <2>6, <2>7
  <1> QED BY <1>14, <1>15

\* A deleted row stays in the graph.
LEMMA DeletePlain ==
    ASSUME GraphInv, Plain, NEW id \in DOMAIN rows, Delete(id)
    PROVE  Plain'
  <1>1. DOMAIN rows = 1 .. Len(rows) /\ rows \in Seq(Rows) /\ \A n \in DOMAIN rows : rows[n] \in Rows
    BY InvFacts DEF GraphInv
  <1>2. rows' = [rows EXCEPT ![id].dead = TRUE] /\ UNCHANGED <<links, entry, top, updates>>
    BY DEF Delete
  <1>3. /\ DOMAIN rows' = DOMAIN rows /\ Len(rows') = Len(rows)
        /\ \A n \in DOMAIN rows : rows'[n].vec = rows[n].vec
    BY <1>1, <1>2 DEF Rows
  <1>4. Vectored' = Vectored
    BY <1>3 DEF Vectored
  <1> QED BY <1>2, <1>3, <1>4 DEF Plain, Among, Connected, Closed, Layers

\* The empty database.
LEMMA PlainStart == Init => Plain
  <1> SUFFICES ASSUME Init PROVE Plain
    OBVIOUS
  <1>1. rows = <<>> /\ Vectored = {}
    BY DEF Init, Vectored
  <1> QED BY <1>1 DEF Plain, Among, Connected

\* Every operation keeps this, updates because they do not count.
LEMMA PlainStep == GraphInv /\ Plain /\ [Next]_vars => Plain'
  <1> SUFFICES ASSUME GraphInv, Plain, [Next]_vars PROVE Plain'
    OBVIOUS
  <1>1. CASE \E v \in Angles \cup {Zero}, level \in Layers : Insert(v, level)
    BY <1>1, InsertPlain
  <1>2. CASE \E id \in DOMAIN rows : Delete(id)
    BY <1>2, DeletePlain
  <1>3. CASE \E id \in DOMAIN rows, v \in Angles \cup {Zero}, level \in Layers : Update(id, v, level)
    <2>1. updates' = updates + 1 /\ updates \in Nat
      BY <1>3 DEF Update, GraphInv, GraphTypeOK
    <2> QED BY <2>1 DEF Plain
  <1>4. CASE UNCHANGED vars
    BY <1>4 DEF vars, Plain, Among, Connected, Closed, Vectored, Layers
  <1> QED BY <1>1, <1>2, <1>3, <1>4 DEF Next

\* A search over connected rows returns all live ones: it asks for more than there are, so
\* its working set has room for all and it drops none.
LEMMA SearchFindsAll ==
    ASSUME GraphInv, Plain, updates = 0, Len(rows) <= M0 + 1, NEW v \in Angles
    PROVE  Range(Search(v, Len(rows) + 1, 1)) = Live
  <1> DEFINE k == Len(rows) + 1
             N == Vectored
             ep == DescendTo(links, Vectors, v, 1, top, Dead, entry)
             wide == Wide(k, 1)
             found == SearchLayer(links, Vectors, v, 0, wide, Dead, ep)
             walk == Walk(links, Vectors, v, 0, wide, Dead, ep)
  <1>1. /\ Vectors \in Vecs /\ DOMAIN Vectors = DOMAIN rows /\ DOMAIN rows = 1 .. Len(rows)
        /\ Len(Vectors) = Len(rows) /\ Len(rows) \in Nat
        /\ \A n \in DOMAIN rows : Vectors[n] = rows[n].vec
        /\ links \in Graphs(Vectors) /\ entry \in 0 .. Len(rows) /\ top \in Layers
    BY InvFacts DEF GraphInv
  <1>2. /\ Among(links, N) /\ Connected(links, N, 0) /\ 0 \in Layers /\ 0 \notin Dead /\ N \subseteq DOMAIN rows
    BY <1>1, HnswAssumption DEF Plain, Layers, Dead, Vectored
  <1>3. Live = N \ Dead
    BY DEF Live, Vectored, Dead
  <1>4. Search(v, k, 1) = IF entry = 0 THEN <<>> ELSE SubSeq(found, 1, Min({k, Len(found)}))
    BY DEF Search
  <1>5. CASE entry = 0
    <2>1. Live = {}
      BY <1>5 DEF EntryUsable, GraphInv
    <2>2. Range(<<>>) = {}
      BY DEF Range
    <2> QED BY <1>4, <1>5, <2>1, <2>2
  <1>6. CASE entry # 0
    <2>1. N = Real(Vectors)
      BY <1>1 DEF Real, Vectored
    <2>2. entry \in N
      BY <1>1, <1>6 DEF EntryUsable, GraphInv, Vectored
    <2>3. N \subseteq DOMAIN Vectors /\ \A l \in Layers : Closed(links, N, l)
      BY <1>1, <1>2 DEF Closed, Among
    <2>4. Cardinality(Dead) \in Nat
      <3>1. IsFiniteSet(1 .. Len(rows)) /\ Dead \subseteq 1 .. Len(rows)
        BY <1>1, FS_Interval DEF Dead
      <3>2. IsFiniteSet(Dead)
        BY <3>1, FS_Subset
      <3> QED BY <3>2, FS_CardinalityType
    <2>5. wide \in Nat \ {0} /\ wide > Len(Vectors)
      <3>1. PICK d : d = Cardinality(Dead)
        OBVIOUS
      <3>2. k \in Nat /\ 1 \in Nat /\ 2 * k \in Nat /\ 4 * k \in Nat /\ 32 \in Nat /\ 64 \in Nat /\ d \in Nat
        BY <1>1, <2>4, <3>1
      <3>3. Max({1, 2 * k}) = (IF 2 * k > 1 THEN 2 * k ELSE 1) /\ Max({1, 4 * k}) = (IF 4 * k > 1 THEN 4 * k ELSE 1)
        BY <3>2, PairFacts
      <3>4. Min({32, d}) = (IF d < 32 THEN d ELSE 32) /\ Min({64, d}) = (IF d < 64 THEN d ELSE 64)
        BY <3>2, PairFacts
      <3>5. wide = IF k <= 100 THEN Max({1, 2 * k}) + Min({32, d}) ELSE Max({1, 4 * k}) + Min({64, d})
        BY <3>1 DEF Wide
      <3> HIDE DEF wide, k
      <3>6. k > Len(Vectors)
        BY <1>1 DEF k
      <3> QED BY <1>1, <3>2, <3>3, <3>4, <3>5, <3>6
    <2> HIDE DEF N, wide
    <2>6. ep \in N
      <3>1. PICK low : low \in Nat \ {0} /\ low = 1
        OBVIOUS
      <3> HIDE DEF ep
      <3>2. DescendTo(links, Vectors, v, low, top, Dead, entry) \in {e \in N : e \in {entry} \cup Real(Vectors)}
        BY <1>1, <2>2, <2>3, <3>1, DescendToStays
      <3> QED BY <3>1, <3>2 DEF ep
    <2> HIDE DEF ep
    <2>7. walk = N \ Dead
      <3>1. N \subseteq Real(Vectors) /\ Closed(links, N, 0)
        BY <1>2, <2>1, <2>3
      <3> QED BY <1>1, <1>2, <2>5, <2>6, <3>1, WalkFindsAll
    <2>8. Range(found) = walk /\ Len(found) = Cardinality(walk) /\ found \in Seq((N \cap Real(Vectors)) \ Dead)
      <3> HIDE DEF found, walk
      <3>1. Closed(links, N, 0)
        BY <1>2, <2>3
      <3> QED BY SMTT(30), <1>1, <1>2, <2>3, <2>5, <2>6, <3>1, SearchLayerFacts DEF found, walk
    <2>9. Len(found) <= Len(rows) /\ Len(found) \in Nat
      <3>1. 1 \in Int /\ Len(rows) \in Int
        BY <1>1
      <3>2. IsFiniteSet(1 .. Len(rows)) /\ Cardinality(1 .. Len(rows)) = IF 1 > Len(rows) THEN 0 ELSE Len(rows) - 1 + 1
        BY <3>1, FS_Interval
      <3>3. walk \subseteq 1 .. Len(rows)
        BY <1>1, <1>2, <2>7
      <3> HIDE DEF walk, found
      <3>4. Cardinality(walk) <= Cardinality(1 .. Len(rows))
        BY <3>2, <3>3, FS_Subset
      <3>5. Len(found) \in Nat
        BY <2>8
      <3> QED BY <1>1, <2>8, <3>2, <3>4, <3>5
    <2> HIDE DEF found, walk
    <2>10. Min({k, Len(found)}) = Len(found)
      <3>1. PICK a : a \in Nat /\ a = k
        BY <1>1
      <3>2. PICK b : b \in Nat /\ b = Len(found)
        BY <2>9
      <3>3. b < a
        BY <1>1, <2>9, <3>1, <3>2
      <3>4. Min({a, b}) = IF b < a THEN b ELSE a
        BY <3>1, <3>2, PairFacts
      <3> QED BY <3>1, <3>2, <3>3, <3>4
    <2>11. SubSeq(found, 1, Len(found)) = found
      BY <2>8
    <2> QED BY <1>3, <1>4, <1>6, <2>7, <2>8, <2>10, <2>11
  <1> QED BY <1>5, <1>6

\* Without updates, and with room in the lists, deleted rows still lead the way: a search
\* for more than there is returns every live vector.
THEOREM FoundWithoutUpdates == Spec => []FoundUnlessUpdated
  <1>1. Init => GraphInv /\ Plain
    BY GraphStart, PlainStart
  <1>2. GraphInv /\ Plain /\ [Next]_vars => (GraphInv /\ Plain)'
    BY GraphStep, PlainStep
  <1>3. GraphInv /\ Plain => FoundUnlessUpdated
    BY SearchFindsAll DEF FoundUnlessUpdated, AllFound
  <1> QED BY <1>1, <1>2, <1>3, PTL DEF Spec
=============================================================================
