---------------------------- MODULE OrderLemmas ----------------------------
(***************************************************************************)
(* Facts about sets of numbers that the proofs of the components share.    *)
(***************************************************************************)
EXTENDS SortedSets, SequenceTheorems, FiniteSetTheorems, TLAPS

\* A set of numbers that is not empty has a least element: what an argument by a
\* least counterexample rests on.
LEMMA LeastExists ==
    ASSUME NEW S, S \subseteq Nat, S # {}
    PROVE  \E x \in S : \A y \in S : x <= y
  <1> DEFINE Smaller == {ss \in Nat \X Nat : ss[1] < ss[2]}
  <1>1. IsWellFoundedOn(Smaller, Nat)
    BY NatLessThanWellFounded DEF OpToRel
  <1>2. PICK x \in S : \A y \in S : <<y, x>> \notin Smaller
    <2> HIDE DEF Smaller
    <2> QED BY <1>1, WFMin
  <1>3. ASSUME NEW y \in S PROVE x <= y
    <2>1. x \in Nat /\ y \in Nat
      OBVIOUS
    <2>2. ~ (y < x)
      BY <1>2, <2>1
    <2> QED BY <2>1, <2>2
  <1> QED BY <1>3

\* A set of numbers with an upper bound that is not empty has a greatest element.
LEMMA GreatestExists ==
    ASSUME NEW n \in Nat, NEW S, S \subseteq 0 .. n, S # {}
    PROVE  \E x \in S : \A y \in S : x >= y
  <1> DEFINE Over == {n - x : x \in S}
  <1>1. Over \subseteq Nat /\ Over # {}
    OBVIOUS
  <1>2. PICK least \in Over : \A y \in Over : least <= y
    <2> HIDE DEF Over
    <2> QED BY <1>1, LeastExists
  <1>3. PICK x \in S : least = n - x
    OBVIOUS
  <1>4. ASSUME NEW y \in S PROVE x >= y
    <2>1. n - x <= n - y
      BY <1>2, <1>3
    <2>2. x \in Int /\ y \in Int
      OBVIOUS
    <2> QED BY <2>1, <2>2
  <1> QED BY <1>4

\* The values of f start with a, and G gives each from the one before.
FollowsFrom(f, n, S, a, G) ==
    f \in [0 .. n -> S] /\ f[0] = a /\ \A k \in 1 .. n : f[k] = G[<<k, f[k - 1]>>]

\* A function on 0 .. n can be defined so.
LEMMA RecursionExists ==
    ASSUME NEW n \in Nat, NEW S, NEW a \in S, NEW G, G \in [(1 .. n) \X S -> S]
    PROVE  \E f : FollowsFrom(f, n, S, a, G)
  <1> DEFINE Has(m) == \E f \in [0 .. m -> S] : f[0] = a /\ \A k \in 1 .. m : f[k] = G[<<k, f[k - 1]>>]
             Bad == {m \in Nat : m <= n /\ ~Has(m)}
  <1>1. Has(0)
    <2> DEFINE g == [i \in 0 .. 0 |-> a]
    <2>1. g \in [0 .. 0 -> S] /\ g[0] = a /\ \A k \in 1 .. 0 : g[k] = G[<<k, g[k - 1]>>]
      OBVIOUS
    <2> QED BY <2>1
  <1>2. ASSUME NEW m \in Nat, m < n, Has(m)
        PROVE  Has(m + 1)
    <2>1. PICK f \in [0 .. m -> S] : f[0] = a /\ \A k \in 1 .. m : f[k] = G[<<k, f[k - 1]>>]
      BY <1>2
    <2> DEFINE g == [k \in 0 .. m + 1 |-> IF k <= m THEN f[k] ELSE G[<<m + 1, f[m]>>]]
    <2>2. G[<<m + 1, f[m]>>] \in S
      <3>1. <<m + 1, f[m]>> \in (1 .. n) \X S
        BY <1>2
      <3> QED BY <3>1
    <2>3. g \in [0 .. m + 1 -> S] /\ g[0] = a
      BY <2>1, <2>2
    <2>4. ASSUME NEW k \in 1 .. m + 1 PROVE g[k] = G[<<k, g[k - 1]>>]
      <3>1. CASE k <= m
        BY <3>1, <2>1
      <3>2. CASE k = m + 1
        <4>1. g[k] = G[<<m + 1, f[m]>>] /\ k - 1 = m /\ g[m] = f[m]
          BY <3>2
        <4> HIDE DEF g
        <4> QED BY <3>2, <4>1
      <3> QED BY <3>1, <3>2
    <2> HIDE DEF g
    <2> QED BY <2>3, <2>4
  <1> HIDE DEF Has
  <1>3. SUFFICES ASSUME ~Has(n) PROVE FALSE
    BY DEF Has, FollowsFrom
  <1>4. PICK x \in Bad : \A y \in Bad : x <= y
    <2>1. Bad \subseteq Nat /\ n \in Bad
      BY <1>3
    <2> HIDE DEF Bad
    <2> QED BY <2>1, LeastExists
  <1>5. x \in Nat /\ x <= n /\ ~Has(x)
    OBVIOUS
  <1>6. CASE x = 0
    BY <1>6, <1>5, <1>1
  <1>7. CASE x > 0
    <2>1. x - 1 \in Nat /\ x - 1 \notin Bad
      BY <1>4, <1>5, <1>7
    <2>2. Has(x - 1)
      BY <2>1, <1>5
    <2>3. Has(x)
      BY <2>2, <1>2, <1>5, <1>7
    <2> QED BY <2>3, <1>5
  <1> QED BY <1>5, <1>6, <1>7

\* The ranks of the elements of a finite set of numbers are 1 .. Cardinality(S).
LEMMA RankFacts ==
    ASSUME NEW S, IsFiniteSet(S), S \subseteq Nat
    PROVE  /\ \A x \in S : Rank(S, x) \in 1 .. Cardinality(S)
           /\ \A x, y \in S : x < y => Rank(S, x) < Rank(S, y)
           /\ \A k \in 1 .. Cardinality(S) : \E x \in S : Rank(S, x) = k
  <1> DEFINE upTo(x) == {y \in S : y <= x}
             n == Cardinality(S)
             rank == [x \in S |-> Rank(S, x)]
  <1>1. n \in Nat
    BY FS_CardinalityType
  <1>2. ASSUME NEW x \in S
        PROVE  IsFiniteSet(upTo(x)) /\ Rank(S, x) \in 1 .. n
    <2>1. upTo(x) \in SUBSET S /\ x \in upTo(x)
      OBVIOUS
    <2>2. IsFiniteSet(upTo(x)) /\ Cardinality(upTo(x)) <= n
      BY <2>1, FS_Subset
    <2>3. Cardinality(upTo(x)) \in Nat /\ Cardinality(upTo(x)) # 0
      BY <2>1, <2>2, FS_CardinalityType, FS_EmptySet
    <2> QED BY <1>1, <2>2, <2>3 DEF Rank
  <1>3. ASSUME NEW x \in S, NEW y \in S, x < y
        PROVE  Rank(S, x) < Rank(S, y)
    <2>3. x \in Nat /\ y \in Nat /\ \A z \in S : z \in Nat
      OBVIOUS
    <2>4. ASSUME NEW z \in S, z <= x PROVE z <= y
      BY <1>3, <2>3, <2>4
    <2>5. y <= y /\ ~ (y <= x)
      BY <1>3, <2>3
    <2>1. upTo(x) \in SUBSET upTo(y) /\ y \in upTo(y) /\ y \notin upTo(x)
      BY <2>4, <2>5
    <2>2. /\ Cardinality(upTo(x)) <= Cardinality(upTo(y))
          /\ Cardinality(upTo(x)) # Cardinality(upTo(y))
      BY <1>2, <2>1, FS_Subset
    <2> QED BY <1>2, <2>2 DEF Rank
  <1>4. rank \in Injection(S, 1 .. n)
    <2>1. ASSUME NEW x \in S, NEW y \in S, rank[x] = rank[y] PROVE x = y
      <3>1. x \in Nat /\ y \in Nat
        OBVIOUS
      <3>2. Rank(S, x) = Rank(S, y)
        BY <2>1
      <3>3. Rank(S, x) \in 1 .. n /\ Rank(S, y) \in 1 .. n
        BY <1>2
      <3>4. ~ (x < y) /\ ~ (y < x)
        BY <1>3, <3>2, <3>3
      <3> QED BY <3>1, <3>4
    <2> QED BY <1>2, <2>1 DEF Injection, IsInjective
  <1>5. IsFiniteSet(1 .. n) /\ Cardinality(1 .. n) = n
    BY <1>1, FS_Interval
  <1>6. rank \in Surjection(S, 1 .. n)
    <2> HIDE DEF rank
    <2> QED BY <1>4, <1>5, FS_Injection
  <1> QED BY <1>2, <1>3, <1>6 DEF Surjection

\* A finite set of numbers that is not empty has a greatest element.
LEMMA HasGreatest ==
    ASSUME NEW S, IsFiniteSet(S), S \subseteq Nat, S # {}
    PROVE  \E x \in S : \A y \in S : x >= y
  <1> DEFINE n == Cardinality(S)
  <1>1. n \in Nat /\ n # 0
    BY FS_CardinalityType, FS_EmptySet
  <1>2. PICK x \in S : Rank(S, x) = n
    <2>1. n \in 1 .. n
      BY <1>1
    <2> QED BY <2>1, RankFacts
  <1>3. ASSUME NEW y \in S PROVE x >= y
    <2>1. Rank(S, y) \in 1 .. n
      BY RankFacts
    <2>2. x < y => Rank(S, x) < Rank(S, y)
      BY RankFacts
    <2>3. ~ (x < y)
      BY <1>1, <1>2, <2>1, <2>2
    <2>4. x \in Nat /\ y \in Nat
      OBVIOUS
    <2> QED BY <2>3, <2>4
  <1> QED BY <1>3

\* Ascending lists every element of a finite set of numbers once, in their order.
LEMMA AscendingFacts ==
    ASSUME NEW S, IsFiniteSet(S), S \subseteq Nat
    PROVE  /\ Ascending(S) \in Seq(S) /\ Len(Ascending(S)) = Cardinality(S)
           /\ \A i, j \in DOMAIN Ascending(S) : i < j => Ascending(S)[i] < Ascending(S)[j]
           /\ \A x \in S : \E i \in DOMAIN Ascending(S) : Ascending(S)[i] = x
           /\ IsInjective(Ascending(S))
  <1> DEFINE n == Cardinality(S)
             s == Ascending(S)
  <1>1. n \in Nat
    BY FS_CardinalityType
  <1>2. ASSUME NEW k \in 1 .. n PROVE s[k] \in S /\ Rank(S, s[k]) = k
    BY RankFacts DEF Ascending
  <1>3. s \in [1 .. n -> S]
    BY <1>2 DEF Ascending
  <1>4. s \in Seq(S) /\ Len(s) = n /\ DOMAIN s = 1 .. n
    BY <1>1, <1>3
  <1>5. ASSUME NEW i \in 1 .. n, NEW j \in 1 .. n, i < j PROVE s[i] < s[j]
    <2> HIDE DEF s
    <2>1. s[i] \in S /\ s[j] \in S /\ s[i] \in Nat /\ s[j] \in Nat
      BY <1>2
    <2>2. s[j] < s[i] => Rank(S, s[j]) < Rank(S, s[i])
      BY <2>1, RankFacts
    <2>3. Rank(S, s[i]) = i /\ Rank(S, s[j]) = j
      BY <1>2
    <2>4. ~ (j < i) /\ i # j
      BY <1>5
    <2>5. ~ (s[j] < s[i]) /\ s[i] # s[j]
      BY <2>2, <2>3, <2>4
    <2> QED BY <2>1, <2>5
  <1>6. ASSUME NEW x \in S PROVE \E i \in 1 .. n : s[i] = x
    <2>1. Rank(S, x) \in 1 .. n /\ s[Rank(S, x)] \in S /\ x \in Nat
      BY <1>2, RankFacts
    <2>2. Rank(S, s[Rank(S, x)]) = Rank(S, x)
      BY <1>2, <2>1
    <2> DEFINE y == s[Rank(S, x)]
    <2> HIDE DEF y, s
    <2>3. y \in S /\ Rank(S, y) = Rank(S, x) /\ Rank(S, x) \in 1 .. n
      BY <2>1, <2>2 DEF y
    <2>6. (y < x => Rank(S, y) < Rank(S, x)) /\ (x < y => Rank(S, x) < Rank(S, y))
      BY <2>3, RankFacts
    <2>4. ~ (y < x) /\ ~ (x < y)
      BY <1>1, <2>3, <2>6
    <2>5. y = x
      BY <2>1, <2>3, <2>4
    <2> QED BY <2>1, <2>5 DEF y
  <1>7. IsInjective(s)
    <2>1. ASSUME NEW i \in 1 .. n, NEW j \in 1 .. n, s[i] = s[j] PROVE i = j
      BY <1>2, <2>1
    <2> QED BY <1>4, <2>1 DEF IsInjective
  <1> QED BY <1>4, <1>5, <1>6, <1>7

\* The k-th element of the list is the one of rank k.
LEMMA AscendingRank ==
    ASSUME NEW S, IsFiniteSet(S), S \subseteq Nat, NEW k \in 1 .. Cardinality(S)
    PROVE  Ascending(S)[k] \in S /\ Rank(S, Ascending(S)[k]) = k
  BY RankFacts DEF Ascending

\* A set whose elements are all one greater is listed in the same order.
LEMMA AscendingShift ==
    ASSUME NEW S, IsFiniteSet(S), S \subseteq Nat
    PROVE  Ascending({x + 1 : x \in S}) = [k \in 1 .. Cardinality(S) |-> Ascending(S)[k] + 1]
  <1> DEFINE T == {x + 1 : x \in S}
  <1>1. ASSUME NEW A \in SUBSET S
        PROVE  IsFiniteSet({x + 1 : x \in A}) /\ Cardinality({x + 1 : x \in A}) = Cardinality(A)
    <2> DEFINE B == {x + 1 : x \in A}
               f == [x \in A |-> x + 1]
    <2>1. f \in Bijection(A, B)
      <3>1. \A x, y \in A : f[x] = f[y] => x = y
        OBVIOUS
      <3>2. f \in [A -> B] /\ \A b \in B : \E x \in A : f[x] = b
        OBVIOUS
      <3> HIDE DEF B, f
      <3> QED BY <3>1, <3>2 DEF Bijection, Injection, Surjection, IsInjective
    <2>2. IsFiniteSet(A)
      BY FS_Subset
    <2> HIDE DEF B, f
    <2>3. IsFiniteSet(B) /\ Cardinality(B) = Cardinality(A)
      BY <2>1, <2>2, FS_Bijection DEF ExistsBijection
    <2> QED BY <2>3 DEF B
  <1>2. IsFiniteSet(T) /\ Cardinality(T) = Cardinality(S) /\ T \subseteq Nat
    BY <1>1
  <1>3. ASSUME NEW x \in S PROVE Rank(T, x + 1) = Rank(S, x)
    <2>1. {y \in T : y <= x + 1} = {y + 1 : y \in {z \in S : z <= x}}
      OBVIOUS
    <2>2. {z \in S : z <= x} \in SUBSET S
      OBVIOUS
    <2> QED BY <1>1, <2>1, <2>2 DEF Rank
  <1>4. \A x \in S : x + 1 \in T
    OBVIOUS
  <1> HIDE DEF T
  <1>5. ASSUME NEW k \in 1 .. Cardinality(S) PROVE Ascending(T)[k] = Ascending(S)[k] + 1
    <2> DEFINE a == Ascending(T)[k]
               b == Ascending(S)[k] + 1
    <2>1. a \in T /\ Rank(T, a) = k
      BY <1>2, AscendingRank
    <2>2. Ascending(S)[k] \in S /\ Rank(S, Ascending(S)[k]) = k
      BY AscendingRank
    <2>3. b \in T /\ Rank(T, b) = k
      BY <1>3, <1>4, <2>2
    <2> HIDE DEF a, b
    <2>4. (a < b => Rank(T, a) < Rank(T, b)) /\ (b < a => Rank(T, b) < Rank(T, a))
      BY <1>2, <2>1, <2>3, RankFacts
    <2>5. a \in Nat /\ b \in Nat /\ k \in Int
      BY <1>2, <2>1, <2>3, FS_CardinalityType
    <2> QED BY <2>1, <2>3, <2>4, <2>5 DEF a, b
  <1>6. Ascending(T) = [k \in 1 .. Cardinality(S) |-> Ascending(T)[k]]
    BY <1>2 DEF Ascending
  <1> QED BY <1>5, <1>6 DEF T

\* InOrder lists every element of a finite set once, in the given strict order.
LEMMA InOrderFacts ==
    ASSUME NEW S, IsFiniteSet(S), NEW E,
           \A x \in S : <<x, x>> \notin E,
           \A x, y, z \in S : <<x, y>> \in E /\ <<y, z>> \in E => <<x, z>> \in E,
           \A x, y \in S : x = y \/ <<x, y>> \in E \/ <<y, x>> \in E
    PROVE  /\ DOMAIN InOrder(S, E) = 1 .. Cardinality(S) /\ Cardinality(S) \in Nat
           /\ \A k \in DOMAIN InOrder(S, E) : InOrder(S, E)[k] \in S
           /\ \A i, j \in DOMAIN InOrder(S, E) : i < j => <<InOrder(S, E)[i], InOrder(S, E)[j]>> \in E
           /\ \A x \in S : \E k \in DOMAIN InOrder(S, E) : InOrder(S, E)[k] = x
  <1> DEFINE upTo(x) == {y \in S : y = x \/ <<y, x>> \in E}
             n == Cardinality(S)
             place == [x \in S |-> Cardinality(upTo(x))]
             s == InOrder(S, E)
  <1>1. n \in Nat
    BY FS_CardinalityType
  <1>2. ASSUME NEW x \in S
        PROVE  IsFiniteSet(upTo(x)) /\ place[x] \in 1 .. n
    <2>1. upTo(x) \in SUBSET S /\ x \in upTo(x)
      OBVIOUS
    <2>2. IsFiniteSet(upTo(x)) /\ Cardinality(upTo(x)) <= n
      BY <2>1, FS_Subset
    <2>3. Cardinality(upTo(x)) \in Nat /\ Cardinality(upTo(x)) # 0
      BY <2>1, <2>2, FS_CardinalityType, FS_EmptySet
    <2> QED BY <1>1, <2>2, <2>3
  <1>3. ASSUME NEW x \in S, NEW y \in S, <<x, y>> \in E
        PROVE  place[x] < place[y]
    <2>1. \A z \in S : (z = x \/ <<z, x>> \in E) => (z = y \/ <<z, y>> \in E)
      BY <1>3
    <2>2. x # y /\ <<y, x>> \notin E
      BY <1>3
    <2>3. upTo(x) \in SUBSET upTo(y) /\ y \in upTo(y) /\ y \notin upTo(x)
      BY <2>1, <2>2
    <2>4. /\ Cardinality(upTo(x)) <= Cardinality(upTo(y))
          /\ Cardinality(upTo(x)) # Cardinality(upTo(y))
      BY <1>2, <2>3, FS_Subset
    <2>5. Cardinality(upTo(x)) \in Nat /\ Cardinality(upTo(y)) \in Nat
      BY <1>2, FS_CardinalityType
    <2> QED BY <2>4, <2>5
  <1>4. ASSUME NEW x \in S, NEW y \in S, place[x] = place[y] PROVE x = y
    <2>1. place[x] \in 1 .. n /\ place[y] \in 1 .. n
      BY <1>2
    <2>2. <<x, y>> \notin E /\ <<y, x>> \notin E
      <3> HIDE DEF place
      <3> QED BY <1>3, <1>4, <2>1
    <2> QED BY <2>2
  <1>5. place \in Surjection(S, 1 .. n)
    <2>1. place \in Injection(S, 1 .. n)
      BY <1>2, <1>4 DEF Injection, IsInjective
    <2>2. IsFiniteSet(1 .. n) /\ Cardinality(1 .. n) = n
      BY <1>1, FS_Interval
    <2> HIDE DEF place
    <2> QED BY <2>1, <2>2, FS_Injection
  <1>6. ASSUME NEW k \in 1 .. n PROVE s[k] \in S /\ place[s[k]] = k
    <2>1. \E x \in S : Cardinality(upTo(x)) = k
      BY <1>5 DEF Surjection
    <2>2. s[k] = CHOOSE x \in S : Cardinality(upTo(x)) = k
      BY DEF InOrder
    <2> HIDE DEF s
    <2>3. s[k] \in S /\ Cardinality(upTo(s[k])) = k
      BY <2>1, <2>2
    <2> QED BY <2>3
  <1>7. DOMAIN s = 1 .. n
    BY DEF InOrder
  <1> HIDE DEF s, place
  <1>8. ASSUME NEW i \in 1 .. n, NEW j \in 1 .. n, i < j PROVE <<s[i], s[j]>> \in E
    <2>1. s[i] \in S /\ s[j] \in S /\ place[s[i]] = i /\ place[s[j]] = j
      BY <1>6
    <2>2. <<s[j], s[i]>> \in E => j < i
      BY <1>3, <2>1
    <2>3. s[i] # s[j] /\ <<s[j], s[i]>> \notin E
      BY <1>8, <2>1, <2>2
    <2> QED BY <2>1, <2>3
  <1>9. ASSUME NEW x \in S PROVE \E k \in 1 .. n : s[k] = x
    <2>1. place[x] \in 1 .. n
      BY <1>2
    <2>2. s[place[x]] \in S /\ place[s[place[x]]] = place[x]
      BY <1>6, <2>1
    <2>3. s[place[x]] = x
      BY <1>4, <2>2
    <2> QED BY <2>1, <2>3
  <1> QED BY <1>1, <1>6, <1>7, <1>8, <1>9 DEF s

=============================================================================
