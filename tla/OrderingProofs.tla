--------------------------- MODULE OrderingProofs ---------------------------
(***************************************************************************)
(* What the operators of Ordering yield, for all sets and sequences.       *)
(***************************************************************************)
EXTENDS Ordering, Integers, SequencesExt, FiniteSetTheorems, SequenceTheorems, WellFoundedInduction, TLAPS

\* Natural numbers have a least one.
Below == {p \in Nat \X Nat : p[1] < p[2]}

LEMMA Least ==
    ASSUME NEW T \in SUBSET Nat, T # {}
    PROVE  \E i \in T : \A j \in T : i <= j
<1>1. IsWellFoundedOn(Below, Nat)
  BY NatLessThanWellFounded DEF OpToRel, Below
<1>2. PICK i \in T : \A j \in T : ~(<<j, i>> \in Below)
  BY <1>1, WFMin
<1>3. ASSUME NEW j \in T PROVE i <= j
  <2>1. j < i => <<j, i>> \in Below
    BY DEF Below
  <2> QED BY <1>2, <2>1
<1> QED BY <1>3

\* A strict order in which any two elements of S are one before the other.
Orders(R, S) ==
    /\ \A x \in S : <<x, x>> \notin R
    /\ \A x, y \in S : x # y => <<x, y>> \in R \/ <<y, x>> \in R
    /\ \A x, y, z \in S : <<x, y>> \in R /\ <<y, z>> \in R => <<x, z>> \in R

\* Ranks grow with the order, and go from 1 to the number of elements.
LEMMA RankGrows ==
    ASSUME NEW S, IsFiniteSet(S), NEW R, Orders(R, S)
    PROVE  /\ \A x \in S : RankIn(x, S, R) \in 1..Cardinality(S)
           /\ \A x, y \in S : <<x, y>> \in R => RankIn(x, S, R) < RankIn(y, S, R)
<1> DEFINE upTo(x) == {y \in S : y = x \/ <<y, x>> \in R}
<1>1. ASSUME NEW x \in S
      PROVE  IsFiniteSet(upTo(x)) /\ Cardinality(upTo(x)) \in 1..Cardinality(S)
  <2>1. upTo(x) \in SUBSET S /\ x \in upTo(x)
    OBVIOUS
  <2>2. /\ IsFiniteSet(upTo(x)) /\ Cardinality(upTo(x)) <= Cardinality(S)
    BY <2>1, FS_Subset
  <2>3. Cardinality(upTo(x)) # 0
    BY <2>1, <2>2, FS_EmptySet
  <2> QED BY <2>2, <2>3, FS_CardinalityType
<1>2. ASSUME NEW x \in S, NEW y \in S, <<x, y>> \in R
      PROVE  Cardinality(upTo(x)) < Cardinality(upTo(y))
  <2>1. upTo(x) \subseteq upTo(y)
    BY <1>2 DEF Orders
  <2>2. y \in upTo(y) /\ y \notin upTo(x)
    BY <1>2 DEF Orders
  <2>3. /\ Cardinality(upTo(x)) <= Cardinality(upTo(y))
        /\ Cardinality(upTo(x)) # Cardinality(upTo(y))
    BY <1>1, <2>1, <2>2, FS_Subset
  <2> QED BY <1>1, <2>3
<1> QED BY <1>1, <1>2 DEF RankIn

\* Every rank is that of exactly one element.
LEMMA NthFacts ==
    ASSUME NEW S, IsFiniteSet(S), NEW R, Orders(R, S)
    PROVE  /\ Cardinality(S) \in Nat
           /\ \A j \in 1..Cardinality(S) : Nth(j, S, R) \in S
           /\ \A j, k \in 1..Cardinality(S) :
                j < k <=> <<Nth(j, S, R), Nth(k, S, R)>> \in R
           /\ \A x \in S : \E j \in 1..Cardinality(S) : Nth(j, S, R) = x
<1> DEFINE n == Cardinality(S)
           rank == [x \in S |-> RankIn(x, S, R)]
<1>1. n \in Nat
  BY FS_CardinalityType
<1>2. /\ \A x \in S : RankIn(x, S, R) \in 1..n
      /\ \A x, y \in S : <<x, y>> \in R => RankIn(x, S, R) < RankIn(y, S, R)
  BY RankGrows
<1>3. \A x, y \in S : RankIn(x, S, R) = RankIn(y, S, R) => x = y
  <2> SUFFICES ASSUME NEW x \in S, NEW y \in S, x # y
               PROVE  RankIn(x, S, R) # RankIn(y, S, R)
    OBVIOUS
  <2>1. <<x, y>> \in R \/ <<y, x>> \in R
    BY DEF Orders
  <2>2. RankIn(x, S, R) < RankIn(y, S, R) \/ RankIn(y, S, R) < RankIn(x, S, R)
    BY <1>2, <2>1
  <2> QED BY <1>1, <1>2, <2>2
<1>4. rank \in Injection(S, 1..n)
  <2>1. rank \in [S -> 1..n]
    BY <1>2
  <2>2. \A x, y \in S : rank[x] = rank[y] => x = y
    BY <1>3
  <2> HIDE DEF rank
  <2> QED BY <2>1, <2>2 DEF Injection, IsInjective
<1>5. rank \in Surjection(S, 1..n)
  <2>1. IsFiniteSet(1..n) /\ Cardinality(1..n) = n
    BY <1>1, FS_Interval
  <2> HIDE DEF rank
  <2> QED BY <1>4, <2>1, FS_Injection
<1>6. \A j \in 1..n : \E x \in S : RankIn(x, S, R) = j
  BY <1>5 DEF Surjection
<1>7. \A j \in 1..n : Nth(j, S, R) \in S /\ RankIn(Nth(j, S, R), S, R) = j
  BY <1>6 DEF Nth
<1>8. \A j, k \in 1..n : j < k <=> <<Nth(j, S, R), Nth(k, S, R)>> \in R
  <2> SUFFICES ASSUME NEW j \in 1..n, NEW k \in 1..n
               PROVE  j < k <=> <<Nth(j, S, R), Nth(k, S, R)>> \in R
    OBVIOUS
  <2> DEFINE x == Nth(j, S, R)    y == Nth(k, S, R)
  <2>1. x \in S /\ y \in S /\ RankIn(x, S, R) = j /\ RankIn(y, S, R) = k
    BY <1>7
  <2> HIDE DEF x, y
  <2>2. <<x, y>> \in R => j < k
    BY <1>2, <2>1
  <2>3. <<y, x>> \in R => k < j
    BY <1>2, <2>1
  <2>4. x = y \/ <<x, y>> \in R \/ <<y, x>> \in R
    BY <2>1 DEF Orders
  <2>5. j < k <=> <<x, y>> \in R
    BY <1>1, <2>1, <2>2, <2>3, <2>4
  <2> QED BY <2>5 DEF x, y
<1>9. \A x \in S : \E j \in 1..n : Nth(j, S, R) = x
  BY <1>2, <1>3, <1>7
<1> QED BY <1>1, <1>7, <1>8, <1>9

\* The list of a set has each of its elements once, in their order.
LEMMA ListedFacts ==
    ASSUME NEW S, IsFiniteSet(S), NEW R, Orders(R, S)
    PROVE  LET list == Listed(S, R) IN
           /\ list \in Seq(S)
           /\ Len(list) = Cardinality(S)
           /\ \A j, k \in DOMAIN list : j < k <=> <<list[j], list[k]>> \in R
           /\ \A j, k \in DOMAIN list : list[j] = list[k] => j = k
           /\ \A x \in S : \E j \in DOMAIN list : list[j] = x
<1> DEFINE list == Listed(S, R)
<1>1. /\ Cardinality(S) \in Nat
      /\ \A j \in 1..Cardinality(S) : Nth(j, S, R) \in S
      /\ \A j, k \in 1..Cardinality(S) : j < k <=> <<Nth(j, S, R), Nth(k, S, R)>> \in R
      /\ \A x \in S : \E j \in 1..Cardinality(S) : Nth(j, S, R) = x
  BY NthFacts
<1>2. /\ list \in Seq(S) /\ Len(list) = Cardinality(S)
      /\ DOMAIN list = 1..Cardinality(S)
      /\ \A j \in 1..Cardinality(S) : list[j] = Nth(j, S, R)
  BY <1>1 DEF Listed
<1> HIDE DEF list
<1>3. ASSUME NEW j \in DOMAIN list, NEW k \in DOMAIN list, list[j] = list[k]
      PROVE  j = k
  <2>1. ~(j < k) /\ ~(k < j)
    BY <1>1, <1>2, <1>3 DEF Orders
  <2> QED BY <1>1, <1>2, <2>1
<1> QED BY <1>1, <1>2, <1>3 DEF list

LEMMA BeforeOrders ==
    ASSUME NEW I \in SUBSET Nat
    PROVE  Orders(Before(I), I) /\ \A i, k \in I : <<i, k>> \in Before(I) <=> i < k
BY DEF Orders, Before

\* The kept elements are those at the positions kept, in their order.
LEMMA SiftedFacts ==
    ASSUME NEW S, NEW s \in Seq(S), NEW I \in SUBSET (DOMAIN s)
    PROVE  LET at(j) == Nth(j, I, Before(I)) IN
           /\ Cardinality(I) \in Nat /\ Cardinality(I) <= Len(s)
           /\ Sifted(s, I) \in Seq(S)
           /\ Len(Sifted(s, I)) = Cardinality(I)
           /\ DOMAIN Sifted(s, I) = 1..Cardinality(I)
           /\ \A j \in 1..Cardinality(I) : at(j) \in I /\ Sifted(s, I)[j] = s[at(j)]
           /\ \A j, k \in 1..Cardinality(I) : j < k <=> at(j) < at(k)
           /\ \A i \in I : \E j \in 1..Cardinality(I) : at(j) = i
<1> DEFINE n == Cardinality(I)
           at(j) == Nth(j, I, Before(I))
<1>1. /\ DOMAIN s = 1..Len(s) /\ Len(s) \in Nat /\ I \in SUBSET Nat
  OBVIOUS
<1>2. /\ IsFiniteSet(1..Len(s)) /\ Cardinality(1..Len(s)) = Len(s)
  BY <1>1, FS_Interval
<1>3. /\ IsFiniteSet(I) /\ n <= Len(s)
  BY <1>1, <1>2, FS_Subset
<1>4. /\ n \in Nat
      /\ \A j \in 1..n : at(j) \in I
      /\ \A j, k \in 1..n : j < k <=> <<at(j), at(k)>> \in Before(I)
      /\ \A i \in I : \E j \in 1..n : at(j) = i
  BY <1>1, <1>3, BeforeOrders, NthFacts
<1>5. \A j, k \in 1..n : j < k <=> at(j) < at(k)
  BY <1>1, <1>4, BeforeOrders
<1> HIDE DEF at
<1>6. Sifted(s, I) = [j \in 1..n |-> s[at(j)]]
  BY DEF Sifted, at
<1>7. /\ Sifted(s, I) \in Seq(S) /\ Len(Sifted(s, I)) = n /\ DOMAIN Sifted(s, I) = 1..n
      /\ \A j \in 1..n : Sifted(s, I)[j] = s[at(j)]
  BY <1>1, <1>4, <1>6
<1> QED BY <1>3, <1>4, <1>5, <1>7 DEF at

\* What is not removed stays, in its order and once.
LEMMA WithoutFacts ==
    ASSUME NEW S, NEW s \in Seq(S), NEW x
    PROVE  /\ Without(s, x) \in Seq(S)
           /\ ToSet(Without(s, x)) = ToSet(s) \ {x}
           /\ IsInjective(s) => IsInjective(Without(s, x))
<1> DEFINE I == {i \in DOMAIN s : s[i] # x}
           at(j) == Nth(j, I, Before(I))
           n == Cardinality(I)
           r == Without(s, x)
<1>1. I \in SUBSET (DOMAIN s) /\ \A i \in DOMAIN s : i \in I <=> s[i] # x
  OBVIOUS
<1>2. r = Sifted(s, I)
  BY DEF Without
<1> HIDE DEF I, r, at
<1>3. /\ n \in Nat /\ r \in Seq(S) /\ DOMAIN r = 1..n
      /\ \A j \in 1..n : at(j) \in I /\ r[j] = s[at(j)]
      /\ \A j, k \in 1..n : j < k <=> at(j) < at(k)
      /\ \A i \in I : \E j \in 1..n : at(j) = i
  BY <1>1, <1>2, SiftedFacts DEF at
<1>4. ToSet(r) = ToSet(s) \ {x}
  <2>1. ASSUME NEW j \in 1..n PROVE r[j] \in ToSet(s) \ {x}
    BY <1>1, <1>3 DEF ToSet
  <2>2. ASSUME NEW i \in DOMAIN s, s[i] # x PROVE \E j \in 1..n : r[j] = s[i]
    BY <1>1, <1>3, <2>2
  <2> QED BY <1>3, <2>1, <2>2 DEF ToSet
<1>5. ASSUME IsInjective(s) PROVE IsInjective(r)
  <2>1. ASSUME NEW j \in 1..n, NEW k \in 1..n, r[j] = r[k] PROVE j = k
    <3>1. at(j) = at(k)
      BY <1>1, <1>3, <1>5, <2>1 DEF IsInjective
    <3>2. at(j) \in Nat
      BY <1>1, <1>3
    <3>3. ~(j < k) /\ ~(k < j)
      BY <1>3, <3>1, <3>2
    <3> QED BY <1>3, <3>3
  <2> QED BY <1>3, <2>1 DEF IsInjective
<1> QED BY <1>3, <1>4, <1>5 DEF r

\* What stays only moves down, and a rising sequence stays one.
Rising(s) == \A i, j \in DOMAIN s : i < j => s[i] < s[j]

LEMMA SiftedPlaces ==
    ASSUME NEW S, NEW s \in Seq(S), NEW I \in SUBSET (DOMAIN s), NEW j \in 1..Cardinality(I)
    PROVE  Nth(j, I, Before(I)) >= j
<1> DEFINE at(k) == Nth(k, I, Before(I))
           n == Cardinality(I)
           low == {k \in 1..n : at(k) < k}
<1>1. /\ n \in Nat /\ \A k \in 1..n : at(k) \in I
      /\ \A k, m \in 1..n : k < m <=> at(k) < at(m)
  BY SiftedFacts
<1>2. \A k \in 1..n : at(k) \in Nat /\ at(k) >= 1
  BY <1>1
<1> HIDE DEF at, n
<1>3. low = {}
  <2> SUFFICES ASSUME low # {} PROVE FALSE
    OBVIOUS
  <2>1. low \in SUBSET Nat
    BY <1>1
  <2>2. PICK k \in low : \A m \in low : k <= m
    BY <2>1, Least
  <2>3. k \in 1..n /\ at(k) < k /\ k > 1
    BY <1>1, <1>2, <2>2
  <2>4. k - 1 \in 1..n /\ k - 1 < k /\ k - 1 \notin low
    BY <1>1, <2>1, <2>2, <2>3
  <2>5. at(k - 1) >= k - 1 /\ at(k - 1) < at(k)
    BY <1>1, <1>2, <2>3, <2>4
  <2> QED BY <1>2, <2>3, <2>4, <2>5
<1>4. at(j) >= j
  BY <1>1, <1>2, <1>3 DEF n
<1> QED BY <1>4 DEF at

LEMMA WithoutPlaces ==
    ASSUME NEW S, NEW s \in Seq(S), NEW x
    PROVE  /\ \A j \in DOMAIN Without(s, x) : \E k \in DOMAIN s : k >= j /\ Without(s, x)[j] = s[k]
           /\ Rising(s) => Rising(Without(s, x))
<1> DEFINE I == {i \in DOMAIN s : s[i] # x}
           at(j) == Nth(j, I, Before(I))
           n == Cardinality(I)
           r == Without(s, x)
<1>1. I \in SUBSET (DOMAIN s) /\ r = Sifted(s, I)
  BY DEF Without
<1> HIDE DEF I, r
<1>2. /\ n \in Nat /\ DOMAIN r = 1..n
      /\ \A j \in 1..n : at(j) \in I /\ r[j] = s[at(j)]
      /\ \A j, k \in 1..n : j < k <=> at(j) < at(k)
  BY <1>1, SiftedFacts
<1>3. \A j \in 1..n : at(j) >= j
  BY <1>1, SiftedPlaces
<1> HIDE DEF at
<1>4. \A j \in DOMAIN r : \E k \in DOMAIN s : k >= j /\ r[j] = s[k]
  BY <1>1, <1>2, <1>3
<1>5. Rising(s) => Rising(r)
  BY <1>1, <1>2 DEF Rising
<1> QED BY <1>4, <1>5 DEF r

\* A sequence rises on with an element above all it has.
LEMMA AppendRises ==
    ASSUME NEW s \in Seq(Nat), NEW e \in Nat, Rising(s), \A i \in DOMAIN s : s[i] < e
    PROVE  Rising(Append(s, e)) /\ ToSet(Append(s, e)) = ToSet(s) \union {e}
<1> DEFINE r == Append(s, e)
<1>1. /\ DOMAIN s = 1..Len(s) /\ Len(s) \in Nat /\ DOMAIN r = 1..Len(s) + 1
      /\ r[Len(s) + 1] = e /\ \A i \in 1..Len(s) : r[i] = s[i]
  OBVIOUS
<1> HIDE DEF r
<1>2. Rising(r)
  <2> SUFFICES ASSUME NEW i \in DOMAIN r, NEW j \in DOMAIN r, i < j PROVE r[i] < r[j]
    BY DEF Rising
  <2>1. CASE j \in DOMAIN s
    BY <1>1, <2>1 DEF Rising
  <2>2. CASE j = Len(s) + 1
    BY <1>1, <2>2
  <2> QED BY <1>1, <2>1, <2>2
<1>3. ToSet(r) = ToSet(s) \union {e}
  <2>1. \A i \in DOMAIN r : r[i] \in ToSet(s) \union {e}
    BY <1>1 DEF ToSet
  <2>2. \A i \in DOMAIN s : s[i] \in ToSet(r)
    BY <1>1 DEF ToSet
  <2>3. e \in ToSet(r)
    BY <1>1 DEF ToSet
  <2> QED BY <2>1, <2>2, <2>3 DEF ToSet
<1> QED BY <1>2, <1>3 DEF r

\* A sequence with one more element.
LEMMA AppendFacts ==
    ASSUME NEW T, NEW s \in Seq(T), NEW e \in T
    PROVE  /\ Append(s, e) \in Seq(T) /\ Len(s) \in Nat /\ DOMAIN s = 1..Len(s)
           /\ Len(Append(s, e)) = Len(s) + 1 /\ DOMAIN Append(s, e) = 1..Len(s) + 1
           /\ Append(s, e)[Len(s) + 1] = e
           /\ \A i \in DOMAIN s : Append(s, e)[i] = s[i]
OBVIOUS

LEMMA RisingIsInjective ==
    ASSUME NEW s \in Seq(Nat), Rising(s)
    PROVE  IsInjective(s)
<1>1. ASSUME NEW i \in DOMAIN s, NEW j \in DOMAIN s, s[i] = s[j] PROVE i = j
  <2>1. s[i] \in Nat /\ i \in Nat /\ j \in Nat
    OBVIOUS
  <2>2. ~(i < j) /\ ~(j < i)
    BY <1>1, <2>1 DEF Rising
  <2> QED BY <2>1, <2>2
<1> QED BY <1>1 DEF IsInjective

\* An element that comes to a place, those from there on moving up.
LEMMA InsertFacts ==
    ASSUME NEW S, NEW s \in Seq(S), NEW e \in S, NEW i \in 1..Len(s) + 1
    PROVE  LET r == InsertAt(s, i, e) IN
           /\ r \in Seq(S) /\ Len(r) = Len(s) + 1
           /\ ToSet(r) = ToSet(s) \union {e}
           /\ IsInjective(s) /\ e \notin ToSet(s) => IsInjective(r)
<1> DEFINE r == InsertAt(s, i, e)    a == SubSeq(s, 1, i - 1)    b == SubSeq(s, i, Len(s))
           n == Len(s)
<1>1. n \in Nat /\ DOMAIN s = 1..n /\ i \in Nat /\ i - 1 \in 0..n
  OBVIOUS
<1>2. /\ a \in Seq(S) /\ Len(a) = i - 1 /\ \A k \in 1..i - 1 : a[k] = s[k]
  <2>1. a = [k \in 1..i - 1 |-> s[k]]
    BY <1>1
  <2> QED BY <1>1, <2>1
<1>3. /\ b \in Seq(S) /\ Len(b) = n + 1 - i /\ \A k \in 1..n + 1 - i : b[k] = s[i + k - 1]
  <2>1. b = [k \in 1..n + 1 - i |-> s[i + k - 1]]
    BY <1>1
  <2> QED BY <1>1, <2>1
<1>4. r = (a \o <<e>>) \o b
  BY DEF InsertAt
<1> HIDE DEF a, b, r, n
<1>5. /\ a \o <<e>> \in Seq(S) /\ Len(a \o <<e>>) = i
      /\ \A k \in 1..i : (a \o <<e>>)[k] = IF k < i THEN s[k] ELSE e
  <2>1. <<e>> \in Seq(S) /\ Len(<<e>>) = 1 /\ <<e>>[1] = e
    OBVIOUS
  <2>2. /\ a \o <<e>> \in Seq(S) /\ Len(a \o <<e>>) = Len(a) + 1
        /\ \A k \in 1..Len(a) + 1 : (a \o <<e>>)[k] = IF k <= Len(a) THEN a[k] ELSE <<e>>[k - Len(a)]
    BY <1>2, <2>1, ConcatProperties
  <2> QED BY <1>1, <1>2, <2>1, <2>2
<1>6. /\ r \in Seq(S) /\ Len(r) = n + 1 /\ DOMAIN r = 1..n + 1
      /\ \A k \in 1..n + 1 : r[k] = IF k < i THEN s[k] ELSE IF k = i THEN e ELSE s[k - 1]
  <2>1. /\ r \in Seq(S) /\ Len(r) = i + (n + 1 - i)
        /\ \A k \in 1..i + (n + 1 - i) :
              r[k] = IF k <= i THEN (a \o <<e>>)[k] ELSE b[k - i]
    <3> DEFINE c == a \o <<e>>
    <3>1. c \in Seq(S) /\ Len(c) = i /\ b \in Seq(S) /\ Len(b) = n + 1 - i /\ r = c \o b
      BY <1>3, <1>4, <1>5
    <3> HIDE DEF c
    <3>2. /\ c \o b \in Seq(S) /\ Len(c \o b) = Len(c) + Len(b)
          /\ \A k \in 1..Len(c) + Len(b) : (c \o b)[k] = IF k <= Len(c) THEN c[k] ELSE b[k - Len(c)]
      BY <3>1, ConcatProperties
    <3> QED BY <3>1, <3>2 DEF c
  <2>2. Len(r) = n + 1 /\ DOMAIN r = 1..n + 1
    BY <1>1, <2>1
  <2>3. ASSUME NEW k \in 1..n + 1
        PROVE  r[k] = IF k < i THEN s[k] ELSE IF k = i THEN e ELSE s[k - 1]
    <3>1. CASE k <= i
      BY <1>1, <1>5, <2>1, <3>1
    <3>2. CASE k > i
      <4>1. k - i \in 1..n + 1 - i /\ i + (k - i) - 1 = k - 1
        BY <1>1, <3>2
      <4> QED BY <1>1, <1>3, <2>1, <3>2, <4>1
    <3> QED BY <1>1, <3>1, <3>2
  <2> QED BY <2>1, <2>2, <2>3
<1>7. ToSet(r) = ToSet(s) \union {e}
  <2>1. ASSUME NEW k \in DOMAIN r PROVE r[k] \in ToSet(s) \union {e}
    <3>1. CASE k = i
      BY <1>6, <3>1
    <3>2. CASE k < i
      BY <1>1, <1>6, <3>2 DEF ToSet
    <3>3. CASE k > i
      <4>1. k - 1 \in DOMAIN s /\ r[k] = s[k - 1]
        BY <1>1, <1>6, <3>3
      <4> QED BY <4>1 DEF ToSet
    <3> QED BY <1>1, <1>6, <3>1, <3>2, <3>3
  <2>2. ASSUME NEW k \in DOMAIN s PROVE s[k] \in ToSet(r)
    <3>1. CASE k < i
      BY <1>1, <1>6, <3>1 DEF ToSet
    <3>2. CASE k >= i
      <4>1. k + 1 \in DOMAIN r /\ r[k + 1] = s[k]
        BY <1>1, <1>6, <3>2
      <4> QED BY <4>1 DEF ToSet
    <3> QED BY <1>1, <3>1, <3>2
  <2>3. e \in ToSet(r)
    BY <1>1, <1>6 DEF ToSet, n
  <2> QED BY <2>1, <2>2, <2>3 DEF ToSet
<1>8. ASSUME IsInjective(s), e \notin ToSet(s) PROVE IsInjective(r)
  <2> SUFFICES ASSUME NEW j \in DOMAIN r, NEW k \in DOMAIN r, j < k PROVE r[j] # r[k]
    BY <1>1, <1>6 DEF IsInjective
  <2>1. \A m \in DOMAIN s : s[m] # e
    BY <1>8 DEF ToSet
  <2>2. \A l, m \in DOMAIN s : s[l] = s[m] => l = m
    BY <1>8 DEF IsInjective
  <2>3. j \in 1..n + 1 /\ k \in 1..n + 1 /\ i \in 1..n + 1
    BY <1>6, <1>1
  <2>4. CASE j = i
    <3>1. k - 1 \in DOMAIN s /\ r[j] = e /\ r[k] = s[k - 1]
      BY <1>1, <1>6, <2>3, <2>4
    <3> QED BY <2>1, <3>1
  <2>5. CASE k = i
    <3>1. j \in DOMAIN s /\ r[j] = s[j] /\ r[k] = e
      BY <1>1, <1>6, <2>3, <2>5
    <3> QED BY <2>1, <3>1
  <2>6. CASE j # i /\ k # i
    <3> DEFINE p == IF j < i THEN j ELSE j - 1    q == IF k < i THEN k ELSE k - 1
    <3>1. p \in DOMAIN s /\ q \in DOMAIN s /\ p < q
      BY <1>1, <2>3, <2>6
    <3>2. r[j] = s[p] /\ r[k] = s[q]
      BY <1>1, <1>6, <2>3, <2>6
    <3> HIDE DEF p, q
    <3> QED BY <1>1, <2>2, <3>1, <3>2
  <2> QED BY <2>4, <2>5, <2>6
<1> QED BY <1>6, <1>7, <1>8 DEF r, n

\* One less, when the sequence has its elements once.
LEMMA WithoutLength ==
    ASSUME NEW S, NEW s \in Seq(S), IsInjective(s), NEW x \in ToSet(s)
    PROVE  Len(Without(s, x)) = Len(s) - 1
<1> DEFINE I == {i \in DOMAIN s : s[i] # x}
<1>1. PICK k \in DOMAIN s : s[k] = x
  BY DEF ToSet
<1>2. I = (1..Len(s)) \ {k} /\ k \in 1..Len(s) /\ Len(s) \in Nat
  BY <1>1 DEF IsInjective
<1>3. IsFiniteSet(1..Len(s)) /\ Cardinality(1..Len(s)) = Len(s)
  <2>1. 1 \in Int /\ Len(s) \in Int
    BY <1>2
  <2>2. /\ IsFiniteSet(1..Len(s))
        /\ Cardinality(1..Len(s)) = IF 1 > Len(s) THEN 0 ELSE Len(s) - 1 + 1
    BY <2>1, FS_Interval
  <2> QED BY <1>2, <2>2
<1>4. Cardinality(I) = Len(s) - 1
  <2>1. Cardinality((1..Len(s)) \ {k}) = Cardinality(1..Len(s)) - 1
    BY <1>2, <1>3, FS_RemoveElement
  <2> QED BY <1>2, <1>3, <2>1
<1>5. Len(Without(s, x)) = Cardinality(I)
  <2>1. I \in SUBSET (DOMAIN s) /\ Without(s, x) = Sifted(s, I)
    BY DEF Without
  <2> HIDE DEF I
  <2> QED BY <2>1, SiftedFacts
<1> QED BY <1>4, <1>5

LEMMA AppendOnce ==
    ASSUME NEW T, NEW s \in Seq(T), NEW e \in T, IsInjective(s), e \notin ToSet(s)
    PROVE  /\ Append(s, e) \in Seq(T) /\ IsInjective(Append(s, e))
           /\ ToSet(Append(s, e)) = ToSet(s) \union {e}
<1> DEFINE r == Append(s, e)    n == Len(s)
<1>1. /\ r \in Seq(T) /\ n \in Nat /\ DOMAIN s = 1..n /\ DOMAIN r = 1..n + 1 /\ r[n + 1] = e
      /\ \A i \in 1..n : r[i] = s[i]
  BY AppendFacts
<1> HIDE DEF r, n
<1>2. ToSet(r) = ToSet(s) \union {e}
  <2>1. \A i \in DOMAIN r : r[i] \in ToSet(s) \union {e}
    BY <1>1 DEF ToSet
  <2>2. \A i \in DOMAIN s : s[i] \in ToSet(r)
    BY <1>1 DEF ToSet
  <2>3. e \in ToSet(r)
    BY <1>1 DEF ToSet
  <2> QED BY <2>1, <2>2, <2>3 DEF ToSet
<1>3. IsInjective(r)
  <2>1. \A i \in DOMAIN s : s[i] # e
    BY DEF ToSet
  <2>2. \A i, j \in DOMAIN s : s[i] = s[j] => i = j
    BY DEF IsInjective
  <2> QED BY <1>1, <2>1, <2>2 DEF IsInjective
<1> QED BY <1>1, <1>2, <1>3 DEF r
=============================================================================
