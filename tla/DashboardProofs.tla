--------------------------- MODULE DashboardProofs ---------------------------
(***************************************************************************)
(* Theorems about Dashboard and the store of Queries below it, for every   *)
(* set of tests, logs, clients and questions and any number of runs: what  *)
(* a client that follows cursors gets is whole, only a large event stops   *)
(* it, and the dashboard's selection stays where it is.                    *)
(***************************************************************************)
EXTENDS Dashboard, FiniteSetTheorems, WellFoundedInduction, TLAPS

-----------------------------------------------------------------------------
(* Sets of numbers, and sequences by the places of numbers in them.        *)

Below == {p \in Nat \X Nat : p[1] < p[2]}

\* A set of naturals has a least element.
LEMMA Least ==
    ASSUME NEW S \in SUBSET Nat, S # {}
    PROVE  \E n \in S : \A m \in S : n <= m
<1>1. IsWellFoundedOn(Below, Nat)
  <2>1. OpToRel(<, Nat) = Below
    BY Zenon DEF OpToRel, Below
  <2>2. QED
    BY <2>1, NatLessThanWellFounded, Zenon
<1>2. PICK n \in S : \A m \in S : ~(<<m, n>> \in Below)
  BY <1>1, WFMin, Zenon
<1>3. ASSUME NEW m \in S, m < n PROVE <<m, n>> \in Below
  <2>1. <<m, n>> \in Nat \X Nat /\ <<m, n>>[1] < <<m, n>>[2]
    BY <1>3
  <2>2. QED
    BY <2>1, Zenon DEF Below
<1>4. \A m \in S : ~(m < n)
  BY <1>2, <1>3, Zenon
<1>5. QED
  BY <1>4

IsGreatest(S, n) == n \in S /\ \A m \in S : m <= n

\* A finite set of naturals has a greatest element, which is its Max.
LEMMA Greatest ==
    ASSUME NEW S \in SUBSET Nat, IsFiniteSet(S), S # {}
    PROVE  IsGreatest(S, Max(S))
<1> DEFINE Without == {T \in SUBSET S : IsFiniteSet(T) /\ T # {} /\ \A n \in T : ~IsGreatest(T, n)}
           Sizes == {Cardinality(T) : T \in Without}
<1>1. ASSUME Without # {} PROVE FALSE
  <2>1. \A T \in Without : Cardinality(T) \in Nat
    BY FS_CardinalityType
  <2>2. Sizes \in SUBSET Nat /\ Sizes # {}
    BY <1>1, <2>1
  <2>3. PICK c \in Sizes : \A d \in Sizes : c <= d
    BY <2>2, Least
  <2>4. PICK T \in Without : c = Cardinality(T)
    BY <2>3
  <2>5. PICK x \in T : TRUE
    BY <2>4
  <2> DEFINE U == T \ {x}
  <2>6. IsFiniteSet(U) /\ Cardinality(U) = c - 1
    BY <2>4, <2>5, FS_RemoveElement
  <2>7. c \in Nat /\ c - 1 < c
    BY <2>2, <2>3
  <2>8. ASSUME U \in Without PROVE FALSE
    <3>1. Cardinality(U) \in Sizes
      BY <2>8
    <3> HIDE DEF U, Without, Sizes
    <3>2. c <= c - 1
      BY <2>3, <2>6, <3>1
    <3>3. QED
      BY <2>7, <3>2
  <2>9. T \in SUBSET Nat /\ x \in Nat
    BY <2>4, <2>5
  <2>10. CASE U = {}
    <3>1. \A m \in T : m = x
      BY <2>10
    <3>2. IsGreatest(T, x)
      BY <2>5, <2>9, <3>1 DEF IsGreatest
    <3>3. QED
      BY <2>4, <2>5, <3>2
  <2>11. CASE U # {}
    <3>1. PICK n \in U : IsGreatest(U, n)
      BY <2>4, <2>6, <2>8, <2>11
    <3>2. CASE n <= x
      <4>1. IsGreatest(T, x)
        BY <2>5, <2>9, <3>1, <3>2 DEF IsGreatest
      <4>2. QED
        BY <2>4, <2>5, <4>1
    <3>3. CASE ~(n <= x)
      <4>1. IsGreatest(T, n)
        BY <2>5, <2>9, <3>1, <3>3 DEF IsGreatest
      <4>2. QED
        BY <2>4, <3>1, <4>1
    <3>4. QED
      BY <3>2, <3>3
  <2>12. QED
    BY <2>10, <2>11
<1>2. PICK n \in S : IsGreatest(S, n)
  BY <1>1
<1>3. \E x \in S : \A y \in S : x >= y
  BY <1>2 DEF IsGreatest
<1>4. Max(S) \in S /\ \A y \in S : Max(S) >= y
  BY <1>3 DEF Max
<1>5. QED
  BY <1>4 DEF IsGreatest

\* How many of the numbers I are at most i.
Rank(I, i) == Cardinality({k \in I : k <= i})

\* The numbers at most i are finitely many.
LEMMA RankType ==
    ASSUME NEW I \in SUBSET Nat, IsFiniteSet(I), NEW i
    PROVE  /\ IsFiniteSet({k \in I : k <= i}) /\ Rank(I, i) \in Nat
           /\ Rank(I, i) <= Cardinality(I) /\ Cardinality(I) \in Nat
<1>1. {k \in I : k <= i} \in SUBSET I
  OBVIOUS
<1>2. IsFiniteSet({k \in I : k <= i}) /\ Cardinality({k \in I : k <= i}) <= Cardinality(I)
  BY <1>1, FS_Subset
<1>3. QED
  BY <1>2, FS_CardinalityType DEF Rank

\* Ranks go up with the numbers.
LEMMA RankGrows ==
    ASSUME NEW I \in SUBSET Nat, IsFiniteSet(I), NEW i \in I, NEW k \in I, i < k
    PROVE  Rank(I, i) < Rank(I, k)
<1> DEFINE A == {m \in I : m <= i}
           B == {m \in I : m <= k}
<1>1. IsFiniteSet(B)
  BY RankType
<1>2. A \in SUBSET B /\ k \in B /\ k \notin A
  <2>1. i \in Nat /\ k \in Nat
    OBVIOUS
  <2>2. ASSUME NEW m \in I, m <= i PROVE m <= k
    <3>1. m \in Nat
      OBVIOUS
    <3>2. QED
      BY <2>1, <2>2, <3>1
  <2>3. k <= k /\ ~(k <= i)
    BY <2>1
  <2>4. QED
    BY <2>2, <2>3
<1>3. A # B
  BY <1>2
<1> HIDE DEF A, B
<1>4. Cardinality(A) < Cardinality(B)
  <2>1. IsFiniteSet(A) /\ Cardinality(A) <= Cardinality(B) /\ Cardinality(A) # Cardinality(B)
    BY <1>1, <1>2, <1>3, FS_Subset
  <2>2. Cardinality(A) \in Nat /\ Cardinality(B) \in Nat
    BY <1>1, <2>1, FS_CardinalityType
  <2>3. QED
    BY <2>1, <2>2
<1>5. QED
  BY <1>4 DEF Rank, A, B

\* Every number from 1 to the size of I is the rank of one of I.
LEMMA RankExists ==
    ASSUME NEW I \in SUBSET Nat, IsFiniteSet(I), NEW j \in 1..Cardinality(I)
    PROVE  \E i \in I : Rank(I, i) = j
<1> DEFINE Reached == {i \in I : Rank(I, i) >= j}
<1>1. Cardinality(I) \in Nat /\ I # {} /\ \A m \in I : m \in Nat
  BY FS_CardinalityType, FS_EmptySet
<1>2. Max(I) \in I /\ {k \in I : k <= Max(I)} = I
  BY <1>1, Greatest DEF IsGreatest
<1>3. Max(I) \in Reached
  BY <1>1, <1>2 DEF Rank
<1>4. PICK i \in Reached : \A m \in Reached : i <= m
  <2>1. Reached \in SUBSET Nat /\ Reached # {}
    BY <1>3
  <2>2. QED
    BY <2>1, Least
<1> DEFINE L == {k \in I : k < i}
<1>5. {k \in I : k <= i} = L \cup {i} /\ i \notin L
  <2>1. i \in I /\ i \in Nat
    BY <1>1, <1>4
  <2>2. ASSUME NEW k \in I PROVE k <= i <=> k < i \/ k = i
    <3>1. k \in Nat
      OBVIOUS
    <3>2. QED
      BY <2>1, <3>1
  <2>3. ~(i < i)
    BY <2>1
  <2>4. QED
    BY <2>1, <2>2, <2>3
<1>6. IsFiniteSet(L) /\ Cardinality(L) \in Nat
  <2>1. L \in SUBSET I
    OBVIOUS
  <2>2. QED
    BY <2>1, FS_Subset, FS_CardinalityType
<1>7. Rank(I, i) = Cardinality(L) + 1
  BY <1>5, <1>6, FS_AddElement DEF Rank
<1>8. ASSUME Cardinality(L) >= j PROVE FALSE
  <2>1. L # {}
    BY <1>8, FS_EmptySet
  <2>2. Max(L) \in L /\ \A m \in L : m <= Max(L)
    BY <1>6, <2>1, Greatest DEF IsGreatest
  <2>3. {k \in I : k <= Max(L)} = L
    <3>1. i \in Nat /\ Max(L) \in I /\ Max(L) \in Nat /\ Max(L) < i
      BY <1>1, <1>4, <2>2
    <3>2. ASSUME NEW k \in I, k <= Max(L) PROVE k < i
      <4>1. k \in Nat
        OBVIOUS
      <4>2. QED
        BY <3>1, <3>2, <4>1
    <3>3. QED
      BY <2>2, <3>2
  <2>4. Max(L) \in Reached
    BY <1>8, <2>2, <2>3 DEF Rank
  <2>5. i \in Nat /\ Max(L) \in Nat /\ Max(L) < i
    BY <1>1, <1>4, <2>2
  <2>6. QED
    BY <1>4, <2>4, <2>5
<1>9. Rank(I, i) = j
  BY <1>4, <1>6, <1>7, <1>8
<1>10. QED
  BY <1>4, <1>9

\* The j-th of the numbers I is the one of rank j.
LEMMA NthHasRank ==
    ASSUME NEW I \in SUBSET Nat, IsFiniteSet(I), NEW j \in 1..Cardinality(I)
    PROVE  Nth(I, j) \in I /\ Rank(I, Nth(I, j)) = j
  BY RankExists DEF Nth, Rank

\* And a number of I is the one of its rank.
LEMMA NthOfRank ==
    ASSUME NEW I \in SUBSET Nat, IsFiniteSet(I), NEW i \in I
    PROVE  Rank(I, i) \in 1..Cardinality(I) /\ Nth(I, Rank(I, i)) = i
<1>1. Rank(I, i) \in Nat /\ Rank(I, i) <= Cardinality(I) /\ IsFiniteSet({k \in I : k <= i})
  BY RankType
<1>2. Rank(I, i) # 0
  <2>1. i \in {k \in I : k <= i}
    OBVIOUS
  <2>2. QED
    BY <1>1, <2>1, FS_EmptySet DEF Rank
<1>3. Rank(I, i) \in 1..Cardinality(I)
  BY <1>1, <1>2, RankType
<1> DEFINE n == Nth(I, Rank(I, i))
<1>4. n \in I /\ Rank(I, n) = Rank(I, i)
  BY <1>3, NthHasRank
<1> HIDE DEF n
<1>5. n \in Nat /\ i \in Nat
  BY <1>4
<1>6. ~(n < i) /\ ~(i < n)
  <2>1. CASE n < i
    BY <1>1, <1>4, <2>1, RankGrows
  <2>2. CASE i < n
    BY <1>1, <1>4, <2>2, RankGrows
  <2>3. QED
    BY <2>1, <2>2
<1>7. n = i
  BY <1>5, <1>6
<1>8. QED
  BY <1>3, <1>7 DEF n

\* What is picked from a sequence is in it, and nothing is left out.
LEMMA PickedFacts ==
    ASSUME NEW T, NEW s \in Seq(T), NEW I \in SUBSET DOMAIN s
    PROVE  /\ I \in SUBSET Nat /\ IsFiniteSet(I) /\ Cardinality(I) \in Nat
           /\ Picked(s, I) \in Seq(T) /\ Len(Picked(s, I)) = Cardinality(I)
           /\ \A j \in 1..Cardinality(I) : \E i \in I : Picked(s, I)[j] = s[i]
           /\ \A i \in I : Rank(I, i) \in 1..Cardinality(I) /\ Picked(s, I)[Rank(I, i)] = s[i]
<1>1. DOMAIN s = 1..Len(s) /\ Len(s) \in Nat
  OBVIOUS
<1>2. I \in SUBSET Nat
  BY <1>1
<1>3. IsFiniteSet(I)
  <2>1. IsFiniteSet(1..Len(s))
    BY <1>1, FS_Interval
  <2>2. QED
    BY <1>1, <2>1, FS_Subset
<1>4. Cardinality(I) \in Nat
  BY <1>3, FS_CardinalityType
<1>5. \A j \in 1..Cardinality(I) : Nth(I, j) \in I
  BY <1>2, <1>3, NthHasRank
<1>6. \A j \in 1..Cardinality(I) : s[Nth(I, j)] \in T
  BY <1>1, <1>5
<1>7. Picked(s, I) \in [1..Cardinality(I) -> T]
  BY <1>6 DEF Picked
<1>8. Picked(s, I) \in Seq(T) /\ Len(Picked(s, I)) = Cardinality(I)
  BY <1>4, <1>7
<1>9. \A j \in 1..Cardinality(I) : Picked(s, I)[j] = s[Nth(I, j)]
  BY DEF Picked
<1>10. ASSUME NEW i \in I
       PROVE  Rank(I, i) \in 1..Cardinality(I) /\ Picked(s, I)[Rank(I, i)] = s[i]
  <2>1. Rank(I, i) \in 1..Cardinality(I) /\ Nth(I, Rank(I, i)) = i
    BY <1>2, <1>3, NthOfRank
  <2>2. QED
    BY <1>9, <2>1
<1>11. QED
  BY <1>2, <1>3, <1>4, <1>5, <1>8, <1>9, <1>10

\* The lesser and the greater of two numbers.
LEMMA OfTwo ==
    ASSUME NEW m \in Int, NEW n \in Int
    PROVE  /\ Min({m, n}) = (IF m <= n THEN m ELSE n)
           /\ Max({m, n}) = (IF m <= n THEN n ELSE m)
<1>1. \E x \in {m, n} : \A y \in {m, n} : x <= y
  OBVIOUS
<1>2. \E x \in {m, n} : \A y \in {m, n} : x >= y
  OBVIOUS
<1>3. Min({m, n}) \in {m, n} /\ \A y \in {m, n} : Min({m, n}) <= y
  BY <1>1 DEF Min
<1>4. Max({m, n}) \in {m, n} /\ \A y \in {m, n} : Max({m, n}) >= y
  BY <1>2 DEF Max
<1>5. QED
  BY <1>3, <1>4

\* The Min of a set of naturals is one of them.
LEMMA MinIsIn ==
    ASSUME NEW S \in SUBSET Nat, S # {}
    PROVE  Min(S) \in S /\ \A m \in S : Min(S) <= m
<1>1. \E n \in S : \A m \in S : n <= m
  BY Least
<1>2. QED
  BY <1>1 DEF Min

\* The greatest of a finite set of naturals, or 0.
LEMMA GreatestOrZero ==
    ASSUME NEW S \in SUBSET Nat, IsFiniteSet(S), NEW n, n = Max({0} \cup S)
    PROVE  n \in Nat /\ (n = 0 \/ n \in S) /\ \A m \in S : m <= n
<1> DEFINE T == {0} \cup S
<1>1. T \in SUBSET Nat /\ T # {} /\ IsFiniteSet(T)
  BY FS_AddElement
<1>2. n = Max(T)
  OBVIOUS
<1> HIDE DEF T
<1>3. n \in T /\ \A m \in T : m <= n
  BY <1>1, <1>2, Greatest DEF IsGreatest
<1>4. QED
  BY <1>3 DEF T

\* Numbers in ascending order: none is left out, and each is less than the next.
Ascends(a, I) ==
    /\ a \in Seq(I) /\ Len(a) = Cardinality(I) /\ Len(a) \in Nat
    /\ \A j \in 1..Len(a) : a[j] \in I
    /\ \A i \in I : \E j \in 1..Len(a) : a[j] = i
    /\ \A j, k \in 1..Len(a) : j < k => a[j] < a[k]

\* ORDER BY
LEMMA AscendingFacts ==
    ASSUME NEW I \in SUBSET Nat, IsFiniteSet(I)
    PROVE  Ascends(Ascending(I), I)
<1> DEFINE a == Ascending(I)
           c == Cardinality(I)
<1>1. c \in Nat
  BY FS_CardinalityType
<1>2. \A j \in 1..c : a[j] \in I /\ Rank(I, a[j]) = j
  BY NthHasRank DEF Ascending
<1>3. a \in [1..c -> I]
  <2>1. \A j \in 1..c : Nth(I, j) \in I
    BY NthHasRank
  <2>2. QED
    BY <2>1 DEF Ascending
<1>4. a \in Seq(I) /\ Len(a) = c
  BY <1>1, <1>3
<1>5. \A i \in I : \E j \in 1..c : a[j] = i
  BY NthOfRank DEF Ascending
<1>6. ASSUME NEW j \in 1..c, NEW k \in 1..c, j < k PROVE a[j] < a[k]
  <2> DEFINE x == a[j]
             y == a[k]
  <2>1. x \in I /\ y \in I /\ Rank(I, x) = j /\ Rank(I, y) = k
    BY <1>2
  <2> HIDE DEF a, c, x, y
  <2>2. x \in Nat /\ y \in Nat
    BY <2>1
  <2>3. j \in Nat /\ k \in Nat
    BY <1>1
  <2>4. ASSUME y < x PROVE FALSE
    <3>1. Rank(I, y) < Rank(I, x)
      BY <2>1, <2>4, RankGrows
    <3>2. QED
      BY <1>6, <2>1, <2>3, <3>1
  <2>5. ASSUME x = y PROVE FALSE
    BY <1>6, <2>1, <2>3, <2>5
  <2>6. x < y
    BY <2>2, <2>4, <2>5
  <2>7. QED
    BY <2>6 DEF x, y
<1> HIDE DEF a, c
<1>7. QED
  <2>1. Ascends(a, I)
    BY <1>1, <1>2, <1>4, <1>5, <1>6 DEF Ascends, c
  <2>2. QED
    BY <2>1 DEF a

-----------------------------------------------------------------------------
(* Pages of keys, apart from what the keys stand for.                      *)

\* p is a page of the keys F after a cursor: it has, once each, those up to next, or all
\* the rest when there is no next.
IsPage(F, cursor, p, next) ==
    /\ p \in Seq(F)
    /\ \A i, j \in DOMAIN p : p[i] = p[j] => i = j
    /\ \A i \in DOMAIN p : p[i] > cursor
    /\ IF next = None
       THEN \A key \in F : key > cursor => \E i \in DOMAIN p : p[i] = key
       ELSE /\ next \in F /\ next > cursor
            /\ \E i \in DOMAIN p : p[i] = next
            /\ \A i \in DOMAIN p : p[i] <= next
            /\ \A key \in F : key > cursor /\ key <= next => \E i \in DOMAIN p : p[i] = key

\* The first keys after a cursor are a page of them, when there is one at least.
LEMMA FirstKeys ==
    ASSUME NEW F \in SUBSET Nat, IsFiniteSet(F), NEW cursor \in Nat, NEW n \in Nat,
           NEW ks, ks = Ascending({key \in F : key > cursor}),
           n <= Len(ks), n = 0 => Len(ks) = 0
    PROVE  IsPage(F, cursor, SubSeq(ks, 1, n), IF n < Len(ks) THEN ks[n] ELSE None)
<1> DEFINE I == {key \in F : key > cursor}
           p == SubSeq(ks, 1, n)
           next == IF n < Len(ks) THEN ks[n] ELSE None
<1>1. I \in SUBSET F /\ I \in SUBSET Nat /\ \A key \in I : key > cursor
  OBVIOUS
<1>2. Ascends(ks, I)
  <2>1. IsFiniteSet(I) /\ ks = Ascending(I)
    BY <1>1, FS_Subset
  <2> HIDE DEF I
  <2>2. QED
    BY <1>1, <2>1, AscendingFacts
<1>3. \A key \in F : key > cursor => key \in I
  OBVIOUS
<1> HIDE DEF I
<1>4. /\ ks \in Seq(I) /\ Len(ks) \in Nat /\ \A j \in 1..Len(ks) : ks[j] \in I /\ ks[j] \in Nat
      /\ \A i \in I : \E j \in 1..Len(ks) : ks[j] = i
      /\ \A j, k \in 1..Len(ks) : j < k => ks[j] < ks[k]
  BY <1>1, <1>2 DEF Ascends
<1>5. /\ Len(p) = n /\ DOMAIN p = 1..n /\ \A i \in 1..n : p[i] = ks[i] /\ i \in 1..Len(ks)
  <2>1. 1 \in 1..Len(ks) + 1 /\ n \in 0..Len(ks)
    BY <1>4
  <2>2. Len(p) = n /\ DOMAIN p = 1..n /\ \A i \in 1..n : p[i] = ks[i]
    BY <1>4, <2>1
  <2>3. \A i \in 1..n : i \in 1..Len(ks)
    BY <1>4, <2>1
  <2>4. QED
    BY <2>2, <2>3
<1>6. p \in Seq(F)
  <2> DEFINE q == [i \in 1..n |-> ks[i]]
  <2>1. \A i \in 1..n : ks[i] \in F
    BY <1>1, <1>4, <1>5
  <2>2. q \in [1..n -> F]
    BY <2>1
  <2>3. q \in Seq(F)
    BY <2>2
  <2>4. p = q
    BY <1>5
  <2>5. QED
    BY <2>3, <2>4
<1>7. ASSUME NEW i \in DOMAIN p, NEW j \in DOMAIN p, p[i] = p[j] PROVE i = j
  <2>1. i \in 1..Len(ks) /\ j \in 1..Len(ks) /\ ks[i] = ks[j] /\ ks[i] \in Nat
    BY <1>4, <1>5, <1>7
  <2> DEFINE x == ks[i]
             y == ks[j]
  <2>2. /\ i < j => x < y
        /\ j < i => y < x
    BY <1>4, <2>1
  <2>3. x = y /\ x \in Nat
    BY <2>1
  <2> HIDE DEF x, y
  <2>4. ~(i < j) /\ ~(j < i)
    BY <2>2, <2>3
  <2>5. QED
    BY <2>1, <2>4
<1>8. \A i \in DOMAIN p : p[i] > cursor
  BY <1>1, <1>4, <1>5
<1>9. CASE n < Len(ks)
  <2>1. n \in 1..Len(ks) /\ n \in DOMAIN p /\ next = ks[n] /\ next \in I /\ next \in Nat
    BY <1>4, <1>5, <1>9
  <2>2. next # None /\ next \in F /\ next > cursor /\ p[n] = next
    BY <1>1, <1>5, <2>1, QueriesAssumption
  <2>3. ASSUME NEW i \in DOMAIN p PROVE p[i] <= next
    <3>1. i \in 1..Len(ks) /\ i <= n /\ p[i] = ks[i] /\ ks[i] \in Nat
      BY <1>4, <1>5
    <3>2. i < n \/ i = n
      BY <3>1
    <3>3. i < n => ks[i] < ks[n]
      BY <1>4, <2>1, <3>1
    <3>4. QED
      BY <2>1, <3>1, <3>2, <3>3
  <2>4. ASSUME NEW key \in F, key > cursor, key <= next PROVE \E i \in DOMAIN p : p[i] = key
    <3>1. PICK j \in 1..Len(ks) : ks[j] = key
      BY <1>3, <1>4, <2>4
    <3>2. ~(n < j)
      <4>1. ASSUME n < j PROVE FALSE
        <5>1. ks[n] < ks[j] /\ ks[n] \in Nat /\ ks[j] \in Nat
          BY <1>4, <2>1, <3>1, <4>1
        <5>2. QED
          BY <2>1, <2>4, <3>1, <5>1
      <4>2. QED
        BY <4>1
    <3>3. j \in 1..n
      BY <3>2
    <3>4. QED
      BY <1>5, <3>1, <3>3
  <2> HIDE DEF p, next
  <2>5. IsPage(F, cursor, p, next)
    BY <1>6, <1>7, <1>8, <2>1, <2>2, <2>3, <2>4 DEF IsPage
  <2>6. QED
    BY <2>5 DEF p, next
<1>10. CASE n = Len(ks)
  <2>1. next = None
    BY <1>10
  <2>2. ASSUME NEW key \in F, key > cursor PROVE \E i \in DOMAIN p : p[i] = key
    <3>1. PICK j \in 1..Len(ks) : ks[j] = key
      BY <1>3, <1>4, <2>2
    <3>2. j \in 1..n
      BY <1>10
    <3>3. QED
      BY <1>5, <3>1, <3>2
  <2> HIDE DEF p, next
  <2>3. IsPage(F, cursor, p, next)
    BY <1>6, <1>7, <1>8, <2>1, <2>2 DEF IsPage
  <2>4. QED
    BY <2>3 DEF p, next
<1>11. QED
  BY <1>4, <1>9, <1>10

\* What a client has that read the items f of the keys F up to a cursor: none twice, and
\* of those that were there when it began what is not still to come.
SoFar(F, f, cursor, got, items) ==
    /\ \A i, j \in DOMAIN got : got[i] = got[j] => i = j
    /\ \A i \in DOMAIN got : \E key \in F : key <= cursor /\ got[i] = f[key]
    /\ \A x \in items : \/ \E i \in DOMAIN got : got[i] = x
                        \/ \E key \in F : key > cursor /\ f[key] = x

\* Two sequences, one after the other.
Joined(w, s, u) ==
    /\ \A i \in DOMAIN s : i \in DOMAIN w /\ w[i] = s[i]
    /\ \A i \in DOMAIN u : Len(s) + i \in DOMAIN w /\ w[Len(s) + i] = u[i]
    /\ \A i \in DOMAIN w : i \in DOMAIN s \/ \E j \in DOMAIN u : i = Len(s) + j

\* What a concatenation has at which place.
LEMMA Together ==
    ASSUME NEW T, NEW s \in Seq(T), NEW u \in Seq(T), NEW w, w = s \o u
    PROVE  w \in Seq(T) /\ Joined(w, s, u)
<1>1. Len(s) \in Nat /\ Len(u) \in Nat /\ DOMAIN s = 1..Len(s) /\ DOMAIN u = 1..Len(u)
  OBVIOUS
<1>2. w \in Seq(T) /\ Len(w) = Len(s) + Len(u) /\ DOMAIN w = 1..Len(s) + Len(u)
  OBVIOUS
<1>3. \A i \in 1..Len(s) + Len(u) : w[i] = IF i <= Len(s) THEN s[i] ELSE u[i - Len(s)]
  OBVIOUS
<1>4. ASSUME NEW i \in 1..Len(u)
      PROVE  Len(s) + i \in 1..Len(s) + Len(u) /\ ~(Len(s) + i <= Len(s)) /\ Len(s) + i - Len(s) = i
  BY <1>1
<1>5. ASSUME NEW i \in 1..Len(s) + Len(u), ~(i <= Len(s))
      PROVE  i - Len(s) \in 1..Len(u) /\ i = Len(s) + (i - Len(s))
  BY <1>1, <1>5
<1>6. \A i \in DOMAIN w : i \in DOMAIN s \/ \E j \in DOMAIN u : i = Len(s) + j
  <2>1. ASSUME NEW i \in 1..Len(s) + Len(u) PROVE i \in 1..Len(s) \/ \E j \in 1..Len(u) : i = Len(s) + j
    <3>1. CASE i <= Len(s)
      BY <1>1, <3>1
    <3>2. CASE ~(i <= Len(s))
      BY <1>5, <3>2
    <3>3. QED
      BY <3>1, <3>2
  <2>2. QED
    BY <1>1, <1>2, <2>1
<1>7. \A i \in DOMAIN s : i \in DOMAIN w /\ w[i] = s[i]
  BY <1>1, <1>2, <1>3
<1>8. QED
  BY <1>1, <1>2, <1>3, <1>4, <1>6, <1>7 DEF Joined

\* With more to come, or at the end.
ReadOn(F, f, next, all, items) ==
    /\ next # None => SoFar(F, f, next, all, items)
    /\ next = None => IsInjective(all) /\ items \subseteq ToSet(all)

\* What a client that read so far has when it appends the items of the next page.
Appends(F, T, f, cursor, got, p, next, items, more, all) ==
    /\ F \in SUBSET Nat /\ f \in [F -> T] /\ \A a, b \in F : f[a] = f[b] => a = b
    /\ cursor \in Nat /\ got \in Seq(T) /\ SoFar(F, f, cursor, got, items)
    /\ IsPage(F, cursor, p, next)
    /\ more \in Seq(T) /\ DOMAIN more = DOMAIN p /\ \A i \in DOMAIN more : more[i] = f[p[i]]
    /\ all = got \o more

\* It has read up to the page's cursor, or all.
LEMMA NextPage ==
    ASSUME NEW F, NEW T, NEW f, NEW cursor, NEW got, NEW p, NEW next, NEW items, NEW more, NEW all,
           Appends(F, T, f, cursor, got, p, next, items, more, all)
    PROVE  ReadOn(F, f, next, all, items)
<1>0. /\ F \in SUBSET Nat /\ f \in [F -> T] /\ \A a, b \in F : f[a] = f[b] => a = b
      /\ cursor \in Nat /\ got \in Seq(T) /\ SoFar(F, f, cursor, got, items)
      /\ IsPage(F, cursor, p, next)
  BY DEF Appends
<1>1. /\ p \in Seq(F) /\ DOMAIN p = 1..Len(p) /\ Len(p) \in Nat
      /\ \A i \in DOMAIN p : p[i] \in F /\ p[i] \in Nat /\ p[i] > cursor
      /\ \A i, j \in DOMAIN p : p[i] = p[j] => i = j
  <2>1. /\ p \in Seq(F) /\ \A i \in DOMAIN p : p[i] > cursor
        /\ \A i, j \in DOMAIN p : p[i] = p[j] => i = j
    BY <1>0 DEF IsPage
  <2>2. DOMAIN p = 1..Len(p) /\ Len(p) \in Nat /\ \A i \in DOMAIN p : p[i] \in F
    BY <2>1
  <2>3. QED
    BY <1>0, <2>1, <2>2
<1>2. /\ \A i, j \in DOMAIN got : got[i] = got[j] => i = j
      /\ \A i \in DOMAIN got : \E key \in F : key <= cursor /\ got[i] = f[key]
      /\ \A x \in items : \/ \E i \in DOMAIN got : got[i] = x
                          \/ \E key \in F : key > cursor /\ f[key] = x
  BY <1>0 DEF SoFar
<1>3. DOMAIN more = DOMAIN p /\ \A i \in DOMAIN more : more[i] = f[p[i]]
  BY DEF Appends
<1>4. more \in Seq(T) /\ all = got \o more
  BY DEF Appends
<1>5. /\ all \in Seq(T)
      /\ \A i \in DOMAIN got : i \in DOMAIN all /\ all[i] = got[i]
      /\ \A i \in DOMAIN more : Len(got) + i \in DOMAIN all /\ all[Len(got) + i] = more[i]
      /\ \A i \in DOMAIN all : i \in DOMAIN got \/ \E j \in DOMAIN more : i = Len(got) + j
  <2>1. all \in Seq(T) /\ Joined(all, got, more)
    BY <1>0, <1>4, Together
  <2>2. QED
    BY <2>1 DEF Joined
<1>6. ASSUME NEW i \in DOMAIN got, NEW j \in DOMAIN more PROVE got[i] # more[j]
  <2>1. PICK key \in F : key <= cursor /\ got[i] = f[key]
    BY <1>2
  <2>2. more[j] = f[p[j]] /\ p[j] \in F /\ p[j] > cursor /\ p[j] \in Nat /\ key \in Nat
    BY <1>0, <1>1, <1>3
  <2>3. key # p[j]
    BY <1>0, <2>1, <2>2
  <2>4. QED
    BY <1>0, <2>1, <2>2, <2>3
<1>7. \A i, j \in DOMAIN more : more[i] = more[j] => i = j
  BY <1>0, <1>1, <1>3
<1>8. ASSUME NEW i \in DOMAIN all, NEW j \in DOMAIN all, all[i] = all[j] PROVE i = j
  <2>1. CASE i \in DOMAIN got /\ j \in DOMAIN got
    BY <1>2, <1>5, <1>8, <2>1
  <2>2. ASSUME i \in DOMAIN got, NEW m \in DOMAIN more, j = Len(got) + m PROVE FALSE
    <3>1. all[i] = got[i] /\ all[j] = more[m]
      BY <1>5, <2>2
    <3>2. QED
      BY <1>6, <1>8, <2>2, <3>1
  <2>3. ASSUME j \in DOMAIN got, NEW m \in DOMAIN more, i = Len(got) + m PROVE FALSE
    <3>1. all[j] = got[j] /\ all[i] = more[m]
      BY <1>5, <2>3
    <3>2. QED
      BY <1>6, <1>8, <2>3, <3>1
  <2>4. ASSUME NEW m \in DOMAIN more, i = Len(got) + m, NEW k \in DOMAIN more, j = Len(got) + k
        PROVE  i = j
    BY <1>5, <1>7, <1>8, <2>4
  <2>5. QED
    BY <1>5, <2>1, <2>2, <2>3, <2>4
<1>9. CASE next # None
  <2>1. /\ next \in F /\ next > cursor /\ next \in Nat
        /\ \E i \in DOMAIN p : p[i] = next
        /\ \A i \in DOMAIN p : p[i] <= next
        /\ \A key \in F : key > cursor /\ key <= next => \E i \in DOMAIN p : p[i] = key
    BY <1>0, <1>9 DEF IsPage
  <2>3. ASSUME NEW i \in DOMAIN all PROVE \E key \in F : key <= next /\ all[i] = f[key]
    <3>1. CASE i \in DOMAIN got
      <4>1. PICK key \in F : key <= cursor /\ got[i] = f[key]
        BY <1>2, <3>1
      <4>2. key \in Nat /\ key <= next
        BY <1>0, <2>1, <4>1
      <4>3. QED
        BY <1>5, <3>1, <4>1, <4>2
    <3>2. ASSUME NEW j \in DOMAIN more, i = Len(got) + j
          PROVE  \E key \in F : key <= next /\ all[i] = f[key]
      <4>1. all[i] = f[p[j]] /\ j \in DOMAIN p
        BY <1>3, <1>5, <3>2
      <4>2. p[j] \in F /\ p[j] <= next
        BY <1>1, <2>1, <4>1
      <4>3. QED
        BY <4>1, <4>2
    <3>3. QED
      BY <1>5, <3>1, <3>2
  <2>4. ASSUME NEW x \in items
        PROVE  \/ \E i \in DOMAIN all : all[i] = x
               \/ \E key \in F : key > next /\ f[key] = x
    <3>1. CASE \E i \in DOMAIN got : got[i] = x
      BY <1>5, <3>1
    <3>2. ASSUME NEW key \in F, key > cursor, f[key] = x
          PROVE  \/ \E i \in DOMAIN all : all[i] = x
                 \/ \E k \in F : k > next /\ f[k] = x
      <4>1. key \in Nat
        BY <1>0
      <4>2. CASE key > next
        BY <3>2, <4>2
      <4>3. CASE key <= next
        <5>1. PICK i \in DOMAIN p : p[i] = key
          BY <2>1, <3>2, <4>3
        <5>2. more[i] = x /\ i \in DOMAIN more
          BY <1>3, <3>2, <5>1
        <5>3. QED
          BY <1>5, <5>2
      <4>4. key > next \/ key <= next
        BY <2>1, <4>1
      <4>5. QED
        BY <4>2, <4>3, <4>4
    <3>3. QED
      BY <1>2, <3>1, <3>2
  <2>5. SoFar(F, f, next, all, items)
    BY <1>8, <2>3, <2>4 DEF SoFar
  <2>6. QED
    BY <1>9, <2>5 DEF ReadOn
<1>10. CASE next = None
  <2>1. \A key \in F : key > cursor => \E i \in DOMAIN p : p[i] = key
    BY <1>0, <1>10 DEF IsPage
  <2>2. IsInjective(all)
    BY <1>8 DEF IsInjective
  <2>3. ASSUME NEW x \in items PROVE \E i \in DOMAIN all : all[i] = x
    <3>1. CASE \E i \in DOMAIN got : got[i] = x
      BY <1>5, <3>1
    <3>2. ASSUME NEW key \in F, key > cursor, f[key] = x PROVE \E i \in DOMAIN all : all[i] = x
      <4>1. PICK i \in DOMAIN p : p[i] = key
        BY <2>1, <3>2
      <4>2. more[i] = x /\ i \in DOMAIN more
        BY <1>3, <3>2, <4>1
      <4>3. QED
        BY <1>5, <4>2
    <3>3. QED
      BY <1>2, <3>1, <3>2
  <2>4. items \subseteq ToSet(all)
    BY <2>3 DEF ToSet
  <2>5. QED
    BY <1>10, <2>2, <2>4 DEF ReadOn
<1>11. QED
  BY <1>9, <1>10

\* Keys that are added later, and items that stay, leave what was read as it is.
LEMMA MoreKeys ==
    ASSUME NEW F, NEW f, NEW cursor, NEW got, NEW items, SoFar(F, f, cursor, got, items),
           NEW G, NEW g, F \subseteq G, \A key \in F : g[key] = f[key]
    PROVE  SoFar(G, g, cursor, got, items)
  BY DEF SoFar

-----------------------------------------------------------------------------
(* The inductive invariant.                                                *)

\* What a query finds, by key.
ItemsOf(ask) == [key \in Found(ask) |-> Item(ask, key)]
AllItems == Nat \cup (Nat \X Nat) \cup [test : Tests, line : Lines]

\* The runs that have a test's events.
With(t) == {k \in rows : \E i \in DOMAIN Events(k) : Events(k)[i].test = t}

\* What a client began to read will not be read again: the run was pruned, another run has
\* a newer trace, the coverage was replaced.  Unlike "disturbed" in ReadIsWhole, which the
\* start of a run that was asked for too early ends, this is for good.
Gone(ask, base) ==
    \/ ask.query = "run" /\ stage[ask.of] # "none" /\ ask.of \notin rows
    \/ /\ ask.query = "trace" /\ base.run \in Runs
       /\ \/ stage[base.run] # "none" /\ base.run \notin rows
          \/ \E k \in With(ask.of) : k > base.run
    \/ ask.query = "coverage" /\ \E k \in Runs : ~(learned[k] \subseteq base.learned[k])

\* The next page is of the same rows as the one before.
Steady(ask, base) ==
    /\ ask.query = "run" => ask.of \in rows
    /\ ask.query = "trace" => base.run \in Runs /\ RunRead(ask) = base.run
    /\ ask.query = "coverage" => learned = base.learned

ReaderInv(R) ==
    /\ DOMAIN R = DOMAIN NoReader
    /\ R.phase \in {"idle", "reading", "done", "stuck"}
    /\ R.phase # "idle" => R.ask \in Asks
    /\ R.phase = "reading" =>
        /\ R.limit \in Nat \ {0} /\ R.cursor \in Nat /\ R.got \in Seq(AllItems)
        /\ R.got = <<>> => R.cursor = 0
        /\ R.got # <<>> =>
            \/ Gone(R.ask, R.base)
            \/ /\ Steady(R.ask, R.base)
               /\ SoFar(Found(R.ask), ItemsOf(R.ask), R.cursor, R.got, R.base.items)
    /\ R.phase = "done" =>
        Gone(R.ask, R.base) \/ (IsInjective(R.got) /\ R.base.items \subseteq ToSet(R.got))

\* Runs begin one after the other, with a log that stays; no two rows of coverage are alike.
StoreInv ==
    /\ StoreTypeOK
    /\ stored \in [Runs -> Nat] /\ learned \in [Runs -> SUBSET Tests]
    /\ \A k \in Runs : stage[k] = "none" => k \notin rows /\ log[k] = <<>>
    /\ \A j, k \in Runs : j < k /\ stage[k] # "none" => stage[j] # "none"
    /\ IsFiniteSet(DOMAIN tests) /\ IsFiniteSet(DOMAIN coverage)
    /\ \A a, b \in DOMAIN coverage : coverage[a] = coverage[b] => a = b

Failures == [run : Runs, test : Tests]
Listed == [id : Tests, status : StatusNames \cup {None}, failure : Failures \cup {None}]

\* The cursor is on a row of the list, if it has any.
ListInv ==
    /\ list \in Seq(Listed)
    /\ index \in Nat /\ index <= Len(list) /\ (index = 0 <=> list = <<>>)
AppInv ==
    /\ ListInv
    /\ screen \in {"closed", "tests", "trace", "quit"}
    /\ detail \in Tests \cup {None}
    /\ operation \in {"none", "running", "listing", "sent", "failed"}
    /\ operation = "sent" => sent[1] \in Seq(Listed)
    /\ operation = "sent" <=> sent # <<>>
    /\ keys \in 0..MaxKeys

IInv ==
    /\ StoreInv
    /\ DOMAIN reader = Readers /\ \A c \in Readers : \A R \in {reader[c]} : ReaderInv(R)
    /\ AppInv

-----------------------------------------------------------------------------
(* Runs write.                                                             *)

\* Lines of a log, and runs, are what they are said to be.
LEMMA LineTypes ==
    ASSUME NEW x \in LogLines
    PROVE  /\ x.test \in Tests
           /\ x.kind = "FINISH" => x.what \in StatusNames
           /\ x.kind = "LINE" => x.what \in Lines
  BY DEF LogLines

\* What a log says of its tests: ids, statuses and finitely many lines.
LEMMA LogFacts ==
    ASSUME NEW lines \in Logs \cup {<<>>}
    PROVE  /\ lines \in Seq(LogLines) /\ DOMAIN lines = 1..Len(lines) /\ Len(lines) \in Nat
           /\ \A i \in DOMAIN lines : lines[i] \in LogLines
           /\ Started(lines) \in SUBSET Tests
           /\ \A t : Outcome(lines, t) \in StatusNames \cup {None}
           /\ \A t : Covered(lines, t) \in SUBSET Lines /\ IsFiniteSet(Covered(lines, t))
<1>1. lines \in Seq(LogLines)
  <2>1. CASE lines \in Logs
    BY <2>1, QueriesAssumption
  <2>2. CASE lines = <<>>
    BY <2>2
  <2>3. QED
    BY <2>1, <2>2
<1>2. /\ DOMAIN lines = 1..Len(lines) /\ Len(lines) \in Nat
      /\ \A i \in DOMAIN lines : lines[i] \in LogLines
  BY <1>1
<1>3. Started(lines) \in SUBSET Tests
  BY <1>2, LineTypes DEF Started
<1>4. IsFiniteSet(DOMAIN lines)
  BY <1>2, FS_Interval
<1>5. ASSUME NEW t PROVE Outcome(lines, t) \in StatusNames \cup {None}
  <2> DEFINE ends == {i \in DOMAIN lines : lines[i].kind = "FINISH" /\ lines[i].test = t}
  <2>1. Outcome(lines, t) = IF ends = {} THEN None ELSE lines[Max(ends)].what
    BY DEF Outcome
  <2>2. ends \in SUBSET Nat /\ ends \in SUBSET DOMAIN lines
    BY <1>2
  <2>3. \A i \in ends : lines[i].kind = "FINISH"
    OBVIOUS
  <2> HIDE DEF ends
  <2>4. IsFiniteSet(ends)
    BY <1>4, <2>2, FS_Subset
  <2>5. CASE ends # {}
    <3>1. Max(ends) \in ends
      BY <2>2, <2>4, <2>5, Greatest DEF IsGreatest
    <3>2. QED
      BY <1>2, <2>1, <2>2, <2>3, <2>5, <3>1, LineTypes
  <2>6. QED
    BY <2>1, <2>5
<1>6. ASSUME NEW t PROVE Covered(lines, t) \in SUBSET Lines /\ IsFiniteSet(Covered(lines, t))
  <2> DEFINE J == {j \in DOMAIN lines : lines[j].kind = "LINE" /\ lines[j].test = t}
             f == [i \in J |-> lines[i].what]
             C == Covered(lines, t)
  <2>1. C \in SUBSET Lines
    BY <1>2, LineTypes DEF Covered
  <2>2. IsFiniteSet(J)
    BY <1>4, FS_Subset
  <2>3. f \in Surjection(J, C)
    BY DEF Covered, Surjection
  <2> HIDE DEF J, f, C
  <2>4. IsFiniteSet(C)
    BY <2>2, <2>3, FS_Surjection
  <2>5. QED
    BY <2>1, <2>4 DEF C
<1>7. QED
  BY <1>1, <1>2, <1>3, <1>5, <1>6

\* What a step of a run leaves alone: what has begun stays begun with its log, runs are
\* pruned oldest first and none comes back, what is learned is not forgotten, and who
\* replaces coverage learns something.
Moves ==
    /\ \A k \in Runs : stage[k] # "none" => stage'[k] # "none" /\ log'[k] = log[k]
    /\ \A k \in Runs : stored[k] <= stored'[k]
    /\ \A k \in Runs : k \in rows' => k \in rows \/ stage[k] = "none"
    /\ \A j, k \in Runs : j < k /\ k \in rows /\ k \notin rows' => j \notin rows'
    /\ DOMAIN tests \subseteq DOMAIN tests'
    /\ \/ coverage' = coverage /\ learned' = learned
       \/ \E k \in Runs : ~(learned'[k] \subseteq learned[k])
    /\ \A k \in Runs : learned[k] \subseteq learned'[k]

\* The parts of StoreInv: the runs, and the tables they fill.
RunsInv ==
    /\ stage \in [Runs -> {"none", "ingest", "ended"}]
    /\ log \in [Runs -> Logs \cup {<<>>}]
    /\ stored \in [Runs -> Nat] /\ learned \in [Runs -> SUBSET Tests]
    /\ \A k \in Runs : stored[k] \in 0..Len(log[k]) /\ learned[k] \subseteq Started(log[k])
    /\ rows \subseteq Runs
    /\ \A k \in Runs : stage[k] = "none" => k \notin rows /\ log[k] = <<>>
    /\ \A j, k \in Runs : j < k /\ stage[k] # "none" => stage[j] # "none"
TestsInv ==
    /\ DOMAIN tests \subseteq Tests /\ \A t \in DOMAIN tests : tests[t] \in StatusNames \cup {None}
    /\ IsFiniteSet(DOMAIN tests)
CoverageInv ==
    /\ \A id \in DOMAIN coverage : id \in Nat \ {0} /\ coverage[id] \in [test : Tests, line : Lines]
    /\ IsFiniteSet(DOMAIN coverage)
    /\ \A a, b \in DOMAIN coverage : coverage[a] = coverage[b] => a = b

\* StoreInv is these, and the type of failures.
LEMMA StoreParts ==
    StoreInv <=> RunsInv /\ TestsInv /\ CoverageInv /\ failures \in Seq(Failures)
  BY DEF StoreInv, StoreTypeOK, RunsInv, TestsInv, CoverageInv, Failures

\* begin_run
LEMMA BeginStep ==
    ASSUME StoreInv, NEW k \in Runs, Begin(k) PROVE StoreInv' /\ Moves
<1>1. /\ RunsInv /\ TestsInv /\ CoverageInv /\ failures \in Seq(Failures)
      /\ UNCHANGED <<stored, learned, tests, failures, coverage>>
  BY StoreParts DEF Begin
<1>2. PICK lines \in Logs : log' = [log EXCEPT ![k] = lines]
  BY DEF Begin
<1>3. /\ stage[k] = "none" /\ log[k] = <<>> /\ k \notin rows /\ stored[k] = 0 /\ learned[k] = {}
      /\ \A j \in 1..k - 1 : stage[j] # "none"
      /\ stage' = [stage EXCEPT ![k] = "ingest"] /\ rows' = rows \cup {k}
  <2>1. stage[k] = "none" /\ log[k] = <<>> /\ k \notin rows
    BY <1>1 DEF Begin, RunsInv
  <2>2. Started(<<>>) = {} /\ Len(<<>>) = 0
    BY DEF Started
  <2>3. stored[k] \in 0..0 /\ learned[k] \subseteq {}
    BY <1>1, <2>1, <2>2 DEF RunsInv
  <2>4. QED
    BY <2>1, <2>3 DEF Begin
<1>4. /\ stage'[k] = "ingest" /\ log'[k] = lines
      /\ \A j \in Runs \ {k} : stage'[j] = stage[j] /\ log'[j] = log[j]
  BY <1>1, <1>2, <1>3 DEF RunsInv
<1>5. Len(lines) \in Nat
  BY LogFacts
<1>6. RunsInv'
  <2>1. /\ stage' \in [Runs -> {"none", "ingest", "ended"}]
        /\ log' \in [Runs -> Logs \cup {<<>>}]
        /\ stored' \in [Runs -> Nat] /\ learned' \in [Runs -> SUBSET Tests] /\ rows' \subseteq Runs
    BY <1>1, <1>2, <1>3 DEF RunsInv
  <2>2. \A j \in Runs : stored'[j] \in 0..Len(log'[j]) /\ learned'[j] \subseteq Started(log'[j])
    BY <1>1, <1>3, <1>4, <1>5 DEF RunsInv
  <2>3. \A j \in Runs : stage'[j] = "none" => j \notin rows' /\ log'[j] = <<>>
    BY <1>1, <1>3, <1>4 DEF RunsInv
  <2>4. ASSUME NEW i \in Runs, NEW j \in Runs, i < j, stage'[j] # "none" PROVE stage'[i] # "none"
    <3>1. i \in Nat /\ j \in Nat /\ k \in Nat /\ 1 <= i
      BY QueriesAssumption DEF Runs
    <3>2. CASE j = k
      <4>1. i \in 1..k - 1
        BY <2>4, <3>1, <3>2
      <4>2. QED
        BY <1>3, <1>4, <4>1
    <3>3. CASE j # k
      BY <1>1, <1>4, <2>4, <3>3 DEF RunsInv
    <3>4. QED
      BY <3>2, <3>3
  <2>5. QED
    BY <2>1, <2>2, <2>3, <2>4 DEF RunsInv
<1>7. Moves
  <2>1. \A j \in Runs : stored[j] \in Nat
    BY <1>1 DEF RunsInv
  <2>2. QED
    BY <1>1, <1>3, <1>4, <2>1 DEF Moves
<1>8. TestsInv' /\ CoverageInv' /\ failures' \in Seq(Failures)
  BY <1>1 DEF TestsInv, CoverageInv
<1>9. QED
  BY <1>6, <1>7, <1>8 DEF StoreInv, StoreTypeOK, RunsInv, TestsInv, CoverageInv, Failures

\* One line of ingest_events.
LEMMA IngestStep ==
    ASSUME StoreInv, NEW k \in Runs, Ingest(k) PROVE StoreInv' /\ Moves
<1>1. /\ RunsInv /\ TestsInv /\ CoverageInv /\ failures \in Seq(Failures)
      /\ UNCHANGED <<stage, log, learned, rows, tests, coverage>>
      /\ stored[k] < Len(log[k]) /\ stored' = [stored EXCEPT ![k] = @ + 1]
  BY StoreParts DEF Ingest
<1>2. \A j \in Runs : log[j] \in Logs \cup {<<>>} /\ stored[j] \in Nat
  BY <1>1 DEF RunsInv
<1>3. stored'[k] = stored[k] + 1 /\ \A j \in Runs \ {k} : stored'[j] = stored[j]
  BY <1>1 DEF RunsInv
<1> DEFINE line == log[k][stored[k] + 1]
<1>4. line \in LogLines
  <2>1. /\ DOMAIN log[k] = 1..Len(log[k]) /\ Len(log[k]) \in Nat
        /\ \A i \in DOMAIN log[k] : log[k][i] \in LogLines
    BY <1>2, LogFacts
  <2>2. stored[k] + 1 \in 1..Len(log[k])
    BY <1>1, <1>2, <2>1
  <2>3. QED
    BY <2>1, <2>2
<1>5. failures' \in Seq(Failures)
  <2>1. line.test \in Tests
    BY <1>4, LineTypes
  <2>2. [run |-> k, test |-> line.test] \in Failures
    BY <2>1 DEF Failures
  <2>3. failures' = failures \/ failures' = Append(failures, [run |-> k, test |-> line.test])
    BY DEF Ingest
  <2>4. QED
    BY <1>1, <2>2, <2>3
<1>6. RunsInv'
  <2>1. \A j \in Runs : stored'[j] \in 0..Len(log'[j])
    <3>1. \A j \in Runs : Len(log[j]) \in Nat
      BY <1>2, LogFacts
    <3>2. QED
      BY <1>1, <1>2, <1>3, <3>1 DEF RunsInv
  <2>2. stored' \in [Runs -> Nat]
    BY <1>1, <1>2 DEF RunsInv
  <2>3. QED
    BY <1>1, <2>1, <2>2 DEF RunsInv
<1>7. Moves
  BY <1>1, <1>2, <1>3 DEF Moves
<1>8. TestsInv' /\ CoverageInv'
  BY <1>1 DEF TestsInv, CoverageInv
<1>9. QED
  BY <1>5, <1>6, <1>7, <1>8 DEF StoreInv, StoreTypeOK, RunsInv, TestsInv, CoverageInv, Failures

\* replace_coverage keeps rowids and rows apart.
LEMMA RecoveredRows ==
    ASSUME CoverageInv, NEW t \in Tests, NEW lines \in SUBSET Lines, IsFiniteSet(lines),
           NEW after, after = Recovered(t, lines)
    PROVE  /\ \A id \in DOMAIN after : id \in Nat \ {0} /\ after[id] \in [test : Tests, line : Lines]
           /\ IsFiniteSet(DOMAIN after)
           /\ \A a, b \in DOMAIN after : after[a] = after[b] => a = b
<1> DEFINE kept == {id \in DOMAIN coverage : coverage[id].test # t}
           last == Max(kept \cup {0})
           new == Ascending(lines)
           added == last + 1 .. last + Len(new)
<1>1. /\ kept \in SUBSET Nat /\ IsFiniteSet(kept)
      /\ \A id \in kept : id \in DOMAIN coverage /\ id \in Nat \ {0} /\ coverage[id].test # t
  <2>1. kept \in SUBSET DOMAIN coverage
    OBVIOUS
  <2>2. QED
    BY <2>1, FS_Subset DEF CoverageInv
<1>2. Ascends(new, lines)
  <2>1. lines \in SUBSET Nat
    BY QueriesAssumption
  <2>2. QED
    BY <2>1, AscendingFacts
<1>3. after = [id \in kept \cup added |->
                  IF id \in kept THEN coverage[id] ELSE [test |-> t, line |-> new[id - last]]]
  BY DEF Recovered
<1>4. last \in Nat /\ \A m \in kept : m <= last
  <2>1. kept \cup {0} = {0} \cup kept
    OBVIOUS
  <2>2. last = Max({0} \cup kept)
    BY <2>1
  <2> HIDE DEF kept, last
  <2>3. QED
    BY <1>1, <2>2, GreatestOrZero
<1>5. /\ Len(new) \in Nat /\ \A j \in 1..Len(new) : new[j] \in lines
      /\ \A j, k \in 1..Len(new) : j < k => new[j] < new[k]
  BY <1>2 DEF Ascends
<1> HIDE DEF kept, last, new
<1>6. /\ IsFiniteSet(added) /\ \A id \in added : id \in Nat \ {0} /\ id - last \in 1..Len(new)
      /\ \A id \in added : id \notin kept
  <2>1. IsFiniteSet(added)
    BY <1>4, <1>5, FS_Interval
  <2>2. ASSUME NEW id \in added PROVE id \in Nat \ {0} /\ id - last \in 1..Len(new) /\ id > last
    BY <1>4, <1>5
  <2>3. QED
    BY <1>4, <2>1, <2>2
<1>7. /\ DOMAIN after = kept \cup added
      /\ \A id \in kept : after[id] = coverage[id]
      /\ \A id \in added : after[id] = [test |-> t, line |-> new[id - last]]
  BY <1>3, <1>6
<1>8. ASSUME NEW a \in added, NEW b \in added, new[a - last] = new[b - last] PROVE a = b
  <2>1. /\ a \in Nat /\ b \in Nat /\ a - last \in 1..Len(new) /\ b - last \in 1..Len(new)
        /\ new[a - last] \in Nat /\ new[b - last] \in Nat
    BY <1>5, <1>6, QueriesAssumption
  <2>2. ~(a - last < b - last) /\ ~(b - last < a - last)
    <3> DEFINE x == a - last
               y == b - last
    <3>1. x \in 1..Len(new) /\ y \in 1..Len(new) /\ new[x] = new[y] /\ new[x] \in Nat /\ new[y] \in Nat
      BY <1>8, <2>1
    <3> HIDE DEF x, y
    <3>2. (x < y => new[x] < new[y]) /\ (y < x => new[y] < new[x])
      BY <1>5, <3>1
    <3>3. ~(x < y) /\ ~(y < x)
      BY <3>1, <3>2
    <3>4. QED
      BY <3>3 DEF x, y
  <2>3. QED
    BY <1>4, <2>1, <2>2
<1>9. \A id \in added : new[id - last] \in Lines
  BY <1>5, <1>6
<1> HIDE DEF added
<1>10. ASSUME NEW id \in DOMAIN after
       PROVE  id \in Nat \ {0} /\ after[id] \in [test : Tests, line : Lines]
  <2>1. CASE id \in kept
    BY <1>1, <1>7, <2>1 DEF CoverageInv
  <2>2. CASE id \in added
    BY <1>6, <1>7, <1>9, <2>2
  <2>3. QED
    BY <1>7, <2>1, <2>2
<1>11. IsFiniteSet(DOMAIN after)
  <2>1. IsFiniteSet(kept) /\ IsFiniteSet(added)
    BY <1>1, <1>6
  <2>2. IsFiniteSet(kept \cup added)
    BY <2>1, FS_Union
  <2>3. QED
    BY <1>7, <2>2
<1>12. ASSUME NEW a \in DOMAIN after, NEW b \in DOMAIN after, after[a] = after[b] PROVE a = b
  <2>1. CASE a \in kept /\ b \in kept
    BY <1>1, <1>7, <1>12, <2>1 DEF CoverageInv
  <2>2. CASE a \in added /\ b \in added
    <3>1. after[a].line = new[a - last] /\ after[b].line = new[b - last]
      BY <1>7, <2>2
    <3>2. QED
      BY <1>8, <1>12, <2>2, <3>1
  <2>3. \A m \in kept, n \in added : after[m].test # t /\ after[n].test = t
    BY <1>1, <1>7
  <2>4. QED
    BY <1>7, <1>12, <2>1, <2>2, <2>3
<1>13. QED
  BY <1>10, <1>11, <1>12

\* upsert_test and replace_coverage
LEMMA LearnStep ==
    ASSUME StoreInv, NEW k \in Runs, Learn(k) PROVE StoreInv' /\ Moves
<1> DEFINE S == Started(log[k]) \ learned[k]
           t == Min(S)
<1>1. /\ RunsInv /\ TestsInv /\ CoverageInv /\ failures \in Seq(Failures)
      /\ UNCHANGED <<stage, log, stored, rows, failures>>
      /\ learned[k] # Started(log[k])
      /\ tests' = [u \in DOMAIN tests \cup {t} |-> IF u = t THEN Outcome(log[k], t) ELSE tests[u]]
      /\ coverage' = Recovered(t, Covered(log[k], t))
      /\ learned' = [learned EXCEPT ![k] = @ \cup {t}]
  BY StoreParts DEF Learn
<1>2. /\ Started(log[k]) \in SUBSET Tests
      /\ \A u : Outcome(log[k], u) \in StatusNames \cup {None}
      /\ \A u : Covered(log[k], u) \in SUBSET Lines /\ IsFiniteSet(Covered(log[k], u))
  <2>1. log[k] \in Logs \cup {<<>>}
    BY <1>1 DEF RunsInv
  <2>2. QED
    BY <2>1, LogFacts
<1>3. t \in Started(log[k]) /\ t \notin learned[k] /\ t \in Tests
  <2>1. S # {}
    BY <1>1 DEF RunsInv
  <2>2. S \in SUBSET Nat
    BY <1>2, QueriesAssumption
  <2>3. Min(S) \in S
    BY <2>1, <2>2, MinIsIn
  <2>4. QED
    BY <1>2, <2>3
<1> HIDE DEF t, S
<1>4. TestsInv'
  <2>1. DOMAIN tests' = DOMAIN tests \cup {t}
    BY <1>1
  <2>2. IsFiniteSet(DOMAIN tests')
    BY <1>1, <2>1, FS_AddElement DEF TestsInv
  <2>3. \A u \in DOMAIN tests' : tests'[u] \in StatusNames \cup {None}
    BY <1>1, <1>2 DEF TestsInv
  <2>4. QED
    BY <1>1, <1>3, <2>1, <2>2, <2>3 DEF TestsInv
<1>5. CoverageInv'
  BY <1>1, <1>2, <1>3, RecoveredRows DEF CoverageInv
<1>6. learned'[k] = learned[k] \cup {t} /\ \A j \in Runs \ {k} : learned'[j] = learned[j]
  BY <1>1 DEF RunsInv
<1>7. RunsInv'
  <2>1. learned' \in [Runs -> SUBSET Tests]
    BY <1>1, <1>3 DEF RunsInv
  <2>2. \A j \in Runs : learned'[j] \subseteq Started(log'[j])
    BY <1>1, <1>3, <1>6 DEF RunsInv
  <2>3. QED
    BY <1>1, <2>1, <2>2 DEF RunsInv
<1>8. Moves
  <2>1. \A j \in Runs : stored[j] \in Nat
    BY <1>1 DEF RunsInv
  <2>2. ~(learned'[k] \subseteq learned[k]) /\ \A j \in Runs : learned[j] \subseteq learned'[j]
    BY <1>3, <1>6
  <2>3. DOMAIN tests \subseteq DOMAIN tests'
    BY <1>1
  <2>4. QED
    BY <1>1, <2>1, <2>2, <2>3 DEF Moves
<1>9. QED
  BY <1>1, <1>4, <1>5, <1>7, <1>8
  DEF StoreInv, StoreTypeOK, RunsInv, TestsInv, CoverageInv, Failures

\* finish_run and prune
LEMMA EndStep ==
    ASSUME StoreInv, NEW k \in Runs, End(k) PROVE StoreInv' /\ Moves
<1>1. /\ RunsInv /\ TestsInv /\ CoverageInv /\ failures \in Seq(Failures)
      /\ UNCHANGED <<log, stored, learned, tests, failures, coverage>>
      /\ stage[k] = "ingest" /\ stage' = [stage EXCEPT ![k] = "ended"]
  BY StoreParts DEF End
<1>2. PICK oldest \in Nat : \A j \in Runs : j \in rows' <=> j \in rows /\ j > oldest
  <2>1. CASE UNCHANGED rows
    <3>1. \A j \in Runs : j > 0
      BY QueriesAssumption DEF Runs
    <3>2. QED
      BY <2>1, <3>1
  <2>2. CASE \E oldest \in 0..MaxRuns : rows' = {j \in rows : j > oldest}
    BY <2>2, QueriesAssumption
  <2>3. QED
    BY <2>1, <2>2 DEF End
<1>3. rows' \subseteq rows
  BY DEF End
<1>4. stage'[k] = "ended" /\ \A j \in Runs \ {k} : stage'[j] = stage[j]
  BY <1>1 DEF RunsInv
<1>5. RunsInv'
  <2>1. stage' \in [Runs -> {"none", "ingest", "ended"}]
    BY <1>1 DEF RunsInv
  <2>2. \A j \in Runs : stage'[j] = "none" => j \notin rows' /\ log'[j] = <<>>
    BY <1>1, <1>3, <1>4 DEF RunsInv
  <2>3. \A i, j \in Runs : i < j /\ stage'[j] # "none" => stage'[i] # "none"
    BY <1>1, <1>4 DEF RunsInv
  <2>4. QED
    BY <1>1, <1>3, <2>1, <2>2, <2>3 DEF RunsInv
<1>6. Moves
  <2>1. \A j \in Runs : stored[j] \in Nat
    BY <1>1 DEF RunsInv
  <2>2. ASSUME NEW i \in Runs, NEW j \in Runs, i < j, j \in rows, j \notin rows' PROVE i \notin rows'
    <3>1. i \in Nat /\ j \in Nat
      BY QueriesAssumption DEF Runs
    <3>2. ~(j > oldest)
      BY <1>2, <2>2
    <3>3. ~(i > oldest)
      BY <2>2, <3>1, <3>2
    <3>4. QED
      BY <1>2, <3>3
  <2>3. QED
    BY <1>1, <1>3, <1>4, <2>1, <2>2 DEF Moves
<1>7. TestsInv' /\ CoverageInv'
  BY <1>1 DEF TestsInv, CoverageInv
<1>8. QED
  BY <1>1, <1>5, <1>6, <1>7 DEF StoreInv, StoreTypeOK, RunsInv, TestsInv, CoverageInv, Failures

\* update_test_statuses
LEMMA CacheHitStep ==
    ASSUME StoreInv, NEW k \in Runs, CacheHit(k) PROVE StoreInv' /\ Moves
<1>1. /\ RunsInv /\ TestsInv /\ CoverageInv /\ failures \in Seq(Failures)
      /\ UNCHANGED <<stage, log, stored, learned, rows, failures, coverage>>
      /\ tests' = [t \in DOMAIN tests |-> IF t \in Started(log[k]) THEN "passed" ELSE tests[t]]
  BY StoreParts DEF CacheHit
<1>2. DOMAIN tests' = DOMAIN tests
  BY <1>1
<1>3. TestsInv'
  <2>1. \A t \in DOMAIN tests' : tests'[t] \in StatusNames \cup {None}
    BY <1>1 DEF TestsInv, StatusNames
  <2>2. QED
    BY <1>1, <1>2, <2>1 DEF TestsInv
<1>4. Moves
  <2>1. \A j \in Runs : stored[j] \in Nat
    BY <1>1 DEF RunsInv
  <2>2. QED
    BY <1>1, <1>2, <2>1 DEF Moves
<1>5. RunsInv' /\ CoverageInv'
  BY <1>1 DEF RunsInv, CoverageInv
<1>6. QED
  BY <1>1, <1>3, <1>4, <1>5 DEF StoreInv, StoreTypeOK, RunsInv, TestsInv, CoverageInv, Failures

\* Any step of a run.
LEMMA StoreStep ==
    ASSUME StoreInv, StoreNext PROVE StoreInv' /\ Moves
<1>1. PICK k \in Runs : Begin(k) \/ Ingest(k) \/ Learn(k) \/ End(k) \/ CacheHit(k)
  BY DEF StoreNext
<1>2. QED
  BY <1>1, BeginStep, IngestStep, LearnStep, EndStep, CacheHitStep

-----------------------------------------------------------------------------
(* What a query finds.                                                     *)

\* The kinds of questions.
LEMMA AskKinds ==
    ASSUME NEW ask \in AllAsks
    PROVE  /\ ask.mask \in Masks
           /\ ask.query \in {"tests", "run", "trace", "coverage"}
           /\ ask.query = "run" => ask.of \in Runs
           /\ ask.query = "trace" => ask.of \in Tests
  BY DEF AllAsks

\* The events of a run that is still there.
LEMMA EventsOf ==
    ASSUME StoreInv, NEW k
    PROVE  /\ k \in rows => /\ k \in Runs /\ DOMAIN Events(k) = 1..stored[k]
                            /\ \A i \in 1..stored[k] : Events(k)[i] = log[k][i] /\ i \in DOMAIN log[k]
           /\ k \notin rows => Events(k) = <<>> /\ DOMAIN Events(k) = {}
<1>1. RunsInv
  BY StoreParts
<1>2. ASSUME k \in rows
      PROVE  /\ k \in Runs /\ DOMAIN Events(k) = 1..stored[k]
             /\ \A i \in 1..stored[k] : Events(k)[i] = log[k][i] /\ i \in DOMAIN log[k]
  <2>1. k \in Runs /\ log[k] \in Logs \cup {<<>>} /\ stored[k] \in 0..Len(log[k])
    BY <1>1, <1>2 DEF RunsInv
  <2>2. log[k] \in Seq(LogLines) /\ DOMAIN log[k] = 1..Len(log[k]) /\ Len(log[k]) \in Nat
    BY <2>1, LogFacts
  <2>3. Events(k) = SubSeq(log[k], 1, stored[k])
    BY <1>2 DEF Events
  <2> DEFINE l == log[k]
             n == stored[k]
  <2>4. l \in Seq(LogLines) /\ n \in 0..Len(l) /\ Len(l) \in Nat
    BY <2>1, <2>2
  <2> HIDE DEF l, n
  <2>5. DOMAIN SubSeq(l, 1, n) = 1..n /\ \A i \in 1..n : SubSeq(l, 1, n)[i] = l[i] /\ i \in 1..Len(l)
    BY <2>4
  <2>6. QED
    BY <2>1, <2>2, <2>3, <2>5 DEF l, n
<1>3. ASSUME k \notin rows PROVE Events(k) = <<>> /\ DOMAIN Events(k) = {}
  BY <1>3 DEF Events
<1>4. QED
  BY <1>2, <1>3

\* With, without the detour over Events.
HasTest(k, t) == \E i \in 1..stored[k] : log[k][i].test = t

\* The runs that have events of a test are finitely many.
LEMMA WithFacts ==
    ASSUME StoreInv, NEW t
    PROVE  /\ With(t) \in SUBSET rows /\ With(t) \in SUBSET Nat /\ IsFiniteSet(With(t))
           /\ With(t) \in SUBSET Runs /\ 0 \notin With(t)
           /\ \A k \in rows : k \in With(t) <=> HasTest(k, t)
<1>1. With(t) \in SUBSET rows
  BY DEF With
<1>2. rows \in SUBSET Runs
  BY StoreParts DEF RunsInv
<1>3. Runs \in SUBSET Nat /\ IsFiniteSet(Runs) /\ 0 \notin Runs
  BY QueriesAssumption, FS_Interval DEF Runs
<1>4. IsFiniteSet(With(t))
  BY <1>1, <1>2, <1>3, FS_Subset
<1>5. ASSUME NEW k \in rows PROVE k \in With(t) <=> HasTest(k, t)
  <2>1. DOMAIN Events(k) = 1..stored[k] /\ \A i \in 1..stored[k] : Events(k)[i] = log[k][i]
    BY EventsOf
  <2>2. QED
    BY <2>1 DEF With, HasTest
<1>6. QED
  BY <1>1, <1>2, <1>3, <1>4, <1>5

\* Store::trace finds the latest of them.
LEMMA Latest ==
    ASSUME StoreInv, NEW t
    PROVE  /\ LatestRun(t) \in Nat /\ (LatestRun(t) = 0 \/ LatestRun(t) \in With(t))
           /\ \A k \in With(t) : k <= LatestRun(t)
<1>1. LatestRun(t) = Max({0} \cup With(t))
  BY DEF LatestRun, With
<1>2. With(t) \in SUBSET Nat /\ IsFiniteSet(With(t))
  BY WithFacts
<1>3. QED
  BY <1>1, <1>2, GreatestOrZero

\* What a query finds are numbered rows, finitely many; events are those of a stored run,
\* with a line of its log for each.
LEMMA FoundFacts ==
    ASSUME StoreInv, NEW ask \in AllAsks
    PROVE  /\ Found(ask) \in SUBSET Nat /\ 0 \notin Found(ask) /\ IsFiniteSet(Found(ask))
           /\ ask.query \in {"run", "trace"} => \A key \in Found(ask) :
                RunRead(ask) \in rows /\ RunRead(ask) \in Runs /\ key \in DOMAIN log[RunRead(ask)]
<1>1. RunsInv /\ TestsInv /\ CoverageInv
  BY StoreParts
<1> DEFINE n == RunRead(ask)
<1>2. CASE ask.query = "tests"
  <2>1. Found(ask) = DOMAIN tests
    BY <1>2 DEF Found
  <2>2. QED
    BY <1>1, <1>2, <2>1, QueriesAssumption DEF TestsInv
<1>3. CASE ask.query \in {"run", "trace"}
  <2>1. Found(ask) \in SUBSET DOMAIN Events(n)
    BY <1>3 DEF Found, RunRead
  <2> HIDE DEF n
  <2>2. CASE n \in rows
    <3>1. n \in Runs /\ DOMAIN Events(n) = 1..stored[n] /\ \A i \in 1..stored[n] : i \in DOMAIN log[n]
      BY <2>2, EventsOf
    <3>2. stored[n] \in Nat
      BY <1>1, <3>1 DEF RunsInv
    <3>3. IsFiniteSet(1..stored[n])
      BY <3>2, FS_Interval
    <3>4. IsFiniteSet(Found(ask))
      BY <2>1, <3>1, <3>3, FS_Subset
    <3>5. QED
      BY <1>3, <2>1, <2>2, <3>1, <3>2, <3>4 DEF n
  <2>3. CASE n \notin rows
    <3>1. Found(ask) = {}
      BY <2>1, <2>3, EventsOf
    <3>2. QED
      BY <3>1, FS_EmptySet
  <2>4. QED
    BY <2>2, <2>3
<1>4. CASE ask.query = "coverage"
  <2>1. Found(ask) \in SUBSET DOMAIN coverage
    BY <1>4 DEF Found
  <2>2. IsFiniteSet(Found(ask))
    BY <1>1, <2>1, FS_Subset DEF CoverageInv
  <2>3. Found(ask) \in SUBSET Nat /\ 0 \notin Found(ask)
    BY <1>1, <2>1 DEF CoverageInv
  <2>4. QED
    BY <1>4, <2>2, <2>3
<1>5. QED
  BY <1>2, <1>3, <1>4, AskKinds

\* No two rows a query finds are the same item.
LEMMA ItemsApart ==
    ASSUME StoreInv, NEW ask \in AllAsks
    PROVE  /\ ItemsOf(ask) \in [Found(ask) -> AllItems]
           /\ \A a, b \in Found(ask) : ItemsOf(ask)[a] = ItemsOf(ask)[b] => a = b
<1>1. RunsInv /\ TestsInv /\ CoverageInv /\ Found(ask) \in SUBSET Nat
  BY StoreParts, FoundFacts
<1>2. CASE ask.query = "tests"
  <2>1. \A key \in Found(ask) : Item(ask, key) = key
    BY <1>2 DEF Item
  <2>2. QED
    BY <1>1, <2>1 DEF ItemsOf, AllItems
<1>3. CASE ask.query \in {"run", "trace"}
  <2>1. \A key \in Found(ask) : Item(ask, key) = <<RunRead(ask), key>> /\ RunRead(ask) \in Runs
    BY <1>3, FoundFacts DEF Item
  <2>2. Runs \in SUBSET Nat
    BY QueriesAssumption DEF Runs
  <2>3. \A key \in Found(ask) : Item(ask, key) \in Nat \X Nat
    <3>1. ASSUME NEW key \in Found(ask) PROVE <<RunRead(ask), key>> \in Nat \X Nat
      <4>1. RunRead(ask) \in Nat /\ key \in Nat
        BY <1>1, <2>1, <2>2
      <4>2. QED
        BY <4>1
    <3>2. QED
      BY <2>1, <3>1
  <2>4. QED
    BY <2>1, <2>3 DEF ItemsOf, AllItems
<1>4. CASE ask.query = "coverage"
  <2>1. \A key \in Found(ask) : Item(ask, key) = coverage[key] /\ key \in DOMAIN coverage
    BY <1>4 DEF Item, Found
  <2>2. QED
    BY <1>1, <2>1 DEF ItemsOf, AllItems, CoverageInv
<1>5. QED
  BY <1>2, <1>3, <1>4, AskKinds

\* The above of all runs and tests, to use before and after a step.
Reading ==
    /\ \A k \in rows : /\ DOMAIN Events(k) = 1..stored[k]
                       /\ \A i \in 1..stored[k] : Events(k)[i] = log[k][i]
    /\ \A t : With(t) \in SUBSET rows /\ \A k \in rows : k \in With(t) <=> HasTest(k, t)
    /\ \A t : /\ LatestRun(t) \in Nat /\ (LatestRun(t) = 0 \/ LatestRun(t) \in With(t))
              /\ \A k \in With(t) : k <= LatestRun(t)

\* They hold of any store.
LEMMA ReadingHolds == StoreInv => Reading
  BY EventsOf, WithFacts, Latest DEF Reading

\* And so before and after a step.
LEMMA ReadingStays == ASSUME StoreInv, StoreInv' PROVE Reading /\ Reading'
<1>1. StoreInv' => Reading'
  BY ReadingHolds, PTL
<1>2. QED
  BY <1>1, ReadingHolds

\* Events of a run that is not pruned stay.
LEMMA EventsStay ==
    ASSUME StoreInv, StoreInv', Moves, NEW k \in rows, k \in rows'
    PROVE  /\ stored[k] \in Nat /\ stored'[k] \in Nat /\ stored[k] <= stored'[k]
           /\ DOMAIN Events(k) \subseteq DOMAIN Events(k)'
           /\ \A i \in DOMAIN Events(k) : Events(k)'[i] = Events(k)[i]
           /\ \A t : k \in With(t) => k \in With(t)'
<1>1. Reading /\ Reading' /\ RunsInv /\ stored' \in [Runs -> Nat]
  BY ReadingStays, StoreParts DEF StoreInv
<1>2. k \in Runs /\ stage[k] # "none" /\ log'[k] = log[k] /\ stored[k] <= stored'[k]
  BY <1>1 DEF RunsInv, Moves
<1>3. stored[k] \in Nat /\ stored'[k] \in Nat
  BY <1>1, <1>2 DEF RunsInv
<1>4. \A i \in 1..stored[k] : i \in 1..stored'[k]
  BY <1>2, <1>3
<1>5. /\ DOMAIN Events(k) = 1..stored[k] /\ DOMAIN Events(k)' = 1..stored'[k]
      /\ \A i \in 1..stored[k] : Events(k)[i] = log[k][i]
      /\ \A i \in 1..stored'[k] : Events(k)'[i] = log'[k][i]
  BY <1>1 DEF Reading
<1>6. ASSUME NEW t, k \in With(t) PROVE k \in With(t)'
  <2>1. HasTest(k, t)
    BY <1>1, <1>6 DEF Reading
  <2>2. HasTest(k, t)'
    BY <1>2, <1>4, <2>1 DEF HasTest
  <2>3. QED
    BY <1>1, <2>2 DEF Reading
<1>7. QED
  BY <1>2, <1>3, <1>4, <1>5, <1>6

\* What is gone stays gone.
LEMMA GoneStays ==
    ASSUME StoreInv, StoreInv', Moves, NEW ask \in AllAsks, NEW base, Gone(ask, base)
    PROVE  Gone(ask, base)'
<1>1. RunsInv /\ Reading /\ Runs \in SUBSET Nat
  BY StoreParts, ReadingHolds, QueriesAssumption DEF Runs
<1>2. \A k \in Runs : stage[k] # "none" /\ k \notin rows => stage'[k] # "none" /\ k \notin rows'
  BY DEF Moves
<1>3. CASE ask.query = "run" /\ stage[ask.of] # "none" /\ ask.of \notin rows
  BY <1>2, <1>3, AskKinds DEF Gone
<1>4. CASE /\ ask.query = "trace" /\ base.run \in Runs
           /\ stage[base.run] # "none" /\ base.run \notin rows
  BY <1>2, <1>4 DEF Gone
<1>5. ASSUME ask.query = "trace", base.run \in Runs, NEW k \in With(ask.of), k > base.run
      PROVE  Gone(ask, base)'
  <2>1. k \in rows /\ k \in Runs /\ stage[k] # "none"
    BY <1>1 DEF Reading, RunsInv
  <2>2. CASE k \in rows'
    <3>1. k \in With(ask.of)'
      BY <2>1, <2>2, EventsStay
    <3>2. QED
      BY <1>5, <3>1 DEF Gone
  <2>3. CASE k \notin rows'
    <3>1. base.run < k
      BY <1>1, <1>5, <2>1
    <3>2. base.run \notin rows' /\ stage[base.run] # "none"
      BY <1>1, <1>5, <2>1, <2>3, <3>1 DEF Moves, RunsInv
    <3>3. stage'[base.run] # "none"
      BY <1>5, <3>2 DEF Moves
    <3>4. QED
      BY <1>5, <3>2, <3>3 DEF Gone
  <2>4. QED
    BY <2>2, <2>3
<1>6. ASSUME ask.query = "coverage", NEW k \in Runs, ~(learned[k] \subseteq base.learned[k])
      PROVE  Gone(ask, base)'
  <2>1. learned[k] \subseteq learned'[k]
    BY DEF Moves
  <2>2. ~(learned'[k] \subseteq base.learned[k])
    BY <1>6, <2>1
  <2>3. QED
    BY <1>6, <2>2 DEF Gone
<1>7. QED
  BY <1>3, <1>4, <1>5, <1>6 DEF Gone

\* What a query finds after a step is what it found and more, or the rows are gone.
Grows(ask) ==
    /\ Found(ask) \subseteq Found(ask)'
    /\ \A key \in Found(ask) : ItemsOf(ask)'[key] = ItemsOf(ask)[key]

\* A step of a run takes rows from under a client for good, or adds some.
LEMMA SteadyOn ==
    ASSUME StoreInv, StoreInv', Moves, NEW ask \in AllAsks, NEW base, Steady(ask, base)
    PROVE  Gone(ask, base)' \/ (Steady(ask, base)' /\ Grows(ask))
<1>1. RunsInv /\ Reading /\ Reading' /\ Runs \in SUBSET Nat
  BY StoreParts, ReadingStays, QueriesAssumption DEF Runs
<1>2. CASE ask.query = "tests"
  <2>1. Found(ask) \subseteq Found(ask)'
    BY <1>2 DEF Found, Moves
  <2>2. \A key : Item(ask, key) = key /\ Item(ask, key)' = key
    BY <1>2 DEF Item
  <2>3. Grows(ask)
    BY <2>1, <2>2 DEF Grows, ItemsOf
  <2>4. QED
    BY <1>2, <2>3 DEF Steady
<1>3. CASE ask.query = "run"
  <2>1. ask.of \in rows /\ ask.of \in Runs /\ stage[ask.of] # "none"
    BY <1>1, <1>3, AskKinds DEF Steady, RunsInv
  <2>2. CASE ask.of \notin rows'
    BY <1>3, <2>1, <2>2 DEF Gone, Moves
  <2>3. CASE ask.of \in rows'
    <3>1. Found(ask) \subseteq Found(ask)'
      BY <1>3, <2>1, <2>3, EventsStay DEF Found
    <3>2. \A key : Item(ask, key) = <<ask.of, key>> /\ Item(ask, key)' = <<ask.of, key>>
      BY <1>3 DEF Item, RunRead
    <3>3. Grows(ask)
      BY <3>1, <3>2 DEF Grows, ItemsOf
    <3>4. QED
      BY <1>3, <2>3, <3>3 DEF Steady
  <2>4. QED
    BY <2>2, <2>3
<1>4. CASE ask.query = "trace"
  <2> DEFINE b == base.run
             t == ask.of
  <2>1. b \in Runs /\ b # 0 /\ RunRead(ask) = b /\ LatestRun(t) = b
    BY <1>4, QueriesAssumption DEF Steady, RunRead, Runs
  <2>2. b \in With(t) /\ b \in rows /\ stage[b] # "none"
    BY <1>1, <2>1 DEF Reading, RunsInv
  <2>3. CASE b \notin rows'
    BY <1>4, <2>1, <2>2, <2>3 DEF Gone, Moves
  <2>4. CASE b \in rows'
    <3>1. b \in With(t)'
      BY <2>2, <2>4, EventsStay
    <3>2. LatestRun(t)' \in Nat /\ b <= LatestRun(t)' /\ (LatestRun(t)' = 0 \/ LatestRun(t)' \in With(t)')
      BY <1>1, <3>1 DEF Reading
    <3>3. CASE LatestRun(t)' # b
      <4>1. b \in Nat
        BY <1>1, <2>1
      <4>2. LatestRun(t)' > b /\ LatestRun(t)' \in With(t)'
        BY <2>1, <3>2, <3>3, <4>1
      <4>3. QED
        BY <1>4, <2>1, <4>2 DEF Gone
    <3>4. CASE LatestRun(t)' = b
      <4>1. RunRead(ask)' = b
        BY <1>4, <3>4 DEF RunRead
      <4>2. /\ Found(ask) = {i \in DOMAIN Events(b) : Events(b)[i].test = t}
            /\ Found(ask)' = {i \in DOMAIN Events(b)' : Events(b)'[i].test = t}
        BY <1>4, <2>1, <4>1 DEF Found
      <4>3. Found(ask) \subseteq Found(ask)'
        BY <2>2, <2>4, <4>2, EventsStay
      <4>4. \A key : Item(ask, key) = <<b, key>> /\ Item(ask, key)' = <<b, key>>
        BY <1>4, <2>1, <4>1 DEF Item
      <4>5. Grows(ask)
        BY <4>3, <4>4 DEF Grows, ItemsOf
      <4>6. QED
        BY <1>4, <2>1, <4>1, <4>5 DEF Steady
    <3>5. QED
      BY <3>3, <3>4
  <2>5. QED
    BY <2>3, <2>4
<1>5. CASE ask.query = "coverage"
  <2>1. learned = base.learned
    BY <1>5 DEF Steady
  <2>2. CASE coverage' = coverage /\ learned' = learned
    <3>1. Found(ask)' = Found(ask)
      BY <1>5, <2>2 DEF Found
    <3>2. \A key : Item(ask, key) = coverage[key] /\ Item(ask, key)' = coverage[key]
      BY <1>5, <2>2 DEF Item
    <3>3. Grows(ask)
      BY <3>1, <3>2 DEF Grows, ItemsOf
    <3>4. QED
      BY <1>5, <2>1, <2>2, <3>3 DEF Steady
  <2>3. CASE \E k \in Runs : ~(learned'[k] \subseteq learned[k])
    BY <1>5, <2>1, <2>3 DEF Gone
  <2>4. QED
    BY <2>2, <2>3 DEF Moves
<1>6. QED
  BY <1>2, <1>3, <1>4, <1>5, AskKinds

\* What holds of a client holds after a step of a run.
LEMMA ReaderKeeps ==
    ASSUME StoreInv, StoreInv', Moves, NEW R, ReaderInv(R) PROVE ReaderInv(R)'
<1>1. R.phase # "idle" => R.ask \in AllAsks
  BY QueriesAssumption DEF ReaderInv
<1>2. R.phase # "idle" /\ Gone(R.ask, R.base) => Gone(R.ask, R.base)'
  BY <1>1, GoneStays
<1>3. ASSUME R.phase = "reading", Steady(R.ask, R.base),
             SoFar(Found(R.ask), ItemsOf(R.ask), R.cursor, R.got, R.base.items)
      PROVE  \/ Gone(R.ask, R.base)'
             \/ /\ Steady(R.ask, R.base)'
                /\ SoFar(Found(R.ask)', ItemsOf(R.ask)', R.cursor, R.got, R.base.items)
  <2>1. CASE Gone(R.ask, R.base)'
    BY <2>1
  <2>2. CASE Steady(R.ask, R.base)' /\ Grows(R.ask)
    <3>1. /\ Found(R.ask) \subseteq Found(R.ask)'
          /\ \A key \in Found(R.ask) : ItemsOf(R.ask)'[key] = ItemsOf(R.ask)[key]
      BY <2>2 DEF Grows
    <3>2. SoFar(Found(R.ask)', ItemsOf(R.ask)', R.cursor, R.got, R.base.items)
      BY <1>3, <3>1, MoreKeys
    <3>3. QED
      BY <2>2, <3>2
  <2>3. QED
    BY <1>1, <1>3, <2>1, <2>2, SteadyOn
<1>5. R.phase = "done" => \/ Gone(R.ask, R.base)'
                          \/ IsInjective(R.got) /\ R.base.items \subseteq ToSet(R.got)
  BY <1>2 DEF ReaderInv
<1>6. ASSUME R.phase = "reading", R.got # <<>>
      PROVE  \/ Gone(R.ask, R.base)'
             \/ /\ Steady(R.ask, R.base)'
                /\ SoFar(Found(R.ask)', ItemsOf(R.ask)', R.cursor, R.got, R.base.items)
  BY <1>2, <1>3, <1>6 DEF ReaderInv
<1>7. /\ DOMAIN R = DOMAIN NoReader
      /\ R.phase \in {"idle", "reading", "done", "stuck"}
      /\ R.phase # "idle" => R.ask \in Asks
      /\ R.phase = "reading" =>
        /\ R.limit \in Nat \ {0} /\ R.cursor \in Nat /\ R.got \in Seq(AllItems)
        /\ R.got = <<>> => R.cursor = 0
  BY DEF ReaderInv
<1>8. QED
  BY <1>5, <1>6, <1>7 DEF ReaderInv

\* A step that leaves the store alone is one of those.
LEMMA StillMoves ==
    ASSUME StoreInv, UNCHANGED storeVars PROVE StoreInv' /\ Moves
<1>1. \A k \in Runs : stored[k] \in Nat
  BY StoreParts DEF RunsInv
<1>2. Moves
  BY <1>1 DEF Moves, storeVars
<1>3. StoreInv'
  BY DEF StoreInv, StoreTypeOK, storeVars
<1>4. QED
  BY <1>2, <1>3

-----------------------------------------------------------------------------
(* Pages of what a query finds.                                            *)

\* How many rows fit: no more than there are, one at least if there is one and, with a
\* limit of one, only one.
LEMMA FittingFacts ==
    ASSUME NEW ask, NEW ks, Len(ks) \in Nat, NEW limit \in Nat \ {0}, NEW n, n = Fitting(ask, ks, limit)
    PROVE  n \in Nat /\ n <= Len(ks) /\ (n = 0 => Len(ks) = 0) /\ (limit = 1 => n <= 1)
<1> DEFINE bounded == ask.query \in {"run", "trace"} /\ ask.mask = "none"
           N == {m \in 1..Len(ks) :
                    /\ m <= limit
                    /\ bounded /\ m > 1 => Size(ask, SubSeq(ks, 1, m), "none") <= MaxBytes}
<1>1. n = Cardinality(N)
  BY DEF Fitting
<1>2. N \in SUBSET (1..Len(ks)) /\ \A m \in N : m <= limit
  OBVIOUS
<1>3. Len(ks) # 0 => 1 \in N
  OBVIOUS
<1> HIDE DEF N
<1>4. IsFiniteSet(1..Len(ks)) /\ Cardinality(1..Len(ks)) = Len(ks)
  <2> DEFINE l == Len(ks)
  <2>1. l \in Nat /\ l \in Int /\ 1 \in Int
    OBVIOUS
  <2> HIDE DEF l
  <2>2. IsFiniteSet(1..l) /\ Cardinality(1..l) = IF 1 > l THEN 0 ELSE l - 1 + 1
    BY <2>1, FS_Interval
  <2>3. Cardinality(1..l) = l
    BY <2>1, <2>2
  <2>4. QED
    BY <2>2, <2>3 DEF l
<1>5. IsFiniteSet(N) /\ n <= Len(ks) /\ n \in Nat
  BY <1>1, <1>2, <1>4, FS_Subset, FS_CardinalityType
<1>6. n = 0 => Len(ks) = 0
  BY <1>1, <1>3, <1>5, FS_EmptySet
<1>7. ASSUME limit = 1 PROVE n <= 1
  <2>1. N \in SUBSET {1}
    BY <1>2, <1>7
  <2>2. IsFiniteSet({1}) /\ Cardinality({1}) = 1
    BY FS_Singleton
  <2>3. QED
    BY <1>1, <2>1, <2>2, FS_Subset
<1>8. QED
  BY <1>5, <1>6, <1>7

\* A response is a page of what the query finds, or it was too large.
LEMMA ResponseFacts ==
    ASSUME StoreInv, NEW ask \in AllAsks, NEW cursor \in Nat, NEW limit \in Nat \ {0},
           NEW answer, answer = Response(ask, cursor, limit)
    PROVE  \/ answer.status = "partial" /\ answer.keys = <<>>
           \/ answer.status = "ok" /\ IsPage(Found(ask), cursor, answer.keys, answer.next)
<1> DEFINE F == Found(ask)
           ks == Keys(ask, cursor)
           n == Fitting(ask, ks, limit)
           page == PageOf(ask, cursor, limit)
<1>1. F \in SUBSET Nat /\ IsFiniteSet(F)
  BY FoundFacts
<1>2. ks = Ascending({key \in F : key > cursor}) /\ Len(ks) \in Nat
  <2> DEFINE I == {key \in F : key > cursor}
  <2>1. ks = Ascending(I)
    BY DEF Keys
  <2>2. I \in SUBSET Nat /\ IsFiniteSet(I)
    BY <1>1, FS_Subset
  <2> HIDE DEF I
  <2>3. Len(Ascending(I)) \in Nat
    BY <2>2, AscendingFacts DEF Ascends
  <2>4. QED
    BY <2>1, <2>3 DEF I
<1>3. page = [status |-> "ok", keys |-> SubSeq(ks, 1, n), next |-> IF n < Len(ks) THEN ks[n] ELSE None]
  BY DEF PageOf
<1>4. answer = Truncated \/ answer = page
  BY DEF Response
<1> HIDE DEF F, ks, n, page
<1>5. n \in Nat /\ n <= Len(ks) /\ (n = 0 => Len(ks) = 0)
  BY <1>2, FittingFacts DEF n
<1>6. IsPage(F, cursor, SubSeq(ks, 1, n), IF n < Len(ks) THEN ks[n] ELSE None)
  BY <1>1, <1>2, <1>5, FirstKeys
<1>7. page.status = "ok" /\ IsPage(F, cursor, page.keys, page.next)
  BY <1>3, <1>6
<1>8. QED
  BY <1>4, <1>7 DEF Truncated, F

\* A page of one row is too large only when the first row after the cursor is, and is not
\* masked.
LEMMA TooLarge ==
    ASSUME StoreInv, NEW ask \in AllAsks, NEW cursor \in Nat,
           Response(ask, cursor, 1).status = "partial"
    PROVE  /\ ask.mask # "drops" /\ Keys(ask, cursor) # <<>>
           /\ Large(ask, Keys(ask, cursor)[1])
<1> DEFINE ks == Keys(ask, cursor)
           n == Fitting(ask, ks, 1)
           page == PageOf(ask, cursor, 1)
           p == page.keys
           L == {i \in DOMAIN p : Large(ask, p[i])}
           factor == IF ask.mask = "drops" THEN 0 ELSE MaxBytes - 1
<1>1. /\ ks = Ascending({key \in Found(ask) : key > cursor})
      /\ page.status = "ok" /\ p = SubSeq(ks, 1, n)
  BY DEF Keys, PageOf
<1>2. IsPage(Found(ask), cursor, p, page.next) /\ Len(ks) \in Nat /\ ks \in Seq(Found(ask))
  <2> DEFINE I == {key \in Found(ask) : key > cursor}
             F == Found(ask)
  <2>1. F \in SUBSET Nat /\ IsFiniteSet(F) /\ I \in SUBSET Nat /\ IsFiniteSet(I)
    BY FoundFacts, FS_Subset
  <2> HIDE DEF ks
  <2>2. ks = Ascending(I)
    BY <1>1
  <2> HIDE DEF I
  <2>3. Len(ks) \in Nat /\ ks \in Seq(F)
    <3>1. ks \in Seq(I) /\ Len(ks) \in Nat
      BY <2>1, <2>2, AscendingFacts DEF Ascends
    <3>2. I \subseteq F
      BY DEF I
    <3> HIDE DEF F
    <3>3. QED
      BY <3>1, <3>2
  <2>4. n \in Nat /\ n <= Len(ks) /\ (n = 0 => Len(ks) = 0)
    BY <2>3, FittingFacts
  <2>5. page.next = IF n < Len(ks) THEN ks[n] ELSE None
    BY DEF PageOf, ks
  <2>8. ks = Ascending({key \in F : key > cursor})
    BY <1>1
  <2> HIDE DEF F, n
  <2>6. IsPage(F, cursor, SubSeq(ks, 1, n), IF n < Len(ks) THEN ks[n] ELSE None)
    BY <2>1, <2>4, <2>8, FirstKeys
  <2>7. QED
    BY <1>1, <2>3, <2>5, <2>6 DEF F
<1>3. Overhead + Size(ask, p, ask.mask) > MaxBytes
  BY <1>1 DEF Response
<1>4. Size(ask, p, ask.mask) = Len(p) + factor * Cardinality(L)
  BY DEF Size
<1> HIDE DEF ks, page
<1>5. n \in Nat /\ n <= 1 /\ n <= Len(ks)
  BY <1>2, FittingFacts
<1>6. p \in Seq(Found(ask)) /\ Len(p) \in Nat /\ Len(p) <= 1
  <2>1. p \in Seq(Found(ask))
    BY <1>2 DEF IsPage
  <2>2. Len(SubSeq(ks, 1, n)) = n
    <3> HIDE DEF n, p
    <3>1. QED
      BY <1>1, <1>2, <1>5, <2>1
  <2>3. QED
    BY <1>1, <1>5, <2>1, <2>2
<1> HIDE DEF n, p
<1>7. IsFiniteSet(L) /\ Cardinality(L) \in Nat
  <2>1. DOMAIN p = 1..Len(p)
    BY <1>6
  <2>2. IsFiniteSet(DOMAIN p)
    BY <1>6, <2>1, FS_Interval
  <2>3. QED
    BY <2>2, FS_Subset, FS_CardinalityType
<1>8. ASSUME ~(ks # <<>> /\ Large(ask, ks[1])) PROVE L = {}
  <2>1. ASSUME NEW i \in DOMAIN p, Large(ask, p[i]) PROVE FALSE
    <3>0. i \in 1..Len(p)
      BY <1>6
    <3>1. i = 1 /\ Len(p) = 1
      <4> DEFINE l == Len(p)
      <4>1. i \in 1..l /\ l \in Nat /\ l <= 1
        BY <1>6, <3>0
      <4> HIDE DEF l
      <4>2. i = 1 /\ l = 1
        BY <4>1
      <4>3. QED
        BY <4>2 DEF l
    <3>2. Len(SubSeq(ks, 1, n)) = n /\ n = 1
      BY <1>1, <1>5, <1>6, <1>2, <3>1
    <3>3. p[1] = ks[1] /\ ks # <<>>
      BY <1>1, <1>2, <1>5, <3>2
    <3>4. QED
      BY <1>8, <2>1, <3>1, <3>3
  <2>2. QED
    BY <2>1
<1>10. MaxBytes \in Nat /\ Overhead \in Nat /\ Overhead < MaxBytes
  BY QueriesAssumption
<1>11. ASSUME ask.mask = "drops" \/ ~(ks # <<>> /\ Large(ask, ks[1])) PROVE FALSE
  <2> DEFINE card == Cardinality(L)
  <2>1. card \in Nat
    BY <1>7
  <2>2. factor * card = 0
    <3>1. CASE ask.mask = "drops"
      <4>1. factor = 0
        BY <3>1
      <4> HIDE DEF factor, card
      <4>2. QED
        BY <2>1, <4>1
    <3>2. CASE ~(ks # <<>> /\ Large(ask, ks[1]))
      <4>1. card = 0
        BY <1>8, <3>2, FS_EmptySet
      <4>2. factor \in Int
        BY <1>10
      <4> HIDE DEF factor, card
      <4>3. QED
        BY <4>1, <4>2
    <3>3. QED
      BY <1>11, <3>1, <3>2
  <2>3. Overhead + (Len(p) + 0) > MaxBytes
    BY <1>3, <1>4, <2>2
  <2> HIDE DEF factor, card, L
  <2>4. QED
    BY <1>6, <1>10, <2>3
<1>12. QED
  BY <1>11 DEF ks

\* Who finds something is on firm ground.
LEMMA FirstPage ==
    ASSUME StoreInv, NEW ask \in AllAsks, NEW base, base = Base(ask)
    PROVE  /\ Found(ask) # {} => Steady(ask, base)
           /\ SoFar(Found(ask), ItemsOf(ask), 0, <<>>, base.items)
<1>1. /\ base.items = {Item(ask, key) : key \in Found(ask)} /\ base.learned = learned
      /\ base.run = RunRead(ask)
  BY DEF Base
<1>2. ASSUME Found(ask) # {} PROVE Steady(ask, base)
  <2>1. ask.query \in {"run", "trace"} => RunRead(ask) \in rows /\ RunRead(ask) \in Runs
    BY <1>2, FoundFacts
  <2>2. QED
    BY <1>1, <2>1 DEF Steady, RunRead
<1>3. \A key \in Found(ask) : key > 0 /\ ItemsOf(ask)[key] = Item(ask, key)
  <2>1. \A key \in Found(ask) : key \in Nat /\ key # 0
    BY FoundFacts
  <2>2. QED
    BY <2>1 DEF ItemsOf
<1>4. SoFar(Found(ask), ItemsOf(ask), 0, <<>>, base.items)
  BY <1>1, <1>3 DEF SoFar
<1>5. QED
  BY <1>2, <1>4

\* A page more, or the answer that there is none for so many.
LEMMA PageStep ==
    ASSUME StoreInv, NEW R, ReaderInv(R), R.phase = "reading", NEW answer, NEW base, NEW S,
           answer = Response(R.ask, R.cursor, R.limit),
           base = (IF R.got = <<>> THEN Base(R.ask) ELSE R.base),
           S = (IF answer.status = "partial"
                THEN IF R.limit > 1 THEN [R EXCEPT !.limit = @ - 1, !.base = base]
                     ELSE [R EXCEPT !.phase = "stuck", !.base = base]
                ELSE [R EXCEPT !.got = @ \o [i \in DOMAIN answer.keys |-> Item(R.ask, answer.keys[i])],
                               !.base = base,
                               !.cursor = answer.next,
                               !.phase = IF answer.next = None THEN "done" ELSE "reading"])
    PROVE  ReaderInv(S)
<1> DEFINE ask == R.ask
           F == Found(ask)
           f == ItemsOf(ask)
<1>1. /\ DOMAIN R = DOMAIN NoReader /\ ask \in Asks /\ ask \in AllAsks
      /\ R.limit \in Nat \ {0} /\ R.cursor \in Nat /\ R.got \in Seq(AllItems)
      /\ R.got = <<>> => R.cursor = 0
      /\ R.got # <<>> => \/ Gone(ask, R.base)
                         \/ Steady(ask, R.base) /\ SoFar(F, f, R.cursor, R.got, R.base.items)
  BY QueriesAssumption DEF ReaderInv
<1>2. \/ R.got # <<>> /\ Gone(ask, base)
      \/ /\ SoFar(F, f, R.cursor, R.got, base.items)
         /\ F # {} \/ R.got # <<>> => Steady(ask, base)
  <2>1. CASE R.got = <<>>
    <3>1. base = Base(ask) /\ R.cursor = 0
      BY <1>1, <2>1
    <3>2. QED
      BY <1>1, <2>1, <3>1, FirstPage
  <2>2. CASE R.got # <<>>
    BY <1>1, <2>2
  <2>3. QED
    BY <2>1, <2>2
<1>3. CASE answer.status = "partial" /\ R.limit > 1
  <2>1. S = [R EXCEPT !.limit = @ - 1, !.base = base]
    BY <1>3
  <2>2. /\ DOMAIN S = DOMAIN NoReader /\ S.ask = ask /\ S.phase = "reading"
        /\ S.limit = R.limit - 1 /\ S.cursor = R.cursor /\ S.got = R.got /\ S.base = base
    BY <1>1, <2>1 DEF NoReader
  <2>3. S.limit \in Nat \ {0}
    BY <1>1, <1>3, <2>2
  <2> HIDE DEF ask, F, f
  <2>4. S.got # <<>> => Gone(S.ask, S.base) \/ (Steady(S.ask, S.base) /\ SoFar(F, f, S.cursor, S.got, S.base.items))
    BY <1>2, <2>2
  <2>5. F = Found(S.ask) /\ f = ItemsOf(S.ask)
    BY <2>2 DEF F, f
  <2>6. QED
    BY <1>1, <2>2, <2>3, <2>4, <2>5 DEF ReaderInv
<1>4. CASE answer.status = "partial" /\ ~(R.limit > 1)
  <2>1. S = [R EXCEPT !.phase = "stuck", !.base = base]
    BY <1>4
  <2>2. DOMAIN S = DOMAIN NoReader /\ S.ask = ask /\ S.phase = "stuck"
    BY <1>1, <2>1 DEF NoReader
  <2>3. QED
    BY <1>1, <2>2 DEF ReaderInv
<1>5. CASE answer.status # "partial"
  <2> DEFINE p == answer.keys
             next == answer.next
             all == R.got \o [i \in DOMAIN p |-> f[p[i]]]
  <2>1. IsPage(F, R.cursor, p, next)
    <3> HIDE DEF ask
    <3>1. answer = Response(ask, R.cursor, R.limit)
      BY DEF ask
    <3>2. QED
      BY <1>1, <1>5, <3>1, ResponseFacts
  <2>2. [i \in DOMAIN p |-> Item(ask, p[i])] = [i \in DOMAIN p |-> f[p[i]]]
    <3>1. p \in Seq(F)
      BY <2>1 DEF IsPage
    <3>2. \A i \in DOMAIN p : p[i] \in F
      BY <3>1
    <3>3. \A i \in DOMAIN p : f[p[i]] = Item(ask, p[i])
      BY <3>2 DEF ItemsOf
    <3>4. QED
      BY <3>3
  <2>3. S = [R EXCEPT !.got = @ \o [i \in DOMAIN p |-> Item(ask, p[i])], !.base = base,
                      !.cursor = next, !.phase = IF next = None THEN "done" ELSE "reading"]
    BY <1>5
  <2>4. /\ DOMAIN S = DOMAIN NoReader /\ S.ask = ask
        /\ S.phase = (IF next = None THEN "done" ELSE "reading") /\ S.limit = R.limit
        /\ S.cursor = next /\ S.got = R.got \o [i \in DOMAIN p |-> Item(ask, p[i])] /\ S.base = base
    BY <1>1, <2>3 DEF NoReader
  <2>5. S.got = all
    BY <2>2, <2>4
  <2>6. /\ F \in SUBSET Nat /\ f \in [F -> AllItems]
        /\ \A a, b \in F : f[a] = f[b] => a = b
    BY <1>1, FoundFacts, ItemsApart
  <2>7. p \in Seq(F) /\ next # None => next \in F /\ next \in Nat /\ \E i \in DOMAIN p : p[i] = next
    BY <2>1, <2>6 DEF IsPage
  <2> HIDE DEF ask, F, f, p, next
  <2> DEFINE more == [i \in DOMAIN p |-> f[p[i]]]
  <2>8. all \in Seq(AllItems) /\ (next # None => all # <<>>)
    <3>1. p \in Seq(F)
      BY <2>1 DEF IsPage
    <3>2. more \in Seq(AllItems) /\ DOMAIN more = DOMAIN p /\ all = R.got \o more
      BY <2>6, <3>1
    <3> HIDE DEF more, all
    <3>3. all \in Seq(AllItems) /\ Joined(all, R.got, more)
      BY <1>1, <3>2, Together
    <3>4. QED
      BY <2>7, <3>1, <3>2, <3>3 DEF Joined
  <2>9. ASSUME SoFar(F, f, R.cursor, R.got, base.items)
        PROVE  /\ next # None => SoFar(F, f, next, all, base.items)
               /\ next = None => IsInjective(all) /\ base.items \subseteq ToSet(all)
    <3> DEFINE got == R.got
               cursor == R.cursor
               items == base.items
    <3>1. p \in Seq(F)
      BY <2>1 DEF IsPage
    <3>2. more \in Seq(AllItems)
      BY <2>6, <3>1
    <3>3. /\ DOMAIN more = DOMAIN p /\ \A i \in DOMAIN more : more[i] = f[p[i]]
          /\ all = got \o more /\ got \in Seq(AllItems) /\ cursor \in Nat
          /\ SoFar(F, f, cursor, got, items) /\ IsPage(F, cursor, p, next)
      BY <1>1, <2>1, <2>9
    <3> HIDE DEF all, more, got, cursor, items
    <3>4. ReadOn(F, f, next, all, items)
      <4>1. Appends(F, AllItems, f, cursor, got, p, next, items, more, all)
        BY <2>6, <3>2, <3>3 DEF Appends
      <4>2. QED
        BY <4>1, NextPage
    <3>5. QED
      BY <3>4 DEF items, ReadOn
  <2> HIDE DEF all
  <2>10. F = Found(S.ask) /\ f = ItemsOf(S.ask)
    BY <2>4 DEF F, f
  <2>11. CASE next # None
    <3>1. F # {} /\ S.phase = "reading" /\ S.cursor \in Nat /\ S.got # <<>> /\ S.got \in Seq(AllItems)
      <4>1. p \in Seq(F)
        BY <2>1 DEF IsPage
      <4>2. QED
        BY <2>4, <2>5, <2>7, <2>8, <2>11, <4>1
    <3>2. \/ Gone(S.ask, S.base)
          \/ Steady(S.ask, S.base) /\ SoFar(F, f, S.cursor, S.got, S.base.items)
      BY <1>2, <2>4, <2>5, <2>9, <2>11, <3>1
    <3>3. QED
      BY <1>1, <2>4, <2>10, <3>1, <3>2 DEF ReaderInv
  <2>12. CASE next = None
    <3>1. Gone(S.ask, S.base) \/ (IsInjective(S.got) /\ S.base.items \subseteq ToSet(S.got))
      BY <1>2, <2>4, <2>5, <2>9, <2>12
    <3>2. S.phase = "done"
      BY <2>4, <2>12
    <3>3. QED
      BY <1>1, <2>4, <3>1, <3>2 DEF ReaderInv
  <2>13. QED
    BY <2>11, <2>12
<1>6. QED
  BY <1>3, <1>4, <1>5

\* A client's step.
LEMMA ReaderStep ==
    ASSUME StoreInv, DOMAIN reader = Readers, \A c \in Readers : \A R \in {reader[c]} : ReaderInv(R),
           ReaderNext
    PROVE  /\ StoreInv' /\ DOMAIN reader' = Readers
           /\ \A c \in Readers : \A R \in {reader'[c]} : ReaderInv(R)'
<1>1. PICK c \in Readers : ReadPage(c) \/ \E ask \in Asks, limit \in Limits : AskFor(c, ask, limit)
  BY DEF ReaderNext
<1>2. UNCHANGED storeVars
  BY <1>1 DEF ReadPage, AskFor
<1>3. StoreInv' /\ Moves
  BY <1>2, StillMoves
<1>4. PICK S : reader' = [reader EXCEPT ![c] = S] /\ ReaderInv(S)
  <2>1. ASSUME NEW ask \in Asks, NEW limit \in Limits, AskFor(c, ask, limit)
        PROVE  \E S : reader' = [reader EXCEPT ![c] = S] /\ ReaderInv(S)
    <3> DEFINE S == [NoReader EXCEPT !.phase = "reading", !.ask = ask, !.limit = limit, !.cursor = 0]
    <3>1. reader' = [reader EXCEPT ![c] = S]
      BY <2>1 DEF AskFor
    <3>2. /\ DOMAIN S = DOMAIN NoReader /\ S.phase = "reading" /\ S.ask = ask /\ S.limit = limit
          /\ S.cursor = 0 /\ S.got = <<>>
      BY DEF NoReader
    <3>3. limit \in Nat \ {0}
      BY QueriesAssumption
    <3> HIDE DEF S
    <3>4. ReaderInv(S)
      <4>1. <<>> \in Seq(AllItems)
        OBVIOUS
      <4>2. QED
        BY <3>2, <3>3, <4>1 DEF ReaderInv
    <3>5. QED
      BY <3>1, <3>4
  <2>2. CASE ReadPage(c)
    <3> DEFINE R == reader[c]
               answer == Response(R.ask, R.cursor, R.limit)
               base == IF R.got = <<>> THEN Base(R.ask) ELSE R.base
               S == IF answer.status = "partial"
                    THEN IF R.limit > 1 THEN [R EXCEPT !.limit = @ - 1, !.base = base]
                         ELSE [R EXCEPT !.phase = "stuck", !.base = base]
                    ELSE [R EXCEPT !.got = @ \o [i \in DOMAIN answer.keys |-> Item(R.ask, answer.keys[i])],
                                   !.base = base,
                                   !.cursor = answer.next,
                                   !.phase = IF answer.next = None THEN "done" ELSE "reading"]
    <3>1. R.phase = "reading" /\ reader' = [reader EXCEPT ![c] = S]
      BY <2>2 DEF ReadPage
    <3>2. ReaderInv(R)
      OBVIOUS
    <3>3. ReaderInv(S)
      <4> HIDE DEF R
      <4>1. QED
        BY <3>1, <3>2, PageStep
    <3>4. QED
      BY <3>1, <3>3
  <2>3. QED
    BY <1>1, <2>1, <2>2
<1>5. /\ DOMAIN reader' = Readers /\ reader'[c] = S
      /\ \A d \in Readers \ {c} : reader'[d] = reader[d]
  BY <1>4
<1>6. ReaderInv(S)'
  BY <1>3, <1>4, ReaderKeeps
<1>7. ASSUME NEW d \in Readers, NEW R, R = reader'[d] PROVE ReaderInv(R)'
  <2>1. CASE d = c
    BY <1>5, <1>6, <1>7, <2>1
  <2>2. CASE d # c
    <3>1. ReaderInv(R)
      BY <1>5, <1>7, <2>2
    <3>2. QED
      BY <1>3, <3>1, ReaderKeeps
  <2>3. QED
    BY <2>1, <2>2
<1>8. QED
  BY <1>3, <1>5, <1>7

\* A step of a run or of the dashboard leaves the clients what they have.
LEMMA ReadersKeep ==
    ASSUME StoreInv, StoreInv', Moves, DOMAIN reader = Readers, UNCHANGED reader,
           \A c \in Readers : \A R \in {reader[c]} : ReaderInv(R)
    PROVE  /\ DOMAIN reader' = Readers
           /\ \A c \in Readers : \A R \in {reader'[c]} : ReaderInv(R)'
<1>1. ASSUME NEW c \in Readers, NEW R, R = reader'[c] PROVE ReaderInv(R)'
  <2>1. ReaderInv(R)
    BY <1>1
  <2>2. QED
    BY <2>1, ReaderKeeps
<1>2. QED
  BY <1>1

-----------------------------------------------------------------------------
(* The dashboard.                                                          *)

\* failure_summary, of a test that has one.
LEMMA LastFailureType ==
    ASSUME StoreInv, NEW t PROVE LastFailure(t) \in Failures \cup {None}
<1> DEFINE I == {i \in 1..Len(failures) : failures[i].test = t /\ failures[i].run \in rows}
           n == IF I # {} THEN Max(I) ELSE 0
<1>1. failures \in Seq(Failures) /\ Len(failures) \in Nat
  BY StoreParts
<1>2. LastFailure(t) = IF n = 0 THEN None ELSE failures[n]
  BY DEF LastFailure, SelectLastInSeq
<1>3. I \in SUBSET (1..Len(failures)) /\ I \in SUBSET Nat
  BY <1>1
<1>4. n = IF I # {} THEN Max(I) ELSE 0
  OBVIOUS
<1> HIDE DEF I, n
<1>5. CASE I # {}
  <2>1. IsFiniteSet(I)
    <3>1. IsFiniteSet(1..Len(failures))
      BY <1>1, FS_Interval
    <3>2. QED
      BY <1>3, <3>1, FS_Subset
  <2>2. n \in I
    BY <1>3, <1>4, <1>5, <2>1, Greatest DEF IsGreatest
  <2>3. QED
    BY <1>1, <1>2, <1>3, <2>2
<1>6. QED
  BY <1>2, <1>4, <1>5

\* The answer to the dashboard's request lists tests.
LEMMA AnswerType ==
    ASSUME StoreInv PROVE TestsAnswer \in Seq(Listed)
<1> DEFINE answer == Response(TestsAsk, 0, ListLimit)
           ids == answer.keys
<1>1. TestsAsk \in AllAsks /\ TestsAsk.query = "tests"
  BY DEF TestsAsk, AllAsks, Masks
<1>2. Found(TestsAsk) = DOMAIN tests
  BY <1>1 DEF Found
<1>3. ids \in Seq(DOMAIN tests)
  <2>1. 0 \in Nat /\ ListLimit \in Nat \ {0}
    BY DashboardAssumption
  <2>2. \/ answer.status = "partial" /\ answer.keys = <<>>
        \/ answer.status = "ok" /\ IsPage(Found(TestsAsk), 0, answer.keys, answer.next)
    BY <1>1, <2>1, ResponseFacts
  <2> HIDE DEF answer
  <2>3. answer.keys = <<>> \/ answer.keys \in Seq(Found(TestsAsk))
    BY <2>2 DEF IsPage
  <2>4. CASE answer.keys = <<>>
    BY <2>4
  <2>5. CASE answer.keys \in Seq(Found(TestsAsk))
    BY <1>2, <2>5, Zenon
  <2>6. QED
    BY <2>3, <2>4, <2>5
<1>4. TestsAnswer = [i \in DOMAIN ids |-> TestItem(ids[i])]
  BY DEF TestsAnswer
<1> HIDE DEF ids
<1>5. ASSUME NEW i \in DOMAIN ids PROVE TestItem(ids[i]) \in Listed
  <2> DEFINE t == ids[i]
  <2>1. t \in DOMAIN tests
    BY <1>3
  <2>2. t \in Tests /\ tests[t] \in StatusNames \cup {None} /\ LastFailure(t) \in Failures \cup {None}
    BY <2>1, StoreParts, LastFailureType DEF TestsInv
  <2> HIDE DEF t
  <2>3. TestItem(t) \in Listed
    BY <2>2 DEF TestItem, Listed
  <2>4. QED
    BY <2>3 DEF t
<1>6. QED
  BY <1>3, <1>4, <1>5

\* Sorting a list leaves its rows.
LEMMA ByRankType ==
    ASSUME NEW answer \in Seq(Listed) PROVE ByRank(answer) \in Seq(Listed)
<1> DEFINE Places(n) == {i \in DOMAIN answer : FailureRank(answer[i].status) = n}
<1>1. \A n : Places(n) \in SUBSET DOMAIN answer
  OBVIOUS
<1>2. ByRank(answer) = Picked(answer, Places(0)) \o Picked(answer, Places(1)) \o Picked(answer, Places(2))
  BY DEF ByRank
<1> HIDE DEF Places
<1>3. \A n : Picked(answer, Places(n)) \in Seq(Listed)
  BY <1>1, PickedFacts
<1>4. QED
  BY <1>2, <1>3

\* The selected test stays selected if it is listed.
Selects ==
    index # 0 /\ list' # list =>
        LET selected == list[index].id
        IN  (\E i \in DOMAIN list' : list'[i].id = selected) => list'[index'].id = selected

\* Where the selection is after apply_tests: on the test it was on, or inside the list.
LEMMA ApplyStep ==
    ASSUME AppInv, NEW answer \in Seq(Listed), ApplyTests(answer)
    PROVE  ListInv' /\ Selects
<1> DEFINE selected == IF index = 0 THEN None ELSE list[index].id
           at == {i \in DOMAIN list' : list'[i].id = selected}
<1>1. list' \in Seq(Listed)
  BY ByRankType DEF ApplyTests
<1>2. index' = IF at # {} THEN Min(at) ELSE Min({1, Len(list')})
  BY DEF ApplyTests
<1>3. DOMAIN list' = 1..Len(list') /\ Len(list') \in Nat /\ (Len(list') = 0 <=> list' = <<>>)
  BY <1>1
<1>4. /\ at \in SUBSET DOMAIN list' /\ at \in SUBSET Nat /\ \A i \in at : list'[i].id = selected
      /\ \A i \in DOMAIN list' : list'[i].id = selected => i \in at
  BY <1>3
<1> HIDE DEF at
<1>5. CASE at # {}
  <2>1. index' \in at
    BY <1>2, <1>4, <1>5, MinIsIn
  <2>2. index' \in 1..Len(list') /\ list'[index'].id = selected
    BY <1>3, <1>4, <2>1
  <2>3. ListInv'
    BY <1>1, <1>3, <2>2 DEF ListInv
  <2>4. QED
    BY <2>2, <2>3 DEF Selects
<1>6. CASE at = {}
  <2>1. index' = IF 1 <= Len(list') THEN 1 ELSE Len(list')
    BY <1>2, <1>3, <1>6, OfTwo
  <2>2. \A i \in DOMAIN list' : list'[i].id # selected
    BY <1>4, <1>6
  <2>3. ListInv'
    BY <1>1, <1>3, <2>1 DEF ListInv
  <2>4. QED
    BY <2>2, <2>3 DEF Selects
<1>7. QED
  BY <1>5, <1>6

\* refresh_tests
LEMMA RefreshStep ==
    ASSUME StoreInv, AppInv, NEW answers \in SUBSET {TestsAnswer, <<>>}, Refreshed(answers)
    PROVE  ListInv' /\ Selects
<1>1. PICK answer \in answers : ApplyTests(answer)
  BY DEF Refreshed
<1>2. answer \in Seq(Listed)
  <2>1. <<>> \in Seq(Listed)
    OBVIOUS
  <2>2. QED
    BY <2>1, AnswerType
<1>3. QED
  BY <1>1, <1>2, ApplyStep

\* The list is as it was.
LEMMA SameList ==
    ASSUME ListInv, UNCHANGED <<list, index>> PROVE ListInv' /\ Selects
  BY DEF ListInv, Selects

\* move_down and move_up stay inside the list.
LEMMA MoveStep ==
    ASSUME ListInv, NEW by \in {1, -1}, UNCHANGED list,
           index' = Min({Max({Min({1, Len(list)}), index + by}), Len(list)})
    PROVE  ListInv' /\ Selects
<1> DEFINE n == Len(list)
           low == IF 1 <= n THEN 1 ELSE n
           to == IF low <= index + by THEN index + by ELSE low
<1>1. n \in Nat /\ index \in Nat /\ index <= n /\ (n = 0 <=> list = <<>>) /\ index + by \in Int
  BY DEF ListInv
<1> HIDE DEF n
<1>2. Min({1, n}) = low /\ low \in Int
  BY <1>1, OfTwo
<1>3. Max({low, index + by}) = to /\ to \in Int
  BY <1>1, <1>2, OfTwo
<1>4. index' = IF to <= n THEN to ELSE n
  <2>1. index' = Min({to, n})
    BY <1>2, <1>3 DEF n
  <2>2. QED
    BY <1>1, <1>3, <2>1, OfTwo
<1>5. index' \in Nat /\ index' <= n /\ (index' = 0 <=> n = 0)
  BY <1>1, <1>4
<1>6. QED
  BY <1>1, <1>5 DEF ListInv, Selects, n

\* Keys move only the list's cursor, the screen and the detail.
LEMMA KeyStep ==
    ASSUME StoreInv, AppInv, KeyNext PROVE AppInv' /\ Selects
<1>1. /\ ListInv /\ screen \in {"closed", "tests", "trace", "quit"} /\ detail \in Tests \cup {None}
      /\ operation \in {"none", "running", "listing", "sent", "failed"}
      /\ operation = "sent" => sent[1] \in Seq(Listed)
      /\ operation = "sent" <=> sent # <<>>
      /\ keys \in 0..MaxKeys /\ MaxKeys \in Nat
  BY DashboardAssumption DEF AppInv
<1>2. ASSUME Press PROVE keys' \in 0..MaxKeys
  BY <1>1, <1>2 DEF Press
<1>3. CASE KeyRefresh
  <2>1. ListInv' /\ Selects
    BY <1>3, RefreshStep DEF KeyRefresh
  <2>2. QED
    BY <1>1, <1>2, <1>3, <2>1 DEF KeyRefresh, AppInv
<1>4. CASE KeyMove
  <2>1. ListInv' /\ Selects
    BY <1>1, <1>4, MoveStep DEF KeyMove
  <2>2. QED
    BY <1>1, <1>2, <1>4, <2>1 DEF KeyMove, AppInv
<1>5. CASE KeyEsc
  <2>1. ListInv' /\ Selects
    BY <1>1, <1>5, SameList DEF KeyEsc
  <2>2. QED
    BY <1>1, <1>2, <1>5, <2>1 DEF KeyEsc, AppInv
<1>6. CASE KeyQuit
  <2>1. ListInv' /\ Selects
    BY <1>1, <1>6, SameList DEF KeyQuit
  <2>2. QED
    BY <1>1, <1>2, <1>6, <2>1 DEF KeyQuit, AppInv
<1>7. CASE KeyOpen
  <2>1. ListInv' /\ Selects
    BY <1>1, <1>7, SameList DEF KeyOpen
  <2>2. list[index] \in Listed
    BY <1>1, <1>7 DEF KeyOpen, ListInv
  <2>3. list[index].failure \in Failures \cup {None}
    BY <2>2 DEF Listed
  <2>4. \A x \in Failures : x.test \in Tests
    BY DEF Failures
  <2>5. detail' \in Tests \cup {None}
    BY <1>1, <1>7, <2>3, <2>4 DEF KeyOpen
  <2>6. screen' \in {"closed", "tests", "trace", "quit"}
    BY <1>1, <1>7 DEF KeyOpen
  <2>7. QED
    BY <1>1, <1>2, <1>7, <2>1, <2>5, <2>6 DEF KeyOpen, AppInv
<1>8. CASE KeyStart
  <2>1. ListInv' /\ Selects
    BY <1>1, <1>8, SameList DEF KeyStart
  <2>2. QED
    BY <1>1, <1>2, <1>8, <2>1 DEF KeyStart, AppInv
<1>9. QED
  BY <1>3, <1>4, <1>5, <1>6, <1>7, <1>8 DEF KeyNext

\* The event loop and the operation's thread.
LEMMA LoopStep ==
    ASSUME StoreInv, AppInv, Open \/ AutoRefreshEmpties \/ LoopNext \/ ThreadNext
    PROVE  AppInv' /\ Selects
<1>1. /\ ListInv /\ screen \in {"closed", "tests", "trace", "quit"} /\ detail \in Tests \cup {None}
      /\ operation \in {"none", "running", "listing", "sent", "failed"}
      /\ operation = "sent" => sent[1] \in Seq(Listed)
      /\ operation = "sent" <=> sent # <<>>
      /\ keys \in 0..MaxKeys
  BY DEF AppInv
<1>2. CASE Open
  <2>1. ListInv' /\ Selects
    BY <1>2, RefreshStep DEF Open
  <2>2. QED
    BY <1>1, <1>2, <2>1 DEF Open, AppInv
<1>3. CASE AutoRefreshEmpties
  <2>1. ListInv' /\ Selects
    BY <1>3, RefreshStep DEF AutoRefreshEmpties
  <2>2. QED
    BY <1>1, <1>3, <2>1 DEF AutoRefreshEmpties, AppInv
<1>4. CASE AutoRefresh
  <2>1. ListInv' /\ Selects
    BY <1>4, RefreshStep DEF AutoRefresh
  <2>2. QED
    BY <1>1, <1>4, <2>1 DEF AutoRefresh, AppInv
<1>5. CASE Receive
  <2>1. ListInv' /\ Selects
    <3>1. CASE operation = "sent" /\ ApplyTests(sent[1])
      BY <1>1, <3>1, ApplyStep
    <3>2. CASE UNCHANGED <<list, index>>
      BY <1>1, <3>2, SameList
    <3>3. QED
      BY <1>5, <3>1, <3>2 DEF Receive
  <2>2. QED
    BY <1>1, <1>5, <2>1 DEF Receive, AppInv
<1>6. CASE OperationEnds
  <2>1. ListInv' /\ Selects
    BY <1>1, <1>6, SameList DEF OperationEnds
  <2>2. QED
    BY <1>1, <1>6, <2>1 DEF OperationEnds, AppInv
<1>7. CASE OperationFails
  <2>1. ListInv' /\ Selects
    BY <1>1, <1>7, SameList DEF OperationFails
  <2>2. QED
    BY <1>1, <1>7, <2>1 DEF OperationFails, AppInv
<1>8. CASE OperationLists
  <2>1. ListInv' /\ Selects
    BY <1>1, <1>8, SameList DEF OperationLists
  <2>2. PICK answer \in {TestsAnswer, <<>>} : sent' = <<answer>>
    BY <1>8 DEF OperationLists
  <2>3. answer \in Seq(Listed)
    <3>1. <<>> \in Seq(Listed)
      OBVIOUS
    <3>2. QED
      BY <3>1, AnswerType
  <2>4. sent'[1] \in Seq(Listed) /\ sent' # <<>>
    BY <2>2, <2>3
  <2>5. QED
    BY <1>1, <1>8, <2>1, <2>4 DEF OperationLists, AppInv
<1>9. QED
  BY <1>2, <1>3, <1>4, <1>5, <1>6, <1>7, <1>8 DEF LoopNext, ThreadNext

\* Steps of others leave the dashboard as it is.
LEMMA AppStays ==
    ASSUME AppInv, UNCHANGED appVars PROVE AppInv' /\ Selects
<1>1. ListInv' /\ Selects
  BY SameList DEF AppInv, appVars
<1>2. QED
  BY <1>1 DEF AppInv, appVars

-----------------------------------------------------------------------------
(* The theorems.                                                           *)

\* Nothing is stored, asked or shown at first.
LEMMA InitInv == Init => IInv
<1> SUFFICES ASSUME Init PROVE IInv
  OBVIOUS
<1>1. StoreInv
  <2>1. DOMAIN <<>> = {} /\ Len(<<>>) = 0 /\ Started(<<>>) = {} /\ IsFiniteSet({})
    BY FS_EmptySet DEF Started
  <2>2. /\ stage = [k \in Runs |-> "none"] /\ log = [k \in Runs |-> <<>>]
        /\ stored = [k \in Runs |-> 0] /\ learned = [k \in Runs |-> {}] /\ rows = {}
        /\ tests = <<>> /\ failures = <<>> /\ coverage = <<>>
    BY DEF Init, QueriesInit
  <2>3. RunsInv
    BY <2>1, <2>2 DEF RunsInv
  <2>4. TestsInv
    BY <2>1, <2>2 DEF TestsInv
  <2>5. CoverageInv
    BY <2>1, <2>2 DEF CoverageInv
  <2>6. failures \in Seq(Failures)
    BY <2>2
  <2>7. QED
    BY <2>3, <2>4, <2>5, <2>6, StoreParts
<1>2. DOMAIN reader = Readers /\ \A c \in Readers : \A R \in {reader[c]} : ReaderInv(R)
  <2>1. ReaderInv(NoReader)
    <3>1. NoReader.phase = "idle"
      BY DEF NoReader
    <3>2. QED
      BY <3>1 DEF ReaderInv
  <2>2. reader = [c \in Readers |-> NoReader]
    BY DEF Init, QueriesInit
  <2>3. QED
    BY <2>1, <2>2
<1>3. AppInv
  <2>1. ListInv
    BY DEF Init, ListInv
  <2>2. QED
    BY <2>1, DashboardAssumption DEF Init, AppInv
<1>4. QED
  BY <1>1, <1>2, <1>3 DEF IInv

\* Every step preserves the invariant, and leaves the selection where it is.
LEMMA NextInv == ASSUME IInv, [Next]_vars PROVE IInv' /\ Selects
<1>1. /\ StoreInv /\ DOMAIN reader = Readers /\ AppInv
      /\ \A c \in Readers : \A R \in {reader[c]} : ReaderInv(R)
  BY DEF IInv
<1>2. ASSUME StoreInv', Moves, UNCHANGED reader, AppInv', Selects PROVE IInv' /\ Selects
  <2>1. /\ DOMAIN reader' = Readers
        /\ \A c \in Readers : \A R \in {reader'[c]} : ReaderInv(R)'
    BY <1>1, <1>2, ReadersKeep
  <2>2. QED
    BY <1>2, <2>1 DEF IInv
<1>3. CASE StoreNext /\ UNCHANGED <<reader, appVars>>
  <2>1. StoreInv' /\ Moves
    BY <1>1, <1>3, StoreStep
  <2>2. AppInv' /\ Selects
    BY <1>1, <1>3, AppStays
  <2>3. QED
    BY <1>2, <1>3, <2>1, <2>2
<1>4. CASE ReaderNext /\ UNCHANGED appVars
  <2>1. /\ StoreInv' /\ DOMAIN reader' = Readers
        /\ \A c \in Readers : \A R \in {reader'[c]} : ReaderInv(R)'
    BY <1>1, <1>4, ReaderStep
  <2>2. AppInv' /\ Selects
    BY <1>1, <1>4, AppStays
  <2>3. QED
    BY <2>1, <2>2 DEF IInv
<1>5. CASE Open \/ AutoRefreshEmpties \/ LoopNext \/ KeyNext \/ ThreadNext
  <2>1. UNCHANGED <<storeVars, reader>>
    BY <1>5 DEF Open, AutoRefreshEmpties, LoopNext, KeyNext, ThreadNext, AutoRefresh, Receive,
                KeyRefresh, KeyMove, KeyEsc, KeyQuit, KeyOpen, KeyStart,
                OperationEnds, OperationLists, OperationFails
  <2>2. StoreInv' /\ Moves
    BY <1>1, <2>1, StillMoves
  <2>3. AppInv' /\ Selects
    BY <1>1, <1>5, KeyStep, LoopStep
  <2>4. QED
    BY <1>2, <2>1, <2>2, <2>3
<1>6. CASE UNCHANGED vars
  <2>1. UNCHANGED storeVars /\ UNCHANGED reader /\ UNCHANGED appVars
    BY <1>6 DEF vars
  <2>2. StoreInv' /\ Moves /\ AppInv' /\ Selects
    BY <1>1, <2>1, StillMoves, AppStays
  <2>3. QED
    BY <1>2, <2>1, <2>2
<1>7. QED
  BY <1>3, <1>4, <1>5, <1>6 DEF Next

\* The inductive invariant holds in every state of the dashboard, its store and its clients.
THEOREM Invariance == Spec => []IInv
<1>1. Init => IInv
  BY InitInv
<1>2. IInv /\ [Next]_vars => IInv'
  BY NextInv
<1>3. QED
  BY <1>1, <1>2, PTL DEF Spec

\* The tables, the clients and the dashboard stay what they are declared to be, and no
\* cursor of the dashboard is ever outside its list (App::move_down, App::apply_tests).
THEOREM TypeCorrect == Spec => []TypeOK
<1>1. IInv => TypeOK
  <2> SUFFICES ASSUME IInv PROVE TypeOK
    OBVIOUS
  <2>1. StoreTypeOK
    BY DEF IInv, StoreInv
  <2>2. \A c \in Readers : reader[c].phase \in {"idle", "reading", "done", "stuck"}
    BY DEF IInv, ReaderInv
  <2>3. list \in Seq(Listed) /\ index \in Nat /\ index <= Len(list) /\ (index = 0 <=> list = <<>>)
    BY DEF IInv, AppInv, ListInv
  <2>4. \A i \in DOMAIN list : list[i].id \in Tests /\ list[i].status \in StatusNames \cup {None}
    <3>1. \A i \in DOMAIN list : list[i] \in Listed
      BY <2>3
    <3>2. QED
      BY <3>1 DEF Listed
  <2>5. index \in Min({1, Len(list)}) .. Len(list)
    <3>1. Len(list) \in Nat /\ (Len(list) = 0 <=> list = <<>>)
      BY <2>3
    <3>2. Min({1, Len(list)}) = IF 1 <= Len(list) THEN 1 ELSE Len(list)
      BY <3>1, OfTwo
    <3>3. QED
      BY <2>3, <3>1, <3>2
  <2>6. QED
    BY <2>1, <2>2, <2>4, <2>5 DEF TypeOK, IInv, AppInv
<1>2. QED
  BY <1>1, Invariance, PTL

\* What is gone for good disturbs whoever reads it.
LEMMA GoneDisturbs ==
    ASSUME StoreInv, NEW ask \in AllAsks, NEW base, Gone(ask, base)
    PROVE  /\ ask.query # "tests"
           /\ ask.query = "run" => ask.of \notin rows
           /\ ask.query = "trace" => RunRead(ask) # base.run
           /\ ask.query = "coverage" => learned # base.learned
<1>1. ASSUME ask.query = "trace" PROVE RunRead(ask) # base.run
  <2>1. /\ base.run \in Runs
        /\ base.run \notin rows \/ \E k \in With(ask.of) : k > base.run
    BY <1>1 DEF Gone
  <2>2. base.run \in Nat /\ base.run # 0
    BY <2>1, QueriesAssumption DEF Runs
  <2>3. /\ LatestRun(ask.of) \in Nat /\ (LatestRun(ask.of) = 0 \/ LatestRun(ask.of) \in rows)
        /\ \A k \in With(ask.of) : k \in Nat /\ k <= LatestRun(ask.of)
    BY Latest, WithFacts
  <2>4. LatestRun(ask.of) # base.run
    BY <2>1, <2>2, <2>3
  <2>5. QED
    BY <1>1, <2>4 DEF RunRead
<1>2. ask.query = "coverage" => learned # base.learned
  BY DEF Gone
<1>3. QED
  BY <1>1, <1>2 DEF Gone

\* A client that follows cursors to the end has every item that was there when it began, and
\* none twice, while runs are stored, pruned and replace coverage beside it, unless what it
\* reads went away (tests, events_matching, coverage, trace).
THEOREM CursorsReadTheWhole == Spec => []ReadIsWhole
<1>1. IInv => ReadIsWhole
  <2> SUFFICES ASSUME IInv, NEW c \in Readers, NEW R, R = reader[c], R.phase = "done",
                      ~(IsInjective(R.got) /\ R.base.items \subseteq ToSet(R.got))
               PROVE  CASE R.ask.query = "tests" -> FALSE
                        [] R.ask.query = "run" -> R.ask.of \notin rows
                        [] R.ask.query = "trace" -> RunRead(R.ask) # R.base.run
                        [] OTHER -> learned # R.base.learned
    BY DEF ReadIsWhole
  <2>1. ReaderInv(R) /\ StoreInv
    BY DEF IInv
  <2>2. R.ask \in AllAsks /\ Gone(R.ask, R.base)
    BY <2>1, QueriesAssumption DEF ReaderInv
  <2> DEFINE ask == R.ask
             base == R.base
  <2>3. ask \in AllAsks /\ Gone(ask, base)
    BY <2>2
  <2> HIDE DEF ask, base
  <2>4. /\ ask.query # "tests"
        /\ ask.query = "run" => ask.of \notin rows
        /\ ask.query = "trace" => RunRead(ask) # base.run
        /\ ask.query = "coverage" => learned # base.learned
        /\ ask.query \in {"tests", "run", "trace", "coverage"}
    BY <2>1, <2>3, GoneDisturbs, AskKinds
  <2>5. QED
    BY <2>4 DEF ask, base
<1>2. QED
  BY <1>1, Invariance, PTL

\* A client gets stuck in a step that finds the next row alone too large.
LEMMA StuckStep ==
    ASSUME IInv, [Next]_vars, NEW c \in Readers,
           reader[c].phase # "stuck", reader'[c].phase = "stuck"
    PROVE  /\ reader[c].ask.mask # "drops"
           /\ Keys(reader[c].ask, reader[c].cursor) # <<>>
           /\ Large(reader[c].ask, Keys(reader[c].ask, reader[c].cursor)[1])
<1> DEFINE R == reader[c]
           answer == Response(R.ask, R.cursor, R.limit)
<1>1. StoreInv /\ DOMAIN reader = Readers /\ ReaderInv(R)
  BY DEF IInv
<1>2. UNCHANGED reader \/ ReaderNext
  BY DEF Next, vars, Open, AutoRefreshEmpties, LoopNext, KeyNext, ThreadNext, AutoRefresh,
         Receive, KeyRefresh, KeyMove, KeyEsc, KeyQuit, KeyOpen, KeyStart,
         OperationEnds, OperationLists, OperationFails
<1>3. PICK d \in Readers : ReadPage(d) \/ \E ask \in Asks, limit \in Limits : AskFor(d, ask, limit)
  BY <1>2 DEF ReaderNext
<1>4. ASSUME NEW ask \in Asks, NEW limit \in Limits, AskFor(d, ask, limit) PROVE FALSE
  BY <1>1, <1>4 DEF AskFor, NoReader
<1>5. d = c /\ ReadPage(c)
  BY <1>1, <1>3, <1>4 DEF ReadPage
<1>6. R.phase = "reading" /\ DOMAIN R = DOMAIN NoReader
  BY <1>1, <1>5 DEF ReadPage, ReaderInv
<1>7. answer.status = "partial" /\ ~(R.limit > 1)
  <2> DEFINE base == IF R.got = <<>> THEN Base(R.ask) ELSE R.base
             Fewer == [R EXCEPT !.limit = @ - 1, !.base = base]
             More == [R EXCEPT !.got = @ \o [i \in DOMAIN answer.keys |-> Item(R.ask, answer.keys[i])],
                               !.base = base,
                               !.cursor = answer.next,
                               !.phase = IF answer.next = None THEN "done" ELSE "reading"]
  <2>1. Fewer.phase = "reading" /\ More.phase # "stuck"
    BY <1>6 DEF NoReader
  <2>2. reader'[c] = IF answer.status = "partial"
                     THEN IF R.limit > 1 THEN Fewer ELSE [R EXCEPT !.phase = "stuck", !.base = base]
                     ELSE More
    BY <1>1, <1>5 DEF ReadPage
  <2> HIDE DEF Fewer, More, answer
  <2>3. QED
    BY <2>1, <2>2
<1>8. R.ask \in AllAsks /\ R.cursor \in Nat /\ R.limit = 1
  BY <1>1, <1>6, <1>7, QueriesAssumption DEF ReaderInv
<1> HIDE DEF R
<1>9. QED
  BY <1>1, <1>7, <1>8, TooLarge DEF R

\* A client that asks for less when an answer is too large gets on: it only gets stuck at a
\* row that alone is too large and of which its mask drops nothing (enforce_response_limit).
THEOREM OnlyLargeItemsStop == Spec => StuckOnlyOnLargeItems
<1>1. ASSUME IInv, [Next]_vars
      PROVE  [\A c \in Readers : reader[c].phase # "stuck" /\ reader'[c].phase = "stuck" =>
                LET ask == reader[c].ask
                    ahead == Keys(ask, reader[c].cursor)
                IN  ask.mask # "drops" /\ ahead # <<>> /\ Large(ask, ahead[1])]_<<storeVars, reader>>
  BY <1>1, StuckStep
<1>2. QED
  BY <1>1, Invariance, PTL DEF Spec, StuckOnlyOnLargeItems

\* A list that arrives by itself leaves the selection on its test while that is listed,
\* whatever the statuses do to the order (App::apply_tests).
THEOREM SelectionIsKept == Spec => SelectionStays
<1>1. ASSUME IInv, [Next]_vars
      PROVE  [index # 0 /\ list' # list =>
                LET selected == list[index].id
                IN  (\E i \in DOMAIN list' : list'[i].id = selected)
                        => list'[index'].id = selected]_vars
  BY <1>1, NextInv DEF Selects
<1>2. QED
  BY <1>1, Invariance, PTL DEF Spec, SelectionStays
=============================================================================
