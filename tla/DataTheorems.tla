---------------------------- MODULE DataTheorems ----------------------------
(***************************************************************************)
(* Facts about the data the components keep: lists that lose elements,     *)
(* folds over sets and lists, counts, and sums over finite sets.           *)
(* Induction is done by the least counterexample: a nonempty set of        *)
(* numbers has a smallest one.                                             *)
(***************************************************************************)
EXTENDS Filtering, Integers, Functions, FiniteSetsExt, FiniteSetTheorems, SequenceTheorems, TLAPS

\* A nonempty set of natural numbers has a least element.
LEMMA LeastNumber ==
    ASSUME NEW T \in SUBSET Nat, T # {}
    PROVE  \E m \in T : \A n \in T : m <= n
<1>1. PICK m \in T : \A n \in T : ~ (<<n, m>> \in OpToRel(<, Nat))
  BY NatLessThanWellFounded, WFMin, Zenon
<1>2. ASSUME NEW n \in T PROVE m <= n
  <2>1. ~ (<<n, m>> \in OpToRel(<, Nat))
    BY <1>1
  <2>2. ~ (n < m)
    BY <2>1 DEF OpToRel
  <2> QED
    BY <2>2
<1> QED
  BY <1>2

\* Max of a bounded, nonempty set of natural numbers is its largest element.
LEMMA LargestNumber ==
    ASSUME NEW b \in Nat, NEW T \in SUBSET (0 .. b), T # {}
    PROVE  Max(T) \in T /\ \A n \in T : n <= Max(T)
<1> DEFINE below == {n \in Nat : b - n \in T}
<1>1. below \in SUBSET Nat /\ below # {}
  <2>1. PICK x \in T : TRUE
    OBVIOUS
  <2>2. b - x \in below
    OBVIOUS
  <2> QED
    BY <2>2
<1>2. PICK m \in below : \A n \in below : m <= n
  <2> HIDE DEF below
  <2> QED
    BY <1>1, LeastNumber
<1>3. b - m \in T
  OBVIOUS
<1>4. ASSUME NEW n \in T PROVE b - m >= n
  <2>1. b - n \in below
    OBVIOUS
  <2>2. m <= b - n
    BY <1>2, <2>1
  <2>3. m \in Nat /\ n \in Nat
    OBVIOUS
  <2> QED
    BY <2>2, <2>3
<1>5. Max(T) \in T /\ \A n \in T : Max(T) >= n
  BY <1>3, <1>4 DEF Max
<1>6. \A n \in T : n \in Nat
  OBVIOUS
<1> QED
  BY <1>5, <1>6

\* So has a finite, nonempty set of natural numbers.
LEMMA LargestOfFinite ==
    ASSUME NEW T \in SUBSET Nat, IsFiniteSet(T), T # {}
    PROVE  Max(T) \in T /\ \A n \in T : n <= Max(T)
<1> DEFINE Bounded(U) == \E b \in Nat : \A n \in U : n <= b
           bad == {c \in Nat : \E U \in SUBSET T : Cardinality(U) = c /\ ~Bounded(U)}
<1>1. \A U \in SUBSET T : IsFiniteSet(U) /\ Cardinality(U) \in Nat
  BY FS_Subset, FS_CardinalityType
<1>2. bad = {}
  <2> SUFFICES ASSUME bad # {} PROVE FALSE
    OBVIOUS
  <2>1. PICK c \in bad : \A d \in bad : c <= d
    <3>1. bad \in SUBSET Nat
      OBVIOUS
    <3> HIDE DEF bad
    <3> QED
      BY <3>1, LeastNumber
  <2>2. PICK U \in SUBSET T : Cardinality(U) = c /\ ~Bounded(U)
    BY <2>1
  <2>3. PICK x \in U : TRUE
    <3>1. U # {}
      BY <2>2
    <3> QED
      BY <3>1
  <2> DEFINE V == U \ {x}
  <2>4. Cardinality(V) = c - 1 /\ c \in Nat /\ Cardinality(V) \in Nat /\ V \in SUBSET T
    BY <1>1, <2>2, <2>3, FS_RemoveElement
  <2>5. Cardinality(V) \notin bad
    BY <2>1, <2>4
  <2>6. Bounded(V)
    BY <2>4, <2>5
  <2>7. PICK b \in Nat : \A n \in V : n <= b
    BY <2>6
  <2>8. x \in Nat /\ \A n \in U : n \in V \/ n = x
    BY <2>3
  <2>9. b + x \in Nat /\ \A n \in U : n <= b + x
    BY <2>7, <2>8
  <2> QED
    BY <2>2, <2>9
<1>3. PICK b \in Nat : \A n \in T : n <= b
  <2>1. Cardinality(T) \in Nat /\ Cardinality(T) \notin bad
    BY <1>1, <1>2
  <2> QED
    BY <2>1
<1>4. T \in SUBSET (0 .. b)
  BY <1>3
<1> QED
  BY <1>4, LargestNumber

\* Min of two numbers.
LEMMA SmallerOfTwo ==
    ASSUME NEW a \in Nat, NEW b \in Nat
    PROVE  Min({a, b}) = IF a <= b THEN a ELSE b
<1> DEFINE m == IF a <= b THEN a ELSE b
<1>1. m \in {a, b} /\ \A y \in {a, b} : m <= y
  OBVIOUS
<1>2. \A x \in {a, b} : (\A y \in {a, b} : x <= y) => x = m
  OBVIOUS
<1> HIDE DEF m
<1>3. Min({a, b}) = m
  BY <1>1, <1>2 DEF Min
<1> QED
  BY <1>3 DEF m

----------------------------------------------------------------------------

\* p reads s at the increasing places f, all the ones whose elements are in S.
ReadsAt(p, s, S, f) ==
    /\ f \in [1 .. Len(p) -> 1 .. Len(s)]
    /\ \A n \in 1 .. Len(p) : p[n] = s[f[n]] /\ s[f[n]] \in S
    /\ \A m, n \in 1 .. Len(p) : m < n => f[m] < f[n]
    /\ \A i \in 1 .. Len(s) : s[i] \in S => \E n \in 1 .. Len(p) : f[n] = i

\* What Filter returns: the elements that stay, each once, in their order.
LEMMA FilterPlaces ==
    ASSUME NEW T, NEW s \in Seq(T), NEW S
    PROVE  Filter(s, S) \in Seq(T) /\ \E f : ReadsAt(Filter(s, S), s, S, f)
<1> DEFINE kept     == {i \in DOMAIN s : s[i] \in S}
           UpTo(i)  == {j \in kept : j <= i}
           Rank(i)  == Cardinality(UpTo(i))
           N        == Cardinality(kept)
           Place(n) == CHOOSE i \in kept : Rank(i) = n
           rank     == [i \in kept |-> Rank(i)]
           f        == [n \in 1 .. N |-> Place(n)]
<1>1. Len(s) \in Nat /\ DOMAIN s = 1 .. Len(s) /\ \A i \in 1 .. Len(s) : s[i] \in T
  BY LenProperties, ElementOfSeq
<1>2. kept \in SUBSET (1 .. Len(s)) /\ IsFiniteSet(kept) /\ N \in Nat
  <2>1. kept \in SUBSET (1 .. Len(s))
    BY <1>1
  <2>2. IsFiniteSet(1 .. Len(s))
    BY <1>1, FS_Interval
  <2>3. IsFiniteSet(kept)
    BY <2>1, <2>2, FS_Subset
  <2> QED
    BY <2>1, <2>3, FS_CardinalityType
<1>3. \A i \in kept : i \in Nat /\ UpTo(i) \in SUBSET kept /\ i \in UpTo(i)
  BY <1>1, <1>2
<1>4. ASSUME NEW i \in kept
      PROVE  IsFiniteSet(UpTo(i)) /\ Rank(i) \in 1 .. N
  <2> HIDE DEF kept, UpTo
  <2>1. IsFiniteSet(UpTo(i)) /\ Rank(i) <= N
    BY <1>2, <1>3, FS_Subset
  <2>2. Rank(i) \in Nat
    BY <2>1, FS_CardinalityType
  <2>3. Rank(i) # 0
    BY <1>3, <2>1, FS_EmptySet
  <2> QED
    BY <1>2, <2>1, <2>2, <2>3
<1>5. ASSUME NEW i \in kept, NEW j \in kept, i < j
      PROVE  Rank(i) < Rank(j)
  <2>1. UpTo(i) \in SUBSET UpTo(j) /\ j \notin UpTo(i) /\ j \in UpTo(j)
    BY <1>3, <1>5
  <2>2. IsFiniteSet(UpTo(j)) /\ Rank(i) \in Nat /\ Rank(j) \in Nat
    <3> HIDE DEF kept, UpTo, Rank, N
    <3> QED
      BY <1>4
  <2> HIDE DEF UpTo, kept
  <2>3. Rank(i) <= Rank(j) /\ Rank(i) # Rank(j)
    BY <2>1, <2>2, FS_Subset
  <2> QED
    BY <2>2, <2>3
<1>6. \A n \in 1 .. N : \E i \in kept : Rank(i) = n
  <2>1. rank \in [kept -> 1 .. N]
    BY <1>4
  <2>2. ASSUME NEW i \in kept, NEW j \in kept, rank[i] = rank[j]
        PROVE  i = j
    <3>1. Rank(i) = Rank(j)
      BY <2>2
    <3>2. Rank(i) \in Nat /\ Rank(j) \in Nat /\ i \in Nat /\ j \in Nat
      <4> HIDE DEF kept, UpTo, Rank, N
      <4> QED
        BY <1>3, <1>4
    <3> HIDE DEF kept, Rank
    <3> QED
      BY <1>5, <3>1, <3>2
  <2>3. rank \in Injection(kept, 1 .. N)
    <3> HIDE DEF rank, kept
    <3> QED
      BY <2>1, <2>2 DEF Injection, IsInjective
  <2>4. IsFiniteSet(1 .. N) /\ Cardinality(1 .. N) = N
    BY <1>2, FS_Interval
  <2>5. rank \in Surjection(kept, 1 .. N)
    <3> HIDE DEF rank, kept
    <3> QED
      BY <2>3, <2>4, FS_Injection DEF N
  <2>6. \A n \in 1 .. N : \E i \in kept : rank[i] = n
    <3> HIDE DEF rank, kept
    <3> QED
      BY <2>5 DEF Surjection
  <2> QED
    BY <2>6
<1>7. \A n \in 1 .. N : Place(n) \in kept /\ Rank(Place(n)) = n
  <2> HIDE DEF kept, Rank
  <2> QED
    BY <1>6
<1>8. Filter(s, S) = [n \in 1 .. N |-> s[Place(n)]]
  BY DEF Filter
<1>9. Filter(s, S) \in Seq(T) /\ Len(Filter(s, S)) = N
  <2>1. \A n \in 1 .. N : s[Place(n)] \in T
    BY <1>1, <1>2, <1>7
  <2>2. [n \in 1 .. N |-> s[Place(n)]] \in [1 .. N -> T]
    <3> HIDE DEF N, Place
    <3> QED
      BY <2>1
  <2> HIDE DEF N, Place
  <2> QED
    BY <1>2, <1>8, <2>2
<1>10. f \in [1 .. N -> 1 .. Len(s)]
  <2> HIDE DEF kept, N, Place
  <2> QED
    BY <1>2, <1>7
<1>11. \A n \in 1 .. N : Filter(s, S)[n] = s[f[n]] /\ s[f[n]] \in S
  BY <1>7, <1>8
<1>12. ASSUME NEW m \in 1 .. N, NEW n \in 1 .. N, m < n
       PROVE  f[m] < f[n]
  <2>1. f[m] \in kept /\ f[n] \in kept /\ Rank(f[m]) = m /\ Rank(f[n]) = n
    BY <1>7
  <2>2. f[m] \in Nat /\ f[n] \in Nat
    BY <2>1, <1>3
  <2> HIDE DEF f, kept, Rank, N
  <2>3. m \in Nat /\ n \in Nat /\ m # n /\ ~ (n < m)
    BY <1>12
  <2>4. f[m] # f[n]
    BY <2>1, <2>3
  <2>5. ~ (f[n] < f[m])
    BY <1>5, <2>1, <2>3
  <2> QED
    BY <2>2, <2>4, <2>5
<1>13. ASSUME NEW i \in 1 .. Len(s), s[i] \in S
       PROVE  \E n \in 1 .. N : f[n] = i
  <2>1. i \in kept
    BY <1>1, <1>13
  <2>2. Rank(i) \in 1 .. N
    BY <1>4, <2>1
  <2>3. f[Rank(i)] \in kept /\ Rank(f[Rank(i)]) = Rank(i)
    BY <1>7, <2>2
  <2>4. f[Rank(i)] \in Nat /\ i \in Nat
    BY <1>3, <2>1, <2>3
  <2>5. Rank(i) \in Nat
    BY <2>2
  <2> HIDE DEF f, kept, Rank, N
  <2>6. f[Rank(i)] = i
    BY <1>5, <2>1, <2>3, <2>4, <2>5
  <2> QED
    BY <2>2, <2>6
<1> HIDE DEF N, f
<1>14. ReadsAt(Filter(s, S), s, S, f)
  BY <1>9, <1>10, <1>11, <1>12, <1>13, Zenon DEF ReadsAt
<1> QED
  BY <1>9, <1>14

\* Of two ways to read s, the places of the first are those of the second.
LEMMA SamePlaces ==
    ASSUME NEW T, NEW s \in Seq(T), NEW S, NEW p \in Seq(T), NEW q \in Seq(T),
           NEW f, ReadsAt(p, s, S, f), NEW g, ReadsAt(q, s, S, g)
    PROVE  \A n \in 1 .. Len(p) : n \in 1 .. Len(q) /\ g[n] = f[n]
<1> DEFINE Agree(n) == n \in 1 .. Len(q) /\ g[n] = f[n]
           bad == {n \in 1 .. Len(p) : ~Agree(n)}
<1>1. Len(s) \in Nat /\ Len(p) \in Nat /\ Len(q) \in Nat
  BY LenProperties
<1>2. /\ f \in [1 .. Len(p) -> 1 .. Len(s)]
      /\ \A n \in 1 .. Len(p) : s[f[n]] \in S
      /\ \A m, n \in 1 .. Len(p) : m < n => f[m] < f[n]
      /\ \A i \in 1 .. Len(s) : s[i] \in S => \E n \in 1 .. Len(p) : f[n] = i
  BY DEF ReadsAt
<1>3. /\ g \in [1 .. Len(q) -> 1 .. Len(s)]
      /\ \A n \in 1 .. Len(q) : s[g[n]] \in S
      /\ \A m, n \in 1 .. Len(q) : m < n => g[m] < g[n]
      /\ \A i \in 1 .. Len(s) : s[i] \in S => \E n \in 1 .. Len(q) : g[n] = i
  BY DEF ReadsAt
<1>n. /\ \A n \in 1 .. Len(p) : f[n] \in Nat
      /\ \A n \in 1 .. Len(q) : g[n] \in Nat
  <2>1. \A n \in 1 .. Len(p) : f[n] \in 1 .. Len(s)
    BY <1>2
  <2>2. \A n \in 1 .. Len(q) : g[n] \in 1 .. Len(s)
    BY <1>3
  <2>3. 1 .. Len(s) \subseteq Nat
    BY <1>1
  <2> QED
    BY <2>1, <2>2, <2>3
<1> SUFFICES ASSUME bad # {} PROVE FALSE
  OBVIOUS
<1>4. PICK m \in bad : \A n \in bad : m <= n
  <2>1. bad \in SUBSET Nat
    OBVIOUS
  <2> HIDE DEF bad
  <2> QED
    BY <2>1, LeastNumber
<1>5. m \in 1 .. Len(p) /\ ~Agree(m)
  OBVIOUS
<1>6. \A n \in 1 .. Len(p) : n < m => Agree(n)
  <2> SUFFICES ASSUME NEW n \in 1 .. Len(p), n < m, ~Agree(n) PROVE FALSE
    OBVIOUS
  <2>1. n \in bad
    OBVIOUS
  <2>2. m <= n
    BY <1>4, <2>1
  <2> QED
    BY <1>5, <2>2
<1> HIDE DEF bad, Agree
<1>7. PICK b \in 1 .. Len(q) : g[b] = f[m]
  BY <1>2, <1>3, <1>5
<1>8. ~ (b < m)
  <2> SUFFICES ASSUME b < m PROVE FALSE
    OBVIOUS
  <2>1. b \in 1 .. Len(p)
    BY <1>1, <1>5
  <2>2. g[b] = f[b] /\ f[b] < f[m]
    BY <1>2, <1>5, <1>6, <2>1 DEF Agree
  <2>3. f[b] \in Nat
    BY <1>2, <2>1
  <2> QED
    BY <1>7, <2>2, <2>3
<1>9. m \in 1 .. Len(q)
  BY <1>1, <1>5, <1>8
<1>10. PICK a \in 1 .. Len(p) : f[a] = g[m]
  BY <1>2, <1>3, <1>9
<1>11. ~ (a < m)
  <2> SUFFICES ASSUME a < m PROVE FALSE
    OBVIOUS
  <2>1. a \in 1 .. Len(q) /\ g[a] = f[a]
    BY <1>6 DEF Agree
  <2>2. g[a] < g[m] /\ g[a] \in Nat
    BY <1>3, <1>9, <1>n, <2>1
  <2> QED
    BY <1>10, <2>1, <2>2
<1>12. f[m] \in Nat /\ g[m] \in Nat
  BY <1>n, <1>5, <1>9
<1>13. ~ (g[b] < g[m]) /\ ~ (f[a] < f[m])
  <2>1. b = m \/ m < b
    BY <1>1, <1>5, <1>8
  <2>2. a = m \/ m < a
    BY <1>1, <1>5, <1>11
  <2>3. g[b] \in Nat /\ f[a] \in Nat
    BY <1>n
  <2>4. b = m \/ g[m] < g[b]
    BY <1>3, <1>9, <2>1
  <2>5. a = m \/ f[m] < f[a]
    BY <1>2, <1>5, <2>2
  <2> QED
    BY <1>12, <2>3, <2>4, <2>5
<1>14. f[m] = g[m]
  BY <1>7, <1>10, <1>12, <1>13
<1> QED
  BY <1>5, <1>9, <1>14 DEF Agree

\* So a list that reads s in this way is what Filter returns.
LEMMA FilterIs ==
    ASSUME NEW T, NEW s \in Seq(T), NEW S, NEW p \in Seq(T), NEW f, ReadsAt(p, s, S, f)
    PROVE  Filter(s, S) = p
<1> DEFINE q == Filter(s, S)
<1>1. q \in Seq(T)
  BY FilterPlaces
<1>g. PICK g : ReadsAt(q, s, S, g)
  BY FilterPlaces
<1> HIDE DEF q
<1>2. \A n \in 1 .. Len(p) : n \in 1 .. Len(q) /\ g[n] = f[n]
  BY <1>1, <1>g, SamePlaces
<1>3. \A n \in 1 .. Len(q) : n \in 1 .. Len(p) /\ f[n] = g[n]
  BY <1>1, <1>g, SamePlaces
<1>4. Len(p) \in Nat /\ Len(q) \in Nat
  BY <1>1, LenProperties
<1>5. Len(p) = Len(q)
  BY <1>2, <1>3, <1>4
<1>6. \A n \in 1 .. Len(q) : q[n] = p[n]
  BY <1>3, <1>g DEF ReadsAt
<1> QED
  BY <1>1, <1>5, <1>6, SeqEqual DEF q

\* A list of which nothing stays.
LEMMA FilterNone ==
    ASSUME NEW T, NEW s \in Seq(T), NEW S, \A i \in 1 .. Len(s) : s[i] \notin S
    PROVE  Filter(s, S) = <<>>
<1> DEFINE e == <<>>
<1>1. e \in Seq(T) /\ Len(e) = 0
  OBVIOUS
<1>2. ReadsAt(e, s, S, [n \in 1 .. 0 |-> n])
  BY <1>1 DEF ReadsAt
<1> QED
  BY <1>1, <1>2, FilterIs

\* Only the elements of the list matter.
LEMMA FilterSame ==
    ASSUME NEW T, NEW s \in Seq(T), NEW A, NEW B,
           \A i \in 1 .. Len(s) : s[i] \in A <=> s[i] \in B
    PROVE  Filter(s, A) = Filter(s, B)
<1>1. Filter(s, A) \in Seq(T)
  BY FilterPlaces
<1>2. PICK f : ReadsAt(Filter(s, A), s, A, f)
  BY FilterPlaces
<1>3. ReadsAt(Filter(s, A), s, B, f)
  BY <1>2 DEF ReadsAt
<1> QED
  BY <1>1, <1>3, FilterIs

\* Filtering twice is filtering once by both.
LEMMA FilterTwice ==
    ASSUME NEW T, NEW s \in Seq(T), NEW A, NEW B
    PROVE  Filter(Filter(s, A), B) = Filter(s, A \cap B)
<1> DEFINE p == Filter(s, A)
           q == Filter(p, B)
<1>1. p \in Seq(T)
  BY FilterPlaces
<1>f. PICK f : ReadsAt(p, s, A, f)
  BY FilterPlaces
<1> HIDE DEF p
<1>2. q \in Seq(T)
  BY <1>1, FilterPlaces
<1>g. PICK g : ReadsAt(q, p, B, g)
  BY <1>1, FilterPlaces
<1> HIDE DEF q
<1> DEFINE h == [n \in 1 .. Len(q) |-> f[g[n]]]
<1>3. /\ f \in [1 .. Len(p) -> 1 .. Len(s)] /\ g \in [1 .. Len(q) -> 1 .. Len(p)]
      /\ \A n \in 1 .. Len(p) : p[n] = s[f[n]] /\ s[f[n]] \in A
      /\ \A n \in 1 .. Len(q) : q[n] = p[g[n]] /\ p[g[n]] \in B
      /\ \A m, n \in 1 .. Len(p) : m < n => f[m] < f[n]
      /\ \A m, n \in 1 .. Len(q) : m < n => g[m] < g[n]
      /\ \A i \in 1 .. Len(s) : s[i] \in A => \E n \in 1 .. Len(p) : f[n] = i
      /\ \A i \in 1 .. Len(p) : p[i] \in B => \E n \in 1 .. Len(q) : g[n] = i
  BY <1>f, <1>g DEF ReadsAt
<1>4. h \in [1 .. Len(q) -> 1 .. Len(s)]
  BY <1>3
<1>5. \A n \in 1 .. Len(q) : q[n] = s[h[n]] /\ s[h[n]] \in A \cap B
  BY <1>3
<1>6. \A m, n \in 1 .. Len(q) : m < n => h[m] < h[n]
  BY <1>3
<1>7. ASSUME NEW i \in 1 .. Len(s), s[i] \in A \cap B
      PROVE  \E n \in 1 .. Len(q) : h[n] = i
  <2>1. PICK j \in 1 .. Len(p) : f[j] = i
    BY <1>3, <1>7
  <2>2. p[j] \in B
    BY <1>3, <1>7, <2>1
  <2>3. PICK n \in 1 .. Len(q) : g[n] = j
    BY <1>3, <2>2
  <2> QED
    BY <2>1, <2>3
<1> HIDE DEF h
<1>8. ReadsAt(q, s, A \cap B, h)
  BY <1>4, <1>5, <1>6, <1>7 DEF ReadsAt
<1>9. Filter(s, A \cap B) = q
  BY <1>2, <1>8, FilterIs
<1> QED
  BY <1>9 DEF p, q

\* Filtering takes a list apart where it was put together.
LEMMA FilterConcat ==
    ASSUME NEW T, NEW s \in Seq(T), NEW t \in Seq(T), NEW S
    PROVE  Filter(s \o t, S) = Filter(s, S) \o Filter(t, S)
<1> DEFINE p == Filter(s, S)
           q == Filter(t, S)
           st == s \o t
           pq == p \o q
<1>1. p \in Seq(T) /\ q \in Seq(T)
  BY FilterPlaces
<1>f. PICK f : ReadsAt(p, s, S, f)
  BY FilterPlaces
<1>g. PICK g : ReadsAt(q, t, S, g)
  BY FilterPlaces
<1> HIDE DEF p, q
<1>2. Len(s) \in Nat /\ Len(t) \in Nat /\ Len(p) \in Nat /\ Len(q) \in Nat
  BY <1>1, LenProperties
<1>3. /\ st \in Seq(T) /\ Len(st) = Len(s) + Len(t)
      /\ \A i \in 1 .. Len(s) + Len(t) : st[i] = IF i <= Len(s) THEN s[i] ELSE t[i - Len(s)]
  BY ConcatProperties
<1>4. /\ pq \in Seq(T) /\ Len(pq) = Len(p) + Len(q)
      /\ \A i \in 1 .. Len(p) + Len(q) : pq[i] = IF i <= Len(p) THEN p[i] ELSE q[i - Len(p)]
  BY <1>1, ConcatProperties
<1> HIDE DEF st, pq
<1> DEFINE h == [n \in 1 .. Len(pq) |-> IF n <= Len(p) THEN f[n] ELSE Len(s) + g[n - Len(p)]]
<1>5. /\ f \in [1 .. Len(p) -> 1 .. Len(s)] /\ g \in [1 .. Len(q) -> 1 .. Len(t)]
      /\ \A n \in 1 .. Len(p) : p[n] = s[f[n]] /\ s[f[n]] \in S
      /\ \A n \in 1 .. Len(q) : q[n] = t[g[n]] /\ t[g[n]] \in S
      /\ \A m, n \in 1 .. Len(p) : m < n => f[m] < f[n]
      /\ \A m, n \in 1 .. Len(q) : m < n => g[m] < g[n]
      /\ \A i \in 1 .. Len(s) : s[i] \in S => \E n \in 1 .. Len(p) : f[n] = i
      /\ \A i \in 1 .. Len(t) : t[i] \in S => \E n \in 1 .. Len(q) : g[n] = i
  BY <1>f, <1>g DEF ReadsAt
<1>6. ASSUME NEW n \in 1 .. Len(pq)
      PROVE  \/ /\ n \in 1 .. Len(p) /\ h[n] = f[n] /\ f[n] \in 1 .. Len(s) /\ pq[n] = p[n]
                /\ h[n] \in 1 .. Len(st) /\ st[h[n]] = s[f[n]]
             \/ /\ n - Len(p) \in 1 .. Len(q) /\ h[n] = Len(s) + g[n - Len(p)] /\ n > Len(p)
                /\ g[n - Len(p)] \in 1 .. Len(t) /\ pq[n] = q[n - Len(p)]
                /\ h[n] \in 1 .. Len(st) /\ st[h[n]] = t[g[n - Len(p)]]
  <2>1. CASE n <= Len(p)
    <3>n. n \in 1 .. Len(p) /\ n \in 1 .. Len(p) + Len(q)
      BY <1>2, <1>4, <2>1
    <3>1. n \in 1 .. Len(p) /\ h[n] = f[n] /\ f[n] \in 1 .. Len(s) /\ pq[n] = p[n]
      <4>1. h[n] = f[n]
        BY <2>1
      <4>2. f[n] \in 1 .. Len(s)
        BY <1>5, <3>n
      <4>3. pq[n] = p[n]
        BY <1>4, <2>1, <3>n
      <4> QED
        BY <3>n, <4>1, <4>2, <4>3
    <3>2. f[n] \in 1 .. Len(s) + Len(t) /\ f[n] <= Len(s)
      BY <1>2, <3>1
    <3> QED
      BY <1>3, <3>1, <3>2
  <2>2. CASE ~ (n <= Len(p))
    <3>1. n \in Nat /\ n > Len(p) /\ n - Len(p) \in 1 .. Len(q)
      BY <1>2, <1>4, <2>2
    <3>2. g[n - Len(p)] \in 1 .. Len(t) /\ h[n] = Len(s) + g[n - Len(p)]
      BY <1>5, <2>2, <3>1
    <3>3. pq[n] = q[n - Len(p)]
      BY <1>4, <2>2
    <3>4. h[n] \in 1 .. Len(s) + Len(t) /\ ~ (h[n] <= Len(s)) /\ h[n] - Len(s) = g[n - Len(p)]
      BY <1>2, <3>2
    <3>5. st[h[n]] = t[h[n] - Len(s)]
      BY <1>3, <3>4
    <3> QED
      BY <1>3, <3>1, <3>2, <3>3, <3>4, <3>5
  <2> QED
    BY <2>1, <2>2
<1>7. h \in [1 .. Len(pq) -> 1 .. Len(st)]
  <2>1. \A n \in 1 .. Len(pq) : h[n] \in 1 .. Len(st)
    BY <1>6
  <2> QED
    BY <2>1
<1> HIDE DEF h
<1>8. ASSUME NEW n \in 1 .. Len(pq)
      PROVE  pq[n] = st[h[n]] /\ st[h[n]] \in S
  <2>1. CASE n \in 1 .. Len(p) /\ pq[n] = p[n] /\ st[h[n]] = s[f[n]]
    BY <1>5, <2>1
  <2>2. CASE n - Len(p) \in 1 .. Len(q) /\ pq[n] = q[n - Len(p)] /\ st[h[n]] = t[g[n - Len(p)]]
    <3> DEFINE m == n - Len(p)
    <3>1. m \in 1 .. Len(q) /\ pq[n] = q[m] /\ st[h[n]] = t[g[m]]
      BY <2>2
    <3> HIDE DEF m
    <3> QED
      BY <1>5, <3>1
  <2> QED
    BY <1>6, <2>1, <2>2
<1>9. ASSUME NEW m \in 1 .. Len(pq), NEW n \in 1 .. Len(pq), m < n
      PROVE  h[m] < h[n]
  <2>1. m \in Nat /\ n \in Nat /\ h[m] \in Nat /\ h[n] \in Nat
    <3>1. h[m] \in 1 .. Len(st) /\ h[n] \in 1 .. Len(st)
      BY <1>7
    <3>2. 1 .. Len(pq) \subseteq Nat /\ 1 .. Len(st) \subseteq Nat
      BY <1>2, <1>3, <1>4
    <3> QED
      BY <3>1, <3>2
  <2>2. CASE n \in 1 .. Len(p) /\ h[n] = f[n]
    <3>1. m \in 1 .. Len(p) /\ ~ (m > Len(p))
      BY <1>2, <1>9, <2>1, <2>2
    <3>2. h[m] = f[m]
      BY <1>6, <3>1
    <3> QED
      BY <1>5, <1>9, <2>2, <3>1, <3>2
  <2>3. CASE /\ n - Len(p) \in 1 .. Len(q) /\ h[n] = Len(s) + g[n - Len(p)]
             /\ g[n - Len(p)] \in 1 .. Len(t)
    <3>1. CASE m \in 1 .. Len(p) /\ h[m] = f[m] /\ f[m] \in 1 .. Len(s)
      BY <1>2, <2>3, <3>1
    <3>2. CASE /\ m - Len(p) \in 1 .. Len(q) /\ h[m] = Len(s) + g[m - Len(p)]
               /\ g[m - Len(p)] \in 1 .. Len(t)
      <4>1. m - Len(p) < n - Len(p)
        BY <1>2, <1>9, <2>1
      <4>2. g[m - Len(p)] < g[n - Len(p)]
        BY <1>5, <2>3, <3>2, <4>1
      <4> QED
        BY <1>2, <2>3, <3>2, <4>2
    <3> QED
      BY <1>6, <3>1, <3>2
  <2> QED
    BY <1>6, <2>2, <2>3
<1>10. ASSUME NEW i \in 1 .. Len(st), st[i] \in S
       PROVE  \E n \in 1 .. Len(pq) : h[n] = i
  <2>1. CASE i <= Len(s)
    <3>1. i \in 1 .. Len(s) /\ st[i] = s[i]
      BY <1>2, <1>3, <2>1
    <3>2. PICK n \in 1 .. Len(p) : f[n] = i
      BY <1>5, <1>10, <3>1
    <3>3. n \in 1 .. Len(pq) /\ ~ (n > Len(p))
      BY <1>2, <1>4
    <3> QED
      BY <1>6, <3>2, <3>3
  <2>2. CASE ~ (i <= Len(s))
    <3>1. i - Len(s) \in 1 .. Len(t) /\ st[i] = t[i - Len(s)] /\ i \in Nat
      BY <1>2, <1>3, <2>2
    <3>2. PICK n \in 1 .. Len(q) : g[n] = i - Len(s)
      BY <1>5, <1>10, <3>1
    <3>3. Len(p) + n \in 1 .. Len(pq) /\ ~ (Len(p) + n \in 1 .. Len(p)) /\ Len(p) + n - Len(p) = n
      BY <1>2, <1>4
    <3>4. h[Len(p) + n] = Len(s) + g[n]
      BY <1>6, <3>3
    <3>5. h[Len(p) + n] = i
      BY <1>2, <3>1, <3>2, <3>4
    <3> QED
      BY <3>3, <3>5
  <2> QED
    BY <2>1, <2>2
<1>11. ReadsAt(pq, st, S, h)
  BY <1>7, <1>8, <1>9, <1>10 DEF ReadsAt
<1>12. Filter(st, S) = pq
  BY <1>3, <1>4, <1>11, FilterIs
<1> QED
  BY <1>12 DEF st, pq, p, q

\* A list of one element.
LEMMA FilterOne ==
    ASSUME NEW T, NEW x \in T, NEW S
    PROVE  Filter(<<x>>, S) = IF x \in S THEN <<x>> ELSE <<>>
<1>1. <<x>> \in Seq(T) /\ Len(<<x>>) = 1 /\ <<x>>[1] = x
  OBVIOUS
<1>2. CASE x \in S
  <2> DEFINE s == <<x>>
  <2>1. s \in Seq(T) /\ Len(s) = 1 /\ s[1] = x
    BY <1>1
  <2> HIDE DEF s
  <2>2. ReadsAt(s, s, S, [n \in 1 .. 1 |-> n])
    BY <1>2, <2>1 DEF ReadsAt
  <2>3. Filter(s, S) = s
    BY <2>1, <2>2, FilterIs
  <2> QED
    BY <1>2, <2>3 DEF s
<1>3. CASE x \notin S
  <2> DEFINE s == <<x>>
  <2>1. s \in Seq(T) /\ \A i \in 1 .. Len(s) : s[i] = x
    BY <1>1
  <2> HIDE DEF s
  <2>2. Filter(s, S) = <<>>
    BY <1>3, <2>1, FilterNone
  <2> QED
    BY <1>3, <2>2 DEF s
<1> QED
  BY <1>2, <1>3

\* A list that gains an element at its end.
LEMMA FilterAppend ==
    ASSUME NEW T, NEW s \in Seq(T), NEW x \in T, NEW S
    PROVE  Filter(Append(s, x), S) = IF x \in S THEN Append(Filter(s, S), x) ELSE Filter(s, S)
<1> DEFINE p == Filter(s, S)
<1>1. <<x>> \in Seq(T) /\ p \in Seq(T)
  BY FilterPlaces
<1>2. Append(s, x) = s \o <<x>>
  BY AppendIsConcat
<1>3. Filter(s \o <<x>>, S) = p \o Filter(<<x>>, S)
  <2> DEFINE one == <<x>>
  <2>1. one \in Seq(T)
    BY <1>1
  <2> HIDE DEF one
  <2>2. Filter(s \o one, S) = p \o Filter(one, S)
    BY <2>1, FilterConcat
  <2> QED
    BY <2>2 DEF one
<1>4. Filter(<<x>>, S) = IF x \in S THEN <<x>> ELSE <<>>
  BY FilterOne
<1> HIDE DEF p
<1>5. p \o <<x>> = Append(p, x) /\ p \o <<>> = p
  BY <1>1, AppendIsConcat, ConcatEmptySeq
<1> QED
  BY <1>2, <1>3, <1>4, <1>5 DEF p

\* As many elements stay as there are places that hold one of them.
LEMMA FilterCounts ==
    ASSUME NEW T, NEW s \in Seq(T), NEW S
    PROVE  Len(Filter(s, S)) = Cardinality({i \in 1 .. Len(s) : s[i] \in S})
<1> DEFINE kept == {i \in 1 .. Len(s) : s[i] \in S}
<1>1. Len(s) \in Nat /\ DOMAIN s = 1 .. Len(s)
  BY LenProperties
<1>2. IsFiniteSet(kept)
  <2>1. IsFiniteSet(1 .. Len(s))
    BY <1>1, FS_Interval
  <2>2. kept \subseteq 1 .. Len(s)
    OBVIOUS
  <2> QED
    BY <2>1, <2>2, FS_Subset
<1>3. Cardinality(kept) \in Nat
  BY <1>2, FS_CardinalityType
<1>4. DOMAIN Filter(s, S) = 1 .. Cardinality(kept)
  BY <1>1 DEF Filter
<1>5. Filter(s, S) \in Seq(T)
  BY FilterPlaces
<1> HIDE DEF kept
<1>6. Len(Filter(s, S)) \in Nat /\ 1 .. Len(Filter(s, S)) = 1 .. Cardinality(kept)
  BY <1>4, <1>5, LenProperties
<1>7. Len(Filter(s, S)) = Cardinality(kept)
  BY <1>3, <1>6
<1> QED
  BY <1>7 DEF kept

\* What a list ends with stays.
LEMMA FilterEnd ==
    ASSUME NEW T, NEW s \in Seq(T), NEW S, NEW a \in 1 .. Len(s),
           \A i \in a .. Len(s) : s[i] \in S
    PROVE  Len(Filter(s, S)) >= Len(s) - a + 1
<1> DEFINE kept == {i \in 1 .. Len(s) : s[i] \in S}
<1>1. Len(s) \in Nat /\ a \in Nat
  BY LenProperties
<1>2. IsFiniteSet(kept)
  <2>1. IsFiniteSet(1 .. Len(s))
    BY <1>1, FS_Interval
  <2>2. kept \subseteq 1 .. Len(s)
    OBVIOUS
  <2> QED
    BY <2>1, <2>2, FS_Subset
<1>3. a .. Len(s) \subseteq kept
  BY <1>1
<1>4. Cardinality(a .. Len(s)) = Len(s) - a + 1
  BY <1>1, FS_Interval
<1>5. Len(Filter(s, S)) = Cardinality(kept)
  BY FilterCounts
<1> HIDE DEF kept
<1>6. Cardinality(a .. Len(s)) <= Cardinality(kept) /\ Cardinality(kept) \in Nat
  BY <1>2, <1>3, FS_Subset, FS_CardinalityType
<1> QED
  BY <1>1, <1>4, <1>5, <1>6

\* A list in ascending order, up to a bound.
Ascending(s, n) ==
    /\ s \in Seq(Nat)
    /\ \A i \in 1 .. Len(s) : s[i] <= n
    /\ \A i, j \in 1 .. Len(s) : i < j => s[i] <= s[j]

\* What is filtered out of such a list is one again.
LEMMA FilterAscending ==
    ASSUME NEW s, NEW n \in Nat, Ascending(s, n), NEW S
    PROVE  Ascending(Filter(s, S), n)
<1> DEFINE p == Filter(s, S)
<1>1. s \in Seq(Nat)
  BY DEF Ascending
<1>2. p \in Seq(Nat)
  BY <1>1, FilterPlaces
<1>f. PICK f : ReadsAt(p, s, S, f)
  BY <1>1, FilterPlaces
<1> HIDE DEF p
<1>3. /\ f \in [1 .. Len(p) -> 1 .. Len(s)]
      /\ \A i \in 1 .. Len(p) : p[i] = s[f[i]]
      /\ \A i, j \in 1 .. Len(p) : i < j => f[i] < f[j]
  BY <1>f DEF ReadsAt
<1>4. \A i \in 1 .. Len(p) : p[i] <= n
  BY <1>3 DEF Ascending
<1>5. \A i, j \in 1 .. Len(p) : i < j => p[i] <= p[j]
  BY <1>3 DEF Ascending
<1> QED
  BY <1>2, <1>4, <1>5 DEF Ascending, p

\* The present can be put behind such a list.
LEMMA AppendAscending ==
    ASSUME NEW s, NEW n \in Nat, Ascending(s, n)
    PROVE  Ascending(Append(s, n), n)
<1>1. s \in Seq(Nat) /\ Len(s) \in Nat
  BY LenProperties DEF Ascending
<1>2. /\ Append(s, n) \in Seq(Nat) /\ Len(Append(s, n)) = Len(s) + 1
      /\ \A i \in 1 .. Len(s) : Append(s, n)[i] = s[i]
      /\ Append(s, n)[Len(s) + 1] = n
  BY <1>1, AppendProperties
<1> DEFINE a == Append(s, n)
<1> HIDE DEF a
<1>3. \A i \in 1 .. Len(s) + 1 : i \in 1 .. Len(s) \/ i = Len(s) + 1
  BY <1>1
<1>4. \A i \in 1 .. Len(s) : s[i] <= n /\ s[i] \in Nat
  BY <1>1 DEF Ascending
<1>5. \A i \in 1 .. Len(a) : a[i] <= n
  BY <1>2, <1>3, <1>4 DEF a
<1>6. ASSUME NEW i \in 1 .. Len(a), NEW j \in 1 .. Len(a), i < j
      PROVE  a[i] <= a[j]
  <2>1. i \in 1 .. Len(s)
    BY <1>1, <1>2, <1>6 DEF a
  <2>2. CASE j \in 1 .. Len(s)
    BY <1>2, <1>6, <2>1, <2>2 DEF Ascending, a
  <2>3. CASE j = Len(s) + 1
    BY <1>2, <1>4, <2>1, <2>3 DEF a
  <2> QED
    BY <1>2, <1>3, <2>2, <2>3 DEF a
<1> QED
  BY <1>2, <1>5, <1>6 DEF Ascending, a

\* A list in two parts.
LEMMA SplitAt ==
    ASSUME NEW T, NEW s \in Seq(T), NEW n \in 0 .. Len(s)
    PROVE  /\ SubSeq(s, 1, n) \in Seq(T) /\ Len(SubSeq(s, 1, n)) = n
           /\ SubSeq(s, n + 1, Len(s)) \in Seq(T) /\ Len(SubSeq(s, n + 1, Len(s))) = Len(s) - n
           /\ s = SubSeq(s, 1, n) \o SubSeq(s, n + 1, Len(s))
<1>1. Len(s) \in Nat /\ n \in Nat
  BY LenProperties
<1>2. \A i \in 1 .. Len(s) : s[i] \in T
  BY ElementOfSeq
<1>3. \A i \in 1 .. n : s[i] \in T
  BY <1>1, <1>2
<1>4. \A i \in n + 1 .. Len(s) : s[i] \in T
  BY <1>1, <1>2
<1>5. SubSeq(s, 1, n) \in Seq(T) /\ Len(SubSeq(s, 1, n)) = n
  <2>1. /\ SubSeq(s, 1, n) \in Seq(T)
        /\ Len(SubSeq(s, 1, n)) = IF 1 <= n THEN n - 1 + 1 ELSE 0
    BY <1>1, <1>3, SubSeqProperties
  <2> QED
    BY <1>1, <2>1
<1>6. SubSeq(s, n + 1, Len(s)) \in Seq(T) /\ Len(SubSeq(s, n + 1, Len(s))) = Len(s) - n
  <2> DEFINE m == n + 1
  <2>1. m \in Int
    BY <1>1
  <2>2. \A i \in m .. Len(s) : s[i] \in T
    BY <1>4
  <2> HIDE DEF m
  <2>3. /\ SubSeq(s, m, Len(s)) \in Seq(T)
        /\ Len(SubSeq(s, m, Len(s))) = IF m <= Len(s) THEN Len(s) - m + 1 ELSE 0
    BY <1>1, <2>1, <2>2, SubSeqProperties
  <2> QED
    BY <1>1, <2>3 DEF m
<1>7. SubSeq(s, 1, n) \o SubSeq(s, n + 1, Len(s)) = SubSeq(s, 1, Len(s))
  <2>1. 1 \in 1 .. Len(s) + 1 /\ n \in 1 - 1 .. Len(s) /\ Len(s) \in n .. Len(s)
    BY <1>1
  <2> QED
    BY <2>1, ConcatAdjacentSubSeq
<1> QED
  BY <1>5, <1>6, <1>7, SubSeqFull

\* What is before the end of a list.
LEMMA BeforeEnd ==
    ASSUME NEW T, NEW y \in Seq(T), NEW x \in Seq(T)
    PROVE  SubSeq(y \o x, 1, Len(y \o x) - Len(x)) = y
<1>1. Len(y) \in Nat /\ Len(x) \in Nat
  BY LenProperties
<1>2. /\ y \o x \in Seq(T) /\ Len(y \o x) = Len(y) + Len(x)
      /\ \A i \in 1 .. Len(y) + Len(x) : (y \o x)[i] = IF i <= Len(y) THEN y[i] ELSE x[i - Len(y)]
  BY ConcatProperties
<1> DEFINE s == y \o x
           p == SubSeq(s, 1, Len(y))
<1>3. Len(s) - Len(x) = Len(y) /\ Len(y) \in 0 .. Len(s)
  BY <1>1, <1>2
<1>4. \A i \in 1 .. Len(y) : s[i] = y[i]
  BY <1>1, <1>2
<1>5. s \in Seq(T)
  BY <1>2
<1> HIDE DEF s
<1>6. p \in Seq(T) /\ Len(p) = Len(y)
  BY <1>3, <1>5, SplitAt
<1>7. \A i \in 1 .. Len(y) : p[i] = s[i]
  <2>1. \A i \in 1 .. Len(y) : s[i] \in T
    BY <1>4, ElementOfSeq
  <2>2. \A i \in 1 .. Len(y) - 1 + 1 : SubSeq(s, 1, Len(y))[i] = s[1 + i - 1]
    BY <1>1, <2>1, SubSeqProperties
  <2> QED
    BY <1>1, <2>2
<1> HIDE DEF p
<1>8. p = y
  BY <1>4, <1>6, <1>7, SeqEqual
<1> QED
  BY <1>3, <1>8 DEF s, p

----------------------------------------------------------------------------

\* The element that the folds of the library take first.
Chosen(T) == CHOOSE x \in T : TRUE

\* g is the table of the totals of w over the subsets of S.
IsTable(g, w, S) ==
    /\ g \in [SUBSET S -> Nat]
    /\ \A T \in SUBSET S : g[T] = IF T = {} THEN 0 ELSE w[Chosen(T)] + g[T \ {Chosen(T)}]

\* Removing the element a fold takes first leaves a smaller set.
LEMMA ChosenSmaller ==
    ASSUME NEW S, IsFiniteSet(S), NEW T \in SUBSET S, T # {}
    PROVE  /\ Chosen(T) \in T /\ T \ {Chosen(T)} \in SUBSET S
           /\ IsFiniteSet(T) /\ Cardinality(T) \in Nat \ {0}
           /\ Cardinality(T \ {Chosen(T)}) = Cardinality(T) - 1
<1>1. Chosen(T) \in T
  BY DEF Chosen
<1>2. IsFiniteSet(T)
  BY FS_Subset
<1>3. Cardinality(T) \in Nat /\ Cardinality(T) # 0
  BY <1>2, FS_CardinalityType, FS_EmptySet
<1> QED
  BY <1>1, <1>2, <1>3, FS_RemoveElement

\* The totals of natural numbers over the subsets of a finite set exist.
LEMMA TableExists ==
    ASSUME NEW S, IsFiniteSet(S), NEW w, \A x \in S : w[x] \in Nat
    PROVE  \E g : IsTable(g, w, S)
<1> DEFINE Row(g, T) == g[T] = IF T = {} THEN 0 ELSE w[Chosen(T)] + g[T \ {Chosen(T)}]
           UpTo(n)   == \E g \in [SUBSET S -> Nat] :
                           \A T \in SUBSET S : Cardinality(T) <= n => Row(g, T)
           bad       == {n \in Nat : ~ UpTo(n)}
<1>1. \A T \in SUBSET S : Cardinality(T) \in Nat /\ Cardinality(T) <= Cardinality(S)
  BY FS_Subset, FS_CardinalityType
<1>2. UpTo(0)
  <2>1. [T \in SUBSET S |-> 0] \in [SUBSET S -> Nat]
    OBVIOUS
  <2>2. \A T \in SUBSET S : Cardinality(T) <= 0 => T = {}
    BY <1>1, FS_Subset, FS_EmptySet
  <2> QED
    BY <2>1, <2>2
<1>3. ASSUME NEW n \in Nat, UpTo(n)
      PROVE  UpTo(n + 1)
  <2>1. PICK g \in [SUBSET S -> Nat] : \A T \in SUBSET S : Cardinality(T) <= n => Row(g, T)
    BY <1>3
  <2> DEFINE h == [T \in SUBSET S |-> IF Cardinality(T) = n + 1
                                        THEN w[Chosen(T)] + g[T \ {Chosen(T)}] ELSE g[T]]
  <2>2. ASSUME NEW T \in SUBSET S, Cardinality(T) = n + 1
        PROVE  T # {} /\ w[Chosen(T)] + g[T \ {Chosen(T)}] \in Nat
    <3>1. T # {}
      <4>1. Cardinality({}) = 0 /\ n + 1 # 0
        BY FS_EmptySet
      <4> QED
        BY <2>2, <4>1
    <3>2. Chosen(T) \in S /\ T \ {Chosen(T)} \in SUBSET S
      BY <3>1, ChosenSmaller
    <3>3. w[Chosen(T)] \in Nat /\ g[T \ {Chosen(T)}] \in Nat
      BY <3>2
    <3> QED
      BY <3>1, <3>3
  <2>3. h \in [SUBSET S -> Nat]
    BY <2>2
  <2>4. ASSUME NEW T \in SUBSET S, Cardinality(T) <= n + 1
        PROVE  Row(h, T)
    <3>1. CASE Cardinality(T) = n + 1
      <4>1. T # {}
        BY <2>2, <3>1
      <4>2. T \ {Chosen(T)} \in SUBSET S /\ Cardinality(T \ {Chosen(T)}) = n
        BY <4>1, <3>1, ChosenSmaller
      <4>3. h[T] = w[Chosen(T)] + g[T \ {Chosen(T)}]
        BY <3>1
      <4>4. h[T \ {Chosen(T)}] = g[T \ {Chosen(T)}]
        <5>1. n # n + 1
          OBVIOUS
        <5> QED
          BY <4>2, <5>1
      <4> QED
        BY <4>1, <4>3, <4>4
    <3>2. CASE Cardinality(T) # n + 1
      <4>1. Cardinality(T) <= n /\ h[T] = g[T]
        BY <1>1, <2>4, <3>2
      <4>2. Row(g, T)
        BY <2>1, <4>1
      <4>3. CASE T = {}
        BY <4>1, <4>2, <4>3
      <4>4. CASE T # {}
        <5>1. T \ {Chosen(T)} \in SUBSET S /\ Cardinality(T \ {Chosen(T)}) # n + 1
          BY <4>1, <4>4, ChosenSmaller
        <5>2. h[T \ {Chosen(T)}] = g[T \ {Chosen(T)}]
          BY <5>1
        <5> QED
          BY <4>1, <4>2, <5>2
      <4> QED
        BY <4>3, <4>4
    <3> QED
      BY <3>1, <3>2
  <2> HIDE DEF h, Row
  <2> QED
    BY <2>3, <2>4
<1>4. bad = {}
  <2> SUFFICES ASSUME bad # {} PROVE FALSE
    OBVIOUS
  <2>1. bad \in SUBSET Nat
    OBVIOUS
  <2>2. PICK m \in bad : \A n \in bad : m <= n
    <3> HIDE DEF bad
    <3> QED
      BY <2>1, LeastNumber
  <2> HIDE DEF UpTo
  <2>3. m \in Nat /\ m # 0
    BY <1>2
  <2>4. m - 1 \in Nat /\ UpTo(m - 1)
    BY <2>2, <2>3
  <2>5. (m - 1) + 1 = m
    BY <2>3
  <2>6. UpTo(m)
    BY <1>3, <2>4, <2>5
  <2> QED
    BY <2>6
<1>5. Cardinality(S) \in Nat
  BY FS_CardinalityType
<1>6. UpTo(Cardinality(S))
  <2> HIDE DEF UpTo
  <2> QED
    BY <1>4, <1>5
<1> QED
  BY <1>1, <1>6 DEF IsTable

\* There is one such table.
LEMMA TableUnique ==
    ASSUME NEW S, IsFiniteSet(S), NEW w,
           NEW g, g = [T \in SUBSET S |->
                         IF T = {} THEN 0 ELSE w[Chosen(T)] + g[T \ {Chosen(T)}]],
           NEW h, IsTable(h, w, S)
    PROVE  g = h
<1> DEFINE bad == {n \in Nat : \E T \in SUBSET S : Cardinality(T) = n /\ g[T] # h[T]}
<1>1. h = [T \in SUBSET S |-> h[T]] /\ g = [T \in SUBSET S |-> g[T]]
  BY DEF IsTable
<1>2. \A T \in SUBSET S : Cardinality(T) \in Nat
  BY FS_Subset, FS_CardinalityType
<1>3. bad = {}
  <2> SUFFICES ASSUME bad # {} PROVE FALSE
    OBVIOUS
  <2>1. bad \in SUBSET Nat
    OBVIOUS
  <2>2. PICK m \in bad : \A n \in bad : m <= n
    <3> HIDE DEF bad
    <3> QED
      BY <2>1, LeastNumber
  <2>3. PICK T \in SUBSET S : Cardinality(T) = m /\ g[T] # h[T]
    OBVIOUS
  <2>4. T # {}
    BY <2>3 DEF IsTable
  <2>5. T \ {Chosen(T)} \in SUBSET S /\ Cardinality(T \ {Chosen(T)}) = m - 1 /\ m \in Nat \ {0}
    BY <2>3, <2>4, ChosenSmaller
  <2>6. g[T \ {Chosen(T)}] = h[T \ {Chosen(T)}]
    <3>1. m - 1 \in Nat /\ ~ (m <= m - 1)
      BY <2>5
    <3>2. m - 1 \notin bad
      BY <2>2, <3>1
    <3> QED
      BY <2>5, <3>1, <3>2
  <2>7. g[T] = w[Chosen(T)] + g[T \ {Chosen(T)}]
    BY <2>4
  <2>8. h[T] = w[Chosen(T)] + h[T \ {Chosen(T)}]
    BY <2>4 DEF IsTable
  <2> QED
    BY <2>3, <2>6, <2>7, <2>8
<1>4. \A T \in SUBSET S : g[T] = h[T]
  BY <1>2, <1>3
<1> QED
  BY <1>1, <1>4

\* The library's sum is what the table says.
LEMMA SumFromTable ==
    ASSUME NEW S, IsFiniteSet(S), NEW w, NEW h, IsTable(h, w, S)
    PROVE  SumFunctionOnSet(w, S) = h[S]
<1> DEFINE Eq(g) == g = [T \in SUBSET S |->
                           IF T = {} THEN 0 ELSE w[Chosen(T)] + g[T \ {Chosen(T)}]]
<1>1. SumFunctionOnSet(w, S) = (CHOOSE g : Eq(g))[S]
  BY DEF SumFunctionOnSet, FoldFunctionOnSet, MapThenFoldSet, Chosen
<1>2. Eq(h)
  BY DEF IsTable
<1>3. Eq(CHOOSE g : Eq(g))
  <2> HIDE DEF Eq
  <2> QED
    BY <1>2
<1>4. (CHOOSE g : Eq(g)) = h
  BY <1>3, TableUnique
<1> QED
  BY <1>1, <1>4

\* In a table any element may be taken first.
LEMMA TableAnyOrder ==
    ASSUME NEW S, IsFiniteSet(S), NEW w, \A x \in S : w[x] \in Nat, NEW g, IsTable(g, w, S),
           NEW T \in SUBSET S, NEW x \in T
    PROVE  g[T] = w[x] + g[T \ {x}]
<1> DEFINE bad == {n \in Nat : \E U \in SUBSET S : \E y \in U :
                                  Cardinality(U) = n /\ g[U] # w[y] + g[U \ {y}]}
<1>1. \A U \in SUBSET S : g[U] \in Nat
  BY DEF IsTable
<1>2. bad = {}
  <2> SUFFICES ASSUME bad # {} PROVE FALSE
    OBVIOUS
  <2>1. bad \in SUBSET Nat
    OBVIOUS
  <2>2. PICK m \in bad : \A n \in bad : m <= n
    <3> HIDE DEF bad
    <3> QED
      BY <2>1, LeastNumber
  <2>u. PICK U \in SUBSET S : \E y \in U : Cardinality(U) = m /\ g[U] # w[y] + g[U \ {y}]
    OBVIOUS
  <2>3. PICK y \in U : Cardinality(U) = m /\ g[U] # w[y] + g[U \ {y}]
    BY <2>u
  <2> DEFINE a == Chosen(U)
             V == (U \ {a}) \ {y}
  <2>4. /\ a \in U /\ U \ {a} \in SUBSET S /\ IsFiniteSet(U)
        /\ m \in Nat \ {0} /\ Cardinality(U \ {a}) = m - 1
    BY <2>3, ChosenSmaller
  <2>5. g[U] = w[a] + g[U \ {a}]
    BY DEF IsTable
  <2>6. a # y
    BY <2>3, <2>5
  <2>7. Cardinality(U \ {y}) = m - 1 /\ U \ {y} \in SUBSET S
    BY <2>3, <2>4, FS_RemoveElement
  <2>8. m - 1 \in Nat /\ m - 1 \notin bad
    <3>1. m - 1 \in Nat /\ ~ (m <= m - 1)
      BY <2>4
    <3> QED
      BY <2>2, <3>1
  <2> HIDE DEF a
  <2>9. g[U \ {a}] = w[y] + g[V]
    <3>1. y \in U \ {a}
      BY <2>6
    <3> QED
      BY <2>4, <2>8, <3>1
  <2>10. g[U \ {y}] = w[a] + g[V]
    <3>1. a \in U \ {y} /\ (U \ {y}) \ {a} = V
      BY <2>4, <2>6
    <3>2. g[U \ {y}] = w[a] + g[(U \ {y}) \ {a}]
      BY <2>7, <2>8, <3>1
    <3> QED
      BY <3>1, <3>2
  <2>11. w[a] \in Nat /\ w[y] \in Nat /\ g[V] \in Nat
    BY <1>1, <2>4
  <2> HIDE DEF V
  <2> QED
    BY <2>3, <2>5, <2>9, <2>10, <2>11
<1>3. Cardinality(T) \in Nat
  BY FS_Subset, FS_CardinalityType
<1> QED
  BY <1>2, <1>3

\* Sums of natural numbers over a finite set: the type, the empty sum, and
\* one element taken out.
LEMMA SumFacts ==
    ASSUME NEW S, IsFiniteSet(S), NEW w, \A x \in S : w[x] \in Nat
    PROVE  /\ SumFunctionOnSet(w, S) \in Nat
           /\ S = {} => SumFunctionOnSet(w, S) = 0
           /\ \A x \in S : SumFunctionOnSet(w, S) = w[x] + SumFunctionOnSet(w, S \ {x})
<1>1. PICK g : IsTable(g, w, S)
  BY TableExists
<1>2. SumFunctionOnSet(w, S) = g[S]
  BY <1>1, SumFromTable
<1>3. g[S] \in Nat /\ (S = {} => g[S] = 0)
  BY <1>1 DEF IsTable
<1>4. ASSUME NEW x \in S
      PROVE  SumFunctionOnSet(w, S) = w[x] + SumFunctionOnSet(w, S \ {x})
  <2> DEFINE R == S \ {x}
             h == [T \in SUBSET R |-> g[T]]
  <2>1. IsFiniteSet(R)
    BY FS_RemoveElement
  <2>2. IsTable(h, w, R)
    <3>1. h \in [SUBSET R -> Nat]
      BY <1>1 DEF IsTable
    <3>2. ASSUME NEW T \in SUBSET R
          PROVE  h[T] = IF T = {} THEN 0 ELSE w[Chosen(T)] + h[T \ {Chosen(T)}]
      <4>1. T \in SUBSET S /\ T \ {Chosen(T)} \in SUBSET R
        OBVIOUS
      <4>2. h[T] = g[T] /\ h[T \ {Chosen(T)}] = g[T \ {Chosen(T)}]
        BY <4>1
      <4> HIDE DEF h, R
      <4> QED
        BY <1>1, <4>1, <4>2 DEF IsTable
    <3> QED
      BY <3>1, <3>2 DEF IsTable
  <2>3. SumFunctionOnSet(w, R) = h[R]
    <3> HIDE DEF h, R
    <3> QED
      BY <2>1, <2>2, SumFromTable
  <2>4. h[R] = g[R]
    OBVIOUS
  <2>5. g[S] = w[x] + g[R]
    BY <1>1, TableAnyOrder
  <2> QED
    BY <1>2, <2>3, <2>4, <2>5
<1> QED
  BY <1>2, <1>3, <1>4

\* A sum depends only on the weights of the set's elements.
LEMMA SumSameWeights ==
    ASSUME NEW S, IsFiniteSet(S), NEW w, \A x \in S : w[x] \in Nat,
           NEW v, \A x \in S : v[x] = w[x]
    PROVE  SumFunctionOnSet(v, S) = SumFunctionOnSet(w, S)
<1>1. PICK g : IsTable(g, w, S)
  BY TableExists
<1>2. IsTable(g, v, S)
  <2>1. \A T \in SUBSET S : T # {} => v[Chosen(T)] = w[Chosen(T)]
    BY DEF Chosen
  <2> QED
    BY <1>1, <2>1 DEF IsTable
<1> QED
  BY <1>1, <1>2, SumFromTable

\* The sum over a set is the sum over a part of it and over the rest.
LEMMA SumSplit ==
    ASSUME NEW S, IsFiniteSet(S), NEW w, \A x \in S : w[x] \in Nat, NEW T \in SUBSET S
    PROVE  SumFunctionOnSet(w, S) = SumFunctionOnSet(w, T) + SumFunctionOnSet(w, S \ T)
<1> DEFINE Sum(U) == SumFunctionOnSet(w, U)
           bad == {n \in Nat : \E U \in SUBSET S :
                                 Cardinality(U) = n /\ Sum(S) # Sum(U) + Sum(S \ U)}
<1>1. \A U \in SUBSET S : IsFiniteSet(U) /\ Cardinality(U) \in Nat /\ \A x \in U : w[x] \in Nat
  BY FS_Subset, FS_CardinalityType
<1>2. \A U \in SUBSET S : Sum(U) \in Nat
  BY <1>1, SumFacts
<1>3. bad = {}
  <2> SUFFICES ASSUME bad # {} PROVE FALSE
    OBVIOUS
  <2>1. bad \in SUBSET Nat
    OBVIOUS
  <2>2. PICK m \in bad : \A n \in bad : m <= n
    <3> HIDE DEF bad
    <3> QED
      BY <2>1, LeastNumber
  <2>3. PICK U \in SUBSET S : Cardinality(U) = m /\ Sum(S) # Sum(U) + Sum(S \ U)
    OBVIOUS
  <2>4. U # {}
    <3> SUFFICES ASSUME U = {} PROVE FALSE
      OBVIOUS
    <3>1. S \ U = S /\ Sum(U) = 0
      BY <1>1, SumFacts
    <3> QED
      BY <1>2, <2>3, <3>1
  <2>5. PICK x \in U : TRUE
    BY <2>4
  <2> DEFINE V == U \ {x}
  <2>6. V \in SUBSET S /\ Cardinality(V) = m - 1 /\ m - 1 \in Nat
    <3>1. IsFiniteSet(U) /\ Cardinality(U) \in Nat /\ Cardinality(U) # 0
      BY <1>1, <2>4, FS_EmptySet
    <3>2. Cardinality(V) = Cardinality(U) - 1
      BY <3>1, FS_RemoveElement
    <3> QED
      BY <2>3, <3>1, <3>2
  <2>7. Sum(S) = Sum(V) + Sum(S \ V)
    <3>1. ~ (m <= m - 1)
      BY <2>6
    <3>2. m - 1 \notin bad
      BY <2>2, <3>1
    <3> HIDE DEF Sum, V
    <3> QED
      BY <2>6, <3>2
  <2>8. Sum(U) = w[x] + Sum(V)
    BY <1>1, SumFacts
  <2>9. Sum(S \ V) = w[x] + Sum(S \ U)
    <3>1. S \ V \in SUBSET S /\ x \in S \ V /\ (S \ V) \ {x} = S \ U
      OBVIOUS
    <3> HIDE DEF V
    <3>2. IsFiniteSet(S \ V) /\ \A y \in S \ V : w[y] \in Nat
      BY <1>1, <3>1
    <3> QED
      BY <3>1, <3>2, SumFacts
  <2>10. Sum(V) \in Nat /\ Sum(S \ U) \in Nat /\ w[x] \in Nat
    BY <1>1, <1>2, <2>6
  <2> HIDE DEF Sum, V
  <2> QED
    BY <2>3, <2>7, <2>8, <2>9, <2>10
<1> QED
  BY <1>1, <1>3

\* A sum of zeros.
LEMMA SumZero ==
    ASSUME NEW S, IsFiniteSet(S), NEW w, \A x \in S : w[x] = 0
    PROVE  SumFunctionOnSet(w, S) = 0
<1> DEFINE g == [T \in SUBSET S |-> 0]
<1>1. IsTable(g, w, S)
  <2>1. \A T \in SUBSET S : T # {} => w[Chosen(T)] = 0 /\ T \ {Chosen(T)} \in SUBSET S
    BY DEF Chosen
  <2> QED
    BY <2>1 DEF IsTable
<1> QED
  BY <1>1, SumFromTable

----------------------------------------------------------------------------
\* Folds over sets of numbers and over prefixes.

\* c picks an element of every non-empty subset of S.
Picks(c, S) == \A T \in SUBSET S : T # {} => c[T] \in T

\* h is the table of a fold over the subsets of S that takes the element c[T] of T last and
\* steps with F from the value b of the empty set.
IsFold(h, A, b, F, c, S) ==
    /\ h \in [SUBSET S -> A]
    /\ \A T \in SUBSET S : h[T] = IF T = {} THEN b ELSE F[<<h[T \ {c[T]}], c[T]>>]

\* Removing the element leaves a smaller set.
LEMMA PickedSmaller ==
    ASSUME NEW S, IsFiniteSet(S), NEW T \in SUBSET S, NEW x \in T
    PROVE  /\ T \ {x} \in SUBSET S /\ Cardinality(T) \in Nat \ {0}
           /\ Cardinality(T \ {x}) = Cardinality(T) - 1
<1>1. IsFiniteSet(T)
  BY FS_Subset
<1>2. Cardinality(T) \in Nat /\ Cardinality(T) # 0
  BY <1>1, FS_CardinalityType, FS_EmptySet
<1> QED
  BY <1>1, <1>2, FS_RemoveElement

\* A fold over a finite set has a table.
LEMMA FoldExists ==
    ASSUME NEW S, IsFiniteSet(S), NEW A, NEW b \in A, NEW F \in [A \X S -> A],
           NEW c, Picks(c, S)
    PROVE  \E h : IsFold(h, A, b, F, c, S)
<1> USE DEF Picks
<1> DEFINE Next(g, T) == F[<<g[T \ {c[T]}], c[T]>>]
           Row(g, T) == g[T] = IF T = {} THEN b ELSE Next(g, T)
           UpTo(n)   == \E g \in [SUBSET S -> A] :
                           \A T \in SUBSET S : Cardinality(T) <= n => Row(g, T)
           bad       == {n \in Nat : ~ UpTo(n)}
<1>1. \A T \in SUBSET S : Cardinality(T) \in Nat /\ Cardinality(T) <= Cardinality(S)
  BY FS_Subset, FS_CardinalityType
<1>2. UpTo(0)
  <2>1. [T \in SUBSET S |-> b] \in [SUBSET S -> A]
    OBVIOUS
  <2>2. \A T \in SUBSET S : Cardinality(T) <= 0 => T = {}
    BY <1>1, FS_Subset, FS_EmptySet
  <2> QED
    BY <2>1, <2>2
<1>3. ASSUME NEW n \in Nat, UpTo(n)
      PROVE  UpTo(n + 1)
  <2>1. PICK g \in [SUBSET S -> A] : \A T \in SUBSET S : Cardinality(T) <= n => Row(g, T)
    BY <1>3
  <2> DEFINE h == [T \in SUBSET S |-> IF Cardinality(T) = n + 1 THEN Next(g, T) ELSE g[T]]
  <2>2. ASSUME NEW T \in SUBSET S, Cardinality(T) = n + 1
        PROVE  T # {} /\ Next(g, T) \in A
    <3>1. T # {}
      <4>1. Cardinality({}) = 0 /\ n + 1 # 0
        BY FS_EmptySet
      <4> QED
        BY <2>2, <4>1
    <3>2. c[T] \in S /\ T \ {c[T]} \in SUBSET S
      BY <3>1
    <3>3. g[T \ {c[T]}] \in A
      BY <3>2
    <3> QED
      BY <3>1, <3>2, <3>3
  <2>3. h \in [SUBSET S -> A]
    BY <2>2
  <2>4. ASSUME NEW T \in SUBSET S, Cardinality(T) <= n + 1
        PROVE  Row(h, T)
    <3>1. CASE Cardinality(T) = n + 1
      <4>1. T # {} /\ c[T] \in T
        BY <2>2, <3>1
      <4>2. T \ {c[T]} \in SUBSET S /\ Cardinality(T \ {c[T]}) = n
        BY <4>1, <3>1, PickedSmaller
      <4>3. h[T] = Next(g, T)
        BY <3>1
      <4>4. h[T \ {c[T]}] = g[T \ {c[T]}]
        <5>1. n # n + 1
          OBVIOUS
        <5> QED
          BY <4>2, <5>1
      <4> QED
        BY <4>1, <4>3, <4>4
    <3>2. CASE Cardinality(T) # n + 1
      <4>1. Cardinality(T) <= n /\ h[T] = g[T]
        BY <1>1, <2>4, <3>2
      <4>2. Row(g, T)
        BY <2>1, <4>1
      <4>3. CASE T = {}
        BY <4>1, <4>2, <4>3
      <4>4. CASE T # {}
        <5>1. c[T] \in T
          BY <4>4
        <5>2. T \ {c[T]} \in SUBSET S /\ Cardinality(T \ {c[T]}) # n + 1
          BY <1>1, <4>1, <5>1, PickedSmaller
        <5>3. h[T \ {c[T]}] = g[T \ {c[T]}]
          BY <5>2
        <5> QED
          BY <4>1, <4>2, <5>3
      <4> QED
        BY <4>3, <4>4
    <3> QED
      BY <3>1, <3>2
  <2> HIDE DEF h, Row
  <2> QED
    BY <2>3, <2>4
<1>4. bad = {}
  <2> SUFFICES ASSUME bad # {} PROVE FALSE
    OBVIOUS
  <2>1. bad \in SUBSET Nat
    OBVIOUS
  <2>2. PICK m \in bad : \A n \in bad : m <= n
    <3> HIDE DEF bad
    <3> QED
      BY <2>1, LeastNumber
  <2> HIDE DEF UpTo
  <2>3. m \in Nat /\ m # 0
    BY <1>2
  <2>4. m - 1 \in Nat /\ UpTo(m - 1)
    BY <2>2, <2>3
  <2>5. (m - 1) + 1 = m
    BY <2>3
  <2>6. UpTo(m)
    BY <1>3, <2>4, <2>5
  <2> QED
    BY <2>6
<1>5. Cardinality(S) \in Nat
  BY FS_CardinalityType
<1>6. UpTo(Cardinality(S))
  <2> HIDE DEF UpTo
  <2> QED
    BY <1>4, <1>5
<1> QED
  BY <1>1, <1>6 DEF IsFold

\* g gives a value to every subset of S.
OnSubsets(g, S) == g = [T \in SUBSET S |-> g[T]]

\* g and h have the same value where they have the same value before the step.
StepAlike(g, h, c, S) ==
    \A T \in SUBSET S : (T # {} => g[T \ {c[T]}] = h[T \ {c[T]}]) => g[T] = h[T]

\* Two tables that step alike are the same.
LEMMA FoldUnique ==
    ASSUME NEW S, IsFiniteSet(S), NEW c, Picks(c, S),
           NEW g, OnSubsets(g, S), NEW h, OnSubsets(h, S),
           StepAlike(g, h, c, S)
    PROVE  g = h
<1> USE DEF Picks, StepAlike
<1> DEFINE bad == {n \in Nat : \E T \in SUBSET S : Cardinality(T) = n /\ g[T] # h[T]}
<1>2. \A T \in SUBSET S : Cardinality(T) \in Nat
  BY FS_Subset, FS_CardinalityType
<1>3. bad = {}
  <2> SUFFICES ASSUME bad # {} PROVE FALSE
    OBVIOUS
  <2>1. bad \in SUBSET Nat
    OBVIOUS
  <2>2. PICK m \in bad : \A n \in bad : m <= n
    <3> HIDE DEF bad
    <3> QED
      BY <2>1, LeastNumber
  <2>3. PICK T \in SUBSET S : Cardinality(T) = m /\ g[T] # h[T]
    OBVIOUS
  <2>4. T # {} /\ c[T] \in T
    BY <2>3
  <2>5. T \ {c[T]} \in SUBSET S /\ Cardinality(T \ {c[T]}) = m - 1 /\ m \in Nat \ {0}
    BY <2>3, <2>4, PickedSmaller
  <2>6. g[T \ {c[T]}] = h[T \ {c[T]}]
    <3>1. m - 1 \in Nat /\ ~ (m <= m - 1)
      BY <2>5
    <3>2. m - 1 \notin bad
      BY <2>2, <3>1
    <3> QED
      BY <2>5, <3>1, <3>2
  <2> QED
    BY <2>3, <2>6
<1>4. \A T \in SUBSET S : g[T] = h[T]
  BY <1>2, <1>3
<1> QED
  BY <1>4 DEF OnSubsets

\* The last of the numbers 1 .. k, and what is left without it.
LEMMA PrefixMax ==
    ASSUME NEW n \in Nat
    PROVE  /\ \A T \in SUBSET (1 .. n) : T # {} => Max(T) \in T
           /\ \A k \in 1 .. n : Max(1 .. k) = k /\ (1 .. k) \ {k} = 1 .. k - 1
<1>1. ASSUME NEW T \in SUBSET (1 .. n), T # {}
      PROVE  Max(T) \in T /\ \A x \in T : x <= Max(T)
  <2>1. T \in SUBSET (0 .. n)
    OBVIOUS
  <2> QED
    BY <1>1, <2>1, LargestNumber
<1>2. ASSUME NEW k \in 1 .. n
      PROVE  Max(1 .. k) = k
  <2>1. 1 .. k \in SUBSET (1 .. n) /\ k \in 1 .. k
    OBVIOUS
  <2>2. Max(1 .. k) \in 1 .. k /\ k <= Max(1 .. k)
    BY <1>1, <2>1
  <2> QED
    BY <2>2
<1> QED
  BY <1>1, <1>2

\* The table of a fold over a list, from its first element on.
IsScan(h, A, b, F, n) ==
    /\ h \in [SUBSET (1 .. n) -> A]
    /\ \A T \in SUBSET (1 .. n) :
          h[T] = IF T = {} THEN b ELSE F[<<h[T \ {Max(T)}], Max(T)>>]
    /\ h[1 .. 0] = b
    /\ \A k \in 1 .. n : h[1 .. k] = F[<<h[1 .. k - 1], k>>]

LEMMA ScanExists ==
    ASSUME NEW n \in Nat, NEW A, NEW b \in A, NEW F \in [A \X (1 .. n) -> A]
    PROVE  \E h : IsScan(h, A, b, F, n)
<1> DEFINE S == 1 .. n
           c == [T \in SUBSET S |-> Max(T)]
<1>1. IsFiniteSet(S)
  BY FS_Interval
<1>2. \A T \in SUBSET S : c[T] = Max(T) /\ (T # {} => c[T] \in T)
  BY PrefixMax
<1> HIDE DEF c
<1>3. PICK h : IsFold(h, A, b, F, c, S)
  <2>1. Picks(c, S)
    BY <1>2 DEF Picks
  <2>2. F \in [A \X S -> A]
    OBVIOUS
  <2> HIDE DEF S
  <2> QED
    BY <1>1, <2>1, <2>2, FoldExists
<1>4. /\ h \in [SUBSET S -> A]
      /\ \A T \in SUBSET S : h[T] = IF T = {} THEN b ELSE F[<<h[T \ {Max(T)}], Max(T)>>]
  BY <1>2, <1>3 DEF IsFold
<1>5. h[1 .. 0] = b
  <2>1. 1 .. 0 = {}
    OBVIOUS
  <2> QED
    BY <1>4, <2>1
<1>6. ASSUME NEW k \in 1 .. n
      PROVE  h[1 .. k] = F[<<h[1 .. k - 1], k>>]
  <2>1. 1 .. k \in SUBSET S /\ 1 .. k # {}
    OBVIOUS
  <2>2. Max(1 .. k) = k /\ (1 .. k) \ {k} = 1 .. k - 1
    BY PrefixMax
  <2> QED
    BY <1>4, <2>1, <2>2
<1> QED
  BY <1>4, <1>5, <1>6 DEF IsScan

\* Any table that steps alike is this one.
LEMMA ScanUnique ==
    ASSUME NEW n \in Nat, NEW g, OnSubsets(g, 1 .. n), NEW h, OnSubsets(h, 1 .. n),
           \A T \in SUBSET (1 .. n) :
              (T # {} => g[T \ {Max(T)}] = h[T \ {Max(T)}]) => g[T] = h[T]
    PROVE  g = h
<1>1. PICK S : S = 1 .. n
  OBVIOUS
<1>2. PICK c : c = [T \in SUBSET S |-> Max(T)]
  OBVIOUS
<1>3. IsFiniteSet(S)
  BY <1>1, FS_Interval
<1>4. Picks(c, S)
  BY <1>1, <1>2, PrefixMax DEF Picks
<1>5. StepAlike(g, h, c, S)
  BY <1>1, <1>2 DEF StepAlike
<1>6. OnSubsets(g, S) /\ OnSubsets(h, S)
  BY <1>1
<1> QED
  BY <1>3, <1>4, <1>5, <1>6, FoldUnique, SMT

----------------------------------------------------------------------------
\* Counting.

\* w counts the elements of I that f puts at each place of G.
Counts(w, f, I, G) == \A x \in G : w[x] = Cardinality({i \in I : f[i] = x})

\* Elements counted place by place are all counted, each once.
LEMMA SumOfCounts ==
    ASSUME NEW I, IsFiniteSet(I), NEW f, NEW G, IsFiniteSet(G),
           NEW w, Counts(w, f, I, G)
    PROVE  SumFunctionOnSet(w, G) = Cardinality({i \in I : f[i] \in G})
<1> USE DEF Counts
<1> DEFINE At(x)  == {i \in I : f[i] = x}
           In(U)  == {i \in I : f[i] \in U}
           Sum(U) == SumFunctionOnSet(w, U)
           bad == {n \in Nat : \E U \in SUBSET G : Cardinality(U) = n /\ Sum(U) # Cardinality(In(U))}
<1>1. \A U \in SUBSET G : IsFiniteSet(U) /\ Cardinality(U) \in Nat
  BY FS_Subset, FS_CardinalityType
<1>2. \A x \in G : w[x] \in Nat
  <2>1. ASSUME NEW x \in G
        PROVE  IsFiniteSet(At(x)) /\ Cardinality(At(x)) \in Nat
    <3>1. At(x) \in SUBSET I
      OBVIOUS
    <3> HIDE DEF At
    <3> QED
      BY <3>1, FS_Subset, FS_CardinalityType
  <2> QED
    BY <2>1
<1>3. bad = {}
  <2> SUFFICES ASSUME bad # {} PROVE FALSE
    OBVIOUS
  <2>1. bad \in SUBSET Nat
    OBVIOUS
  <2>2. PICK m \in bad : \A n \in bad : m <= n
    <3> HIDE DEF bad
    <3> QED
      BY <2>1, LeastNumber
  <2>3. PICK U \in SUBSET G : Cardinality(U) = m /\ Sum(U) # Cardinality(In(U))
    OBVIOUS
  <2>4. U # {}
    <3> SUFFICES ASSUME U = {} PROVE FALSE
      OBVIOUS
    <3>1. In({}) = {} /\ Cardinality({}) = 0
      BY FS_EmptySet
    <3>2. Sum({}) = 0
      BY FS_EmptySet, SumFacts
    <3> HIDE DEF Sum, In
    <3> QED
      BY <2>3, <3>1, <3>2
  <2>5. PICK x \in U : TRUE
    BY <2>4
  <2> DEFINE V == U \ {x}
  <2>6. V \in SUBSET G /\ Cardinality(V) = m - 1 /\ m - 1 \in Nat
    <3>1. IsFiniteSet(U) /\ Cardinality(U) \in Nat /\ Cardinality(U) # 0
      BY <1>1, <2>4, FS_EmptySet
    <3>2. Cardinality(V) = Cardinality(U) - 1
      BY <3>1, FS_RemoveElement
    <3> QED
      BY <2>3, <3>1, <3>2
  <2>7. Sum(V) = Cardinality(In(V))
    <3>1. ~ (m <= m - 1)
      BY <2>6
    <3>2. m - 1 \notin bad
      BY <2>2, <3>1
    <3> HIDE DEF Sum, V, In
    <3> QED
      BY <2>6, <3>2
  <2>8. Sum(U) = w[x] + Sum(V)
    <3>1. IsFiniteSet(U) /\ \A y \in U : w[y] \in Nat
      BY <1>1, <1>2
    <3> QED
      BY <3>1, SumFacts
  <2>9. Cardinality(In(U)) = Cardinality(At(x)) + Cardinality(In(V))
    <3>1. /\ In(U) = At(x) \cup In(V) /\ At(x) \cap In(V) = {}
          /\ At(x) \in SUBSET I /\ In(V) \in SUBSET I
      OBVIOUS
    <3> HIDE DEF In, At, V
    <3>2. IsFiniteSet(At(x)) /\ IsFiniteSet(In(V))
      BY <3>1, FS_Subset
    <3>3. /\ Cardinality(At(x) \cup In(V)) = Cardinality(At(x)) + Cardinality(In(V))
                                                - Cardinality(At(x) \cap In(V))
          /\ Cardinality(At(x)) \in Nat /\ Cardinality(In(V)) \in Nat
      BY <3>2, FS_Union, FS_CardinalityType
    <3>4. Cardinality({}) = 0
      BY FS_EmptySet
    <3>5. Cardinality(In(U)) = Cardinality(At(x) \cup In(V))
      BY <3>1
    <3>6. Cardinality(At(x) \cap In(V)) = 0
      BY <3>1, <3>4
    <3> QED
      BY <3>3, <3>5, <3>6
  <2>10. w[x] = Cardinality(At(x))
    OBVIOUS
  <2> HIDE DEF Sum, In, V, At
  <2> QED
    BY <2>3, <2>7, <2>8, <2>9, <2>10
<1> QED
  <2>1. Cardinality(G) \in Nat
    BY FS_CardinalityType
  <2> HIDE DEF Sum, In
  <2>2. Sum(G) = Cardinality(In(G))
    BY <1>3, <2>1
  <2> QED
    BY <2>2 DEF Sum, In

----------------------------------------------------------------------------
\* Folds from the end.

\* The first of the numbers k .. n, and what is left without it.
LEMMA SuffixMin ==
    ASSUME NEW n \in Nat
    PROVE  /\ \A T \in SUBSET (1 .. n) : T # {} => Min(T) \in T
           /\ \A k \in 1 .. n : Min(k .. n) = k /\ (k .. n) \ {k} = k + 1 .. n
<1>1. ASSUME NEW T \in SUBSET (1 .. n), T # {}
      PROVE  Min(T) \in T /\ \A x \in T : Min(T) <= x
  <2>1. T \in SUBSET Nat
    OBVIOUS
  <2>2. PICK m \in T : \A x \in T : m <= x
    BY <1>1, <2>1, LeastNumber
  <2> QED
    BY <2>2 DEF Min
<1>2. ASSUME NEW k \in 1 .. n
      PROVE  Min(k .. n) = k
  <2>1. k .. n \in SUBSET (1 .. n) /\ k \in k .. n
    OBVIOUS
  <2>2. Min(k .. n) \in k .. n /\ Min(k .. n) <= k
    BY <1>1, <2>1
  <2> QED
    BY <2>2
<1>3. \A k \in 1 .. n : (k .. n) \ {k} = k + 1 .. n
  OBVIOUS
<1> QED
  BY <1>1, <1>2, <1>3

\* The table of a fold over a list, from its last element on.
IsScanBack(h, A, b, F, n) ==
    /\ h \in [SUBSET (1 .. n) -> A]
    /\ \A T \in SUBSET (1 .. n) :
          h[T] = IF T = {} THEN b ELSE F[<<h[T \ {Min(T)}], Min(T)>>]
    /\ h[n + 1 .. n] = b
    /\ \A k \in 1 .. n : h[k .. n] = F[<<h[k + 1 .. n], k>>]

\* There is one.
LEMMA ScanBackExists ==
    ASSUME NEW n \in Nat, NEW A, NEW b \in A, NEW F \in [A \X (1 .. n) -> A]
    PROVE  \E h : IsScanBack(h, A, b, F, n)
<1> DEFINE S == 1 .. n
           c == [T \in SUBSET S |-> Min(T)]
<1>1. IsFiniteSet(S)
  BY FS_Interval
<1>2. \A T \in SUBSET S : c[T] = Min(T) /\ (T # {} => c[T] \in T)
  BY SuffixMin
<1> HIDE DEF c
<1>3. PICK h : IsFold(h, A, b, F, c, S)
  <2>1. Picks(c, S)
    BY <1>2 DEF Picks
  <2>2. F \in [A \X S -> A]
    OBVIOUS
  <2> HIDE DEF S
  <2> QED
    BY <1>1, <2>1, <2>2, FoldExists
<1>4. /\ h \in [SUBSET S -> A]
      /\ \A T \in SUBSET S : h[T] = IF T = {} THEN b ELSE F[<<h[T \ {Min(T)}], Min(T)>>]
  BY <1>2, <1>3 DEF IsFold
<1>5. h[n + 1 .. n] = b
  <2>1. n + 1 .. n = {}
    OBVIOUS
  <2> QED
    BY <1>4, <2>1
<1>6. ASSUME NEW k \in 1 .. n
      PROVE  h[k .. n] = F[<<h[k + 1 .. n], k>>]
  <2>1. k .. n \in SUBSET S /\ k .. n # {}
    OBVIOUS
  <2>2. Min(k .. n) = k /\ (k .. n) \ {k} = k + 1 .. n
    BY SuffixMin
  <2> QED
    BY <1>4, <2>1, <2>2
<1> QED
  BY <1>4, <1>5, <1>6 DEF IsScanBack

\* Any table that steps alike is this one.
LEMMA ScanBackUnique ==
    ASSUME NEW n \in Nat, NEW g, OnSubsets(g, 1 .. n), NEW h, OnSubsets(h, 1 .. n),
           \A T \in SUBSET (1 .. n) :
              (T # {} => g[T \ {Min(T)}] = h[T \ {Min(T)}]) => g[T] = h[T]
    PROVE  g = h
<1>1. PICK S : S = 1 .. n
  OBVIOUS
<1>2. PICK c : c = [T \in SUBSET S |-> Min(T)]
  OBVIOUS
<1>3. IsFiniteSet(S)
  BY <1>1, FS_Interval
<1>4. Picks(c, S)
  BY <1>1, <1>2, SuffixMin DEF Picks
<1>5. StepAlike(g, h, c, S)
  BY <1>1, <1>2 DEF StepAlike
<1>6. OnSubsets(g, S) /\ OnSubsets(h, S)
  BY <1>1
<1> QED
  BY <1>3, <1>4, <1>5, <1>6, FoldUnique, SMT

----------------------------------------------------------------------------
\* Sums over finite sets, by induction on the set.

\* P holds of a set when it holds without some element of it.
Grows(P, S) == \A T \in SUBSET S : T # {} => \E x \in T : T \ {x} \in P => T \in P

\* What holds of the empty set and grows by elements holds of every finite set.
LEMMA FiniteInduction ==
    ASSUME NEW S, IsFiniteSet(S), NEW P, {} \in P, Grows(P, S)
    PROVE  S \in P
<1> DEFINE bad == {n \in Nat : \E U \in SUBSET S : Cardinality(U) = n /\ U \notin P}
<1>1. bad = {}
  <2> SUFFICES ASSUME bad # {} PROVE FALSE
    OBVIOUS
  <2>1. bad \in SUBSET Nat
    OBVIOUS
  <2>2. PICK m \in bad : \A n \in bad : m <= n
    <3> HIDE DEF bad
    <3> QED
      BY <2>1, LeastNumber
  <2>3. PICK U \in SUBSET S : Cardinality(U) = m /\ U \notin P
    OBVIOUS
  <2>4. PICK x \in U : U \ {x} \in P => U \in P
    BY <2>3 DEF Grows
  <2>5. U \ {x} \in SUBSET S /\ m \in Nat \ {0} /\ Cardinality(U \ {x}) = m - 1
    BY <2>3, PickedSmaller
  <2>6. m - 1 \in Nat /\ ~ (m <= m - 1)
    BY <2>5
  <2>7. U \ {x} \in P
    BY <2>2, <2>5, <2>6
  <2> QED
    BY <2>3, <2>4, <2>7
<1>2. Cardinality(S) \in Nat
  BY FS_CardinalityType
<1> QED
  BY <1>1, <1>2

\* w gives every element of S a number.
Numbers(w, S) == \A x \in S : w[x] \in Nat

\* Sums of sets of numbers: one element, and the rest.
LEMMA SumStep ==
    ASSUME NEW T, IsFiniteSet(T), NEW w, Numbers(w, T), NEW x \in T
    PROVE  /\ SumFunctionOnSet(w, T) = w[x] + SumFunctionOnSet(w, T \ {x})
           /\ SumFunctionOnSet(w, T) \in Nat /\ SumFunctionOnSet(w, T \ {x}) \in Nat
           /\ w[x] \in Nat
<1>1. IsFiniteSet(T) /\ IsFiniteSet(T \ {x})
  BY FS_Subset
<1>2. (\A y \in T : w[y] \in Nat) /\ \A y \in T \ {x} : w[y] \in Nat
  BY DEF Numbers
<1> QED
  BY <1>1, <1>2, SumFacts

\* The sum over nothing.
LEMMA SumNone == \A w : SumFunctionOnSet(w, {}) = 0
<1> SUFFICES ASSUME NEW w PROVE SumFunctionOnSet(w, {}) = 0
  OBVIOUS
<1> QED
  BY FS_EmptySet, SumFacts

\* v is c times w, u is the sum of v and w.
Scaled(v, w, c, S) == \A x \in S : v[x] = w[x] * c
Added(u, v, w, S)  == \A x \in S : u[x] = v[x] + w[x]

\* A common factor.
LEMMA SumScaled ==
    ASSUME NEW S, IsFiniteSet(S), NEW w, Numbers(w, S), NEW c \in Nat, NEW v, Scaled(v, w, c, S)
    PROVE  SumFunctionOnSet(v, S) = SumFunctionOnSet(w, S) * c
<1> DEFINE P == {U \in SUBSET S : SumFunctionOnSet(v, U) = SumFunctionOnSet(w, U) * c}
<1>1. Numbers(v, S) /\ \A x \in S : v[x] = w[x] * c
  BY DEF Scaled, Numbers
<1>2. {} \in P
  BY SumNone
<1> HIDE DEF P
<1>3. ASSUME NEW T \in SUBSET S, NEW x \in T, T \ {x} \in P
      PROVE  T \in P
  <2> DEFINE a == SumFunctionOnSet(w, T \ {x})
  <2>0. IsFiniteSet(T) /\ Numbers(w, T) /\ Numbers(v, T)
    BY <1>1, FS_Subset DEF Numbers
  <2>1. SumFunctionOnSet(w, T) = w[x] + a /\ a \in Nat /\ w[x] \in Nat
    BY <2>0, SumStep
  <2>2. SumFunctionOnSet(v, T) = v[x] + SumFunctionOnSet(v, T \ {x})
    BY <2>0, SumStep
  <2>3. SumFunctionOnSet(v, T \ {x}) = a * c /\ v[x] = w[x] * c
    BY <1>1, <1>3 DEF P
  <2> HIDE DEF a
  <2>4. w[x] * c + a * c = (w[x] + a) * c
    BY <2>1
  <2> QED
    BY <2>1, <2>2, <2>3, <2>4 DEF P
<1>4. Grows(P, S)
  BY <1>3 DEF Grows
<1>5. S \in P
  BY <1>2, <1>4, FiniteInduction
<1> QED
  BY <1>5 DEF P

\* Sums of sums.
LEMMA SumAdded ==
    ASSUME NEW S, IsFiniteSet(S), NEW v, Numbers(v, S), NEW w, Numbers(w, S),
           NEW u, Added(u, v, w, S)
    PROVE  SumFunctionOnSet(u, S) = SumFunctionOnSet(v, S) + SumFunctionOnSet(w, S)
<1> DEFINE P == {U \in SUBSET S :
                   SumFunctionOnSet(u, U) = SumFunctionOnSet(v, U) + SumFunctionOnSet(w, U)}
<1>1. Numbers(u, S) /\ \A x \in S : u[x] = v[x] + w[x]
  BY DEF Added, Numbers
<1>2. {} \in P
  BY SumNone
<1> HIDE DEF P
<1>3. ASSUME NEW T \in SUBSET S, NEW x \in T, T \ {x} \in P
      PROVE  T \in P
  <2> DEFINE a == SumFunctionOnSet(w, T \ {x})
             b == SumFunctionOnSet(v, T \ {x})
  <2>0. IsFiniteSet(T) /\ Numbers(w, T) /\ Numbers(v, T) /\ Numbers(u, T)
    BY <1>1, FS_Subset DEF Numbers
  <2>1. SumFunctionOnSet(w, T) = w[x] + a /\ a \in Nat /\ w[x] \in Nat
    BY <2>0, SumStep
  <2>2. SumFunctionOnSet(v, T) = v[x] + b /\ b \in Nat /\ v[x] \in Nat
    BY <2>0, SumStep
  <2>3. SumFunctionOnSet(u, T) = u[x] + SumFunctionOnSet(u, T \ {x})
    BY <2>0, SumStep
  <2>4. SumFunctionOnSet(u, T \ {x}) = b + a /\ u[x] = v[x] + w[x]
    BY <1>1, <1>3 DEF P
  <2> HIDE DEF a, b
  <2> QED
    BY <2>1, <2>2, <2>3, <2>4 DEF P
<1>4. Grows(P, S)
  BY <1>3 DEF Grows
<1>5. S \in P
  BY <1>2, <1>4, FiniteInduction
<1> QED
  BY <1>5 DEF P

\* A sum is a number.
LEMMA SumNumber ==
    ASSUME NEW S, IsFiniteSet(S), NEW w, Numbers(w, S), NEW T \in SUBSET S
    PROVE  SumFunctionOnSet(w, T) \in Nat /\ IsFiniteSet(T) /\ Numbers(w, T)
<1>1. IsFiniteSet(T) /\ \A x \in T : w[x] \in Nat
  BY FS_Subset DEF Numbers
<1> QED
  BY <1>1, SumFacts DEF Numbers

\* The sum over one element.
LEMMA SumSingle ==
    ASSUME NEW w, NEW x, w[x] \in Nat
    PROVE  SumFunctionOnSet(w, {x}) = w[x]
<1>1. IsFiniteSet({x}) /\ Numbers(w, {x}) /\ x \in {x} /\ {x} \ {x} = {}
  BY FS_Singleton DEF Numbers
<1>2. SumFunctionOnSet(w, {x}) = w[x] + SumFunctionOnSet(w, {x} \ {x})
  BY <1>1, SumStep
<1>3. SumFunctionOnSet(w, {x} \ {x}) = 0
  BY <1>1, SumNone
<1> QED
  BY <1>2, <1>3

\* The sums of a matrix's rows, and of its columns.
IsMatrix(m, S, T)      == \A x \in S : Numbers(m[x], T)
Column(m, S, y)        == [x \in S |-> m[x][y]]
RowSums(r, m, S, T)    == \A x \in S : r[x] = SumFunctionOnSet(m[x], T)
ColumnSums(c, m, S, T) == \A y \in T : c[y] = SumFunctionOnSet(Column(m, S, y), S)

\* Both add up to the same.
LEMMA SumSwapped ==
    ASSUME NEW S, IsFiniteSet(S), NEW T, IsFiniteSet(T), NEW m, IsMatrix(m, S, T),
           NEW r, RowSums(r, m, S, T), NEW c, ColumnSums(c, m, S, T)
    PROVE  SumFunctionOnSet(r, S) = SumFunctionOnSet(c, T)
<1> DEFINE Col(U) == [y \in T |-> SumFunctionOnSet(Column(m, S, y), U)]
           P == {U \in SUBSET S : SumFunctionOnSet(r, U) = SumFunctionOnSet(Col(U), T)}
<1>1. ASSUME NEW x \in S
      PROVE  Numbers(m[x], T) /\ r[x] \in Nat /\ r[x] = SumFunctionOnSet(m[x], T)
  <2>1. Numbers(m[x], T) /\ r[x] = SumFunctionOnSet(m[x], T)
    BY DEF IsMatrix, RowSums
  <2>2. T \in SUBSET T
    OBVIOUS
  <2> QED
    BY <2>1, <2>2, SumNumber
<1>2. Numbers(r, S)
  BY <1>1 DEF Numbers
<1>3. \A y \in T : Numbers(Column(m, S, y), S)
  BY <1>1 DEF Numbers, Column
<1>4. ASSUME NEW U \in SUBSET S
      PROVE  Numbers(Col(U), T)
  BY <1>3, SumNumber DEF Numbers
<1>5. {} \in P
  <2>1. SumFunctionOnSet(r, {}) = 0
    BY SumNone
  <2>2. \A y \in T : Col({})[y] = 0
    BY SumNone
  <2>3. SumFunctionOnSet(Col({}), T) = 0
    <3> HIDE DEF Col
    <3> QED
      BY <2>2, SumZero
  <2> QED
    BY <2>1, <2>3
<1> HIDE DEF P
<1>6. ASSUME NEW U \in SUBSET S, NEW x \in U, U \ {x} \in P
      PROVE  U \in P
  <2> DEFINE V == U \ {x}
  <2>1. V \in SUBSET S /\ x \in S
    OBVIOUS
  <2>2. SumFunctionOnSet(r, U) = r[x] + SumFunctionOnSet(r, V)
    <3>1. IsFiniteSet(U) /\ Numbers(r, U)
      BY <1>2, SumNumber
    <3> QED
      BY <3>1, SumStep
  <2>3. ASSUME NEW y \in T
        PROVE  Col(U)[y] = m[x][y] + Col(V)[y]
    <3> DEFINE w == Column(m, S, y)
    <3>1. w[x] = m[x][y]
      BY <2>1 DEF Column
    <3> HIDE DEF w
    <3>2. Numbers(w, S)
      BY <1>3 DEF w
    <3>3. IsFiniteSet(U) /\ Numbers(w, U)
      BY <3>2, SumNumber
    <3>4. SumFunctionOnSet(w, U) = w[x] + SumFunctionOnSet(w, V)
      BY <3>3, SumStep
    <3> QED
      BY <3>1, <3>4 DEF w
  <2>4. Added(Col(U), m[x], Col(V), T)
    BY <2>3 DEF Added
  <2>5. Numbers(m[x], T) /\ Numbers(Col(V), T)
    BY <1>1, <1>4, <2>1
  <2> HIDE DEF Col, V
  <2>6. SumFunctionOnSet(Col(U), T) = SumFunctionOnSet(m[x], T) + SumFunctionOnSet(Col(V), T)
    BY <2>4, <2>5, SumAdded
  <2>7. SumFunctionOnSet(r, V) = SumFunctionOnSet(Col(V), T)
    BY <1>6 DEF P, V
  <2>8. r[x] = SumFunctionOnSet(m[x], T)
    BY <1>1, <2>1
  <2> QED
    BY <2>2, <2>6, <2>7, <2>8 DEF P
<1>7. Grows(P, S)
  BY <1>6 DEF Grows
<1>8. S \in P
  BY <1>5, <1>7, FiniteInduction
<1>9. SumFunctionOnSet(r, S) = SumFunctionOnSet(Col(S), T)
  BY <1>8 DEF P
<1>10. \A y \in T : c[y] = Col(S)[y]
  BY DEF ColumnSums
<1>11. Numbers(Col(S), T)
  BY <1>4
<1> HIDE DEF Col
<1>12. \A y \in T : Col(S)[y] \in Nat
  BY <1>11 DEF Numbers
<1> QED
  BY <1>9, <1>10, <1>12, SumSameWeights

\* v adds up what f puts at each place of G.
Fibres(v, w, f, I, G) == \A x \in G : v[x] = SumFunctionOnSet(w, {i \in I : f[i] = x})

\* A sum by places.
LEMMA SumByFibres ==
    ASSUME NEW I, IsFiniteSet(I), NEW G, IsFiniteSet(G), NEW f \in [I -> G],
           NEW w, Numbers(w, I), NEW v, Fibres(v, w, f, I, G)
    PROVE  SumFunctionOnSet(v, G) = SumFunctionOnSet(w, I)
<1> DEFINE At(x) == {i \in I : f[i] = x}
           In(U) == {i \in I : f[i] \in U}
           P == {U \in SUBSET G : SumFunctionOnSet(v, U) = SumFunctionOnSet(w, In(U))}
<1>1. ASSUME NEW x \in G
      PROVE  v[x] = SumFunctionOnSet(w, At(x)) /\ v[x] \in Nat
  <2>1. v[x] = SumFunctionOnSet(w, At(x)) /\ At(x) \in SUBSET I
    BY DEF Fibres
  <2> HIDE DEF At
  <2> QED
    BY <2>1, SumNumber
<1>2. Numbers(v, G)
  BY <1>1 DEF Numbers
<1>3. {} \in P
  <2>1. In({}) = {}
    OBVIOUS
  <2> QED
    BY <2>1, SumNone
<1> HIDE DEF P
<1>4. ASSUME NEW U \in SUBSET G, NEW x \in U, U \ {x} \in P
      PROVE  U \in P
  <2> DEFINE V == U \ {x}
  <2>1. /\ In(U) \in SUBSET I /\ At(x) \in SUBSET In(U) /\ In(U) \ At(x) = In(V) /\ x \in G
    OBVIOUS
  <2> HIDE DEF In, At
  <2>2. IsFiniteSet(In(U)) /\ \A i \in In(U) : w[i] \in Nat
    BY <2>1, SumNumber DEF Numbers
  <2>3. SumFunctionOnSet(w, In(U)) = SumFunctionOnSet(w, At(x)) + SumFunctionOnSet(w, In(U) \ At(x))
    BY <2>1, <2>2, SumSplit
  <2>4. SumFunctionOnSet(v, U) = v[x] + SumFunctionOnSet(v, V)
    <3>1. IsFiniteSet(U) /\ Numbers(v, U)
      BY <1>2, SumNumber
    <3> QED
      BY <3>1, SumStep
  <2>5. SumFunctionOnSet(v, V) = SumFunctionOnSet(w, In(V))
    BY <1>4 DEF P
  <2>6. v[x] = SumFunctionOnSet(w, At(x))
    BY <1>1, <2>1
  <2> HIDE DEF V
  <2> QED
    BY <2>1, <2>3, <2>4, <2>5, <2>6 DEF P
<1>5. Grows(P, G)
  BY <1>4 DEF Grows
<1>6. G \in P
  BY <1>3, <1>5, FiniteInduction
<1>7. In(G) = I
  OBVIOUS
<1> QED
  BY <1>6, <1>7 DEF P

\* f moves the weights w of T to S.
Moves(f, v, w, S, T) ==
    /\ f \in [S -> T] /\ \A x, y \in S : f[x] = f[y] => x = y
    /\ \A y \in T : \E x \in S : f[x] = y
    /\ \A x \in S : v[x] = w[f[x]]

\* A sum with its elements renamed.
LEMMA SumMoved ==
    ASSUME NEW S, IsFiniteSet(S), NEW T, IsFiniteSet(T), NEW w, Numbers(w, T),
           NEW f, NEW v, Moves(f, v, w, S, T)
    PROVE  SumFunctionOnSet(v, S) = SumFunctionOnSet(w, T)
<1>1. f \in [S -> T] /\ Numbers(v, S)
  BY DEF Moves, Numbers
<1>2. ASSUME NEW y \in T
      PROVE  w[y] = SumFunctionOnSet(v, {x \in S : f[x] = y})
  <2>1. PICK x \in S : f[x] = y
    BY DEF Moves
  <2>2. {z \in S : f[z] = y} = {x}
    BY <2>1 DEF Moves
  <2>3. v[x] = w[y] /\ v[x] \in Nat
    BY <2>1 DEF Moves, Numbers
  <2> QED
    BY <2>2, <2>3, SumSingle
<1>3. Fibres(w, v, f, S, T)
  BY <1>2 DEF Fibres
<1> QED
  BY <1>1, <1>3, SumByFibres

\* The sum of positive weights over a non-empty set.
LEMMA SumPositive ==
    ASSUME NEW S, IsFiniteSet(S), S # {}, NEW w \in [S -> Nat \ {0}]
    PROVE  SumFunctionOnSet(w, S) \in Nat \ {0}
<1>1. PICK x \in S : TRUE
  OBVIOUS
<1>2. \A y \in S : w[y] \in Nat
  OBVIOUS
<1>3. SumFunctionOnSet(w, S) = w[x] + SumFunctionOnSet(w, S \ {x})
  BY <1>1, <1>2, SumFacts
<1>4. SumFunctionOnSet(w, S \ {x}) \in Nat
  <2>1. IsFiniteSet(S \ {x}) /\ \A y \in S \ {x} : w[y] \in Nat
    BY <1>2, FS_Subset
  <2> QED
    BY <2>1, SumFacts
<1> QED
  BY <1>3, <1>4

\* There are finitely many lists of n elements of a finite set.
LEMMA FiniteLists ==
    ASSUME NEW S, IsFiniteSet(S), NEW n \in Nat
    PROVE  IsFiniteSet([1 .. n -> S])
<1> DEFINE bad == {k \in Nat : ~ IsFiniteSet([1 .. k -> S])}
<1>1. IsFiniteSet([1 .. 0 -> S])
  <2>1. 1 .. 0 = {}
    OBVIOUS
  <2>2. [1 .. 0 -> S] = {[i \in {} |-> i]}
    BY <2>1
  <2> QED
    BY <2>2, FS_Singleton
<1>2. ASSUME NEW k \in Nat, IsFiniteSet([1 .. k -> S])
      PROVE  IsFiniteSet([1 .. k + 1 -> S])
  <2> DEFINE L == [1 .. k -> S]
             M == [1 .. k + 1 -> S]
             D == L \X S
             more(g, x) == [i \in 1 .. k + 1 |-> IF i <= k THEN g[i] ELSE x]
             f == [d \in D |-> more(d[1], d[2])]
  <2>1. IsFiniteSet(D)
    BY <1>2, FS_Product
  <2>2. ASSUME NEW g \in L, NEW x \in S
        PROVE  more(g, x) \in M
    OBVIOUS
  <2>3. ASSUME NEW h \in M
        PROVE  \E d \in D : f[d] = h
    <3> DEFINE g == [i \in 1 .. k |-> h[i]]
               x == h[k + 1]
    <3>1. g \in L /\ x \in S
      OBVIOUS
    <3>2. more(g, x) = h
      OBVIOUS
    <3>3. <<g, x>> \in D
      BY <3>1
    <3> HIDE DEF g, x, L, M, more
    <3>4. f[<<g, x>>] = more(g, x)
      BY <3>3
    <3> QED
      BY <3>2, <3>3, <3>4
  <2> HIDE DEF L, M, more
  <2>4. f \in [D -> M]
    BY <2>2
  <2> HIDE DEF D, f
  <2>5. f \in Surjection(D, M)
    BY <2>3, <2>4 DEF Surjection
  <2>6. IsFiniteSet(M)
    BY <2>1, <2>5, FS_Surjection
  <2> QED
    BY <2>6 DEF M
<1>3. bad = {}
  <2> SUFFICES ASSUME bad # {} PROVE FALSE
    OBVIOUS
  <2>1. bad \in SUBSET Nat
    OBVIOUS
  <2>2. PICK k \in bad : \A i \in bad : k <= i
    <3> HIDE DEF bad
    <3> QED
      BY <2>1, LeastNumber
  <2>3. k # 0
    BY <1>1
  <2>4. k - 1 \in Nat /\ ~ (k <= k - 1) /\ (k - 1) + 1 = k
    BY <2>3
  <2>5. IsFiniteSet([1 .. k - 1 -> S])
    BY <2>2, <2>4
  <2>6. IsFiniteSet([1 .. (k - 1) + 1 -> S])
    BY <1>2, <2>4, <2>5
  <2> QED
    BY <2>4, <2>6
<1> QED
  BY <1>3

----------------------------------------------------------------------------
\* Products and quotients.

\* A number divided by a factor of it.
LEMMA QuotientOfProduct ==
    ASSUME NEW r \in Nat \ {0}, NEW q \in Nat
    PROVE  (r * q) \div r = q
BY SMTT(20)

\* The scores of paths, step by step.
LEMMA Products ==
    ASSUME NEW a \in Nat, NEW e \in Nat, NEW w \in Nat
    PROVE  (a * e) * w = (a * w) * e
OBVIOUS

\* Larger factors.
LEMMA LargerProduct ==
    ASSUME NEW a \in Nat, NEW b \in Nat, a <= b, NEW c \in Nat
    PROVE  a * c <= b * c /\ a * c \in Nat /\ b * c \in Nat
OBVIOUS
=============================================================================
