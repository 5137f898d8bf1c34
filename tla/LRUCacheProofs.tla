--------------------------- MODULE LRUCacheProofs ---------------------------
(***************************************************************************)
(* The response cache for every finite set of keys, every capacity and     *)
(* byte limit, any sizes and times to live: map, list and byte count       *)
(* agree, an insertion evicts just enough, and the cache implements the    *)
(* store the middleware relies on.                                         *)
(***************************************************************************)
EXTENDS LRUCache, DataTheorems

\* The keys of list o were used in this order, the latest first.
RecentIn(o, lastUse) ==
    \A i, j \in 1 .. Len(o) : i < j => lastUse[o[j]] < lastUse[o[i]]

\* The list o and the set D have the same keys.
Lists(o, D) == \A k \in Keys : k \in D <=> \E i \in 1 .. Len(o) : o[i] = k

(***************************************************************************)
(* The inductive invariant.  Removing a key from the list removes it once  *)
(* because no key is in it twice, which the times of last use show; the    *)
(* byte count stays a natural number because it is a sum.                  *)
(***************************************************************************)
IInv ==
    /\ TypeOK
    /\ Lists(order, DOMAIN items)
    /\ RecentIn(order, history.lastUse)
    /\ \A k \in Keys : history.lastUse[k] <= ops
    /\ \A k \in DOMAIN items : items[k].value \in 1 .. ops
    /\ ops <= MaxOps
    /\ Cardinality(DOMAIN items) <= capacity
    /\ MemoryAccounting

----------------------------------------------------------------------------

\* Sums of entry sizes: the type, the empty sum, an entry or a part taken out.
LEMMA TotalFacts ==
    ASSUME NEW S \in SUBSET Keys, NEW f, \A k \in S : f[k].size \in Nat
    PROVE  /\ TotalSize(f, S) \in Nat
           /\ S = {} => TotalSize(f, S) = 0
           /\ \A x \in S : TotalSize(f, S) = f[x].size + TotalSize(f, S \ {x})
           /\ \A T \in SUBSET S : TotalSize(f, S) = TotalSize(f, T) + TotalSize(f, S \ T)
<1> DEFINE w == [k \in S |-> f[k].size]
<1>1. IsFiniteSet(S) /\ \A k \in S : w[k] \in Nat
  BY LRUAssumption, FS_Subset
<1>2. ASSUME NEW T \in SUBSET S
      PROVE  TotalSize(f, T) = SumFunctionOnSet(w, T)
  <2> DEFINE v == [k \in T |-> f[k].size]
  <2>1. IsFiniteSet(T) /\ (\A k \in T : w[k] \in Nat) /\ \A k \in T : v[k] = w[k]
    BY <1>1, FS_Subset
  <2>2. SumFunctionOnSet(v, T) = SumFunctionOnSet(w, T)
    <3> HIDE DEF v, w
    <3> QED
      BY <2>1, SumSameWeights
  <2> QED
    BY <2>2 DEF TotalSize
<1> HIDE DEF w
<1>3. /\ SumFunctionOnSet(w, S) \in Nat
      /\ S = {} => SumFunctionOnSet(w, S) = 0
      /\ \A x \in S : SumFunctionOnSet(w, S) = w[x] + SumFunctionOnSet(w, S \ {x})
  BY <1>1, SumFacts
<1>4. \A T \in SUBSET S :
         SumFunctionOnSet(w, S) = SumFunctionOnSet(w, T) + SumFunctionOnSet(w, S \ T)
  BY <1>1, SumSplit
<1>5. TotalSize(f, S) = SumFunctionOnSet(w, S)
  BY <1>2
<1>6. \A x \in S : w[x] = f[x].size /\ TotalSize(f, S \ {x}) = SumFunctionOnSet(w, S \ {x})
  <2>1. \A x \in S : w[x] = f[x].size
    BY DEF w
  <2> QED
    BY <1>2, <2>1
<1>7. \A T \in SUBSET S : /\ TotalSize(f, T) = SumFunctionOnSet(w, T)
                          /\ TotalSize(f, S \ T) = SumFunctionOnSet(w, S \ T)
  BY <1>2
<1> QED
  BY <1>3, <1>4, <1>5, <1>6, <1>7

\* The sum depends on the sizes only.
LEMMA TotalSame ==
    ASSUME NEW S \in SUBSET Keys, NEW f, \A k \in S : f[k].size \in Nat,
           NEW g, \A k \in S : g[k].size = f[k].size
    PROVE  TotalSize(g, S) = TotalSize(f, S)
<1>1. [k \in S |-> g[k].size] = [k \in S |-> f[k].size]
  OBVIOUS
<1> QED
  BY <1>1 DEF TotalSize

\* capacity is at least one, whatever the configuration says.
LEMMA LimitTypes == capacity \in Nat \ {0} /\ maxMemory \in Nat
BY LRUAssumption DEF capacity, maxMemory

----------------------------------------------------------------------------

\* A list with each key once is as long as its set of keys is large.
LEMMA ListLength ==
    ASSUME NEW o \in Seq(Keys), NEW u \in [Keys -> Nat], RecentIn(o, u),
           NEW D \in SUBSET Keys, Lists(o, D)
    PROVE  /\ Len(o) = Cardinality(D) /\ Len(o) \in Nat
           /\ \A i, j \in 1 .. Len(o) : o[i] = o[j] => i = j
<1>1. Len(o) \in Nat /\ o \in [1 .. Len(o) -> Keys] /\ \A i \in 1 .. Len(o) : o[i] \in Keys
  BY LenProperties, ElementOfSeq
<1>2. ASSUME NEW i \in 1 .. Len(o), NEW j \in 1 .. Len(o), o[i] = o[j]
      PROVE  i = j
  <2>1. u[o[i]] \in Nat /\ ~ (u[o[i]] < u[o[i]])
    BY <1>1
  <2>2. ~ (i < j) /\ ~ (j < i)
    BY <1>2, <2>1 DEF RecentIn
  <2> QED
    BY <1>1, <2>2
<1>3. o \in [1 .. Len(o) -> D]
  BY <1>1 DEF Lists
<1>4. o \in Bijection(1 .. Len(o), D)
  <2>1. o \in Injection(1 .. Len(o), D)
    BY <1>2, <1>3 DEF Injection, IsInjective
  <2>2. o \in Surjection(1 .. Len(o), D)
    BY <1>3 DEF Surjection, Lists
  <2> QED
    BY <2>1, <2>2 DEF Bijection
<1>5. Cardinality(D) = Len(o)
  BY <1>1, <1>4, FS_CountingElements DEF ExistsBijection
<1> QED
  BY <1>1, <1>2, <1>5

\* A list that loses the keys of S.
LEMMA FilterList ==
    ASSUME NEW o \in Seq(Keys), NEW u \in [Keys -> Nat], RecentIn(o, u),
           NEW D \in SUBSET Keys, Lists(o, D), NEW S
    PROVE  /\ Filter(o, Keys \ S) \in Seq(Keys)
           /\ RecentIn(Filter(o, Keys \ S), u)
           /\ Lists(Filter(o, Keys \ S), D \ S)
<1> DEFINE K == Keys \ S
           p == Filter(o, K)
<1> HIDE DEF K
<1>1. p \in Seq(Keys)
  BY FilterPlaces
<1>f. PICK f : ReadsAt(p, o, K, f)
  BY FilterPlaces
<1>2. /\ f \in [1 .. Len(p) -> 1 .. Len(o)]
      /\ \A n \in 1 .. Len(p) : p[n] = o[f[n]] /\ o[f[n]] \in K
      /\ \A m, n \in 1 .. Len(p) : m < n => f[m] < f[n]
      /\ \A i \in 1 .. Len(o) : o[i] \in K => \E n \in 1 .. Len(p) : f[n] = i
  BY <1>f DEF ReadsAt
<1> HIDE DEF p
<1>3. RecentIn(p, u)
  <2> SUFFICES ASSUME NEW i \in 1 .. Len(p), NEW j \in 1 .. Len(p), i < j
               PROVE  u[p[j]] < u[p[i]]
    BY DEF RecentIn
  <2>1. f[i] \in 1 .. Len(o) /\ f[j] \in 1 .. Len(o) /\ f[i] < f[j]
    BY <1>2
  <2>2. u[o[f[j]]] < u[o[f[i]]]
    BY <2>1 DEF RecentIn
  <2> QED
    BY <1>2, <2>2
<1>4. Lists(p, D \ S)
  <2> SUFFICES ASSUME NEW k \in Keys
               PROVE  k \in D \ S <=> \E n \in 1 .. Len(p) : p[n] = k
    BY DEF Lists
  <2>1. ASSUME k \in D \ S
        PROVE  \E n \in 1 .. Len(p) : p[n] = k
    <3>1. PICK i \in 1 .. Len(o) : o[i] = k
      BY <2>1 DEF Lists
    <3>2. PICK n \in 1 .. Len(p) : f[n] = i
      BY <1>2, <2>1, <3>1 DEF K
    <3> QED
      BY <1>2, <3>1, <3>2
  <2>2. ASSUME NEW n \in 1 .. Len(p), p[n] = k
        PROVE  k \in D \ S
    <3>1. f[n] \in 1 .. Len(o) /\ o[f[n]] = k /\ k \notin S
      BY <1>2, <2>2 DEF K
    <3> QED
      BY <3>1 DEF Lists
  <2> QED
    BY <2>1, <2>2
<1> QED
  BY <1>1, <1>3, <1>4 DEF p, K

\* A list that gains a key in front, used later than all of the list.
LEMMA FrontList ==
    ASSUME NEW o \in Seq(Keys), NEW u \in [Keys -> Nat], RecentIn(o, u),
           NEW D \in SUBSET Keys, Lists(o, D), NEW key \in Keys, key \notin D,
           NEW v \in [Keys -> Nat], \A k \in D : v[k] = u[k] /\ u[k] < v[key]
    PROVE  /\ <<key>> \o o \in Seq(Keys) /\ Len(<<key>> \o o) = Len(o) + 1
           /\ (<<key>> \o o)[1] = key
           /\ RecentIn(<<key>> \o o, v)
           /\ Lists(<<key>> \o o, D \cup {key})
<1> DEFINE p == <<key>> \o o
<1>1. Len(o) \in Nat /\ \A i \in 1 .. Len(o) : o[i] \in Keys /\ o[i] \in D
  BY LenProperties, ElementOfSeq DEF Lists
<1>2. <<key>> \in Seq(Keys) /\ Len(<<key>>) = 1 /\ <<key>>[1] = key
  OBVIOUS
<1>3. /\ p \in Seq(Keys) /\ Len(p) = Len(o) + 1
      /\ \A i \in 1 .. Len(o) + 1 : p[i] = IF i <= 1 THEN <<key>>[i] ELSE o[i - 1]
  <2>1. /\ p \in Seq(Keys) /\ Len(p) = Len(<<key>>) + Len(o)
        /\ \A i \in 1 .. Len(<<key>>) + Len(o) :
              p[i] = IF i <= Len(<<key>>) THEN <<key>>[i] ELSE o[i - Len(<<key>>)]
    BY <1>2, ConcatProperties
  <2>2. 1 + Len(o) = Len(o) + 1
    BY <1>1
  <2> HIDE DEF p
  <2> QED
    BY <1>2, <2>1, <2>2
<1> HIDE DEF p
<1>4. p[1] = key /\ \A i \in 2 .. Len(p) : i - 1 \in 1 .. Len(o) /\ p[i] = o[i - 1]
  <2>1. 1 \in 1 .. Len(o) + 1 /\ 1 <= 1
    BY <1>1
  <2>2. p[1] = key
    BY <1>2, <1>3, <2>1
  <2>3. ASSUME NEW i \in 2 .. Len(o) + 1
        PROVE  i - 1 \in 1 .. Len(o) /\ i \in 1 .. Len(o) + 1 /\ ~ (i <= 1)
    BY <1>1
  <2>4. ASSUME NEW i \in 2 .. Len(o) + 1
        PROVE  p[i] = o[i - 1]
    BY <1>3, <2>3
  <2> QED
    BY <1>3, <2>2, <2>3, <2>4
<1>5. RecentIn(p, v)
  <2> SUFFICES ASSUME NEW i \in 1 .. Len(p), NEW j \in 1 .. Len(p), i < j
               PROVE  v[p[j]] < v[p[i]]
    BY DEF RecentIn
  <2>1. j \in 2 .. Len(p) /\ p[j] = o[j - 1] /\ j - 1 \in 1 .. Len(o) /\ o[j - 1] \in D
    <3>1. j \in 2 .. Len(p)
      BY <1>1, <1>3
    <3> QED
      BY <1>1, <1>4, <3>1
  <2>2. CASE i = 1
    BY <1>4, <2>1, <2>2
  <2>3. CASE i # 1
    <3>1. p[i] = o[i - 1] /\ i - 1 \in 1 .. Len(o) /\ o[i - 1] \in D
      <4>1. i \in 2 .. Len(p)
        BY <1>1, <1>3, <2>3
      <4> QED
        BY <1>1, <1>4, <4>1
    <3>2. i - 1 < j - 1
      BY <1>1, <1>3
    <3>3. u[o[j - 1]] < u[o[i - 1]]
      BY <2>1, <3>1, <3>2 DEF RecentIn
    <3> QED
      BY <2>1, <3>1, <3>3
  <2> QED
    BY <2>2, <2>3
<1>6. Lists(p, D \cup {key})
  <2> SUFFICES ASSUME NEW k \in Keys
               PROVE  k \in D \cup {key} <=> \E n \in 1 .. Len(p) : p[n] = k
    BY DEF Lists
  <2>1. ASSUME k \in D
        PROVE  \E n \in 1 .. Len(p) : p[n] = k
    <3>1. PICK i \in 1 .. Len(o) : o[i] = k
      BY <2>1 DEF Lists
    <3>2. i + 1 \in 2 .. Len(p) /\ i + 1 \in 1 .. Len(p) /\ (i + 1) - 1 = i
      BY <1>1, <1>3
    <3>3. p[i + 1] = k
      BY <1>4, <3>1, <3>2
    <3> QED
      BY <3>2, <3>3
  <2>2. ASSUME k = key
        PROVE  \E n \in 1 .. Len(p) : p[n] = k
    BY <1>1, <1>3, <1>4, <2>2
  <2>3. ASSUME NEW n \in 1 .. Len(p), p[n] = k
        PROVE  k \in D \cup {key}
    <3>1. CASE n = 1
      BY <1>4, <2>3, <3>1
    <3>2. CASE n # 1
      <4>1. n \in 2 .. Len(p)
        BY <1>1, <1>3, <3>2
      <4> QED
        BY <1>1, <1>4, <2>3, <4>1
    <3> QED
      BY <3>1, <3>2
  <2> QED
    BY <2>1, <2>2, <2>3
<1> QED
  BY <1>3, <1>4, <1>5, <1>6 DEF p

\* A list cut behind its first n keys.
LEMMA PrefixList ==
    ASSUME NEW o \in Seq(Keys), NEW u \in [Keys -> Nat], RecentIn(o, u),
           NEW D \in SUBSET Keys, Lists(o, D), NEW n \in 0 .. Len(o)
    PROVE  /\ SubSeq(o, 1, n) \in Seq(Keys) /\ Len(SubSeq(o, 1, n)) = n
           /\ RecentIn(SubSeq(o, 1, n), u)
           /\ Lists(SubSeq(o, 1, n), D \ Evicted(o, n))
<1> DEFINE p == SubSeq(o, 1, n)
<1>1. Len(o) \in Nat /\ n \in Nat /\ \A i \in 1 .. Len(o) : o[i] \in Keys
  BY LenProperties, ElementOfSeq
<1>2. /\ p \in Seq(Keys) /\ Len(p) = n
      /\ \A i \in 1 .. n : p[i] = o[i]
  BY <1>1, SubSeqProperties
<1> HIDE DEF p
<1>3. RecentIn(p, u)
  <2>1. \A i \in 1 .. n : i \in 1 .. Len(o)
    BY <1>1
  <2> QED
    BY <1>2, <2>1 DEF RecentIn
<1>4. Lists(p, D \ Evicted(o, n))
  <2> SUFFICES ASSUME NEW k \in Keys
               PROVE  k \in D \ Evicted(o, n) <=> \E m \in 1 .. Len(p) : p[m] = k
    BY DEF Lists
  <2>1. ASSUME k \in D \ Evicted(o, n)
        PROVE  \E m \in 1 .. Len(p) : p[m] = k
    <3>1. PICK i \in 1 .. Len(o) : o[i] = k
      BY <2>1 DEF Lists
    <3>2. i \notin n + 1 .. Len(o)
      BY <2>1, <3>1 DEF Evicted
    <3> QED
      BY <1>1, <1>2, <3>1, <3>2
  <2>2. ASSUME NEW m \in 1 .. Len(p), p[m] = k
        PROVE  k \in D \ Evicted(o, n)
    <3>1. m \in 1 .. Len(o) /\ o[m] = k /\ m <= n
      BY <1>1, <1>2, <2>2
    <3>2. k \in D
      BY <3>1 DEF Lists
    <3>3. k \notin Evicted(o, n)
      <4>1. ASSUME NEW i \in n + 1 .. Len(o), o[i] = k
            PROVE  FALSE
        <5>1. i \in 1 .. Len(o) /\ i # m
          BY <1>1, <3>1
        <5> QED
          BY <3>1, <4>1, <5>1, ListLength
      <4> QED
        BY <4>1 DEF Evicted
    <3> QED
      BY <3>2, <3>3
  <2> QED
    BY <2>1, <2>2
<1> QED
  BY <1>2, <1>3, <1>4 DEF p

----------------------------------------------------------------------------

\* Facts about a state of the cache that every step needs.
LEMMA StateFacts ==
    ASSUME IInv
    PROVE  /\ DOMAIN items \in SUBSET Keys /\ IsFiniteSet(DOMAIN items)
           /\ \A k \in DOMAIN items : items[k] \in Entry /\ items[k].size \in Nat
           /\ history.lastUse \in [Keys -> Nat] /\ history.inserted \in Nat
           /\ order \in Seq(Keys)
<1>1. DOMAIN items \in SUBSET Keys /\ \A k \in DOMAIN items : items[k] \in Entry
  BY DEF IInv, TypeOK
<1>2. IsFiniteSet(DOMAIN items)
  BY <1>1, LRUAssumption, FS_Subset
<1>3. \A k \in DOMAIN items : items[k].size \in Nat
  BY <1>1 DEF Entry
<1>4. history.lastUse \in [Keys -> Nat] /\ history.inserted \in Nat /\ order \in Seq(Keys)
  BY DEF IInv, TypeOK
<1> QED
  BY <1>1, <1>2, <1>3, <1>4

\* What removeElement, done for each key of S, leaves of the cache.
LEMMA Removed ==
    ASSUME IInv, NEW S \in SUBSET DOMAIN items, RemoveElements(S)
    PROVE  /\ order' \in Seq(Keys)
           /\ DOMAIN items' = DOMAIN items \ S
           /\ \A k \in DOMAIN items' : items'[k] = items[k]
           /\ Lists(order', DOMAIN items')
           /\ RecentIn(order', history.lastUse)
           /\ currentMemory' \in Nat /\ MemoryAccounting'
           /\ Cardinality(DOMAIN items') <= capacity
           /\ Cardinality(S) \in Nat
<1>1. /\ order' = Filter(order, Keys \ S)
      /\ currentMemory' = currentMemory - TotalSize(items, S)
      /\ items' = [k \in DOMAIN items \ S |-> items[k]]
  BY DEF RemoveElements
<1>2. DOMAIN items' = DOMAIN items \ S /\ \A k \in DOMAIN items' : items'[k] = items[k]
  BY <1>1
<1>3. order' \in Seq(Keys) /\ Lists(order', DOMAIN items') /\ RecentIn(order', history.lastUse)
  BY <1>1, <1>2, StateFacts, FilterList DEF IInv
<1>4. currentMemory' \in Nat /\ MemoryAccounting'
  <2> DEFINE D == DOMAIN items
             R == DOMAIN items \ S
  <2>1. TotalSize(items, D) = TotalSize(items, S) + TotalSize(items, R)
    BY StateFacts, TotalFacts
  <2>2. TotalSize(items, S) \in Nat /\ TotalSize(items, R) \in Nat
    <3>1. S \in SUBSET Keys /\ \A k \in S : items[k].size \in Nat
      BY StateFacts
    <3>2. R \in SUBSET Keys /\ \A k \in R : items[k].size \in Nat
      BY StateFacts
    <3> HIDE DEF R
    <3> QED
      BY <3>1, <3>2, TotalFacts
  <2>3. TotalSize(items', DOMAIN items') = TotalSize(items, R)
    <3>1. R \in SUBSET Keys /\ (\A k \in R : items[k].size \in Nat)
          /\ \A k \in R : items'[k].size = items[k].size
      BY <1>2, StateFacts
    <3>2. TotalSize(items', R) = TotalSize(items, R)
      <4> HIDE DEF R
      <4> QED
        BY <3>1, TotalSame
    <3> QED
      BY <1>2, <3>2
  <2>4. currentMemory = TotalSize(items, D)
    BY DEF IInv, MemoryAccounting
  <2>5. currentMemory' = TotalSize(items, R)
    <3> HIDE DEF D, R
    <3> QED
      BY <1>1, <2>1, <2>2, <2>4
  <2> QED
    BY <2>2, <2>3, <2>5 DEF MemoryAccounting, TotalSize
<1>5. Cardinality(DOMAIN items') <= capacity /\ Cardinality(S) \in Nat
  <2>1. IsFiniteSet(S) /\ IsFiniteSet(DOMAIN items')
        /\ Cardinality(DOMAIN items') <= Cardinality(DOMAIN items)
    BY <1>2, StateFacts, FS_Subset
  <2>2. /\ Cardinality(S) \in Nat /\ Cardinality(DOMAIN items') \in Nat
        /\ Cardinality(DOMAIN items) \in Nat
    BY <2>1, StateFacts, FS_CardinalityType
  <2> QED
    BY <2>1, <2>2, LimitTypes DEF IInv
<1> QED
  BY <1>2, <1>3, <1>4, <1>5

\* The empty cache satisfies the invariant.
LEMMA InitIInv == Init => IInv
<1> SUFFICES ASSUME Init PROVE IInv
  OBVIOUS
<1>1. TypeOK
  BY DEF Init, TypeOK
<1>2. Lists(order, DOMAIN items) /\ RecentIn(order, history.lastUse)
  BY DEF Init, Lists, RecentIn
<1>3. MemoryAccounting
  <2>1. DOMAIN items = {}
    BY DEF Init
  <2>2. TotalSize(items, {}) = 0
    BY TotalFacts
  <2> QED
    BY <2>1, <2>2 DEF Init, MemoryAccounting
<1>4. Cardinality(DOMAIN items) <= capacity
  <2>1. DOMAIN items = {}
    BY DEF Init
  <2> QED
    BY <2>1, FS_EmptySet, LimitTypes
<1> QED
  BY <1>1, <1>2, <1>3, <1>4, LRUAssumption DEF IInv, Init

\* An expired entry, a deleted entry or all expired entries leave.
LEMMA RemovalIInv ==
    ASSUME IInv, NEW S \in SUBSET DOMAIN items, RemoveElements(S), history' = history,
           ops' \in {ops, ops + 1}, ops' <= MaxOps, now' \in Nat,
           metrics' \in [hits : Nat, misses : Nat, evictions : Nat]
    PROVE  IInv'
<1> USE Removed, StateFacts
<1>1. ops \in Nat /\ ops' \in Nat /\ ops <= ops'
  BY DEF IInv, TypeOK
<1>2. TypeOK'
  BY <1>1 DEF IInv, TypeOK
<1>3. Lists(order, DOMAIN items)' /\ RecentIn(order, history.lastUse)'
  BY DEF Lists, RecentIn
<1>4. \A k \in Keys : history'.lastUse[k] <= ops'
  BY <1>1 DEF IInv
<1>5. ASSUME NEW k \in DOMAIN items'
      PROVE  items'[k].value \in 1 .. ops'
  <2>1. k \in DOMAIN items /\ items'[k].value = items[k].value
    OBVIOUS
  <2>2. items[k].value \in 1 .. ops
    BY <2>1 DEF IInv
  <2> QED
    BY ONLY <1>1, <2>1, <2>2
<1>6. (Cardinality(DOMAIN items) <= capacity)'
  BY DEF capacity
<1> QED
  BY <1>2, <1>3, <1>4, <1>5, <1>6 DEF IInv

\* A lookup that finds the entry moves it to the front; so does an update.
LEMMA MoveFacts ==
    ASSUME IInv, NEW key \in DOMAIN items, order' = MoveToFront(key), history' = Used(key)
    PROVE  /\ order' \in Seq(Keys)
           /\ history' \in [inserted : Nat, lastUse : [Keys -> Nat]]
           /\ Lists(order', DOMAIN items)
           /\ RecentIn(order', history'.lastUse)
           /\ \A k \in Keys : history'.lastUse[k] <= ops + 1
<1> USE StateFacts
<1> DEFINE o == Filter(order, Keys \ {key})
           u == history.lastUse
           v == history'.lastUse
           D == DOMAIN items \ {key}
<1>1. ops \in Nat /\ history \in [inserted : Nat, lastUse : [Keys -> Nat]]
  BY DEF IInv, TypeOK
<1>2. o \in Seq(Keys) /\ RecentIn(o, u) /\ Lists(o, D)
  BY FilterList DEF IInv
<1>3. /\ history' \in [inserted : Nat, lastUse : [Keys -> Nat]]
      /\ v \in [Keys -> Nat] /\ v[key] = ops + 1
      /\ \A k \in Keys : k # key => v[k] = u[k]
  BY <1>1 DEF Used
<1>4. \A k \in Keys : u[k] \in Nat /\ u[k] <= ops
  BY DEF IInv
<1>5. \A k \in D : v[k] = u[k] /\ u[k] < v[key]
  BY <1>1, <1>3, <1>4
<1>6. D \in SUBSET Keys /\ key \in Keys /\ key \notin D /\ D \cup {key} = DOMAIN items
  OBVIOUS
<1>7. u \in [Keys -> Nat]
  OBVIOUS
<1>8. order' = <<key>> \o o
  BY DEF MoveToFront
<1>9. ASSUME NEW k \in Keys PROVE v[k] <= ops + 1
  <2> HIDE DEF u, v
  <2>1. CASE k = key
    BY <1>1, <1>3, <2>1
  <2>2. CASE k # key
    <3>1. v[k] = u[k] /\ u[k] \in Nat /\ u[k] <= ops
      BY <1>3, <1>4, <2>2
    <3> QED
      BY ONLY <1>1, <3>1
  <2> QED
    BY <2>1, <2>2
<1> HIDE DEF o, u, v, D
<1>10. /\ <<key>> \o o \in Seq(Keys)
       /\ RecentIn(<<key>> \o o, v)
       /\ Lists(<<key>> \o o, D \cup {key})
  BY <1>2, <1>3, <1>5, <1>6, <1>7, FrontList
<1> QED
  BY <1>3, <1>6, <1>8, <1>9, <1>10 DEF v

\* A hit moves the entry and changes nothing else of the cache.
LEMMA GetIInv == ASSUME IInv, NEW key \in Keys, Get(key) PROVE IInv'
<1>1. ops \in Nat /\ ops' = ops + 1 /\ ops' <= MaxOps /\ now' = now /\ now \in Nat
  BY LRUAssumption DEF Get, Operation, IInv, TypeOK
<1>2. metrics \in [hits : Nat, misses : Nat, evictions : Nat]
  BY DEF IInv, TypeOK
<1>3. CASE GetMiss(key)
  <2>1. metrics' \in [hits : Nat, misses : Nat, evictions : Nat]
    BY <1>2, <1>3 DEF GetMiss
  <2>2. UNCHANGED <<order, items, currentMemory, history>>
    BY <1>3 DEF GetMiss
  <2>3. TypeOK'
    BY <1>1, <2>1, <2>2 DEF IInv, TypeOK
  <2>4. Lists(order, DOMAIN items)' /\ RecentIn(order, history.lastUse)'
    BY <2>2 DEF IInv, Lists, RecentIn
  <2>5. \A k \in Keys : history'.lastUse[k] <= ops'
    <3>1. \A k \in Keys : history.lastUse[k] \in Nat /\ history.lastUse[k] <= ops
      BY StateFacts DEF IInv
    <3> QED
      BY <1>1, <2>2, <3>1
  <2>6. \A k \in DOMAIN items' : items'[k].value \in 1 .. ops'
    BY <1>1, <2>2 DEF IInv
  <2>7. (Cardinality(DOMAIN items) <= capacity)' /\ MemoryAccounting'
    BY <2>2 DEF IInv, capacity, MemoryAccounting, TotalSize
  <2> QED
    BY <1>1, <2>3, <2>4, <2>5, <2>6, <2>7 DEF IInv
<1>4. CASE GetExpired(key)
  <2>1. metrics' \in [hits : Nat, misses : Nat, evictions : Nat]
    <3>1. metrics' = [metrics EXCEPT !.misses = @ + 1, !.evictions = @ + 1]
      BY <1>4 DEF GetExpired
    <3>2. metrics.misses + 1 \in Nat /\ metrics.evictions + 1 \in Nat
      BY <1>2
    <3> QED
      BY ONLY <1>2, <3>1, <3>2
  <2>2. {key} \in SUBSET DOMAIN items /\ RemoveElements({key}) /\ history' = history
    BY <1>4 DEF GetExpired
  <2> QED
    BY <1>1, <2>1, <2>2, RemovalIInv
<1>5. CASE GetHit(key)
  <2>1. metrics' \in [hits : Nat, misses : Nat, evictions : Nat]
    BY <1>2, <1>5 DEF GetHit
  <2>2. /\ key \in DOMAIN items /\ order' = MoveToFront(key) /\ history' = Used(key)
        /\ UNCHANGED <<items, currentMemory>>
    BY <1>5 DEF GetHit
  <2>3. /\ order' \in Seq(Keys)
        /\ history' \in [inserted : Nat, lastUse : [Keys -> Nat]]
        /\ Lists(order', DOMAIN items) /\ RecentIn(order', history'.lastUse)
        /\ \A k \in Keys : history'.lastUse[k] <= ops + 1
    BY <2>2, MoveFacts
  <2>4. TypeOK'
    BY <1>1, <2>1, <2>2, <2>3 DEF IInv, TypeOK
  <2>5. Lists(order, DOMAIN items)' /\ RecentIn(order, history.lastUse)'
    BY <2>2, <2>3 DEF Lists, RecentIn
  <2>6. \A k \in DOMAIN items' : items'[k].value \in 1 .. ops'
    BY <1>1, <2>2 DEF IInv
  <2>7. (Cardinality(DOMAIN items) <= capacity)' /\ MemoryAccounting'
    BY <2>2 DEF IInv, capacity, MemoryAccounting, TotalSize
  <2> QED
    BY <1>1, <2>3, <2>4, <2>5, <2>6, <2>7 DEF IInv
<1> QED
  BY <1>3, <1>4, <1>5 DEF Get

\* A new entry is an entry, and its version is the number of the operation.
LEMMA NewEntryFacts ==
    ASSUME IInv, NEW size \in Sizes, NEW ttl \in TTLs
    PROVE  /\ NewEntry(size, ttl) \in Entry
           /\ NewEntry(size, ttl).size = size /\ size \in Nat
           /\ NewEntry(size, ttl).value = ops + 1
<1>1. size \in Nat /\ ttl \in Nat /\ ops \in Nat /\ now \in Nat
  BY LRUAssumption DEF IInv, TypeOK
<1> QED
  BY <1>1 DEF NewEntry, Entry

\* Set of a key in the cache: the sizes' difference is what the byte count
\* gains.
LEMMA UpdateIInv ==
    ASSUME IInv, NEW key \in Keys, NEW size \in Sizes, NEW ttl \in TTLs,
           SetUpdate(key, NewEntry(size, ttl)), Operation, now' = now
    PROVE  IInv'
<1> DEFINE e == NewEntry(size, ttl)
           D == DOMAIN items
           R == DOMAIN items \ {key}
<1>1. ops \in Nat /\ ops' = ops + 1 /\ ops' <= MaxOps /\ now \in Nat
  BY LRUAssumption DEF Operation, IInv, TypeOK
<1>2. e \in Entry /\ e.size \in Nat /\ e.value = ops + 1
  BY NewEntryFacts
<1> HIDE DEF e
<1>3. /\ key \in D /\ order' = MoveToFront(key) /\ history' = Used(key)
      /\ items' = [items EXCEPT ![key] = e] /\ metrics' = metrics
      /\ currentMemory' = currentMemory + e.size - items[key].size
  BY DEF SetUpdate, e
<1>4. /\ order' \in Seq(Keys)
      /\ history' \in [inserted : Nat, lastUse : [Keys -> Nat]]
      /\ Lists(order', D) /\ RecentIn(order', history'.lastUse)
      /\ \A k \in Keys : history'.lastUse[k] <= ops + 1
  BY <1>3, MoveFacts
<1>5. DOMAIN items' = D /\ items'[key] = e /\ \A k \in R : items'[k] = items[k]
  BY <1>3
<1>6. currentMemory' \in Nat /\ MemoryAccounting'
  <2>1. D \in SUBSET Keys /\ R \in SUBSET Keys /\ \A k \in D : items[k].size \in Nat
    BY StateFacts
  <2>2. \A k \in D : items'[k].size \in Nat
    BY <1>2, <1>5, <2>1
  <2>9. key \in D /\ R = D \ {key}
    BY <1>3
  <2>3. TotalSize(items, D) = items[key].size + TotalSize(items, R)
    <3> HIDE DEF D, R
    <3>1. \A x \in D : TotalSize(items, D) = items[x].size + TotalSize(items, D \ {x})
      BY <2>1, TotalFacts
    <3> QED
      BY <2>9, <3>1
  <2>4. TotalSize(items', D) = items'[key].size + TotalSize(items', R)
    <3> HIDE DEF D, R
    <3>1. \A x \in D : TotalSize(items', D) = items'[x].size + TotalSize(items', D \ {x})
      BY <2>1, <2>2, TotalFacts
    <3> QED
      BY <2>9, <3>1
  <2>5. TotalSize(items', R) = TotalSize(items, R) /\ TotalSize(items, R) \in Nat
    <3>1. (\A k \in R : items[k].size \in Nat) /\ \A k \in R : items'[k].size = items[k].size
      BY <1>5, <2>1
    <3> HIDE DEF R
    <3> QED
      BY <2>1, <3>1, TotalSame, TotalFacts
  <2>6. currentMemory = TotalSize(items, D)
    BY DEF IInv, MemoryAccounting
  <2>7. items[key].size \in Nat /\ items'[key].size = e.size
    BY <1>3, <1>5, <2>1
  <2>8. currentMemory' = TotalSize(items', D) /\ currentMemory' \in Nat
    <3> HIDE DEF D, R
    <3> QED
      BY <1>2, <1>3, <2>3, <2>4, <2>5, <2>6, <2>7
  <2> QED
    BY <1>5, <2>8 DEF MemoryAccounting, TotalSize
<1>7. TypeOK'
  BY <1>1, <1>2, <1>3, <1>4, <1>5, <1>6 DEF IInv, TypeOK
<1>8. Lists(order, DOMAIN items)' /\ RecentIn(order, history.lastUse)'
  BY <1>4, <1>5 DEF Lists, RecentIn
<1>9. \A k \in DOMAIN items' : items'[k].value \in 1 .. ops'
  BY <1>1, <1>2, <1>5 DEF IInv
<1>10. (Cardinality(DOMAIN items) <= capacity)'
  BY <1>5 DEF IInv, capacity
<1> QED
  BY <1>1, <1>4, <1>6, <1>7, <1>8, <1>9, <1>10 DEF IInv

----------------------------------------------------------------------------

\* The list, the map and the bytes after PushFront, before the evictions.
Pushed(key)      == <<key>> \o order
Together(key, e) == [k \in DOMAIN items \cup {key} |-> IF k = key THEN e ELSE items[k]]
Bytes(e)         == currentMemory + e.size
Stay(key, e)     == Kept(Pushed(key), Together(key, e), Bytes(e))

\* The condition under which the second loop stops with n entries left.
Fits(list, all, bytes, n) ==
    n = 0 \/ maxMemory = 0 \/ bytes - TotalSize(all, Evicted(list, n)) <= maxMemory

\* Kept is the largest number of entries that both limits allow.
LEMMA KeptFacts ==
    ASSUME NEW list, Len(list) \in Nat, NEW all, NEW bytes
    PROVE  /\ Kept(list, all, bytes) \in 0 .. Len(list)
           /\ Kept(list, all, bytes) <= capacity
           /\ Fits(list, all, bytes, Kept(list, all, bytes))
           /\ \A m \in 0 .. Len(list) :
                 m <= capacity /\ Fits(list, all, bytes, m) => m <= Kept(list, all, bytes)
<1> DEFINE b == Min({Len(list), capacity})
           M == {n \in 0 .. b : Fits(list, all, bytes, n)}
<1>1. b \in Nat /\ b <= Len(list) /\ b <= capacity
      /\ \A m \in Nat : m <= Len(list) /\ m <= capacity => m <= b
  BY LimitTypes, SmallerOfTwo
<1>2. Kept(list, all, bytes) = Max(M)
  BY DEF Kept, Fits
<1> HIDE DEF b
<1>3. M \in SUBSET (0 .. b) /\ 0 \in M
  BY <1>1 DEF Fits
<1>4. Max(M) \in M /\ \A n \in M : n <= Max(M)
  <2> HIDE DEF M
  <2> QED
    BY <1>1, <1>3, LargestNumber
<1>5. Max(M) \in 0 .. b /\ Fits(list, all, bytes, Max(M))
  BY <1>4
<1>6. ASSUME NEW m \in 0 .. Len(list), m <= capacity, Fits(list, all, bytes, m)
      PROVE  m <= Max(M)
  <2>1. m \in 0 .. b
    BY <1>1, <1>6
  <2> QED
    BY <1>4, <1>6, <2>1
<1> HIDE DEF M
<1> QED
  BY <1>1, <1>2, <1>5, <1>6, LimitTypes

\* What SetInsert assigns, in these terms.
LEMMA InsertedMap ==
    ASSUME NEW key, NEW e, SetInsert(key, e)
    PROVE  /\ key \notin DOMAIN items
           /\ order' = SubSeq(Pushed(key), 1, Stay(key, e))
           /\ DOMAIN items' = (DOMAIN items \cup {key}) \ Evicted(Pushed(key), Stay(key, e))
           /\ currentMemory' = Bytes(e) - TotalSize(Together(key, e),
                                                    Evicted(Pushed(key), Stay(key, e)))
           /\ metrics' = [metrics EXCEPT !.evictions =
                            @ + Cardinality(Evicted(Pushed(key), Stay(key, e)))]
           /\ history' = [Used(key) EXCEPT !.inserted = @ + 1]
<1>1. /\ key \notin DOMAIN items
      /\ order' = SubSeq(Pushed(key), 1, Stay(key, e))
      /\ items' = [k \in DOMAIN Together(key, e) \ Evicted(Pushed(key), Stay(key, e))
                     |-> Together(key, e)[k]]
      /\ currentMemory' = Bytes(e) - TotalSize(Together(key, e),
                                               Evicted(Pushed(key), Stay(key, e)))
      /\ metrics' = [metrics EXCEPT !.evictions =
                       @ + Cardinality(Evicted(Pushed(key), Stay(key, e)))]
      /\ history' = [Used(key) EXCEPT !.inserted = @ + 1]
  BY Zenon DEF SetInsert, Pushed, Together, Bytes, Stay
<1>2. DOMAIN Together(key, e) = DOMAIN items \cup {key}
  BY DEF Together
<1> QED
  BY <1>1, <1>2, Zenon

\* The entries that stay are those of before, and the new one.
LEMMA InsertedEntries ==
    ASSUME NEW key, NEW e, SetInsert(key, e)
    PROVE  \A k \in DOMAIN items' : items'[k] = Together(key, e)[k]
BY Zenon DEF SetInsert, Together

\* What an insertion leaves of the cache.
LEMMA InsertFacts ==
    ASSUME IInv, NEW key \in Keys, NEW e \in Entry, e.size \in Nat, SetInsert(key, e)
    PROVE  /\ Len(Pushed(key)) \in Nat /\ Pushed(key)[1] = key
           /\ Stay(key, e) \in 0 .. Len(Pushed(key)) /\ Stay(key, e) <= capacity
           /\ Pushed(key) \in Seq(Keys)
           /\ Lists(Pushed(key), DOMAIN items \cup {key})
           /\ RecentIn(Pushed(key), history'.lastUse)
           /\ order' \in Seq(Keys) /\ Len(order') = Stay(key, e)
           /\ Lists(order', DOMAIN items') /\ RecentIn(order', history'.lastUse)
           /\ history' \in [inserted : Nat, lastUse : [Keys -> Nat]]
           /\ history'.lastUse[key] = ops + 1
           /\ \A k \in Keys : k # key => history'.lastUse[k] = history.lastUse[k]
           /\ \A k \in Keys : history'.lastUse[k] <= ops + 1
           /\ Cardinality(DOMAIN items') = Stay(key, e)
<1> DEFINE list == Pushed(key)
           n    == Stay(key, e)
           D    == DOMAIN items
           u    == history.lastUse
           v    == history'.lastUse
<1>1. /\ key \notin D
      /\ order' = SubSeq(list, 1, n)
      /\ history' = [Used(key) EXCEPT !.inserted = @ + 1]
  BY InsertedMap
<1>2. ops \in Nat /\ history \in [inserted : Nat, lastUse : [Keys -> Nat]]
  BY DEF IInv, TypeOK
<1>3. /\ history' \in [inserted : Nat, lastUse : [Keys -> Nat]]
      /\ v \in [Keys -> Nat] /\ v[key] = ops + 1
      /\ \A k \in Keys : k # key => v[k] = u[k]
  <2>1. Used(key) \in [inserted : Nat, lastUse : [Keys -> Nat]]
        /\ Used(key).lastUse = [u EXCEPT ![key] = ops + 1]
    BY <1>2 DEF Used
  <2>2. history' \in [inserted : Nat, lastUse : [Keys -> Nat]] /\ v = Used(key).lastUse
    BY <1>1, <2>1
  <2> QED
    BY <1>2, <2>1, <2>2
<1>4. \A k \in Keys : u[k] \in Nat /\ u[k] <= ops
  BY StateFacts DEF IInv
<1>5. D \in SUBSET Keys /\ order \in Seq(Keys) /\ RecentIn(order, u) /\ Lists(order, D)
      /\ u \in [Keys -> Nat]
  BY StateFacts DEF IInv
<1>6. \A k \in D : v[k] = u[k] /\ u[k] < v[key]
  <2> HIDE DEF u, v, D
  <2>1. \A k \in D : k \in Keys /\ k # key
    BY <1>1, <1>5
  <2> QED
    BY <1>2, <1>3, <1>4, <2>1
<1>7. ASSUME NEW k \in Keys PROVE v[k] <= ops + 1
  <2>1. CASE k = key
    BY <1>2, <1>3, <2>1
  <2>2. CASE k # key
    <3>1. v[k] = u[k] /\ u[k] \in Nat /\ u[k] <= ops
      BY <1>3, <1>4, <2>2
    <3> QED
      BY ONLY <1>2, <3>1
  <2> QED
    BY <2>1, <2>2
<1>8. /\ list \in Seq(Keys) /\ Len(list) = Len(order) + 1 /\ list[1] = key
      /\ RecentIn(list, v) /\ Lists(list, D \cup {key})
  <2> DEFINE p == <<key>> \o order
  <2>1. list = p
    BY DEF Pushed
  <2> HIDE DEF list, u, v, D
  <2>2. key \notin D /\ v \in [Keys -> Nat]
    BY <1>1, <1>3
  <2>3. /\ p \in Seq(Keys) /\ Len(p) = Len(order) + 1 /\ p[1] = key
        /\ RecentIn(p, v) /\ Lists(p, D \cup {key})
    BY ONLY key \in Keys, <1>5, <1>6, <2>2, FrontList
  <2> HIDE DEF p
  <2> QED
    BY <2>1, <2>3
<1>9. Len(list) \in Nat
  BY <1>8, LenProperties
<1>10. n \in 0 .. Len(list) /\ n <= capacity
  BY <1>9, KeptFacts DEF Stay
<1>11. DOMAIN items' = (D \cup {key}) \ Evicted(list, n)
  BY InsertedMap
<1>12. D \cup {key} \in SUBSET Keys
  BY <1>5
<1>13. /\ order' \in Seq(Keys) /\ Len(order') = n
       /\ RecentIn(order', v) /\ Lists(order', DOMAIN items')
  <2>1. order' = SubSeq(list, 1, n) /\ v \in [Keys -> Nat]
    BY <1>1, <1>3
  <2> DEFINE s == SubSeq(list, 1, n)
             E == D \cup {key}
  <2> HIDE DEF list, n, v, E
  <2>2. E \in SUBSET Keys /\ Lists(list, E) /\ DOMAIN items' = E \ Evicted(list, n)
    BY <1>8, <1>11, <1>12 DEF E
  <2>3. s \in Seq(Keys) /\ Len(s) = n /\ RecentIn(s, v) /\ Lists(s, E \ Evicted(list, n))
    BY ONLY <1>8, <1>10, <2>1, <2>2, PrefixList
  <2> HIDE DEF s
  <2>4. order' = s
    BY <2>1 DEF s
  <2> QED
    BY ONLY <2>2, <2>3, <2>4
<1>14. Cardinality(DOMAIN items') = n
  <2>1. DOMAIN items' \in SUBSET Keys
    BY <1>11, <1>12
  <2> HIDE DEF n, v
  <2> QED
    BY <1>3, <1>13, <2>1, ListLength
<1> QED
  BY <1>3, <1>7, <1>8, <1>9, <1>10, <1>13, <1>14

\* The bytes after an insertion.
LEMMA InsertBytes ==
    ASSUME IInv, NEW key \in Keys, NEW e \in Entry, e.size \in Nat, SetInsert(key, e)
    PROVE  /\ \A k \in DOMAIN items \cup {key} : Together(key, e)[k].size \in Nat
           /\ Bytes(e) = TotalSize(Together(key, e), DOMAIN items \cup {key})
           /\ currentMemory' = Bytes(e) - TotalSize(Together(key, e),
                                                    Evicted(Pushed(key), Stay(key, e)))
           /\ currentMemory' \in Nat /\ MemoryAccounting'
           /\ Evicted(Pushed(key), Stay(key, e)) \in SUBSET (DOMAIN items \cup {key})
<1> DEFINE all  == Together(key, e)
           D    == DOMAIN items
           E    == DOMAIN items \cup {key}
           gone == Evicted(Pushed(key), Stay(key, e))
<1>1. D \in SUBSET Keys /\ E \in SUBSET Keys /\ key \notin D /\ \A k \in D : items[k].size \in Nat
  BY StateFacts, InsertedMap
<1>2. all[key] = e /\ \A k \in D : all[k] = items[k]
  BY <1>1 DEF Together
<1>3. \A k \in E : all[k].size \in Nat
  BY <1>1, <1>2
<1>4. gone \in SUBSET E
  <2>1. /\ Len(Pushed(key)) \in Nat /\ Stay(key, e) \in 0 .. Len(Pushed(key))
        /\ Lists(Pushed(key), E) /\ Pushed(key) \in Seq(Keys)
    BY InsertFacts
  <2>2. \A i \in Stay(key, e) + 1 .. Len(Pushed(key)) :
           i \in 1 .. Len(Pushed(key)) /\ Pushed(key)[i] \in Keys
    BY <2>1, ElementOfSeq
  <2> QED
    BY <2>1, <2>2 DEF Evicted, Lists
<1> HIDE DEF all, gone
<1>5. Bytes(e) = TotalSize(all, E)
  <2>1. E \ {key} = D /\ key \in E
    BY <1>1
  <2>2. TotalSize(all, E) = all[key].size + TotalSize(all, D)
    <3>1. TotalSize(all, E) = all[key].size + TotalSize(all, E \ {key})
      <4> HIDE DEF E
      <4> QED
        BY <1>1, <1>3, <2>1, TotalFacts
    <3> QED
      BY <2>1, <3>1
  <2>3. TotalSize(all, D) = TotalSize(items, D) /\ TotalSize(items, D) \in Nat
    <3>1. \A k \in D : all[k].size = items[k].size
      BY <1>2
    <3> HIDE DEF D
    <3> QED
      BY <1>1, <3>1, TotalSame, TotalFacts
  <2>4. currentMemory = TotalSize(items, D)
    BY DEF IInv, MemoryAccounting
  <2> QED
    BY <1>2, <2>2, <2>3, <2>4 DEF Bytes
<1>6. currentMemory' = Bytes(e) - TotalSize(all, gone)
  BY InsertedMap DEF all, gone
<1>7. TotalSize(all, E) = TotalSize(all, gone) + TotalSize(all, E \ gone)
  <2> HIDE DEF E
  <2> QED
    BY <1>1, <1>3, <1>4, TotalFacts
<1>8. TotalSize(all, gone) \in Nat /\ TotalSize(all, E \ gone) \in Nat
  <2> HIDE DEF E
  <2>1. /\ gone \in SUBSET Keys /\ E \ gone \in SUBSET Keys
        /\ \A k \in gone : all[k].size \in Nat
        /\ \A k \in E \ gone : all[k].size \in Nat
    BY <1>1, <1>3, <1>4
  <2> QED
    BY <2>1, TotalFacts
<1>9. currentMemory' = TotalSize(all, E \ gone) /\ currentMemory' \in Nat
  <2> HIDE DEF E
  <2> QED
    BY <1>5, <1>6, <1>7, <1>8
<1>10. MemoryAccounting'
  <2>1. DOMAIN items' = E \ gone /\ \A k \in DOMAIN items' : items'[k] = all[k]
    <3>1. DOMAIN items' = E \ gone
      BY InsertedMap DEF gone
    <3>2. \A k \in DOMAIN items' : items'[k] = all[k]
      BY InsertedEntries DEF all
    <3> QED
      BY <3>1, <3>2
  <2>2. TotalSize(items', E \ gone) = TotalSize(all, E \ gone)
    <3> DEFINE R == E \ gone
    <3>1. /\ R \in SUBSET Keys /\ \A k \in R : all[k].size \in Nat
          /\ \A k \in R : items'[k].size = all[k].size
      BY <1>1, <1>3, <2>1
    <3> HIDE DEF R
    <3>2. TotalSize(items', R) = TotalSize(all, R)
      BY <3>1, TotalSame
    <3> QED
      BY <3>2 DEF R
  <2> QED
    BY <1>9, <2>1, <2>2 DEF MemoryAccounting, TotalSize
<1> QED
  BY <1>3, <1>4, <1>5, <1>6, <1>9, <1>10 DEF all, gone

\* Set of a new key.
LEMMA InsertIInv ==
    ASSUME IInv, NEW key \in Keys, NEW size \in Sizes, NEW ttl \in TTLs,
           SetInsert(key, NewEntry(size, ttl)), Operation, now' = now
    PROVE  IInv'
<1> DEFINE e == NewEntry(size, ttl)
<1>1. ops \in Nat /\ ops' = ops + 1 /\ ops' <= MaxOps /\ now \in Nat
  BY LRUAssumption DEF Operation, IInv, TypeOK
<1>2. e \in Entry /\ e.size \in Nat /\ e.value = ops + 1
  BY NewEntryFacts
<1> HIDE DEF e
<1>3. SetInsert(key, e)
  BY DEF e
<1>4. /\ order' \in Seq(Keys) /\ Lists(order', DOMAIN items')
      /\ RecentIn(order', history'.lastUse)
      /\ history' \in [inserted : Nat, lastUse : [Keys -> Nat]]
      /\ \A k \in Keys : history'.lastUse[k] <= ops + 1
      /\ Cardinality(DOMAIN items') = Stay(key, e) /\ Stay(key, e) <= capacity
      /\ Stay(key, e) \in 0 .. Len(Pushed(key)) /\ Len(Pushed(key)) \in Nat
  BY <1>2, <1>3, InsertFacts
<1>5. /\ currentMemory' \in Nat /\ MemoryAccounting'
      /\ Evicted(Pushed(key), Stay(key, e)) \in SUBSET (DOMAIN items \cup {key})
  BY <1>2, <1>3, InsertBytes
<1>6. \A k \in DOMAIN items' : k \in Keys /\ items'[k] = (IF k = key THEN e ELSE items[k])
                               /\ (k # key => k \in DOMAIN items)
  <2>1. DOMAIN items' = (DOMAIN items \cup {key}) \ Evicted(Pushed(key), Stay(key, e))
    BY <1>3, InsertedMap
  <2>2. \A k \in DOMAIN items' : items'[k] = Together(key, e)[k]
    BY <1>3, InsertedEntries
  <2> QED
    BY <2>1, <2>2, StateFacts DEF Together
<1>7. metrics' \in [hits : Nat, misses : Nat, evictions : Nat]
  <2> DEFINE c == Cardinality(Evicted(Pushed(key), Stay(key, e)))
  <2>1. metrics' = [metrics EXCEPT !.evictions = @ + c]
    BY <1>3, InsertedMap
  <2>2. c \in Nat
    <3>1. IsFiniteSet(DOMAIN items \cup {key})
      BY StateFacts, FS_AddElement
    <3>2. IsFiniteSet(Evicted(Pushed(key), Stay(key, e)))
      BY <1>5, <3>1, FS_Subset
    <3> QED
      BY <3>2, FS_CardinalityType
  <2> HIDE DEF c
  <2>3. metrics \in [hits : Nat, misses : Nat, evictions : Nat]
    BY DEF IInv, TypeOK
  <2>4. metrics.evictions + c \in Nat
    BY <2>2, <2>3
  <2> QED
    BY ONLY <2>1, <2>3, <2>4
<1>8. TypeOK'
  <2>1. DOMAIN items' \subseteq Keys /\ \A k \in DOMAIN items' : items'[k] \in Entry
    BY <1>2, <1>6, StateFacts
  <2> QED
    BY <1>1, <1>4, <1>5, <1>7, <2>1 DEF TypeOK
<1>9. Lists(order, DOMAIN items)' /\ RecentIn(order, history.lastUse)'
  BY <1>4 DEF Lists, RecentIn
<1>10. ASSUME NEW k \in DOMAIN items'
       PROVE  items'[k].value \in 1 .. ops'
  <2>1. CASE k = key
    BY <1>1, <1>2, <1>6, <2>1
  <2>2. CASE k # key
    <3>1. items'[k] = items[k] /\ items[k].value \in 1 .. ops
      BY <1>6, <2>2 DEF IInv
    <3> QED
      BY <1>1, <3>1
  <2> QED
    BY <2>1, <2>2
<1>11. (Cardinality(DOMAIN items) <= capacity)'
  BY <1>4 DEF capacity
<1> QED
  BY <1>1, <1>4, <1>5, <1>8, <1>9, <1>10, <1>11 DEF IInv

\* Every operation, the scan, the clock and every stutter.
LEMMA NextIInv == IInv /\ [Next]_vars => IInv'
<1> SUFFICES ASSUME IInv, [Next]_vars PROVE IInv'
  OBVIOUS
<1>1. ASSUME NEW k \in Keys, Get(k) PROVE IInv'
  BY <1>1, GetIInv
<1>2. ASSUME NEW k \in Keys, Delete(k) PROVE IInv'
  <2>1. {k} \cap DOMAIN items \in SUBSET DOMAIN items /\ RemoveElements({k} \cap DOMAIN items)
    BY <1>2 DEF Delete
  <2>2. /\ ops' = ops + 1 /\ ops' <= MaxOps /\ now' = now /\ metrics' = metrics
        /\ history' = history /\ now' \in Nat
        /\ metrics' \in [hits : Nat, misses : Nat, evictions : Nat]
    BY <1>2, LRUAssumption DEF Delete, Operation, IInv, TypeOK
  <2> QED
    BY <2>1, <2>2, RemovalIInv
<1>3. ASSUME NEW k \in Keys, NEW s \in Sizes, NEW t \in TTLs, Set(k, s, t) PROVE IInv'
  BY <1>3, UpdateIInv, InsertIInv DEF Set
<1>4. CASE removeExpired
  <2> DEFINE gone == {k \in DOMAIN items : Expired(items[k])}
  <2>1. /\ RemoveElements(gone)
        /\ metrics' = [metrics EXCEPT !.evictions = @ + Cardinality(gone)]
        /\ UNCHANGED <<now, reply, ops, history>>
    BY <1>4 DEF removeExpired
  <2>2. gone \in SUBSET DOMAIN items
    OBVIOUS
  <2> HIDE DEF gone
  <2>3. Cardinality(gone) \in Nat
    BY <2>1, <2>2, Removed
  <2>4. metrics' \in [hits : Nat, misses : Nat, evictions : Nat]
    <3>1. metrics \in [hits : Nat, misses : Nat, evictions : Nat]
      BY DEF IInv, TypeOK
    <3>2. metrics.evictions + Cardinality(gone) \in Nat
      BY <2>3, <3>1
    <3> QED
      BY <2>1, <3>1, <3>2
  <2>5. now' \in Nat /\ ops' = ops /\ ops' <= MaxOps /\ history' = history
    BY <2>1 DEF IInv, TypeOK
  <2> QED
    BY <2>1, <2>2, <2>4, <2>5, RemovalIInv
<1>5. CASE Tick
  BY <1>5 DEF Tick, IInv, TypeOK, Lists, RecentIn, MemoryAccounting, TotalSize, capacity
<1>6. CASE UNCHANGED vars
  BY <1>6 DEF vars, IInv, TypeOK, Lists, RecentIn, MemoryAccounting, TotalSize, capacity
<1> QED
  BY <1>1, <1>2, <1>3, <1>4, <1>5, <1>6 DEF Next

\* The inductive invariant holds in every reachable state.
THEOREM Invariance == Spec => []IInv
BY InitIInv, NextIInv, PTL DEF Spec

(***************************************************************************)
(* The map and the list hold the same keys, each once, within capacity.    *)
(***************************************************************************)
THEOREM IndexAndList == Spec => []IndexMatchesList
<1>1. IInv => IndexMatchesList
  <2> SUFFICES ASSUME IInv PROVE IndexMatchesList
    OBVIOUS
  <2>1. Len(order) = Cardinality(DOMAIN items)
    BY StateFacts, ListLength DEF IInv
  <2>2. ToSet(order) = DOMAIN items
    <3>1. DOMAIN order = 1 .. Len(order) /\ \A i \in 1 .. Len(order) : order[i] \in Keys
      BY StateFacts, LenProperties, ElementOfSeq
    <3> QED
      BY <3>1, StateFacts DEF ToSet, IInv, Lists
  <2> QED
    BY <2>1, <2>2 DEF IndexMatchesList, IInv
<1> QED
  BY <1>1, Invariance, PTL

\* The byte count is the sum of the sizes of the entries in the cache.
THEOREM BytesAreCounted == Spec => []MemoryAccounting
<1>1. IInv => MemoryAccounting
  BY DEF IInv
<1> QED
  BY <1>1, Invariance, PTL

----------------------------------------------------------------------------

\* The evictions of one insertion, over the list before them.
LEMMA InsertionEvicts ==
    ASSUME IInv, NEW key \in Keys, NEW e \in Entry, e.size \in Nat, SetInsert(key, e)
    PROVE  JustEnough
<1> DEFINE list  == Pushed(key)
           all   == Together(key, e)
           n     == Stay(key, e)
           D     == DOMAIN items
           left  == DOMAIN items'
           out   == Evicted(Pushed(key), Stay(key, e))
           u     == history.lastUse
           v     == history'.lastUse
           bytes == Bytes(e)
<1>1. /\ Len(list) \in Nat /\ list[1] = key /\ list \in Seq(Keys)
      /\ n \in 0 .. Len(list) /\ n <= capacity
      /\ Lists(list, D \cup {key}) /\ RecentIn(list, v)
      /\ Cardinality(left) = n
  BY InsertFacts
<1>2. /\ key \notin D /\ left = (D \cup {key}) \ out
      /\ currentMemory' = bytes - TotalSize(all, out)
  BY InsertedMap
<1>3. history' \in [inserted : Nat, lastUse : [Keys -> Nat]]
      /\ \A k \in Keys : k # key => v[k] = u[k]
  BY InsertFacts
<1>4. /\ \A k \in D \cup {key} : all[k].size \in Nat
      /\ out \in SUBSET (D \cup {key})
      /\ currentMemory' \in Nat /\ MemoryAccounting'
      /\ bytes = TotalSize(all, D \cup {key})
  BY InsertBytes
<1>5. /\ D \in SUBSET Keys /\ u \in [Keys -> Nat] /\ v \in [Keys -> Nat]
      /\ \A k \in D : k \in Keys /\ v[k] = u[k] /\ u[k] \in Nat
      /\ D \cup {key} \in SUBSET Keys
  <2>1. D \in SUBSET Keys /\ u \in [Keys -> Nat]
    BY StateFacts
  <2>2. v \in [Keys -> Nat]
    BY <1>3
  <2> QED
    BY <1>2, <1>3, <2>1, <2>2
<1>6. /\ Fits(list, all, bytes, n)
      /\ \A m \in 0 .. Len(list) : m <= capacity /\ Fits(list, all, bytes, m) => m <= n
  BY <1>1, KeptFacts DEF Stay
<1>7. out = {list[i] : i \in n + 1 .. Len(list)}
  BY DEF Evicted
<1>8. \A k \in D : all[k] = items[k]
  BY <1>2 DEF Together
<1>9. left \in SUBSET Keys /\ TotalSize(items', left) = currentMemory'
  <2>1. left \in SUBSET Keys
    BY <1>2, <1>5
  <2> QED
    BY <1>4, <2>1 DEF MemoryAccounting, TotalSize
<1>10. n = 0 => left = {} /\ currentMemory' = 0
  <2> SUFFICES ASSUME n = 0 PROVE left = {} /\ currentMemory' = 0
    OBVIOUS
  <2> HIDE DEF list, n, out
  <2>1. left = {}
    <3>1. \A k \in D \cup {key} : \E i \in n + 1 .. Len(list) : list[i] = k
      BY <1>1, <1>5 DEF Lists
    <3> QED
      BY <1>2, <1>7, <3>1
  <2>2. TotalSize(items', {}) = 0
    BY TotalFacts
  <2> QED
    BY <1>9, <2>1, <2>2
<1>11. capacity \in Nat /\ maxMemory \in Nat
  BY LimitTypes
<1>12. \A i, j \in 1 .. Len(list) : list[i] = list[j] => i = j
  <2> HIDE DEF list, v, D
  <2> QED
    BY <1>1, <1>5, ListLength
<1> HIDE DEF list, all, n, D, left, out, u, v, bytes
<1>13. maxMemory > 0 => currentMemory' <= maxMemory
  <2>1. CASE n = 0
    BY <1>10, <1>11, <2>1
  <2>2. CASE n # 0
    BY <1>2, <1>6, <1>11, <2>2 DEF Fits, out, list, n
  <2> QED
    BY <2>1, <2>2
<1>14. \A k \in left : \E i \in 1 .. n : list[i] = k
  <2> SUFFICES ASSUME NEW k \in left PROVE \E i \in 1 .. n : list[i] = k
    OBVIOUS
  <2>1. PICK i \in 1 .. Len(list) : list[i] = k
    BY <1>1, <1>2, <1>5 DEF Lists
  <2>2. ~ (i \in n + 1 .. Len(list))
    BY <1>2, <1>7, <2>1
  <2> QED
    BY <1>1, <2>1, <2>2
<1>15. \A k \in D \ left : k \in out /\ k \in D /\ \E i \in n + 1 .. Len(list) : list[i] = k
  BY <1>2, <1>7
<1>16. ASSUME NEW j \in D \ left, NEW k \in left
       PROVE  u[j] < v[k]
  <2>1. PICK a \in n + 1 .. Len(list) : list[a] = j
    BY <1>15
  <2>2. PICK b \in 1 .. n : list[b] = k
    BY <1>14
  <2>3. a \in 1 .. Len(list) /\ b \in 1 .. Len(list) /\ b < a
    BY <1>1
  <2>4. v[list[a]] < v[list[b]]
    BY <1>1, <2>3 DEF RecentIn
  <2> QED
    BY <1>5, <2>1, <2>2, <2>4
<1>17. ASSUME NEW k \in D \ left, \A j \in D \ left : u[j] <= u[k],
              left # {}, n # capacity
       PROVE  maxMemory > 0 /\ currentMemory' + items[k].size > maxMemory
  <2>1. PICK a \in n + 1 .. Len(list) : list[a] = k
    BY <1>15
  <2>2. /\ n \in Nat /\ n >= 1 /\ a \in 1 .. Len(list)
        /\ n + 1 \in 1 .. Len(list) /\ n + 1 <= capacity /\ n + 1 # 1
    BY <1>1, <1>10, <1>11, <1>17
  <2> DEFINE w == list[n + 1]
  <2>3. w \in D \ left
    <3>1. w # key
      BY <1>1, <1>12, <2>2
    <3>2. w \in Keys /\ w \in D \cup {key}
      BY <1>1, <2>2, ElementOfSeq DEF Lists
    <3>3. w \in out
      BY <1>7, <2>2
    <3> QED
      BY <1>2, <3>1, <3>2, <3>3
  <2>4. a = n + 1
    <3> SUFFICES ASSUME a # n + 1 PROVE FALSE
      OBVIOUS
    <3>1. n + 1 < a
      BY <2>2
    <3>2. v[list[a]] < v[list[n + 1]]
      BY <1>1, <2>2, <3>1 DEF RecentIn
    <3>3. u[k] < u[w]
      BY <1>5, <2>1, <2>3, <3>2
    <3>4. u[w] <= u[k]
      BY <1>17, <2>3
    <3>5. u[k] \in Nat /\ u[w] \in Nat
      BY <1>5, <2>3
    <3> HIDE DEF w
    <3> QED
      BY ONLY <3>3, <3>4, <3>5
  <2>5. ~Fits(list, all, bytes, n + 1)
    BY <1>6, <2>2
  <2>6. Evicted(list, n + 1) = out \ {k}
    <3>1. \A x : x \in out <=> \E i \in n + 1 .. Len(list) : list[i] = x
      BY <1>7
    <3>2. \A x : x \in Evicted(list, n + 1) <=> \E i \in n + 1 + 1 .. Len(list) : list[i] = x
      BY DEF Evicted
    <3>3. \A i \in n + 1 .. Len(list) :
             i \in 1 .. Len(list) /\ (i = n + 1 \/ i \in n + 1 + 1 .. Len(list))
      BY <1>1
    <3>4. \A i \in n + 1 + 1 .. Len(list) :
             i \in 1 .. Len(list) /\ i \in n + 1 .. Len(list) /\ i # n + 1
      BY <1>1
    <3>5. list[n + 1] = k
      BY <2>1, <2>4
    <3>6. \A i \in n + 1 + 1 .. Len(list) : list[i] # k
      BY <1>12, <2>2, <3>4, <3>5
    <3> QED
      BY <3>1, <3>2, <3>3, <3>4, <3>5, <3>6
  <2>7. TotalSize(all, out) = all[k].size + TotalSize(all, out \ {k})
    <3>1. k \in out /\ out \in SUBSET Keys /\ \A x \in out : all[x].size \in Nat
      BY <1>4, <1>5, <1>15
    <3> QED
      BY <3>1, TotalFacts
  <2>8. /\ TotalSize(all, out) \in Nat /\ TotalSize(all, out \ {k}) \in Nat
        /\ bytes \in Nat
    <3>1. out \in SUBSET Keys /\ \A x \in out : all[x].size \in Nat
      BY <1>4, <1>5
    <3>2. out \ {k} \in SUBSET Keys /\ \A x \in out \ {k} : all[x].size \in Nat
      BY <3>1
    <3>3. bytes \in Nat
      BY <1>4, <1>5, TotalFacts
    <3> QED
      BY <3>1, <3>2, <3>3, TotalFacts
  <2>9. all[k].size = items[k].size /\ all[k].size \in Nat
    BY <1>4, <1>8, <1>17
  <2>10. maxMemory # 0 /\ ~ (bytes - TotalSize(all, out \ {k}) <= maxMemory)
    BY <2>5, <2>6 DEF Fits
  <2> QED
    BY <1>2, <1>11, <2>7, <2>8, <2>9, <2>10
<1> QED
  BY <1>1, <1>13, <1>16, <1>17 DEF JustEnough, left, D, u, v

(***************************************************************************)
(* In every step an insertion evicts the least recently used entries, and  *)
(* no more of them than the two limits ask for.                            *)
(***************************************************************************)
THEOREM Eviction == Spec => EvictsJustEnough
<1>1. IInv /\ [Next]_vars => [JustEnough]_vars
  <2> SUFFICES ASSUME IInv, Next PROVE JustEnough
    BY DEF vars
  <2>1. ASSUME NEW key \in Keys, Get(key) \/ Delete(key)
        PROVE  history'.inserted = history.inserted
    BY <2>1, StateFacts DEF Get, GetMiss, GetExpired, GetHit, Delete, Used, IInv, TypeOK
  <2>2. ASSUME removeExpired \/ Tick
        PROVE  history'.inserted = history.inserted
    BY <2>2 DEF removeExpired, Tick
  <2>3. ASSUME NEW key \in Keys, NEW size \in Sizes, NEW ttl \in TTLs, Set(key, size, ttl)
        PROVE  JustEnough
    <3> DEFINE e == NewEntry(size, ttl)
    <3>1. e \in Entry /\ e.size \in Nat
      BY NewEntryFacts
    <3>2. SetUpdate(key, e) \/ SetInsert(key, e)
      BY <2>3 DEF Set
    <3> HIDE DEF e
    <3>3. CASE SetUpdate(key, e)
      <4>1. history'.inserted = history.inserted
        BY <3>3 DEF SetUpdate, Used, IInv, TypeOK
      <4> QED
        BY <4>1 DEF JustEnough
    <3>4. CASE SetInsert(key, e)
      BY <3>1, <3>4, InsertionEvicts
    <3> QED
      BY <3>2, <3>3, <3>4
  <2> QED
    BY <2>1, <2>2, <2>3 DEF Next, JustEnough
<1> QED
  BY <1>1, Invariance, PTL DEF Spec, EvictsJustEnough

----------------------------------------------------------------------------

\* An entry that is there now and unexpired after the step was so before it:
\* the store may forget, but nothing comes back.
LEMMA OnlyForgets ==
    ASSUME IInv, now \in Nat, now' \in Nat, now <= now', NEW k \in Keys,
           k \in DOMAIN items' => k \in DOMAIN items /\ items'[k] = items[k]
    PROVE  Visible'[k] = Visible[k] \/ Visible'[k] = 0
<1>1. /\ Visible[k] = IF k \in DOMAIN items /\ ~Expired(items[k]) THEN items[k].value ELSE 0
      /\ Visible'[k] = IF k \in DOMAIN items' /\ ~Expired(items[k])' THEN items'[k].value ELSE 0
  BY DEF Visible
<1>2. ASSUME k \in DOMAIN items', ~Expired(items[k])'
      PROVE  k \in DOMAIN items /\ items'[k] = items[k] /\ ~Expired(items[k])
  <2>1. k \in DOMAIN items /\ items'[k] = items[k]
    BY <1>2
  <2>2. items[k].Expiry \in Nat
    BY <2>1, StateFacts DEF Entry
  <2> QED
    BY <1>2, <2>1, <2>2 DEF Expired
<1> QED
  BY <1>1, <1>2

\* What is visible is a store, in every state the invariant allows.
LEMMA VisibleIsStore == IInv => Visible \in Store!Stores
<1> SUFFICES ASSUME IInv, NEW k \in Keys
             PROVE  Visible[k] \in (1 .. MaxOps) \cup {0}
  BY DEF Visible, Store!Stores
<1>1. ops \in Nat /\ ops <= MaxOps /\ MaxOps \in Nat
  BY LRUAssumption DEF IInv, TypeOK
<1>2. k \in DOMAIN items => items[k].value \in 1 .. MaxOps
  BY <1>1 DEF IInv
<1> QED
  BY <1>2 DEF Visible

\* And after a step that keeps the invariant.
LEMMA VisibleStaysStore == IInv' => (Visible \in Store!Stores)'
BY VisibleIsStore, PTL

\* A step that only removes entries, or lets time pass, is Forget.
LEMMA RemovalForgets ==
    ASSUME IInv, IInv', now' \in {now, now + 1}, reply' = reply,
           \A k \in DOMAIN items' : k \in DOMAIN items /\ items'[k] = items[k]
    PROVE  Store!Forget
<1>1. now \in Nat /\ now' \in Nat /\ now <= now'
  BY DEF IInv, TypeOK
<1>2. \A k \in Keys : Visible'[k] = Visible[k] \/ Visible'[k] = 0
  BY <1>1, OnlyForgets
<1>3. (Visible \in Store!Stores)'
  BY VisibleStaysStore
<1> QED
  BY <1>2, <1>3 DEF Store!Forget, Store!Forgets

\* Get answers with what is visible and changes nothing visible.
LEMMA GetIsLookup ==
    ASSUME IInv, NEW key \in Keys, Get(key)
    PROVE  Store!Lookup(key)
<1>1. now' = now
  BY DEF Get
<1>2. CASE GetMiss(key)
  <2>1. items' = items /\ reply' = <<key, 0>> /\ key \notin DOMAIN items
    BY <1>2 DEF GetMiss
  <2> QED
    BY <1>1, <2>1 DEF Store!Lookup, Visible, Expired
<1>3. CASE GetHit(key)
  <2>1. items' = items /\ reply' = <<key, items[key].value>> /\ key \in DOMAIN items
        /\ ~Expired(items[key])
    BY <1>3 DEF GetHit
  <2> QED
    BY <1>1, <2>1 DEF Store!Lookup, Visible, Expired
<1>4. CASE GetExpired(key)
  <2>1. /\ key \in DOMAIN items /\ Expired(items[key]) /\ reply' = <<key, 0>>
        /\ items' = [k \in DOMAIN items \ {key} |-> items[k]]
    BY <1>4 DEF GetExpired, RemoveElements
  <2>2. Visible[key] = 0
    BY <2>1 DEF Visible
  <2>3. \A k \in Keys : Visible'[k] = Visible[k]
    BY <1>1, <2>1 DEF Visible, Expired
  <2>4. Visible' = Visible
    BY <2>3 DEF Visible
  <2> QED
    BY <2>1, <2>2, <2>4 DEF Store!Lookup
<1> QED
  BY <1>2, <1>3, <1>4 DEF Get

\* Set puts its version; what an insertion evicts is forgotten.
LEMMA SetIsPut ==
    ASSUME IInv, IInv', NEW key \in Keys, NEW size \in Sizes, NEW ttl \in TTLs,
           Set(key, size, ttl)
    PROVE  Store!Put(key, ops + 1) /\ ops + 1 \in 1 .. MaxOps
<1> DEFINE e == NewEntry(size, ttl)
<1>1. ops \in Nat /\ ops + 1 <= MaxOps /\ now \in Nat /\ now' = now /\ reply' = reply
      /\ MaxOps \in Nat
  BY LRUAssumption DEF Set, Operation, IInv, TypeOK
<1>2. e \in Entry /\ e.value = ops + 1
  BY NewEntryFacts
<1>3. SetUpdate(key, e) \/ SetInsert(key, e)
  BY DEF Set
<1> HIDE DEF e
<1>4. \A k \in DOMAIN items' : IF k = key THEN items'[k] = e
                                          ELSE k \in DOMAIN items /\ items'[k] = items[k]
  <2>1. CASE SetUpdate(key, e)
    <3>1. items' = [items EXCEPT ![key] = e] /\ key \in DOMAIN items
      BY <2>1 DEF SetUpdate
    <3> QED
      BY <3>1
  <2>2. CASE SetInsert(key, e)
    <3>1. DOMAIN items' = (DOMAIN items \cup {key}) \ Evicted(Pushed(key), Stay(key, e))
      BY <2>2, InsertedMap
    <3>2. \A k \in DOMAIN items' : items'[k] = Together(key, e)[k]
      BY <2>2, InsertedEntries
    <3> QED
      BY <3>1, <3>2 DEF Together
  <2> QED
    BY <1>3, <2>1, <2>2
<1>5. ASSUME NEW k \in Keys, k # key
      PROVE  Visible'[k] = Visible[k] \/ Visible'[k] = 0
  BY <1>1, <1>4, <1>5, OnlyForgets
<1>6. Visible'[key] = ops + 1 \/ Visible'[key] = 0
  <2>1. Visible'[key] = IF key \in DOMAIN items' /\ ~Expired(items[key])'
                          THEN items'[key].value ELSE 0
    BY DEF Visible
  <2>2. key \in DOMAIN items' => items'[key].value = ops + 1
    BY <1>2, <1>4
  <2> QED
    BY <2>1, <2>2
<1>7. (Visible \in Store!Stores)'
  BY VisibleStaysStore
<1>8. DOMAIN Visible = Keys
  BY DEF Visible
<1>9. \A k \in Keys : \/ Visible'[k] = [Visible EXCEPT ![key] = ops + 1][k]
                      \/ Visible'[k] = 0
  <2> HIDE DEF Visible
  <2> QED
    BY <1>5, <1>6, <1>8
<1> QED
  BY <1>1, <1>7, <1>9 DEF Store!Put, Store!Forgets

(***************************************************************************)
(* The cache implements the store the middleware relies on: a Get answers  *)
(* with the response stored last under its key or with nothing, whatever   *)
(* was updated, evicted, expired, scanned or deleted in between.           *)
(***************************************************************************)
THEOREM Refinement == Spec => ImplementsStore
<1>1. Init => Store!Init
  BY DEF Init, Store!Init, Visible
<1>2. IInv /\ IInv' /\ [Next]_vars => [Store!Next]_(Store!storeVars)
  <2> SUFFICES ASSUME IInv, IInv', [Next]_vars
               PROVE  Store!Next \/ UNCHANGED Store!storeVars
    OBVIOUS
  <2>1. ASSUME NEW k \in Keys, Get(k) PROVE Store!Next
    BY <2>1, GetIsLookup DEF Store!Next
  <2>2. ASSUME NEW k \in Keys, Delete(k) PROVE Store!Next
    <3>1. /\ items' = [j \in DOMAIN items \ ({k} \cap DOMAIN items) |-> items[j]]
          /\ now' = now /\ reply' = reply
      BY <2>2 DEF Delete, RemoveElements
    <3>2. Store!Forget
      BY <3>1, RemovalForgets
    <3> QED
      BY <3>2 DEF Store!Next
  <2>3. ASSUME NEW k \in Keys, NEW s \in Sizes, NEW t \in TTLs, Set(k, s, t) PROVE Store!Next
    BY <2>3, SetIsPut DEF Store!Next
  <2>4. CASE removeExpired
    <3>1. /\ \A j \in DOMAIN items' : j \in DOMAIN items /\ items'[j] = items[j]
          /\ now' = now /\ reply' = reply
      BY <2>4 DEF removeExpired, RemoveElements
    <3>2. Store!Forget
      BY <3>1, RemovalForgets
    <3> QED
      BY <3>2 DEF Store!Next
  <2>5. CASE Tick
    <3>1. items' = items /\ now' = now + 1 /\ reply' = reply
      BY <2>5 DEF Tick
    <3>2. Store!Forget
      BY <3>1, RemovalForgets
    <3> QED
      BY <3>2 DEF Store!Next
  <2>6. CASE UNCHANGED vars
    BY <2>6 DEF vars, Store!storeVars, Visible, Expired
  <2> QED
    BY <2>1, <2>2, <2>3, <2>4, <2>5, <2>6 DEF Next
<1> QED
  BY <1>1, <1>2, Invariance, PTL DEF Spec, ImplementsStore, Store!Spec
=============================================================================
