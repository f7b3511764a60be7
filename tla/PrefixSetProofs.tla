--------------------------- MODULE PrefixSetProofs ---------------------------
(***************************************************************************)
(* Proofs about PrefixSet, for all sets of keys and queries and any number *)
(* of insertions: the cursor stays within the keys, and the answers are    *)
(* those of PrefixClosedSet and of the first marked key.                   *)
(***************************************************************************)
EXTENDS PrefixSet, ByteStringLemmas, FiniteSetTheorems

-----------------------------------------------------------------------------
(* Sorting.                                                                *)

\* Keys and queries are byte strings.
LEMMA KeysAreStrings ==
  /\ \A k \in Keys : k \in Seq(Nat)
  /\ \A prefix \in Queries \cup {<<>>} : prefix \in Seq(Nat)
<1>1. Nibble \subseteq Nat
  BY DEF Nibble
<1>2. \A k \in Seq(Nibble) : k \in Seq(Nat)
  BY <1>1, SeqMonotonic, Zenon
<1>3. <<>> \in Seq(Nat)
  OBVIOUS
<1> QED
  BY <1>2, <1>3, KeysAssumption, QueriesAssumption

\* operator< of items is a strict total order.
LEMMA PrecedesIsOrder ==
  /\ \A a \in Item : ~precedes(a, a)
  /\ \A a, b \in Item : a # b => precedes(a, b) \/ precedes(b, a)
  /\ \A a, b, c \in Item : precedes(a, b) /\ precedes(b, c) => precedes(a, c)
<1>1. \A a \in Item : a.key \in Seq(Nat) /\ a.marker \in BOOLEAN
  BY KeysAreStrings DEF Item
<1>2. \A a \in Item : ~precedes(a, a)
  BY <1>1, GreaterIrreflexive DEF precedes
<1>3. ASSUME NEW a \in Item, NEW b \in Item, a # b
      PROVE  precedes(a, b) \/ precedes(b, a)
  <2>1. CASE a.key # b.key
    BY <1>1, <2>1, GreaterTotal DEF precedes
  <2>2. CASE a.key = b.key
    <3>1. a.marker # b.marker
      BY <1>3, <2>2 DEF Item
    <3> QED
      BY <1>1, <2>2, <3>1 DEF precedes
  <2> QED
    BY <2>1, <2>2
<1>4. ASSUME NEW a \in Item, NEW b \in Item, NEW c \in Item, precedes(a, b), precedes(b, c)
      PROVE  precedes(a, c)
  <2>1. greater(b.key, a.key) \/ (a.key = b.key /\ ~a.marker /\ b.marker)
    BY <1>4 DEF precedes
  <2>2. greater(c.key, b.key) \/ (b.key = c.key /\ ~b.marker /\ c.marker)
    BY <1>4 DEF precedes
  <2>3. greater(c.key, b.key) /\ greater(b.key, a.key) => greater(c.key, a.key)
    BY <1>1, GreaterTransitive
  <2> QED
    BY <2>1, <2>2, <2>3 DEF precedes
<1> QED
  BY <1>2, <1>3, <1>4

\* Ranks follow the order, and lie between 0 and the number of items.
LEMMA RankOrder ==
  ASSUME NEW S, S \subseteq Item, IsFiniteSet(S)
  PROVE  /\ Cardinality(S) \in Nat
         /\ \A a \in S : rank(a, S) \in Nat /\ rank(a, S) < Cardinality(S)
         /\ \A a, b \in S : precedes(a, b) => rank(a, S) < rank(b, S)
<1> DEFINE Below(a) == {other \in S : precedes(other, a)}
<1>1. Cardinality(S) \in Nat
  BY FS_CardinalityType
<1>2. ASSUME NEW a \in S
      PROVE  /\ IsFiniteSet(Below(a)) /\ Cardinality(Below(a)) \in Nat
             /\ Cardinality(Below(a)) < Cardinality(S)
  <2>1. Below(a) \in SUBSET S /\ a \notin Below(a)
    BY PrecedesIsOrder
  <2> HIDE DEF Below
  <2>2. /\ IsFiniteSet(Below(a))
        /\ Cardinality(Below(a)) <= Cardinality(S)
        /\ Cardinality(S) = Cardinality(Below(a)) => S = Below(a)
    BY <2>1, FS_Subset
  <2>3. Cardinality(Below(a)) \in Nat
    BY <2>2, FS_CardinalityType
  <2> QED
    BY <1>1, <2>1, <2>2, <2>3
<1>3. ASSUME NEW a \in S, NEW b \in S, precedes(a, b)
      PROVE  Cardinality(Below(a)) < Cardinality(Below(b))
  <2>1. Below(a) \subseteq Below(b)
    BY <1>3, PrecedesIsOrder
  <2>2. a \in Below(b) /\ a \notin Below(a)
    BY <1>3, PrecedesIsOrder
  <2>3. IsFiniteSet(Below(b)) /\ Cardinality(Below(b)) \in Nat /\ Cardinality(Below(a)) \in Nat
    BY <1>2
  <2> HIDE DEF Below
  <2>4. /\ Cardinality(Below(a)) <= Cardinality(Below(b))
        /\ Cardinality(Below(b)) = Cardinality(Below(a)) => Below(b) = Below(a)
    BY <2>1, <2>3, FS_Subset
  <2> QED
    BY <2>2, <2>3, <2>4
<1> QED
  BY <1>1, <1>2, <1>3 DEF rank

\* Every number below that of the items is the rank of one of them.
LEMMA RankOnto ==
  ASSUME NEW S, S \subseteq Item, IsFiniteSet(S), NEW n \in Nat, n < Cardinality(S)
  PROVE  \E item \in S : rank(item, S) = n
<1> DEFINE T == 0..(Cardinality(S) - 1)
           f == [item \in S |-> rank(item, S)]
<1>1. Cardinality(S) \in Nat
  BY RankOrder
<1>2. IsFiniteSet(T) /\ Cardinality(T) = Cardinality(S)
  <2> DEFINE last == Cardinality(S) - 1
  <2>1. 0 \in Int /\ last \in Int /\ ~(0 > last) /\ last - 0 + 1 = Cardinality(S)
    BY <1>1
  <2> HIDE DEF last
  <2>2. IsFiniteSet(0..last) /\ Cardinality(0..last) = Cardinality(S)
    BY <2>1, FS_Interval
  <2> QED
    BY <2>2 DEF last
<1>3. f \in [S -> T]
  BY <1>1, RankOrder
<1>4. ASSUME NEW a \in S, NEW b \in S, f[a] = f[b]
      PROVE  a = b
  <2>1. rank(a, S) = rank(b, S) /\ rank(a, S) \in Nat
    BY <1>4, RankOrder
  <2>2. SUFFICES ASSUME a # b
                 PROVE  FALSE
    OBVIOUS
  <2>3. precedes(a, b) \/ precedes(b, a)
    BY <2>2, PrecedesIsOrder
  <2>4. rank(a, S) < rank(b, S) \/ rank(b, S) < rank(a, S)
    BY <2>3, RankOrder
  <2> QED
    BY <2>1, <2>4
<1> HIDE DEF f
<1>5. f \in Injection(S, T)
  BY <1>3, <1>4 DEF Injection, IsInjective
<1> HIDE DEF T
<1>6. f \in Surjection(S, T)
  BY <1>2, <1>5, FS_Injection
<1>7. n \in T
  BY <1>1 DEF T
<1>8. PICK item \in S : f[item] = n
  BY <1>6, <1>7 DEF Surjection
<1> QED
  BY <1>8 DEF f

\* The items of a sequence are finitely many, and as many as its length if no two
\* places hold the same.
LEMMA ItemsOf ==
  ASSUME NEW keys \in Seq(Item)
  PROVE  /\ ToSet(keys) \subseteq Item
         /\ \A item : item \in ToSet(keys) <=> \E i \in 1..Len(keys) : item = keys[i]
         /\ IsFiniteSet(ToSet(keys))
         /\ Cardinality(ToSet(keys)) \in Nat
         /\ (\A i, j \in 1..Len(keys) : i < j => keys[i] # keys[j])
              => Cardinality(ToSet(keys)) = Len(keys)
<1> DEFINE T == ToSet(keys)
<1>1. Len(keys) \in Nat /\ DOMAIN keys = 1..Len(keys) /\ keys \in [1..Len(keys) -> Item]
  OBVIOUS
<1>2. T = {keys[i] : i \in 1..Len(keys)}
  BY <1>1 DEF ToSet
<1>3. keys \in Surjection(1..Len(keys), T)
  BY <1>1, <1>2 DEF Surjection
<1>4. IsFiniteSet(1..Len(keys)) /\ Cardinality(1..Len(keys)) = Len(keys)
  <2>1. 1 \in Int /\ Len(keys) \in Int
    BY <1>1
  <2>2. /\ IsFiniteSet(1..Len(keys))
        /\ Cardinality(1..Len(keys)) = IF 1 > Len(keys) THEN 0 ELSE Len(keys) - 1 + 1
    BY <2>1, FS_Interval, Zenon
  <2> QED
    BY <1>1, <2>2
<1> HIDE DEF T
<1>5. IsFiniteSet(T) /\ (Cardinality(T) = Cardinality(1..Len(keys)) <=> keys \in Injection(1..Len(keys), T))
  BY <1>3, <1>4, FS_Surjection
<1>6. Cardinality(T) \in Nat
  BY <1>5, FS_CardinalityType
<1>7. ASSUME \A i, j \in 1..Len(keys) : i < j => keys[i] # keys[j]
      PROVE  Cardinality(T) = Len(keys)
  <2>1. ASSUME NEW i \in 1..Len(keys), NEW j \in 1..Len(keys), keys[i] = keys[j]
        PROVE  i = j
    <3>1. ~(i < j) /\ ~(j < i)
      BY <1>7, <2>1
    <3>2. i \in Nat /\ j \in Nat
      BY <1>1
    <3> QED
      BY <3>1, <3>2
  <2>2. keys \in [1..Len(keys) -> T]
    BY <1>3 DEF Surjection
  <2>3. keys \in Injection(1..Len(keys), T)
    BY <2>1, <2>2 DEF Injection, IsInjective
  <2> QED
    BY <1>4, <1>5, <2>3
<1>8. T \subseteq Item
  BY <1>1, <1>2
<1>9. \A item : item \in T <=> \E i \in 1..Len(keys) : item = keys[i]
  BY <1>2
<1> QED
  BY <1>5, <1>6, <1>7, <1>8, <1>9 DEF T

Sorted(keys) == \A i, j \in DOMAIN keys : i < j => precedes(keys[i], keys[j])

\* std::sort and std::unique, as sort_unique states them, give a sorted sequence with
\* the same items, each once.
LEMMA SortUnique ==
  ASSUME NEW keys \in Seq(Item)
  PROVE  /\ sort_unique(keys) \in Seq(Item)
         /\ ToSet(sort_unique(keys)) = ToSet(keys)
         /\ Sorted(sort_unique(keys))
<1> DEFINE S == ToSet(keys)
           place(n) == CHOOSE item \in S : rank(item, S) = n - 1
           s == sort_unique(keys)
<1>1. S \subseteq Item /\ IsFiniteSet(S) /\ Cardinality(S) \in Nat
  BY ItemsOf
<1>2. s = [n \in 1..Cardinality(S) |-> place(n)]
  BY DEF sort_unique
<1> HIDE DEF S, s
<1>3. ASSUME NEW n \in 1..Cardinality(S)
      PROVE  place(n) \in S /\ rank(place(n), S) = n - 1
  <2>1. n - 1 \in Nat /\ n - 1 < Cardinality(S)
    BY <1>1
  <2>2. \E item \in S : rank(item, S) = n - 1
    BY <1>1, <2>1, RankOnto
  <2> QED
    BY <2>2
<1> HIDE DEF place
<1>4. s \in [1..Cardinality(S) -> Item]
  BY <1>1, <1>2, <1>3
<1>5. s \in Seq(Item) /\ Len(s) = Cardinality(S) /\ DOMAIN s = 1..Cardinality(S)
  BY <1>1, <1>4
<1>6. ASSUME NEW item \in S
      PROVE  \E n \in 1..Cardinality(S) : item = s[n]
  <2> DEFINE n == rank(item, S) + 1
  <2>1. rank(item, S) \in Nat /\ rank(item, S) < Cardinality(S)
    BY <1>1, RankOrder
  <2>2. n \in 1..Cardinality(S) /\ n - 1 = rank(item, S)
    BY <1>1, <2>1
  <2>3. place(n) \in S /\ rank(place(n), S) = rank(item, S)
    BY <1>3, <2>2
  <2> HIDE DEF n
  <2>4. place(n) = item
    <3>1. SUFFICES ASSUME place(n) # item
                   PROVE  FALSE
      OBVIOUS
    <3>2. precedes(place(n), item) \/ precedes(item, place(n))
      BY <1>1, <2>3, <3>1, PrecedesIsOrder
    <3>3. rank(place(n), S) < rank(item, S) \/ rank(item, S) < rank(place(n), S)
      BY <1>1, <2>3, <3>2, RankOrder
    <3> QED
      BY <2>1, <2>3, <3>3
  <2> QED
    BY <1>2, <2>2, <2>4
<1>7. ToSet(s) = S
  <2>1. \A item : item \in ToSet(s) <=> \E i \in 1..Cardinality(S) : item = s[i]
    BY <1>5, ItemsOf
  <2>2. \A i \in 1..Cardinality(S) : s[i] \in S
    BY <1>2, <1>3
  <2>3. \A item : item \in ToSet(s) <=> item \in S
    BY <1>6, <2>1, <2>2
  <2> QED
    BY <2>3
<1>8. ASSUME NEW i \in 1..Cardinality(S), NEW j \in 1..Cardinality(S), i < j
      PROVE  precedes(s[i], s[j])
  <2>1. /\ s[i] \in S /\ s[i] \in Item /\ rank(s[i], S) = i - 1
        /\ s[j] \in S /\ s[j] \in Item /\ rank(s[j], S) = j - 1
    BY <1>1, <1>2, <1>3
  <2>2. i - 1 < j - 1 /\ i \in Int /\ j \in Int
    BY <1>1, <1>8
  <2>3. s[i] # s[j]
    BY <2>1, <2>2
  <2>4. ~precedes(s[j], s[i])
    <3>1. precedes(s[j], s[i]) => rank(s[j], S) < rank(s[i], S)
      BY <1>1, <2>1, RankOrder
    <3> QED
      BY <2>1, <2>2, <3>1
  <2> QED
    BY <2>1, <2>3, <2>4, PrecedesIsOrder
<1> QED
  BY <1>5, <1>7, <1>8 DEF S, s, Sorted

-----------------------------------------------------------------------------
(* The two loops of contains, on sorted keys with the cursor in range.     *)

\* Later keys are not smaller.
LEMMA KeyOrder ==
  ASSUME NEW keys \in Seq(Item), Sorted(keys)
  PROVE  /\ \A i \in 0..(Len(keys) - 1) : key(keys, i) \in Keys /\ key(keys, i) \in Seq(Nat)
         /\ \A i, j \in 0..(Len(keys) - 1) : i <= j => ~greater(key(keys, i), key(keys, j))
<1>1. ASSUME NEW i \in 0..(Len(keys) - 1)
      PROVE  i + 1 \in 1..Len(keys) /\ keys[i + 1] \in Item
  OBVIOUS
<1>2. \A i \in 0..(Len(keys) - 1) : key(keys, i) \in Keys /\ key(keys, i) \in Seq(Nat)
  BY <1>1, KeysAreStrings DEF key, Item
<1>3. ASSUME NEW i \in 0..(Len(keys) - 1), NEW j \in 0..(Len(keys) - 1), i <= j
      PROVE  ~greater(key(keys, i), key(keys, j))
  <2>1. CASE i = j
    BY <1>2, <2>1, GreaterIrreflexive
  <2>2. CASE i < j
    <3>1. precedes(keys[i + 1], keys[j + 1])
      <4>1. i + 1 \in DOMAIN keys /\ j + 1 \in DOMAIN keys /\ i + 1 < j + 1
        BY <1>1, <2>2
      <4> QED
        BY <4>1 DEF Sorted
    <3>2. greater(key(keys, j), key(keys, i)) \/ key(keys, i) = key(keys, j)
      BY <3>1 DEF precedes, key
    <3>3. SUFFICES ASSUME greater(key(keys, i), key(keys, j))
                   PROVE  FALSE
      OBVIOUS
    <3>4. greater(key(keys, i), key(keys, i))
      BY <1>2, <3>2, <3>3, GreaterTransitive
    <3> QED
      BY <1>2, <3>4, GreaterIrreflexive
  <2> QED
    BY <1>3, <2>1, <2>2
<1> QED
  BY <1>2, <1>3

\* The first loop stops at a key that is not greater than the prefix, or at the first.
LEMMA Start ==
  ASSUME NEW keys, NEW prefix, index_ \in Nat
  PROVE  /\ start(keys, prefix) \in 0..index_
         /\ start(keys, prefix) > 0 => ~greater(key(keys, start(keys, prefix)), prefix)
<1> DEFINE Passed(i) == \A j \in (i + 1)..index_ : greater(key(keys, j), prefix)
           Good(i) == /\ i > 0 => ~greater(key(keys, i), prefix)
                      /\ Passed(i)
           S == {i \in 0..index_ : Passed(i)}
<1>1. index_ \in S /\ S \subseteq Nat
  OBVIOUS
<1>2. PICK i \in S : \A m \in S : i <= m
  BY <1>1, LeastNatural
<1>3. ASSUME i > 0, greater(key(keys, i), prefix)
      PROVE  FALSE
  <2>1. i - 1 \in 0..index_ /\ i \in Nat /\ ~(i <= i - 1)
    BY <1>2, <1>3
  <2>2. ASSUME NEW j \in ((i - 1) + 1)..index_
        PROVE  greater(key(keys, j), prefix)
    <3>1. j = i \/ j \in (i + 1)..index_
      BY <2>1
    <3> QED
      BY <1>2, <1>3, <3>1
  <2>3. i - 1 \in S
    BY <2>1, <2>2
  <2> QED
    BY <1>2, <2>1, <2>3
<1>4. \E k \in 0..index_ : Good(k)
  BY <1>2, <1>3
<1>5. start(keys, prefix) = CHOOSE k \in 0..index_ : Good(k)
  BY DEF start
<1> HIDE DEF Good
<1>6. start(keys, prefix) \in 0..index_ /\ Good(start(keys, prefix))
  BY <1>4, <1>5, Zenon
<1> QED
  BY <1>6 DEF Good

\* The second loop goes on from there, and stops.
LEMMA Stop ==
  ASSUME NEW keys \in Seq(Item), NEW prefix, index_ \in 0..(Len(keys) - 1)
  PROVE  /\ stop(keys, prefix) \in start(keys, prefix)..(Len(keys) - 1)
         /\ stops(keys, prefix, stop(keys, prefix))
         /\ \A j \in start(keys, prefix)..(stop(keys, prefix) - 1) : ~stops(keys, prefix, j)
<1> DEFINE st == start(keys, prefix)
           last == Len(keys) - 1
           Good(i) == /\ stops(keys, prefix, i)
                      /\ \A j \in st..(i - 1) : ~stops(keys, prefix, j)
           S == {i \in st..last : stops(keys, prefix, i)}
<1>1. st \in Nat /\ last \in Nat /\ st <= last
  BY Start
<1>2. stops(keys, prefix, last)
  BY DEF stops
<1>3. stop(keys, prefix) = CHOOSE i \in st..last : Good(i)
  BY DEF stop
<1> HIDE DEF st, last
<1>4. last \in S /\ S \subseteq Nat
  BY <1>1, <1>2
<1>5. PICK i \in S : \A m \in S : i <= m
  BY <1>4, LeastNatural
<1>6. Good(i)
  <2>1. ASSUME NEW j \in st..(i - 1), stops(keys, prefix, j)
        PROVE  FALSE
    <3>1. j \in st..last /\ ~(i <= j)
      BY <1>1, <1>5
    <3> QED
      BY <1>5, <2>1, <3>1
  <2> QED
    BY <1>5, <2>1
<1> HIDE DEF Good
<1>7. stop(keys, prefix) \in st..last /\ Good(stop(keys, prefix))
  BY <1>3, <1>5, <1>6, Zenon
<1> QED
  BY <1>7 DEF Good, st, last

\* Where the search leaves the cursor: behind all smaller keys, unless the last key
\* is smaller too.  It may stand on the second of two items with the prefix as key.
LEMMA Cursor ==
  ASSUME NEW keys \in Seq(Item), Sorted(keys), index_ \in 0..(Len(keys) - 1),
         NEW prefix \in Seq(Nat)
  PROVE  /\ stop(keys, prefix) \in 0..(Len(keys) - 1)
         /\ \A i \in 0..(stop(keys, prefix) - 1) :
              \/ greater(prefix, key(keys, i))
              \/ key(keys, i) = prefix /\ key(keys, stop(keys, prefix)) = prefix
         /\ stop(keys, prefix) = Len(keys) - 1 \/ ~greater(prefix, key(keys, stop(keys, prefix)))
<1> DEFINE st == start(keys, prefix)
           c == stop(keys, prefix)
           last == Len(keys) - 1
           k(i) == key(keys, i)
<1>1. /\ st \in 0..index_
      /\ st > 0 => ~greater(k(st), prefix)
  BY Start
<1>2. /\ c \in st..last
      /\ stops(keys, prefix, c)
      /\ \A j \in st..(c - 1) : ~stops(keys, prefix, j)
  BY Stop
<1>3. \A i, j \in 0..last : k(i) \in Seq(Nat) /\ (i <= j => ~greater(k(i), k(j)))
  BY KeyOrder
<1>4. last \in Nat /\ index_ \in 0..last
  OBVIOUS
<1>5. \A i : stops(keys, prefix, i) <=> starts_with(k(i), prefix) \/ greater(k(i), prefix) \/ i = last
  BY DEF stops
<1>6. starts_with(prefix, prefix)
  BY DEF starts_with
<1> HIDE DEF st, c, last, k
<1>7. st \in 0..last /\ c \in 0..last /\ st <= c
  BY <1>1, <1>2, <1>4
<1>8. ASSUME NEW i \in 0..(c - 1)
      PROVE  greater(prefix, k(i)) \/ (k(i) = prefix /\ k(c) = prefix)
  <2>1. i \in 0..last /\ i < c /\ k(i) \in Seq(Nat)
    <3>1. i \in 0..last /\ i < c
      BY <1>4, <1>7
    <3> QED
      BY <1>3, <3>1
  <2>2. CASE i >= st
    <3>1. ~stops(keys, prefix, i)
      BY <1>2, <2>1, <2>2, <1>7
    <3>2. k(i) # prefix /\ ~greater(k(i), prefix)
      BY <1>5, <1>6, <3>1
    <3> QED
      BY <2>1, <3>2, GreaterTotal
  <2>3. CASE i < st
    <3>1. ~greater(k(st), prefix) /\ ~greater(k(i), k(st)) /\ k(st) \in Seq(Nat)
      BY <1>1, <1>3, <1>7, <2>1, <2>3
    <3>2. k(st) = prefix \/ greater(prefix, k(st))
      BY <3>1, GreaterTotal
    <3>3. k(i) = k(st) \/ greater(k(st), k(i))
      BY <2>1, <3>1, GreaterTotal
    <3>4. CASE greater(prefix, k(st))
      BY <2>1, <3>1, <3>3, <3>4, GreaterTransitive
    <3>5. CASE k(st) = prefix
      <4>1. stops(keys, prefix, st)
        BY <1>5, <1>6, <3>5
      <4>2. c = st
        BY <1>2, <1>7, <4>1
      <4> QED
        BY <3>3, <3>5, <4>2
    <3> QED
      BY <3>2, <3>4, <3>5
  <2> QED
    BY <1>7, <2>1, <2>2, <2>3
<1>9. c = last \/ ~greater(prefix, k(c))
  <2>1. k(c) \in Seq(Nat)
    BY <1>3, <1>7
  <2>2. starts_with(k(c), prefix) => ~greater(prefix, k(c))
    BY <2>1, ExtensionNotSmaller
  <2>3. ASSUME greater(k(c), prefix), greater(prefix, k(c))
        PROVE  FALSE
    <3>1. greater(prefix, prefix)
      BY <2>1, <2>3, GreaterTransitive
    <3> QED
      BY <3>1, GreaterIrreflexive
  <2> QED
    BY <1>2, <1>5, <2>2, <2>3
<1> QED
  BY <1>7, <1>8, <1>9 DEF c, last, k

\* contains compares one key with the prefix, and that decides for all of them.
LEMMA ContainsIsMembership ==
  ASSUME NEW keys \in Seq(Item), Sorted(keys), index_ \in 0..(Len(keys) - 1),
         NEW prefix \in Seq(Nat)
  PROVE  starts_with(key(keys, stop(keys, prefix)), prefix)
           <=> \E item \in ToSet(keys) : starts_with(item.key, prefix)
<1> DEFINE c == stop(keys, prefix)
           last == Len(keys) - 1
           k(i) == key(keys, i)
<1>1. /\ c \in 0..last
      /\ \A i \in 0..(c - 1) : greater(prefix, k(i)) \/ (k(i) = prefix /\ k(c) = prefix)
      /\ c = last \/ ~greater(prefix, k(c))
  BY Cursor
<1>2. \A i, j \in 0..last : k(i) \in Seq(Nat) /\ (i <= j => ~greater(k(i), k(j)))
  BY KeyOrder
<1>3. (\E item \in ToSet(keys) : starts_with(item.key, prefix))
        <=> \E i \in 0..last : starts_with(k(i), prefix)
  <2>1. \A item : item \in ToSet(keys) <=> \E i \in 1..Len(keys) : item = keys[i]
    BY ItemsOf
  <2>2. \A i \in 0..last : i + 1 \in 1..Len(keys) /\ k(i) = keys[i + 1].key
    BY DEF key
  <2>3. \A i \in 1..Len(keys) : i - 1 \in 0..last /\ k(i - 1) = keys[i].key
    BY DEF key
  <2> HIDE DEF last, k
  <2>4. ASSUME NEW item \in ToSet(keys), starts_with(item.key, prefix)
        PROVE  \E i \in 0..last : starts_with(k(i), prefix)
    <3>1. PICK i \in 1..Len(keys) : item = keys[i]
      BY <2>1
    <3> QED
      BY <2>3, <2>4, <3>1
  <2>5. ASSUME NEW i \in 0..last, starts_with(k(i), prefix)
        PROVE  \E item \in ToSet(keys) : starts_with(item.key, prefix)
    <3>1. keys[i + 1] \in ToSet(keys) /\ k(i) = keys[i + 1].key
      BY <2>1, <2>2
    <3> QED
      BY <2>5, <3>1
  <2> QED
    BY <2>4, <2>5
<1> HIDE DEF c, last, k
<1>4. ASSUME NEW i \in 0..last, starts_with(k(i), prefix)
      PROVE  starts_with(k(c), prefix)
  <2>1. k(i) \in Seq(Nat) /\ k(c) \in Seq(Nat)
    BY <1>1, <1>2
  <2>2. ~greater(prefix, k(i))
    BY <1>4, <2>1, ExtensionNotSmaller
  <2>3. starts_with(prefix, prefix)
    BY DEF starts_with
  <2>4. CASE i < c
    <3>1. i \in 0..(c - 1)
      BY <1>1, <2>4
    <3> QED
      BY <1>1, <2>2, <2>3, <3>1
  <2>5. CASE i = c
    BY <1>4, <2>5
  <2>6. CASE i > c
    <3>1. ~greater(prefix, k(c)) /\ ~greater(k(c), k(i))
      BY <1>1, <1>2, <2>6
    <3>2. k(c) = prefix \/ greater(k(c), prefix)
      BY <2>1, <3>1, GreaterTotal
    <3>3. k(c) = k(i) \/ greater(k(i), k(c))
      BY <2>1, <3>1, GreaterTotal
    <3> QED
      BY <1>4, <2>1, <2>3, <3>2, <3>3, BetweenExtension
  <2> QED
    BY <1>1, <2>4, <2>5, <2>6
<1> QED
  BY <1>1, <1>3, <1>4 DEF c, k

-----------------------------------------------------------------------------
(* The invariant.                                                          *)

\* A query searches sorted keys, the ones inserted, with the cursor in range.
LEMMA Ensured ==
  ASSUME IInv
  PROVE  /\ ensured \in Seq(Item) /\ Sorted(ensured) /\ ToSet(ensured) = ToSet(keys_)
         /\ Cardinality(ToSet(keys_)) = Len(ensured)
         /\ keys_ # <<>> => index_ \in 0..(Len(ensured) - 1)
<1>1. keys_ \in Seq(Item) /\ index_ \in Nat /\ CursorInRange /\ (sorted_ => Sorted(keys_))
  BY DEF IInv, TypeOK, SortedIsSorted, Sorted
<1>2. ensured \in Seq(Item) /\ Sorted(ensured) /\ ToSet(ensured) = ToSet(keys_)
  <2>1. CASE sorted_
    BY <1>1, <2>1 DEF ensured
  <2>2. CASE ~sorted_
    <3>1. ensured = sort_unique(keys_)
      BY <2>2 DEF ensured
    <3> QED
      BY <1>1, <3>1, SortUnique
  <2> QED
    BY <2>1, <2>2
<1> HIDE DEF ensured
<1>3. Cardinality(ToSet(ensured)) = Len(ensured)
  <2>1. ASSUME NEW i \in 1..Len(ensured), NEW j \in 1..Len(ensured), i < j
        PROVE  ensured[i] # ensured[j]
    <3>1. ensured[i] \in Item /\ DOMAIN ensured = 1..Len(ensured)
      BY <1>2
    <3>2. precedes(ensured[i], ensured[j])
      BY <1>2, <2>1, <3>1 DEF Sorted
    <3> QED
      BY <3>1, <3>2, PrecedesIsOrder
  <2> QED
    BY <1>2, <2>1, ItemsOf
<1>4. ASSUME keys_ # <<>>
      PROVE  index_ \in 0..(Len(ensured) - 1)
  <2>1. 1 \in 1..Len(keys_)
    BY <1>1, <1>4
  <2>2. keys_[1] \in ToSet(keys_)
    BY <1>1, <2>1, ItemsOf
  <2>3. Len(ensured) \in Nat /\ Len(ensured) # 0
    <3>1. \E i \in 1..Len(ensured) : keys_[1] = ensured[i]
      BY <1>2, <2>2, ItemsOf
    <3> QED
      BY <1>2, <3>1
  <2>4. index_ = 0 \/ index_ < Len(ensured)
    BY <1>1, <1>2, <1>3 DEF CursorInRange
  <2> QED
    BY <1>1, <2>3, <2>4
<1> QED
  BY <1>2, <1>3, <1>4

\* The result of contains is membership in the prefix-closed set.
LEMMA Found ==
  ASSUME IInv, NEW prefix \in Queries
  PROVE  found(prefix) <=> \E item \in ToSet(keys_) : starts_with(item.key, prefix)
<1>1. prefix \in Seq(Nat)
  BY KeysAreStrings
<1>2. CASE keys_ = <<>>
  <2>1. ToSet(keys_) = {}
    BY <1>2 DEF ToSet
  <2> QED
    BY <1>2, <2>1 DEF found
<1>3. CASE keys_ # <<>>
  <2>1. /\ ensured \in Seq(Item) /\ Sorted(ensured) /\ ToSet(ensured) = ToSet(keys_)
        /\ index_ \in 0..(Len(ensured) - 1)
    BY <1>3, Ensured
  <2>2. starts_with(key(ensured, stop(ensured, prefix)), prefix)
          <=> \E item \in ToSet(ensured) : starts_with(item.key, prefix)
    BY <1>1, <2>1, ContainsIsMembership
  <2> QED
    BY <1>3, <2>1, <2>2 DEF found
<1> QED
  BY <1>2, <1>3

\* What a query does to the members.
LEMMA SearchStep ==
  ASSUME IInv, NEW prefix \in Queries, Search(prefix)
  PROVE  /\ keys_' \in Seq(Item) /\ index_' \in Nat /\ sorted_' \in BOOLEAN
         /\ ToSet(keys_') = ToSet(keys_)
         /\ CursorInRange' /\ SortedIsSorted'
<1>1. prefix \in Seq(Nat)
  BY KeysAreStrings
<1>2. CASE UNCHANGED <<keys_, index_, sorted_>>
  BY <1>2 DEF IInv, TypeOK, CursorInRange, SortedIsSorted
<1>3. CASE /\ keys_ # <<>> /\ keys_' = ensured /\ sorted_' = TRUE
           /\ index_' = stop(ensured, prefix)
  <2>1. /\ ensured \in Seq(Item) /\ Sorted(ensured) /\ ToSet(ensured) = ToSet(keys_)
        /\ Cardinality(ToSet(keys_)) = Len(ensured)
        /\ index_ \in 0..(Len(ensured) - 1)
    BY <1>3, Ensured
  <2>2. stop(ensured, prefix) \in 0..(Len(ensured) - 1)
    BY <1>1, <2>1, Cursor
  <2>3. ToSet(keys_') = ToSet(keys_)
    BY <1>3, <2>1
  <2>4. index_' \in Nat /\ index_' < Cardinality(ToSet(keys_'))
    <3> DEFINE n == Len(ensured)
               c == stop(ensured, prefix)
    <3>1. n \in Nat /\ c \in 0..(n - 1)
      BY <2>1, <2>2
    <3>2. index_' = c /\ Cardinality(ToSet(keys_')) = n
      BY <1>3, <2>1, <2>3
    <3> HIDE DEF n, c
    <3> QED
      BY <3>1, <3>2
  <2>5. CursorInRange'
    BY <2>4 DEF CursorInRange
  <2>6. SortedIsSorted'
    BY <1>3, <2>1 DEF SortedIsSorted, Sorted
  <2> QED
    BY <1>3, <2>1, <2>3, <2>4, <2>5, <2>6
<1> QED
  BY <1>2, <1>3 DEF Search

\* Min of the community modules is the least element.
LEMMA Minimum ==
  ASSUME NEW S, S \subseteq Nat, S # {}
  PROVE  Min(S) \in S /\ \A m \in S : Min(S) <= m
<1>1. \E n \in S : \A m \in S : n <= m
  BY LeastNatural
<1> QED
  BY <1>1 DEF Min

\* What is returned as the next marked key is one of the keys.
LEMMA NextMarkedIsKey ==
  ASSUME NEW keys \in Seq(Item), NEW first \in Nat, NEW differing
  PROVE  next_marked(keys, first, differing) \in Keys \cup {<<>>}
<1> DEFINE ends == {i \in first..(Len(keys) - 1) : i \in differing \/ keys[i + 1].marker}
<1>1. CASE ends = {} \/ Min(ends) \in differing
  BY <1>1 DEF next_marked
<1>2. CASE ~(ends = {} \/ Min(ends) \in differing)
  <2>1. ends \subseteq Nat
    OBVIOUS
  <2>2. Min(ends) \in ends
    BY <1>2, <2>1, Minimum
  <2>3. Min(ends) + 1 \in 1..Len(keys)
    BY <2>1, <2>2
  <2> HIDE DEF ends
  <2>4. key(keys, Min(ends)) \in Keys
    <3>1. keys[Min(ends) + 1] \in Item
      BY <2>3
    <3> QED
      BY <3>1 DEF key, Item
  <2> QED
    BY <1>2, <2>4 DEF next_marked, ends
<1> QED
  BY <1>1, <1>2

\* The reply before any query has its type.
LEMMA NoReply ==
  /\ no_reply \in [op : {"none", "contains", "contains_and_next_marked"},
                   prefix : Queries \cup {<<>>}, invariant_len : Nat,
                   found : BOOLEAN, next_created : Keys \cup {<<>>}]
  /\ no_reply.invariant_len <= Len(no_reply.prefix)
BY DEF no_reply, Reply

\* The invariant is inductive.  TypeOK gives no bound on the cursor, so that
\* CursorInRange and SortedIsSorted have to go through a query together.
LEMMA InitInvariant == Init => IInv
<1>1. SUFFICES ASSUME Init
               PROVE  IInv
  OBVIOUS
<1>2. TypeOK
  <2>1. keys_ \in Seq(Item)
    BY <1>1 DEF Init
  <2> QED
    BY <1>1, <2>1, NoReply DEF Init, TypeOK
<1>3. CursorInRange /\ SortedIsSorted
  BY <1>1 DEF Init, CursorInRange, SortedIsSorted
<1> QED
  BY <1>2, <1>3 DEF IInv

\* insert: there may be more different keys than before, never fewer.
LEMMA InsertStep ==
  ASSUME IInv, NEW item \in Item, insert(item)
  PROVE  IInv' /\ ToSet(keys_') = ToSet(keys_) \cup {item}
<1>1. /\ keys_ \in Seq(Item) /\ keys_' = Append(keys_, item) /\ keys_' \in Seq(Item)
      /\ index_' = index_ /\ index_ \in Nat /\ sorted_' = FALSE /\ CursorInRange
  BY DEF insert, IInv, TypeOK
<1>2. ToSet(keys_') = ToSet(keys_) \cup {item}
  <2>1. /\ \A x : x \in ToSet(keys_) <=> \E i \in 1..Len(keys_) : x = keys_[i]
        /\ \A x : x \in ToSet(keys_') <=> \E i \in 1..Len(keys_') : x = keys_'[i]
    BY <1>1, ItemsOf
  <2>2. /\ Len(keys_) \in Nat /\ Len(keys_') = Len(keys_) + 1
        /\ \A i \in 1..Len(keys_) : keys_'[i] = keys_[i]
        /\ keys_'[Len(keys_) + 1] = item
    BY <1>1
  <2>3. \A i \in 1..Len(keys_') : i \in 1..Len(keys_) \/ i = Len(keys_) + 1
    BY <2>2
  <2>4. 1..Len(keys_) \subseteq 1..Len(keys_') /\ Len(keys_) + 1 \in 1..Len(keys_')
    BY <2>2
  <2>5. ASSUME NEW x \in ToSet(keys_')
        PROVE  x \in ToSet(keys_) \cup {item}
    BY <2>1, <2>2, <2>3
  <2>6. ASSUME NEW x \in ToSet(keys_) \cup {item}
        PROVE  x \in ToSet(keys_')
    <3>1. CASE x = item
      BY <2>1, <2>2, <2>4, <3>1
    <3>2. CASE x \in ToSet(keys_)
      <4>1. PICK i \in 1..Len(keys_) : x = keys_[i]
        BY <2>1, <3>2
      <4>2. i \in 1..Len(keys_') /\ x = keys_'[i]
        BY <2>2, <2>4, <4>1
      <4> QED
        BY <2>1, <4>2
    <3> QED
      BY <3>1, <3>2
  <2> QED
    BY <2>5, <2>6
<1>3. CursorInRange'
  <2> DEFINE old == ToSet(keys_)
             new == ToSet(keys_')
  <2>1. /\ IsFiniteSet(new) /\ Cardinality(new) \in Nat /\ Cardinality(old) \in Nat
        /\ old \in SUBSET new
    BY <1>1, <1>2, ItemsOf
  <2>2. index_' = 0 \/ index_' < Cardinality(old)
    BY <1>1 DEF CursorInRange
  <2>3. CursorInRange' <=> index_' = 0 \/ index_' < Cardinality(new)
    BY DEF CursorInRange
  <2> HIDE DEF old, new
  <2>4. Cardinality(old) <= Cardinality(new)
    BY <2>1, FS_Subset
  <2> QED
    BY <1>1, <2>1, <2>2, <2>3, <2>4
<1>4. TypeOK'
  <2>1. reply' = no_reply
    BY DEF insert
  <2> QED
    BY <1>1, <2>1, NoReply DEF TypeOK
<1>5. SortedIsSorted'
  BY <1>1 DEF SortedIsSorted
<1> QED
  BY <1>2, <1>3, <1>4, <1>5 DEF IInv

\* contains keeps the invariant.
LEMMA ContainsStep ==
  ASSUME IInv, NEW prefix \in Queries, contains(prefix)
  PROVE  IInv'
<1>1. Search(prefix) /\ reply' = Reply("contains", prefix, 0, found(prefix), <<>>)
  BY DEF contains
<1>2. /\ keys_' \in Seq(Item) /\ index_' \in Nat /\ sorted_' \in BOOLEAN
      /\ CursorInRange' /\ SortedIsSorted'
  BY <1>1, SearchStep
<1>3. found(prefix) \in BOOLEAN
  BY DEF found
<1>4. /\ reply' \in [op : {"none", "contains", "contains_and_next_marked"},
                      prefix : Queries \cup {<<>>}, invariant_len : Nat,
                      found : BOOLEAN, next_created : Keys \cup {<<>>}]
      /\ reply'.invariant_len <= Len(reply'.prefix)
  <2>1. Len(prefix) \in Nat
    BY KeysAreStrings
  <2> QED
    BY <1>1, <1>3, <2>1 DEF Reply
<1>5. TypeOK'
  BY <1>2, <1>4 DEF TypeOK
<1> QED
  BY <1>2, <1>5 DEF IInv

\* memcmp compares no more than the prefix.
LEMMA Compared ==
  ASSUME NEW prefix \in Queries, NEW n \in 0..(Len(prefix) + 1)
  PROVE  compared(prefix, n) \in Nat /\ compared(prefix, n) <= Len(prefix)
<1>1. Len(prefix) \in Nat
  BY KeysAreStrings
<1> QED
  BY <1>1 DEF compared

\* contains_and_next_marked keeps the invariant.
LEMMA NextMarkedStep ==
  ASSUME IInv, NEW prefix \in Queries, NEW n \in 0..(Len(prefix) + 1),
         contains_and_next_marked(prefix, n)
  PROVE  IInv'
<1>1. Search(prefix)
  BY DEF contains_and_next_marked
<1>2. /\ keys_' \in Seq(Item) /\ index_' \in Nat /\ sorted_' \in BOOLEAN
      /\ CursorInRange' /\ SortedIsSorted'
  BY <1>1, SearchStep
<1>3. PICK differing : reply' = Reply("contains_and_next_marked", prefix, compared(prefix, n),
                                      found(prefix), next_marked(keys_', index_', differing))
  BY DEF contains_and_next_marked
<1>4. found(prefix) \in BOOLEAN
  BY DEF found
<1>5. next_marked(keys_', index_', differing) \in Keys \cup {<<>>}
  BY <1>2, NextMarkedIsKey
<1>6. /\ reply' \in [op : {"none", "contains", "contains_and_next_marked"},
                      prefix : Queries \cup {<<>>}, invariant_len : Nat,
                      found : BOOLEAN, next_created : Keys \cup {<<>>}]
      /\ reply'.invariant_len <= Len(reply'.prefix)
  BY <1>3, <1>4, <1>5, Compared DEF Reply
<1>7. TypeOK'
  BY <1>2, <1>6 DEF TypeOK
<1> QED
  BY <1>2, <1>7 DEF IInv

\* clear establishes the invariant.
LEMMA ClearStep ==
  ASSUME clear
  PROVE  IInv'
<1>1. keys_' = <<>> /\ index_' = 0 /\ sorted_' = FALSE /\ reply' = no_reply
  BY DEF clear
<1>2. TypeOK'
  <2>1. keys_' \in Seq(Item)
    BY <1>1
  <2> QED
    BY <1>1, <2>1, NoReply DEF TypeOK
<1> QED
  BY <1>1, <1>2 DEF IInv, CursorInRange, SortedIsSorted

\* Every step keeps the invariant.
LEMMA NextInvariant == IInv /\ [Next]_vars => IInv'
<1>1. SUFFICES ASSUME IInv, [Next]_vars
               PROVE  IInv'
  OBVIOUS
<1>2. CASE UNCHANGED vars
  BY <1>1, <1>2 DEF vars, IInv, TypeOK, CursorInRange, SortedIsSorted
<1>3. ASSUME NEW item \in Item, insert(item)
      PROVE  IInv'
  BY <1>1, <1>3, InsertStep
<1>4. ASSUME NEW prefix \in Queries, contains(prefix)
      PROVE  IInv'
  BY <1>1, <1>4, ContainsStep
<1>5. ASSUME NEW prefix \in Queries, NEW n \in 0..(Len(prefix) + 1),
             contains_and_next_marked(prefix, n)
      PROVE  IInv'
  BY <1>1, <1>5, NextMarkedStep
<1>6. CASE clear
  BY <1>6, ClearStep
<1> QED
  BY <1>1, <1>2, <1>3, <1>4, <1>5, <1>6 DEF Next

\* The strengthened invariant of PrefixSet holds for any keys, queries and calls.
THEOREM PrefixSetInvariance == Spec => []IInv
<1> QED
  BY InitInvariant, NextInvariant, PTL DEF Spec

-----------------------------------------------------------------------------
(* The theorems.                                                           *)

\* Members and results stay of their types, and no more of a prefix is compared than
\* there is.
THEOREM PrefixSetTypeCorrect == Spec => []TypeOK
<1>1. IInv => TypeOK
  BY DEF IInv
<1> QED
  BY <1>1, PrefixSetInvariance, PTL

\* Whatever is inserted between two queries, the cursor that the second one starts
\* from, without a check, is within the keys left after sorting.
THEOREM CursorStaysInRange == Spec => []CursorInRange
<1>1. IInv => CursorInRange
  BY DEF IInv
<1> QED
  BY <1>1, PrefixSetInvariance, PTL

\* sorted_ never says of keys that they are sorted when they are not.
THEOREM KeysStaySorted == Spec => []SortedIsSorted
<1>1. IInv => SortedIsSorted
  BY DEF IInv
<1> QED
  BY <1>1, PrefixSetInvariance, PTL

\* A step of PrefixSet is one of the prefix-closed set, or changes nothing of it.
LEMMA StepRefines == IInv /\ [Next]_vars => [P!Step]_(P!vars)
<1>1. SUFFICES ASSUME IInv, [Next]_vars
               PROVE  [P!Step]_(P!vars)
  OBVIOUS
<1>2. CASE UNCHANGED vars
  BY <1>2 DEF vars, P!vars
<1>3. ASSUME NEW item \in Item, insert(item)
      PROVE  P!Insert(item)
  <2>1. ToSet(keys_') = ToSet(keys_) \cup {item}
    BY <1>1, <1>3, InsertStep
  <2>2. reply'.op = "none"
    BY <1>3 DEF insert, no_reply, Reply
  <2> QED
    BY <2>1, <2>2 DEF P!Insert
<1>4. ASSUME NEW prefix \in Queries, Search(prefix),
             reply'.op # "none", reply'.prefix = prefix, reply'.found = found(prefix)
      PROVE  P!Ask(prefix)
  <2>1. ToSet(keys_') = ToSet(keys_)
    BY <1>1, <1>4, SearchStep
  <2>2. found(prefix) \in BOOLEAN /\ P!Member(prefix) \in BOOLEAN
    BY DEF found, P!Member
  <2>3. found(prefix) = P!Member(prefix)
    BY <1>1, <2>2, Found DEF P!Member, P!starts_with, starts_with
  <2> QED
    BY <1>4, <2>1, <2>3 DEF P!Ask
<1>5. ASSUME NEW prefix \in Queries, contains(prefix)
      PROVE  P!Ask(prefix)
  BY <1>4, <1>5 DEF contains, Reply
<1>6. ASSUME NEW prefix \in Queries, NEW n \in 0..(Len(prefix) + 1),
             contains_and_next_marked(prefix, n)
      PROVE  P!Ask(prefix)
  BY <1>4, <1>6 DEF contains_and_next_marked, Reply
<1>7. ASSUME clear
      PROVE  P!Clear
  <2>1. ToSet(keys_') = {} /\ reply'.op = "none"
    BY <1>7 DEF clear, ToSet, no_reply, Reply
  <2> QED
    BY <2>1 DEF P!Clear
<1> QED
  <2>1. CASE Next
    BY <1>3, <1>5, <1>6, <1>7, <2>1 DEF Next, P!Step
  <2> QED
    BY <1>1, <1>2, <2>1

\* PrefixSet implements the prefix-closed set of its documentation: neither sorting
\* late, nor removing duplicates, nor the cursor can be told from the answers.
THEOREM IsPrefixClosedSet == Spec => ImplementsPrefixClosedSet
<1>1. Init => P!EmptySet
  BY DEF Init, P!EmptySet, ToSet, no_reply, Reply
<1> QED
  BY <1>1, StepRefines, PrefixSetInvariance, PTL
  DEF Spec, ImplementsPrefixClosedSet, P!PrefixClosed

-----------------------------------------------------------------------------
(* The next marked key.                                                    *)

\* Of a key that is not smaller than the prefix, the comparison reads no byte that is
\* not part of the key, and it says whether the key begins with the compared part.
LEMMA ComparisonWithinKey ==
  ASSUME NEW k \in Seq(Nat), NEW prefix \in Seq(Nat), NEW n \in 0..Len(prefix),
         ~greater(prefix, k)
  PROVE  /\ ~ReadsBeyond(k, prefix, n)
         /\ Differs(k, prefix, n) <=> ~starts_with(k, SubSeq(prefix, 1, n))
<1> DEFINE part == SubSeq(prefix, 1, n)
<1>1. Len(k) \in Nat /\ Len(prefix) \in Nat /\ n \in Nat /\ n <= Len(prefix)
  OBVIOUS
<1>2. Len(part) = n /\ \A j \in 1..n : part[j] = prefix[j]
  OBVIOUS
<1> HIDE DEF part
<1>3. starts_with(k, part) <=> n <= Len(k) /\ \A j \in 1..n : k[j] = prefix[j]
  BY <1>2 DEF starts_with
<1>4. CASE n <= Len(k)
  <2>1. Differs(k, prefix, n) <=> \E j \in 1..n : prefix[j] # k[j]
    <3>1. \A j \in 1..n : j <= Len(k) + 1 /\ j <= Len(k)
      BY <1>1, <1>4
    <3> QED
      BY <3>1 DEF Differs
  <2>2. ~ReadsBeyond(k, prefix, n)
    BY <1>1, <1>4 DEF ReadsBeyond
  <2> QED
    BY <1>3, <1>4, <2>1, <2>2 DEF part
<1>5. CASE n > Len(k)
  <2>1. PICK j \in 1..Len(k) : prefix[j] # k[j]
    <3>1. SUFFICES ASSUME \A j \in 1..Len(k) : prefix[j] = k[j]
                   PROVE  FALSE
      OBVIOUS
    <3>2. Len(k) < Len(prefix) /\ Len(k) \in 0..Len(k)
      BY <1>1, <1>5
    <3>3. \E m \in 0..Len(k) :
            /\ m < Len(prefix)
            /\ \A j \in 1..m : prefix[j] = k[j]
            /\ m < Len(k) => prefix[m + 1] > k[m + 1]
      <4> WITNESS Len(k) \in 0..Len(k)
      <4> QED
        BY <3>1, <3>2, <1>1
    <3>4. greater(prefix, k)
      BY <3>3 DEF greater
    <3> QED
      BY <3>4
  <2>2. j \in 1..n /\ j <= Len(k) + 1 /\ j <= Len(k)
    BY <1>1, <1>5
  <2>3. Differs(k, prefix, n)
    BY <2>1, <2>2 DEF Differs
  <2> QED
    BY <1>1, <1>3, <1>5, <2>3 DEF ReadsBeyond, part
<1> QED
  BY <1>1, <1>4, <1>5

\* When some key is not smaller than the prefix, the keys from the cursor on are all
\* of these but for, at most, an unmarked one that has the prefix as its key.
LEMMA FromCursorOn ==
  ASSUME NEW keys \in Seq(Item), Sorted(keys), index_ \in 0..(Len(keys) - 1),
         NEW prefix \in Seq(Nat),
         NEW some \in ToSet(keys), ~greater(prefix, some.key)
  PROVE  /\ \A i \in stop(keys, prefix)..(Len(keys) - 1) : ~greater(prefix, key(keys, i))
         /\ \A i \in 0..(stop(keys, prefix) - 1) :
              keys[i + 1].marker => greater(prefix, key(keys, i))
<1> DEFINE c == stop(keys, prefix)
           last == Len(keys) - 1
           k(i) == key(keys, i)
<1>1. /\ c \in 0..last
      /\ \A i \in 0..(c - 1) : greater(prefix, k(i)) \/ (k(i) = prefix /\ k(c) = prefix)
      /\ c = last \/ ~greater(prefix, k(c))
  BY Cursor
<1>2. \A i, j \in 0..last : k(i) \in Seq(Nat) /\ (i <= j => ~greater(k(i), k(j)))
  BY KeyOrder
<1>3. PICK s \in 0..last : some.key = k(s)
  <2>1. PICK i \in 1..Len(keys) : some = keys[i]
    BY ItemsOf
  <2>2. i - 1 \in 0..last /\ k(i - 1) = keys[i].key
    BY DEF key
  <2> QED
    BY <2>1, <2>2
<1>4. \A i \in 0..last : i + 1 \in DOMAIN keys /\ k(i) = keys[i + 1].key
  BY DEF key
<1>5. last \in Nat
  OBVIOUS
<1> HIDE DEF c, last, k
<1>6. ~greater(prefix, k(c))
  <2>1. SUFFICES ASSUME c = last, greater(prefix, k(c))
                 PROVE  FALSE
    BY <1>1
  <2>2. ~greater(k(s), k(c)) /\ k(s) \in Seq(Nat) /\ k(c) \in Seq(Nat)
    BY <1>1, <1>2, <1>3, <1>5, <2>1
  <2>3. k(s) = k(c) \/ greater(k(c), k(s))
    BY <2>2, GreaterTotal
  <2>4. greater(prefix, k(s))
    BY <2>1, <2>2, <2>3, GreaterTransitive
  <2> QED
    BY <1>3, <2>4
<1>7. ASSUME NEW i \in c..last
      PROVE  ~greater(prefix, k(i))
  <2>1. i \in 0..last /\ c \in 0..last /\ c <= i
    BY <1>1, <1>5
  <2>2. ~greater(k(c), k(i)) /\ k(c) \in Seq(Nat) /\ k(i) \in Seq(Nat)
    BY <1>2, <2>1
  <2> QED
    BY <1>6, <2>2, NotGreaterTransitive
<1>8. ASSUME NEW i \in 0..(c - 1), keys[i + 1].marker, ~greater(prefix, k(i))
      PROVE  FALSE
  <2>1. k(i) = prefix /\ k(c) = prefix
    BY <1>1, <1>8
  <2>2. i \in 0..last /\ c \in 0..last /\ i + 1 < c + 1
    BY <1>1, <1>5
  <2>3. precedes(keys[i + 1], keys[c + 1])
    BY <1>4, <2>2 DEF Sorted
  <2>4. keys[i + 1].key = prefix /\ keys[c + 1].key = prefix
    BY <1>4, <2>1, <2>2
  <2>5. ~greater(prefix, prefix)
    BY GreaterIrreflexive
  <2> QED
    BY <1>8, <2>3, <2>4, <2>5 DEF precedes
<1> QED
  BY <1>7, <1>8 DEF c, last, k

\* The keys that are not before a prefix and are marked, and the least of some keys.
MarkedFrom(items, prefix) ==
  {item.key : item \in {item \in {item \in items : ~greater(prefix, item.key)} : item.marker}}
LeastOf(marked) == CHOOSE k \in marked : \A other \in marked : ~greater(k, other)

\* In terms of places: the marked keys are those marked from the cursor on, and the
\* first of them is the least.
LEMMA MarkedPlaces ==
  ASSUME NEW keys \in Seq(Item), Sorted(keys), index_ \in 0..(Len(keys) - 1),
         NEW prefix \in Seq(Nat),
         NEW some \in ToSet(keys), ~greater(prefix, some.key),
         NEW M, M = {i \in stop(keys, prefix)..(Len(keys) - 1) : keys[i + 1].marker}
  PROVE  /\ MarkedFrom(ToSet(keys), prefix) = {key(keys, i) : i \in M}
         /\ M # {} => LeastOf(MarkedFrom(ToSet(keys), prefix)) = key(keys, Min(M))
<1> DEFINE c == stop(keys, prefix)
           last == Len(keys) - 1
           k(i) == key(keys, i)
           marked == MarkedFrom(ToSet(keys), prefix)
<1>1. c \in 0..last
  BY Cursor
<1>2. /\ \A i \in c..last : ~greater(prefix, k(i))
      /\ \A i \in 0..(c - 1) : keys[i + 1].marker => greater(prefix, k(i))
  BY FromCursorOn
<1>3. \A i, j \in 0..last : k(i) \in Seq(Nat) /\ (i <= j => ~greater(k(i), k(j)))
  BY KeyOrder
<1>4. /\ \A i \in 0..last : keys[i + 1] \in ToSet(keys) /\ k(i) = keys[i + 1].key
      /\ \A item \in ToSet(keys) : \E i \in 0..last : item = keys[i + 1]
  <2>1. \A item : item \in ToSet(keys) <=> \E i \in 1..Len(keys) : item = keys[i]
    BY ItemsOf
  <2>2. \A i \in 0..last : i + 1 \in 1..Len(keys) /\ k(i) = keys[i + 1].key
    BY DEF key
  <2>3. \A i \in 1..Len(keys) : i - 1 \in 0..last /\ (i - 1) + 1 = i
    OBVIOUS
  <2> HIDE DEF last, k
  <2>4. ASSUME NEW i \in 0..last
        PROVE  keys[i + 1] \in ToSet(keys) /\ k(i) = keys[i + 1].key
    BY <2>1, <2>2
  <2>5. ASSUME NEW item \in ToSet(keys)
        PROVE  \E i \in 0..last : item = keys[i + 1]
    <3>1. PICK i \in 1..Len(keys) : item = keys[i]
      BY <2>1
    <3>2. i - 1 \in 0..last /\ item = keys[(i - 1) + 1]
      BY <2>3, <3>1
    <3> QED
      BY <3>2
  <2> QED
    BY <2>4, <2>5
<1>5. last \in Nat /\ M = {i \in c..last : keys[i + 1].marker}
  OBVIOUS
<1> HIDE DEF c, last, k
<1>6. M \subseteq 0..last /\ M \subseteq Nat
  BY <1>1, <1>5
<1>7. marked = {k(i) : i \in M}
  <2>1. ASSUME NEW i \in M
        PROVE  k(i) \in marked
    <3>1. i \in c..last /\ i \in 0..last /\ keys[i + 1].marker
      BY <1>5, <1>6
    <3> QED
      BY <1>2, <1>4, <3>1 DEF MarkedFrom
  <2>2. ASSUME NEW x \in marked
        PROVE  \E i \in M : x = k(i)
    <3>1. PICK item \in ToSet(keys) : ~greater(prefix, item.key) /\ item.marker /\ x = item.key
      BY DEF MarkedFrom
    <3>2. PICK i \in 0..last : item = keys[i + 1]
      BY <1>4
    <3>3. i \notin 0..(c - 1)
      BY <1>2, <1>4, <3>1, <3>2
    <3>4. i \in c..last
      BY <1>1, <1>5, <3>3
    <3> QED
      BY <1>4, <1>5, <3>1, <3>2, <3>4
  <2> QED
    BY <2>1, <2>2
<1> HIDE DEF marked
<1>8. ASSUME M # {}
      PROVE  LeastOf(marked) = k(Min(M))
  <2> DEFINE f == Min(M)
  <2>1. f \in M /\ \A i \in M : f <= i
    BY <1>6, <1>8, Minimum
  <2> HIDE DEF f
  <2>2. k(f) \in marked /\ \A other \in marked : ~greater(k(f), other)
    BY <1>3, <1>6, <1>7, <2>1
  <2>3. LeastOf(marked) \in marked /\ \A other \in marked : ~greater(LeastOf(marked), other)
    BY <2>2 DEF LeastOf
  <2>4. ~greater(LeastOf(marked), k(f)) /\ ~greater(k(f), LeastOf(marked))
    BY <2>2, <2>3
  <2>5. LeastOf(marked) \in Seq(Nat) /\ k(f) \in Seq(Nat)
    BY <1>3, <1>6, <1>7, <2>2, <2>3
  <2>6. LeastOf(marked) = k(f)
    BY <2>4, <2>5, GreaterTotal
  <2> QED
    BY <2>6 DEF f
<1> QED
  BY <1>7, <1>8 DEF marked, k

\* From the cursor on, the keys that stop the search are those that do not begin with
\* the compared part; if a key begins with it, all keys from the cursor to it do.
LEMMA StoppingKeys ==
  ASSUME NEW keys \in Seq(Item), Sorted(keys), index_ \in 0..(Len(keys) - 1),
         NEW prefix \in Seq(Nat), NEW n \in 0..Len(prefix),
         NEW some \in ToSet(keys), ~greater(prefix, some.key),
         NEW differing,
         \A i \in 0..(Len(keys) - 1) : Differs(key(keys, i), prefix, n) => i \in differing,
         \A i \in differing : Differs(key(keys, i), prefix, n) \/ ReadsBeyond(key(keys, i), prefix, n)
  PROVE  /\ \A i \in stop(keys, prefix)..(Len(keys) - 1) :
              i \in differing <=> ~starts_with(key(keys, i), SubSeq(prefix, 1, n))
         /\ \A i, j \in stop(keys, prefix)..(Len(keys) - 1) :
              i <= j /\ j \notin differing => i \notin differing
<1> DEFINE c == stop(keys, prefix)
           last == Len(keys) - 1
           k(i) == key(keys, i)
           part == SubSeq(prefix, 1, n)
<1>1. c \in 0..last /\ last \in Nat
  BY Cursor
<1>2. \A i \in c..last : ~greater(prefix, k(i))
  BY FromCursorOn
<1>3. \A i, j \in 0..last : k(i) \in Seq(Nat) /\ (i <= j => ~greater(k(i), k(j)))
  BY KeyOrder
<1>4. /\ \A i \in 0..last : Differs(k(i), prefix, n) => i \in differing
      /\ \A i \in differing : Differs(k(i), prefix, n) \/ ReadsBeyond(k(i), prefix, n)
  OBVIOUS
<1>5. part \in Seq(Nat) /\ starts_with(prefix, part)
  BY DEF starts_with
<1> HIDE DEF c, last, k
<1>6. \A i \in c..last : i \in 0..last
  BY <1>1
<1>7. ASSUME NEW i \in c..last
      PROVE  i \in differing <=> ~starts_with(k(i), part)
  <2>1. i \in 0..last /\ k(i) \in Seq(Nat) /\ ~greater(prefix, k(i))
    BY <1>2, <1>3, <1>6
  <2>2. ~ReadsBeyond(k(i), prefix, n) /\ (Differs(k(i), prefix, n) <=> ~starts_with(k(i), part))
    BY <2>1, ComparisonWithinKey
  <2> QED
    BY <1>4, <2>1, <2>2
<1> HIDE DEF part
<1>8. ASSUME NEW i \in c..last, NEW j \in c..last, i <= j, j \notin differing
      PROVE  i \notin differing
  <2>1. /\ k(i) \in Seq(Nat) /\ k(j) \in Seq(Nat)
        /\ ~greater(prefix, k(i)) /\ ~greater(k(i), k(j)) /\ starts_with(k(j), part)
    BY <1>2, <1>3, <1>6, <1>7, <1>8
  <2>2. ~greater(part, prefix)
    BY <1>5, ExtensionNotSmaller
  <2>3. ~greater(part, k(i))
    BY <1>5, <2>1, <2>2, NotGreaterTransitive
  <2>4. k(i) = part \/ greater(k(i), part)
    BY <1>5, <2>1, <2>3, GreaterTotal
  <2>5. k(i) = k(j) \/ greater(k(j), k(i))
    BY <2>1, GreaterTotal
  <2>6. starts_with(part, part)
    BY DEF starts_with
  <2>7. starts_with(k(i), part)
    BY <1>5, <2>1, <2>4, <2>5, <2>6, BetweenExtension
  <2> QED
    BY <1>7, <2>7
<1> QED
  BY <1>7, <1>8 DEF c, last, k, part

\* Which key contains_and_next_marked returns.
LEMMA NextMarkedDecided ==
  ASSUME NEW keys \in Seq(Item), Sorted(keys), index_ \in 0..(Len(keys) - 1),
         NEW prefix \in Seq(Nat), NEW n \in 0..Len(prefix),
         NEW some \in ToSet(keys), ~greater(prefix, some.key),
         NEW differing,
         \A i \in 0..(Len(keys) - 1) : Differs(key(keys, i), prefix, n) => i \in differing,
         \A i \in differing : Differs(key(keys, i), prefix, n) \/ ReadsBeyond(key(keys, i), prefix, n)
  PROVE  next_marked(keys, stop(keys, prefix), differing) =
           IF /\ MarkedFrom(ToSet(keys), prefix) # {}
              /\ starts_with(LeastOf(MarkedFrom(ToSet(keys), prefix)), SubSeq(prefix, 1, n))
           THEN LeastOf(MarkedFrom(ToSet(keys), prefix)) ELSE <<>>
<1> DEFINE c == stop(keys, prefix)
           last == Len(keys) - 1
           part == SubSeq(prefix, 1, n)
           marked == MarkedFrom(ToSet(keys), prefix)
           M == {i \in c..last : keys[i + 1].marker}
           ends == {i \in c..last : i \in differing \/ keys[i + 1].marker}
           result == next_marked(keys, c, differing)
<1>1. c \in 0..last
  BY Cursor
<1>2. /\ \A i \in c..last : i \in differing <=> ~starts_with(key(keys, i), part)
      /\ \A i, j \in c..last : i <= j /\ j \notin differing => i \notin differing
  BY StoppingKeys
<1>3. /\ marked = {key(keys, i) : i \in M}
      /\ M # {} => LeastOf(marked) = key(keys, Min(M))
  BY MarkedPlaces
<1>4. result = IF ends = {} \/ Min(ends) \in differing THEN <<>> ELSE key(keys, Min(ends))
  BY DEF next_marked
<1> HIDE DEF c, last, part, marked, result
<1>5. M \subseteq c..last /\ ends \subseteq c..last /\ M \subseteq Nat /\ ends \subseteq Nat
      /\ M \subseteq ends /\ \A i \in ends : i \in differing \/ i \in M
  BY <1>1
<1>6. \A i \in c..last : i \in differing => i \in ends
  OBVIOUS
<1> HIDE DEF M, ends
<1>7. ends # {} => Min(ends) \in ends /\ \A i \in ends : Min(ends) <= i
  BY <1>5, Minimum
<1>8. M # {} => Min(M) \in M /\ \A i \in M : Min(M) <= i
  BY <1>5, Minimum
<1>9. CASE M = {}
  <2>1. marked = {}
    BY <1>3, <1>9
  <2>2. ends = {} \/ Min(ends) \in differing
    BY <1>5, <1>7, <1>9
  <2> QED
    BY <1>4, <2>1, <2>2 DEF marked, result, c
<1>10. CASE M # {} /\ Min(M) \notin differing
  <2>1. /\ Min(ends) \in ends /\ Min(ends) <= Min(M)
        /\ Min(ends) \in c..last /\ Min(M) \in c..last /\ Min(M) \in M
    BY <1>5, <1>7, <1>8, <1>10
  <2>2. Min(ends) \notin differing
    BY <1>2, <1>10, <2>1
  <2>3. Min(ends) \in M /\ Min(M) <= Min(ends)
    BY <1>5, <1>8, <1>10, <2>1, <2>2
  <2>4. Min(ends) = Min(M)
    <3>1. Min(ends) \in Nat /\ Min(M) \in Nat
      BY <1>5, <2>1, <2>3
    <3> QED
      BY <2>1, <2>3, <3>1
  <2>5. result = key(keys, Min(M)) /\ marked # {} /\ LeastOf(marked) = key(keys, Min(M))
    BY <1>3, <1>4, <1>10, <2>1, <2>2, <2>4
  <2>6. starts_with(LeastOf(marked), part)
    BY <1>2, <1>10, <2>1, <2>5
  <2> QED
    BY <2>5, <2>6 DEF marked, result, c, part
<1>11. CASE M # {} /\ Min(M) \in differing
  <2>1. /\ Min(ends) \in ends /\ Min(ends) <= Min(M)
        /\ Min(ends) \in c..last /\ Min(M) \in c..last /\ Min(M) \in M
    BY <1>5, <1>7, <1>8, <1>11
  <2>2. Min(ends) \in differing
    <3>1. SUFFICES ASSUME Min(ends) \notin differing
                   PROVE  FALSE
      OBVIOUS
    <3>2. Min(ends) \in M /\ Min(M) <= Min(ends)
      BY <1>5, <1>8, <1>11, <2>1, <3>1
    <3>3. Min(ends) = Min(M)
      <4>1. Min(ends) \in Nat /\ Min(M) \in Nat
        BY <1>5, <2>1, <3>2
      <4> QED
        BY <2>1, <3>2, <4>1
    <3> QED
      BY <1>11, <3>1, <3>3
  <2>3. result = <<>>
    BY <1>4, <2>2
  <2>4. LeastOf(marked) = key(keys, Min(M)) /\ ~starts_with(LeastOf(marked), part)
    BY <1>2, <1>3, <1>11, <2>1
  <2> QED
    BY <2>3, <2>4 DEF marked, result, c, part
<1> QED
  BY <1>9, <1>10, <1>11

\* What contains_and_next_marked answers is right.
LEMMA NextMarkedAnswer ==
  ASSUME IInv, NEW prefix \in Queries, NEW n \in 0..(Len(prefix) + 1),
         contains_and_next_marked(prefix, n)
  PROVE  NextMarkedIsFirst'
<1> DEFINE m == compared(prefix, n)
           all == 0..(Len(keys_') - 1)
           k(i) == key(keys_', i)
<1>1. prefix \in Seq(Nat) /\ m \in 0..Len(prefix)
  <2>1. prefix \in Seq(Nat) /\ Len(prefix) \in Nat
    BY KeysAreStrings
  <2> QED
    BY <2>1, Compared
<1>2. Search(prefix)
  BY DEF contains_and_next_marked
<1>3. PICK undecided \in SUBSET {i \in all : ReadsBeyond(k(i), prefix, m)} :
        reply' = Reply("contains_and_next_marked", prefix, m, found(prefix),
                       next_marked(keys_', index_',
                         undecided \cup {i \in all : Differs(k(i), prefix, m)}))
  BY DEF contains_and_next_marked
<1> DEFINE differing == undecided \cup {i \in all : Differs(k(i), prefix, m)}
<1>4. /\ \A i \in all : Differs(k(i), prefix, m) => i \in differing
      /\ \A i \in differing : Differs(k(i), prefix, m) \/ ReadsBeyond(k(i), prefix, m)
  OBVIOUS
<1>5. /\ reply'.prefix = prefix /\ reply'.invariant_len = m
      /\ reply'.next_created = next_marked(keys_', index_', differing)
  BY <1>3 DEF Reply
<1> HIDE DEF differing, m
<1>6. SUFFICES ASSUME NotBefore(reply.prefix)' # {}
               PROVE  reply'.next_created =
                        IF /\ MarkedFrom(ToSet(keys_'), prefix) # {}
                           /\ starts_with(LeastOf(MarkedFrom(ToSet(keys_'), prefix)), SubSeq(prefix, 1, m))
                        THEN LeastOf(MarkedFrom(ToSet(keys_'), prefix)) ELSE <<>>
  BY <1>5 DEF NextMarkedIsFirst, NotBefore, MarkedFrom, LeastOf
<1>7. PICK some \in ToSet(keys_') : ~greater(prefix, some.key)
  BY <1>5, <1>6 DEF NotBefore
<1>8. keys_' # <<>>
  <2>1. ASSUME keys_' = <<>>
        PROVE  ToSet(keys_') = {}
    BY <2>1 DEF ToSet
  <2> QED
    BY <1>7, <2>1
<1>9. keys_ # <<>> /\ keys_' = ensured /\ index_' = stop(ensured, prefix)
  BY <1>2, <1>8 DEF Search
<1>10. ensured \in Seq(Item) /\ Sorted(ensured) /\ index_ \in 0..(Len(ensured) - 1)
  BY <1>9, Ensured
<1> HIDE DEF ensured
<1>11. next_marked(ensured, stop(ensured, prefix), differing) =
         IF /\ MarkedFrom(ToSet(ensured), prefix) # {}
            /\ starts_with(LeastOf(MarkedFrom(ToSet(ensured), prefix)), SubSeq(prefix, 1, m))
         THEN LeastOf(MarkedFrom(ToSet(ensured), prefix)) ELSE <<>>
  <2>1. /\ \A i \in 0..(Len(ensured) - 1) : Differs(key(ensured, i), prefix, m) => i \in differing
        /\ \A i \in differing : Differs(key(ensured, i), prefix, m)
                              \/ ReadsBeyond(key(ensured, i), prefix, m)
    BY <1>4, <1>9
  <2>2. PICK x \in ToSet(ensured) : ~greater(prefix, x.key)
    BY <1>7, <1>9
  <2> QED
    BY <1>1, <1>10, <2>1, <2>2, NextMarkedDecided
<1> QED
  BY <1>5, <1>9, <1>11

\* While some key is not smaller than the prefix, the next marked key is the least one
\* from the prefix on, if it begins with the invariant part; bytes that lie outside a
\* key, which memcmp may read, never decide.
THEOREM NextMarkedIsTheFirst == Spec => []NextMarkedIsFirst
<1>1. Init => NextMarkedIsFirst
  BY DEF Init, no_reply, Reply, NextMarkedIsFirst
<1>2. IInv /\ NextMarkedIsFirst /\ [Next]_vars => NextMarkedIsFirst'
  <2>1. SUFFICES ASSUME IInv, NextMarkedIsFirst, [Next]_vars
                 PROVE  NextMarkedIsFirst'
    OBVIOUS
  <2>2. CASE UNCHANGED vars
    BY <2>1, <2>2 DEF vars, NextMarkedIsFirst, NotBefore
  <2>3. ASSUME reply'.op # "contains_and_next_marked"
        PROVE  NextMarkedIsFirst'
    BY <2>3 DEF NextMarkedIsFirst
  <2>4. ASSUME NEW item \in Item, insert(item)
        PROVE  NextMarkedIsFirst'
    BY <2>3, <2>4 DEF insert, no_reply, Reply
  <2>5. ASSUME NEW prefix \in Queries, contains(prefix)
        PROVE  NextMarkedIsFirst'
    BY <2>3, <2>5 DEF contains, Reply
  <2>6. ASSUME NEW prefix \in Queries, NEW n \in 0..(Len(prefix) + 1),
               contains_and_next_marked(prefix, n)
        PROVE  NextMarkedIsFirst'
    BY <2>1, <2>6, NextMarkedAnswer
  <2>7. CASE clear
    BY <2>3, <2>7 DEF clear, no_reply, Reply
  <2> QED
    BY <2>1, <2>2, <2>4, <2>5, <2>6, <2>7 DEF Next
<1> QED
  BY <1>1, <1>2, PrefixSetInvariance, PTL DEF Spec
=============================================================================
