------------------------ MODULE HashBuilderRootProofs ------------------------
(***************************************************************************)
(* Proofs that a HashBuilder computes the root hash of MerkleTrie.         *)
(***************************************************************************)
EXTENDS HashBuilderProofs, HashBuilderRoot

-----------------------------------------------------------------------------
(* Places of a trie.                                                       *)

\* The sets of entries that have a trie: no key extends another, and their lengths are
\* bounded.
HasTrie(E, depth) ==
  /\ \A e \in E : e.key \in Seq(Nat) /\ Len(e.key) <= depth
  /\ \A e, g \in E : starts_with(e.key, g.key) => e = g

\* A string that one of the keys begins with is a place.
LEMMA PlaceIs ==
  ASSUME NEW E, NEW depth \in Nat, HasTrie(E, depth), NEW p
  PROVE  /\ p \in Places(E) <=> p \in Seq(Nat) /\ Below(E, p) # {}
         /\ p \in Places(E) => Len(p) \in 0..depth
<1>1. ASSUME p \in Places(E)
      PROVE  p \in Seq(Nat) /\ Below(E, p) # {} /\ Len(p) \in 0..depth
  <2>1. PICK e \in E : \E n \in 0..Len(e.key) : p = SubSeq(e.key, 1, n)
    BY <1>1, Zenon DEF Places
  <2>2. PICK n \in 0..Len(e.key) : p = SubSeq(e.key, 1, n)
    BY <2>1
  <2>3. e.key \in Seq(Nat) /\ Len(e.key) <= depth
    BY DEF HasTrie
  <2>4. p \in Seq(Nat) /\ Len(p) = n /\ starts_with(e.key, p)
    BY <2>2, <2>3, CutIsPrefix
  <2> QED
    BY <2>3, <2>4, LenProperties DEF Below
<1>2. ASSUME p \in Seq(Nat), Below(E, p) # {}
      PROVE  p \in Places(E)
  <2>1. PICK e \in E : starts_with(e.key, p)
    BY <1>2 DEF Below
  <2>2. e.key \in Seq(Nat)
    BY DEF HasTrie
  <2>3. Len(p) \in 0..Len(e.key) /\ \A i \in 1..Len(p) : e.key[i] = p[i]
    BY <1>2, <2>1, <2>2, LenProperties DEF starts_with
  <2>4. p = SubSeq(e.key, 1, Len(p))
    <3> DEFINE cut == SubSeq(e.key, 1, Len(p))
    <3>1. cut \in Seq(Nat) /\ Len(cut) = Len(p) /\ \A i \in 1..Len(p) : cut[i] = e.key[i]
      BY <2>2, <2>3, CutIsPrefix
    <3> HIDE DEF cut
    <3>2. p \in Seq(Nat) /\ Len(p) = Len(cut) /\ \A i \in 1..Len(p) : p[i] = cut[i]
      BY <1>2, <2>3, <3>1
    <3>3. p = cut
      BY <3>1, <3>2, SeqEqual, Zenon
    <3> QED
      BY <3>3 DEF cut
  <2>5. p \in {SubSeq(e.key, 1, n) : n \in 0..Len(e.key)}
    BY <2>3, <2>4
  <2> QED
    BY <2>5, Zenon DEF Places
<1> QED
  BY <1>1, <1>2

\* A string cut at its end.
LEMMA FullCut ==
  ASSUME NEW a \in Seq(Nat)
  PROVE  SubSeq(a, 1, Len(a)) = a
<1> DEFINE cut == SubSeq(a, 1, Len(a))
<1>1. Len(a) \in 0..Len(a)
  BY LenProperties
<1>2. cut \in Seq(Nat) /\ Len(cut) = Len(a) /\ \A i \in 1..Len(a) : cut[i] = a[i]
  BY <1>1, CutIsPrefix
<1> HIDE DEF cut
<1>3. cut = a
  BY <1>2, SeqEqual
<1> QED
  BY <1>3 DEF cut

\* Two strings a third one begins with: the longer begins with the shorter.
LEMMA PrefixesNest ==
  ASSUME NEW a \in Seq(Nat), NEW p \in Seq(Nat), NEW q \in Seq(Nat),
         starts_with(a, p), starts_with(a, q), Len(p) <= Len(q)
  PROVE  starts_with(q, p) /\ (Len(p) = Len(q) => p = q)
<1>1. Len(a) \in Nat /\ Len(p) \in Nat /\ Len(q) \in Nat
  BY LenProperties
<1>2. starts_with(q, p)
  BY <1>1 DEF starts_with
<1>3. ASSUME Len(p) = Len(q)
      PROVE  p = q
  <2>1. \A i \in 1..Len(p) : p[i] = q[i]
    BY <1>1, <1>2, <1>3 DEF starts_with
  <2> QED
    BY <1>3, <2>1, SeqEqual
<1> QED
  BY <1>2, <1>3

\* The longest prefix the keys share: all of one of them, or what precedes the place
\* where two of them part.
LEMMA SharedIs ==
  ASSUME NEW E, NEW depth \in Nat, HasTrie(E, depth), NEW q \in Seq(Nat),
         E # {}, \A e \in E : starts_with(e.key, q),
         \/ \E e \in E : e.key = q
         \/ \E e, g \in E : /\ Len(e.key) > Len(q) /\ Len(g.key) > Len(q)
                            /\ e.key[Len(q) + 1] # g.key[Len(q) + 1]
  PROVE  SharedPrefix(E) = q
<1>1. q \in SharedPlaces(E)
  <2>1. Below(E, q) # {}
    BY DEF Below
  <2> QED
    BY <2>1, PlaceIs DEF SharedPlaces
<1>2. ASSUME NEW r \in SharedPlaces(E)
      PROVE  r \in Seq(Nat) /\ Len(r) <= Len(q)
  <2>1. r \in Seq(Nat) /\ \A e \in E : starts_with(e.key, r)
    BY PlaceIs DEF SharedPlaces
  <2>2. Len(r) \in Nat /\ Len(q) \in Nat
    BY <2>1, LenProperties
  <2>3. ASSUME Len(q) < Len(r)
        PROVE  FALSE
    <3>1. \A e \in E : Len(e.key) > Len(q) /\ e.key[Len(q) + 1] = r[Len(q) + 1]
      <4> SUFFICES ASSUME NEW e \in E
                   PROVE  Len(e.key) > Len(q) /\ e.key[Len(q) + 1] = r[Len(q) + 1]
        OBVIOUS
      <4>1. e.key \in Seq(Nat) /\ Len(e.key) \in Nat
        BY LenProperties DEF HasTrie
      <4> QED
        BY <2>1, <2>2, <2>3, <4>1 DEF starts_with
    <3> QED
      BY <2>2, <3>1
  <2> QED
    BY <2>1, <2>2, <2>3
<1>3. ASSUME NEW p \in SharedPlaces(E), \A r \in SharedPlaces(E) : Len(r) <= Len(p)
      PROVE  p = q
  <2>1. p \in Seq(Nat) /\ Len(p) = Len(q)
    BY <1>1, <1>2, <1>3, LenProperties
  <2>2. PICK e \in E : TRUE
    OBVIOUS
  <2>3. starts_with(e.key, p) /\ starts_with(e.key, q) /\ e.key \in Seq(Nat)
    BY <2>2 DEF SharedPlaces, HasTrie
  <2> QED
    BY <2>1, <2>3, PrefixesNest, LenProperties
<1>4. \A r \in SharedPlaces(E) : Len(r) <= Len(q)
  BY <1>2
<1> QED
  BY <1>1, <1>3, <1>4, Zenon DEF SharedPrefix

\* What is below a place has a trie too.
LEMMA TrieBelow ==
  ASSUME NEW E, NEW depth \in Nat, HasTrie(E, depth), NEW p
  PROVE  HasTrie(Below(E, p), depth) /\ \A e \in Below(E, p) : starts_with(e.key, p) /\ e \in E
BY DEF HasTrie, Below

\* Keys that share a prefix have a longest one, which begins with it.
LEMMA SharedExists ==
  ASSUME NEW E, NEW depth \in Nat, HasTrie(E, depth), E # {}, NEW p \in Seq(Nat),
         \A e \in E : starts_with(e.key, p)
  PROVE  /\ SharedPrefix(E) \in Seq(Nat) /\ starts_with(SharedPrefix(E), p)
         /\ SharedPrefix(E) # p => Len(SharedPrefix(E)) > Len(p)
         /\ \A e \in E : starts_with(e.key, SharedPrefix(E))
<1> DEFINE gaps == {depth - Len(r) : r \in SharedPlaces(E)}
           q    == SharedPrefix(E)
<1>1. \A r \in SharedPlaces(E) :
        r \in Seq(Nat) /\ Len(r) \in 0..depth /\ \A e \in E : starts_with(e.key, r)
  BY PlaceIs DEF SharedPlaces
<1>2. p \in SharedPlaces(E)
  <2>1. Below(E, p) # {}
    BY DEF Below
  <2> QED
    BY <2>1, PlaceIs DEF SharedPlaces
<1>3. PICK gap \in gaps : \A other \in gaps : gap <= other
  <2>1. gaps \subseteq Nat
    BY <1>1
  <2>2. gaps # {}
    BY <1>2
  <2> HIDE DEF gaps
  <2> QED
    BY <2>1, <2>2, LeastNatural
<1>4. PICK s \in SharedPlaces(E) : gap = depth - Len(s)
  BY <1>3
<1>5. \A r \in SharedPlaces(E) : Len(r) <= Len(s)
  <2> SUFFICES ASSUME NEW r \in SharedPlaces(E)
               PROVE  Len(r) <= Len(s)
    OBVIOUS
  <2>1. depth - Len(r) \in gaps
    OBVIOUS
  <2>2. gap <= depth - Len(r)
    BY <1>3, <2>1
  <2>3. Len(r) \in Nat /\ Len(s) \in Nat
    BY <1>1
  <2> QED
    BY <1>4, <2>2, <2>3
<1>6. q \in SharedPlaces(E) /\ \A r \in SharedPlaces(E) : Len(r) <= Len(q)
  BY <1>5, Zenon DEF SharedPrefix
<1> HIDE DEF q
<1>7. q \in Seq(Nat) /\ Len(p) <= Len(q) /\ \A e \in E : starts_with(e.key, q)
  BY <1>1, <1>2, <1>6
<1>8. PICK e \in E : TRUE
  OBVIOUS
<1>9. e.key \in Seq(Nat) /\ starts_with(e.key, p) /\ starts_with(e.key, q)
  BY <1>7, <1>8 DEF HasTrie
<1>10. starts_with(q, p) /\ (Len(p) = Len(q) => p = q)
  BY <1>7, <1>9, PrefixesNest
<1>11. Len(p) \in Nat /\ Len(q) \in Nat
  BY <1>7, LenProperties
<1> QED
  BY <1>7, <1>10, <1>11 DEF q

\* A key goes on from a place with a digit when it begins with both.
LEMMA BeginsWithDigit ==
  ASSUME NEW k \in Seq(Nat), NEW p \in Seq(Nat), NEW d \in Nat
  PROVE  /\ Append(p, d) \in Seq(Nat) /\ Len(Append(p, d)) = Len(p) + 1
         /\ starts_with(Append(p, d), p) /\ Append(p, d)[Len(p) + 1] = d
         /\ starts_with(k, Append(p, d)) <=>
              starts_with(k, p) /\ Len(k) > Len(p) /\ k[Len(p) + 1] = d
<1> DEFINE a == Append(p, d)
<1>1. Len(k) \in Nat /\ Len(p) \in Nat
  BY LenProperties
<1>2. /\ a \in Seq(Nat) /\ Len(a) = Len(p) + 1 /\ a[Len(p) + 1] = d
      /\ \A i \in 1..Len(p) : a[i] = p[i]
  BY AppendProperties
<1> HIDE DEF a
<1>3. starts_with(a, p)
  BY <1>1, <1>2 DEF starts_with
<1>4. ASSUME starts_with(k, a)
      PROVE  starts_with(k, p) /\ Len(k) > Len(p) /\ k[Len(p) + 1] = d
  BY <1>1, <1>2, <1>4 DEF starts_with
<1>5. ASSUME starts_with(k, p), Len(k) > Len(p), k[Len(p) + 1] = d
      PROVE  starts_with(k, a)
  <2>1. ASSUME NEW i \in 1..Len(a)
        PROVE  k[i] = a[i]
    <3>1. CASE i = Len(p) + 1
      BY <1>2, <1>5, <3>1
    <3>2. CASE i # Len(p) + 1
      <4>1. i \in 1..Len(p)
        BY <1>1, <1>2, <3>2
      <4> QED
        BY <1>2, <1>5, <4>1 DEF starts_with
    <3> QED
      BY <3>1, <3>2
  <2> QED
    BY <1>1, <1>2, <1>5, <2>1 DEF starts_with
<1> QED
  BY <1>2, <1>3, <1>4, <1>5 DEF a

\* The places one digit below a place.
LEMMA PlaceOfDigit ==
  ASSUME NEW E, NEW depth \in Nat, HasTrie(E, depth), NEW p \in Places(E)
  PROVE  /\ DigitsAt(E, p) \subseteq Nat
         /\ \A d \in Nat : d \in DigitsAt(E, p) <=> Below(E, Append(p, d)) # {}
         /\ \A d \in DigitsAt(E, p) : /\ Append(p, d) \in Places(E)
                                      /\ Len(Append(p, d)) > Len(p)
                                      /\ starts_with(Append(p, d), p)
<1>1. p \in Seq(Nat) /\ Len(p) \in Nat
  BY PlaceIs, LenProperties
<1>2. \A e \in E : e.key \in Seq(Nat) /\ Len(e.key) \in Nat
  BY LenProperties DEF HasTrie
<1>3. ASSUME NEW d \in DigitsAt(E, p)
      PROVE  d \in Nat /\ Below(E, Append(p, d)) # {}
  <2>1. PICK e \in E : starts_with(e.key, p) /\ Len(e.key) > Len(p) /\ d = e.key[Len(p) + 1]
    BY <1>3 DEF DigitsAt, Below
  <2>2. d \in Nat
    <3>1. Len(p) + 1 \in 1..Len(e.key)
      BY <1>1, <1>2, <2>1
    <3> QED
      BY <1>2, <2>1, <3>1, ElementOfSeq
  <2>3. starts_with(e.key, Append(p, d))
    BY <1>1, <1>2, <2>1, <2>2, BeginsWithDigit
  <2> QED
    BY <2>2, <2>3 DEF Below
<1>4. ASSUME NEW d \in Nat, Below(E, Append(p, d)) # {}
      PROVE  d \in DigitsAt(E, p)
  <2>1. PICK e \in E : starts_with(e.key, Append(p, d))
    BY <1>4 DEF Below
  <2>2. starts_with(e.key, p) /\ Len(e.key) > Len(p) /\ e.key[Len(p) + 1] = d
    BY <1>1, <1>2, <2>1, BeginsWithDigit
  <2> QED
    BY <2>2, Zenon DEF DigitsAt, Below
<1>5. ASSUME NEW d \in DigitsAt(E, p)
      PROVE  /\ Append(p, d) \in Places(E) /\ Len(Append(p, d)) > Len(p)
             /\ starts_with(Append(p, d), p)
  <2>1. d \in Nat /\ Below(E, Append(p, d)) # {}
    BY <1>3
  <2>2. Append(p, d) \in Seq(Nat) /\ Len(Append(p, d)) = Len(p) + 1 /\ starts_with(Append(p, d), p)
    BY <1>1, <2>1, BeginsWithDigit
  <2>3. Append(p, d) \in Places(E)
    BY <2>1, <2>2, PlaceIs
  <2> QED
    BY <1>1, <2>2, <2>3
<1> QED
  BY <1>3, <1>4, <1>5

\* Composed of a single leaf ...
LEMMA LeafComposed ==
  ASSUME NEW E, NEW p, NEW below, NEW any, any = SomeEntry(Below(E, p)),
         any.key = SharedPrefix(Below(E, p)), any.value.tag = "leaf"
  PROVE  Composed(E, p, below) =
           Leaf(SubSeq(any.key, Len(p) + 1, Len(any.key)), any.value.data)
BY Zenon DEF Composed

\* ... of entries that share more than the place ...
LEMMA ExtensionComposed ==
  ASSUME NEW E, NEW p, NEW below, NEW any, any = SomeEntry(Below(E, p)),
         NEW q, q = SharedPrefix(Below(E, p)), ~(any.key = q /\ any.value.tag = "leaf"), q # p
  PROVE  Composed(E, p, below) = Extension(SubSeq(q, Len(p) + 1, Len(q)), below[q])
BY Zenon DEF Composed

\* The references to the places one digit below a place.
ReferencesAt(E, p, below) == [d \in DigitsAt(E, p) |-> below[Append(p, d)]]

\* ... and of entries that part there.
LEMMA BranchComposed ==
  ASSUME NEW E, NEW p, NEW below, NEW any, any = SomeEntry(Below(E, p)),
         p = SharedPrefix(Below(E, p)), any.key = p => any.value.tag # "leaf"
  PROVE  Composed(E, p, below) = branch_node_rlp(ReferencesAt(E, p, below))
BY Zenon DEF Composed, ReferencesAt

\* A short encoding refers to itself, any other is referred to by its hash.
OrHash(rlp) == IF rlp.length < 32 THEN rlp ELSE HashReference([keccak |-> rlp])

\* Referred is the hash the entry at the place has, or refers to what is composed.
LEMMA ReferredCases ==
  ASSUME NEW E, NEW p, NEW below, NEW any, any = SomeEntry(Below(E, p))
  PROVE  /\ any.key = p /\ any.value.tag = "hash" =>
              Referred(E, p, below) = HashReference(any.value.data)
         /\ ~(any.key = p /\ any.value.tag = "hash") =>
              Referred(E, p, below) = OrHash(Composed(E, p, below))
BY Zenon DEF Referred, OrHash

\* What Referred makes of a place depends on the entries below it and on the references
\* to the places below it, and on nothing else.
LEMMA ReferredFrom ==
  ASSUME NEW E, NEW G, NEW depth \in Nat, HasTrie(E, depth), HasTrie(G, depth),
         NEW p \in Places(E), Below(E, p) = Below(G, p), NEW f, NEW g,
         \A r \in Places(E) : Len(r) > Len(p) /\ starts_with(r, p) => f[r] = g[r]
  PROVE  Referred(E, p, f) = Referred(G, p, g)
<1> DEFINE q == SharedPrefix(Below(E, p))
<1>1. p \in Seq(Nat) /\ Below(E, p) # {}
  BY PlaceIs
<1>2. ASSUME q # p
      PROVE  f[q] = g[q]
  <2>1. HasTrie(Below(E, p), depth) /\ \A e \in Below(E, p) : starts_with(e.key, p) /\ e \in E
    BY TrieBelow
  <2>2. /\ q \in Seq(Nat) /\ starts_with(q, p) /\ Len(q) > Len(p)
        /\ \A e \in Below(E, p) : starts_with(e.key, q)
    BY <1>1, <1>2, <2>1, SharedExists
  <2>3. Below(E, q) # {}
    BY <1>1, <2>1, <2>2 DEF Below
  <2>4. q \in Places(E)
    BY <2>2, <2>3, PlaceIs
  <2> QED
    BY <2>2, <2>4
<1>3. DigitsAt(E, p) = DigitsAt(G, p)
  BY DEF DigitsAt
<1>4. ReferencesAt(E, p, f) = ReferencesAt(G, p, g)
  <2>1. \A d \in DigitsAt(E, p) : f[Append(p, d)] = g[Append(p, d)]
    BY PlaceOfDigit
  <2> QED
    BY <1>3, <2>1 DEF ReferencesAt
<1>5. /\ SomeEntry(Below(E, p)) = SomeEntry(Below(G, p)) /\ q = SharedPrefix(Below(G, p))
  BY Zenon
<1> DEFINE any  == SomeEntry(Below(E, p))
           leaf == any.key = q /\ any.value.tag = "leaf"
<1>6. any = SomeEntry(Below(E, p)) /\ any = SomeEntry(Below(G, p))
      /\ q = SharedPrefix(Below(E, p)) /\ q = SharedPrefix(Below(G, p))
  BY <1>5
<1> HIDE DEF any, q
<1>7. Composed(E, p, f) = Composed(G, p, g)
  <2>1. CASE leaf
    BY <1>6, <2>1, LeafComposed
  <2>2. CASE ~leaf /\ q # p
    BY <1>2, <1>6, <2>2, ExtensionComposed
  <2>3. CASE ~leaf /\ q = p
    <3>1. Composed(E, p, f) = branch_node_rlp(ReferencesAt(E, p, f))
      BY <1>6, <2>3, BranchComposed
    <3>2. Composed(G, p, g) = branch_node_rlp(ReferencesAt(G, p, g))
      BY <1>6, <2>3, BranchComposed
    <3> QED
      BY <1>4, <3>1, <3>2
  <2> QED
    BY <2>1, <2>2, <2>3
<1>8. CASE any.key = p /\ any.value.tag = "hash"
  BY <1>6, <1>8, ReferredCases
<1>9. CASE ~(any.key = p /\ any.value.tag = "hash")
  BY <1>6, <1>7, <1>9, ReferredCases
<1> QED
  BY <1>8, <1>9


-----------------------------------------------------------------------------
(* Reference, from the longest places to the root.                         *)

\* A function that gives every place of a trie what Referred makes of the others.
Refers(E, f) == f = [p \in Places(E) |-> Referred(E, p, f)]

\* There is one: it is built from the longest places up.
LEMMA ReferencesExist ==
  ASSUME NEW E, NEW depth \in Nat, HasTrie(E, depth)
  PROVE  \E f : Refers(E, f)
<1> DEFINE Deep(k)  == {p \in Places(E) : Len(p) > depth - k}
           On(k, f) == f = [p \in Deep(k) |-> Referred(E, p, f)]
           Good     == {k \in 0..(depth + 1) : \E f : On(k, f)}
<1>1. \A p \in Places(E) : Len(p) \in 0..depth
  BY PlaceIs
<1>2. 0 \in Good
  <2>1. Deep(0) = {}
    BY <1>1
  <2>2. On(0, [p \in {} |-> 0])
    BY <2>1
  <2>3. 0 \in 0..(depth + 1)
    OBVIOUS
  <2> QED
    BY <2>2, <2>3, Zenon
<1>3. ASSUME NEW k \in 0..depth, k \in Good
      PROVE  k + 1 \in Good
  <2>1. PICK f : On(k, f)
    BY <1>3
  <2> DEFINE g == [p \in Deep(k + 1) |-> Referred(E, p, f)]
  <2>2. ASSUME NEW p \in Deep(k + 1)
        PROVE  Referred(E, p, f) = Referred(E, p, g)
    <3>1. p \in Places(E) /\ Len(p) + 1 > depth - k
      BY <1>1, <2>2
    <3>2. ASSUME NEW r \in Places(E), Len(r) > Len(p)
          PROVE  f[r] = g[r]
      <4>1. r \in Deep(k) /\ r \in Deep(k + 1)
        BY <1>1, <3>1, <3>2
      <4>2. f[r] = Referred(E, r, f)
        BY <2>1, <4>1, Zenon
      <4>3. g[r] = Referred(E, r, f)
        BY <4>1, Zenon
      <4> QED
        BY <4>2, <4>3
    <3> HIDE DEF g
    <3> QED
      BY <3>1, <3>2, ReferredFrom
  <2>3. On(k + 1, g)
    BY <2>2, Zenon
  <2>4. k + 1 \in 0..(depth + 1)
    OBVIOUS
  <2> HIDE DEF On
  <2> QED
    BY <2>3, <2>4, Zenon
<1>4. depth + 1 \in Good
  <2>1. \A k \in 0..((depth + 1) - 1) : k \in Good => k + 1 \in Good
    <3>1. (depth + 1) - 1 = depth
      OBVIOUS
    <3> QED
      BY <1>3, <3>1, Zenon
  <2>2. depth + 1 \in Nat /\ depth + 1 \in 0..(depth + 1)
    OBVIOUS
  <2> HIDE DEF Good
  <2> QED
    BY <1>2, <2>1, <2>2, IntervalInduction
<1>5. PICK f : On(depth + 1, f)
  BY <1>4
<1>6. Deep(depth + 1) = Places(E)
  BY <1>1
<1> QED
  BY <1>5, <1>6, Zenon DEF Refers

\* The references to the places of a trie, as one function.
References(E) == [p \in Places(E) |-> Reference(E, p)]

\* Reference is well defined: at every place it is what the Yellow Paper composes from
\* the references to the places below.
LEMMA ReferenceIs ==
  ASSUME NEW E, NEW depth \in Nat, HasTrie(E, depth), NEW p \in Places(E)
  PROVE  Reference(E, p) = Referred(E, p, References(E))
<1> DEFINE R(g) == [q \in Places(E) |-> Referred(E, q, g)]
           r    == CHOOSE g : g = R(g)
<1>1. r = R(r)
  <2>1. \E g : g = R(g)
    BY ReferencesExist DEF Refers
  <2> QED
    BY <2>1, Zenon
<1>2. \A q \in Places(E) : Reference(E, q) = r[q]
  BY Zenon DEF Reference
<1> HIDE DEF r
<1>3. r = References(E)
  <2>1. r = [q \in Places(E) |-> r[q]]
    BY <1>1
  <2> QED
    BY <1>2, <2>1 DEF References
<1>4. r[p] = Referred(E, p, r)
  BY <1>1, Zenon
<1> QED
  BY <1>2, <1>3, <1>4


\* Sets of entries that agree below a place agree below what begins with it.
LEMMA AgreeBelow ==
  ASSUME NEW E, NEW G, NEW depth \in Nat, HasTrie(E, depth), HasTrie(G, depth),
         NEW p \in Seq(Nat), Below(E, p) = Below(G, p), NEW r \in Seq(Nat), starts_with(r, p)
  PROVE  Below(E, r) = Below(G, r)
<1>1. ASSUME NEW e, e.key \in Seq(Nat), starts_with(e.key, r)
      PROVE  starts_with(e.key, p)
  BY <1>1, PrefixTransitive
<1>2. \A e \in E \cup G : e.key \in Seq(Nat)
  BY DEF HasTrie
<1>3. ASSUME NEW e \in Below(E, r)
      PROVE  e \in Below(G, r)
  <2>1. e \in Below(E, p)
    BY <1>1, <1>2, <1>3 DEF Below
  <2> QED
    BY <1>3, <2>1 DEF Below
<1>4. ASSUME NEW e \in Below(G, r)
      PROVE  e \in Below(E, r)
  <2>1. e \in Below(G, p)
    BY <1>1, <1>2, <1>4 DEF Below
  <2> QED
    BY <1>4, <2>1 DEF Below
<1> QED
  BY <1>3, <1>4

\* The reference to a place depends on the entries below it and on no others.
THEOREM ReferenceIsLocal ==
  ASSUME NEW E, NEW G, NEW depth \in Nat, HasTrie(E, depth), HasTrie(G, depth),
         NEW p \in Places(E), Below(E, p) = Below(G, p)
  PROVE  Reference(E, p) = Reference(G, p)
<1> DEFINE Same(k) == \A q \in Places(E) :
              Len(q) > depth - k /\ Below(E, q) = Below(G, q) => Reference(E, q) = Reference(G, q)
           Good == {k \in 0..(depth + 1) : Same(k)}
<1>1. \A q \in Places(E) : q \in Seq(Nat) /\ Below(E, q) # {} /\ Len(q) \in 0..depth
  BY PlaceIs
<1>2. 0 \in Good
  BY <1>1
<1>3. ASSUME NEW k \in 0..depth, Same(k)
      PROVE  Same(k + 1)
  <2> SUFFICES ASSUME NEW q \in Places(E), Len(q) > depth - (k + 1), Below(E, q) = Below(G, q)
               PROVE  Reference(E, q) = Reference(G, q)
    OBVIOUS
  <2>1. q \in Places(G)
    BY <1>1, PlaceIs
  <2>2. ASSUME NEW r \in Places(E), Len(r) > Len(q) /\ starts_with(r, q)
        PROVE  References(E)[r] = References(G)[r]
    <3>1. r \in Seq(Nat) /\ q \in Seq(Nat) /\ Below(E, r) # {}
      BY <1>1
    <3>2. Below(E, r) = Below(G, r)
      BY <2>2, <3>1, AgreeBelow
    <3>3. r \in Places(G)
      BY <3>1, <3>2, PlaceIs
    <3>4. Len(r) > depth - k
      BY <1>1, <2>2
    <3>5. Reference(E, r) = Reference(G, r)
      BY <1>3, <3>2, <3>4
    <3> QED
      BY <3>3, <3>5 DEF References
  <2>3. Reference(E, q) = Referred(E, q, References(E))
    BY ReferenceIs
  <2>4. Reference(G, q) = Referred(G, q, References(G))
    BY <2>1, ReferenceIs
  <2>5. Referred(E, q, References(E)) = Referred(G, q, References(G))
    BY <2>2, ReferredFrom
  <2> QED
    BY <2>3, <2>4, <2>5
<1>4. depth + 1 \in Good
  <2>1. \A k \in 0..((depth + 1) - 1) : k \in Good => k + 1 \in Good
    <3> SUFFICES ASSUME NEW k \in 0..((depth + 1) - 1), k \in Good
                 PROVE  k + 1 \in Good
      OBVIOUS
    <3>1. k \in 0..depth /\ k + 1 \in 0..(depth + 1)
      OBVIOUS
    <3>2. Same(k)
      OBVIOUS
    <3>3. Same(k + 1)
      BY <1>3, <3>1, <3>2
    <3> HIDE DEF Same
    <3> QED
      BY <3>1, <3>3
  <2>2. depth + 1 \in Nat /\ depth + 1 \in 0..(depth + 1)
    OBVIOUS
  <2> HIDE DEF Good
  <2> QED
    BY <1>2, <2>1, <2>2, IntervalInduction
<1>5. Len(p) > depth - (depth + 1)
  BY <1>1
<1> QED
  BY <1>4, <1>5


-----------------------------------------------------------------------------
(* The encodings of the Yellow Paper and those of the code.                *)

\* Halves of a number of nibbles.
LEMMA Halves ==
  ASSUME NEW n \in Nat
  PROVE  \E m \in Nat : /\ n \div 2 = m
                        /\ \/ n % 2 = 0 /\ n = 2 * m
                           \/ n % 2 = 1 /\ n = 2 * m + 1
<1>1. n \div 2 \in Nat /\ n % 2 \in 0..1
  BY SMT
<1>2. n = 2 * (n \div 2) + (n % 2)
  BY SMT
<1>3. \/ n % 2 = 0 /\ n = 2 * (n \div 2)
      \/ n % 2 = 1 /\ n = 2 * (n \div 2) + 1
  BY <1>1, <1>2
<1> QED
  BY <1>1, <1>3

\* encode_path is the hex-prefix encoding.
THEOREM EncodePathIsHexPrefix ==
  ASSUME NEW x \in Seq(Nat), NEW t \in BOOLEAN
  PROVE  HexPrefix(x, t) = encode_path(x, t)
<1> DEFINE f     == IF t THEN 2 ELSE 0
           whole == IF Len(x) % 2 = 0 THEN <<f, 0>> \o x ELSE <<f + 1>> \o x
           left  == [i \in 1..(Len(whole) \div 2) |-> whole[2 * i - 1] * 16 + whole[2 * i]]
           odd   == Len(x) % 2
           flags == (IF t THEN 32 ELSE 0) + 16 * odd
           first == IF odd = 1 THEN flags + x[1] ELSE flags
           rest  == [i \in 1..(Len(x) \div 2) |-> 16 * x[odd + 2 * i - 1] + x[odd + 2 * i]]
           right == <<first>> \o rest
<1>1. HexPrefix(x, t) = left /\ encode_path(x, t) = right
  BY Zenon DEF HexPrefix, encode_path
<1>2. f \in Nat /\ flags = 16 * f + 16 * odd
  BY Halves, LenProperties
<1>3. PICK m \in Nat : /\ Len(x) \div 2 = m
                       /\ \/ odd = 0 /\ Len(x) = 2 * m
                          \/ odd = 1 /\ Len(x) = 2 * m + 1
  BY Halves, LenProperties
<1> HIDE DEF f, flags
<1>4. /\ whole \in Seq(Nat) /\ Len(whole) = 2 * m + 2
      /\ odd = 0 => /\ whole[1] = f /\ whole[2] = 0
                    /\ \A j \in 1..Len(x) : whole[j + 2] = x[j]
      /\ odd = 1 => /\ whole[1] = f + 1
                    /\ \A j \in 1..Len(x) : whole[j + 1] = x[j]
  <2>1. CASE odd = 0
    <3>1. whole = <<f, 0>> \o x
      BY <2>1
    <3>2. Len(<<f, 0>>) = 2 /\ <<f, 0>> \in Seq(Nat) /\ <<f, 0>>[1] = f /\ <<f, 0>>[2] = 0
      BY <1>2
    <3> QED
      BY <1>3, <2>1, <3>1, <3>2, ConcatProperties, LenProperties
  <2>2. CASE odd = 1
    <3>1. whole = <<f + 1>> \o x
      BY <2>2
    <3>2. Len(<<f + 1>>) = 1 /\ <<f + 1>> \in Seq(Nat) /\ <<f + 1>>[1] = f + 1
      BY <1>2
    <3> DEFINE flag == <<f + 1>>
    <3> HIDE DEF flag
    <3>3. /\ whole \in Seq(Nat) /\ Len(whole) = 1 + Len(x)
          /\ \A i \in 1..(1 + Len(x)) : whole[i] = IF i <= 1 THEN flag[i] ELSE x[i - 1]
      BY <3>1, <3>2, ConcatProperties DEF flag
    <3>4. whole[1] = f + 1
      BY <1>3, <3>2, <3>3 DEF flag
    <3>5. \A j \in 1..Len(x) : whole[j + 1] = x[j]
      BY <1>3, <3>3
    <3>6. Len(whole) = 2 * m + 2
      <4>1. Len(x) = 2 * m + 1
        BY <1>3, <2>2
      <4>2. Len(whole) = 1 + Len(x)
        BY <3>3
      <4> HIDE DEF whole
      <4> QED
        BY <4>1, <4>2
    <3>7. odd # 0
      BY <2>2
    <3> HIDE DEF odd, whole
    <3> QED
      BY <2>2, <3>3, <3>4, <3>5, <3>6, <3>7
  <2> QED
    BY <1>3, <2>1, <2>2
<1> HIDE DEF whole
<1>5. (2 * m + 2) \div 2 = m + 1
  BY SMT
<1>6. left \in Seq(Nat) /\ Len(left) = m + 1
      /\ \A i \in 1..(m + 1) : left[i] = whole[2 * i - 1] * 16 + whole[2 * i]
  <2>1. \A i \in 1..(m + 1) : whole[2 * i - 1] \in Nat /\ whole[2 * i] \in Nat
    BY <1>4, ElementOfSeq
  <2> QED
    BY <1>4, <1>5, <2>1
<1>7. first \in Nat /\ (odd = 1 => x[1] \in Nat)
  BY <1>2, <1>3, ElementOfSeq
<1>8. rest \in Seq(Nat) /\ Len(rest) = m
      /\ \A i \in 1..m : rest[i] = 16 * x[odd + 2 * i - 1] + x[odd + 2 * i]
  <2>1. \A i \in 1..m : x[odd + 2 * i - 1] \in Nat /\ x[odd + 2 * i] \in Nat
    BY <1>3, ElementOfSeq
  <2> QED
    BY <1>3, <2>1
<1> HIDE DEF left, rest
<1>9. right \in Seq(Nat) /\ Len(right) = m + 1 /\ right[1] = first
      /\ \A i \in 1..m : right[i + 1] = rest[i]
  <2>1. Len(<<first>>) = 1 /\ <<first>> \in Seq(Nat) /\ <<first>>[1] = first
    BY <1>7
  <2> HIDE DEF first
  <2> QED
    BY <1>8, <2>1, ConcatProperties
<1> HIDE DEF right
<1>10. ASSUME NEW i \in 1..(m + 1)
       PROVE  left[i] = right[i]
  <2>1. CASE i = 1
    <3>1. left[1] = whole[1] * 16 + whole[2] /\ right[1] = first
      BY <1>6, <1>9, <2>1
    <3>2. CASE odd = 0
      BY <1>2, <1>4, <2>1, <3>1, <3>2
    <3>3. CASE odd = 1
      <4>1. 1 \in 1..Len(x)
        BY <1>3, <3>3
      <4>2. whole[2] = x[1] /\ whole[1] = f + 1
        BY <1>4, <3>3, <4>1
      <4>3. first = 16 * f + 16 + x[1]
        BY <1>2, <3>3
      <4> QED
        BY <1>2, <1>7, <2>1, <3>1, <3>3, <4>2, <4>3
    <3> QED
      BY <1>3, <3>2, <3>3
  <2>2. CASE i # 1
    <3> DEFINE j == i - 1
    <3>1. j \in 1..m /\ i = j + 1
      BY <2>2
    <3>2. right[i] = 16 * x[odd + 2 * j - 1] + x[odd + 2 * j]
      BY <1>8, <1>9, <3>1
    <3>3. left[i] = whole[2 * j + 1] * 16 + whole[2 * j + 2]
      <4>1. 2 * i - 1 = 2 * j + 1 /\ 2 * i = 2 * j + 2
        BY <3>1
      <4> QED
        BY <1>6, <4>1
    <3> HIDE DEF j
    <3>4. whole[2 * j + 1] = x[odd + 2 * j - 1] /\ whole[2 * j + 2] = x[odd + 2 * j]
      <4>1. CASE odd = 0
        <5>1. 2 * j - 1 \in 1..Len(x) /\ 2 * j \in 1..Len(x)
              /\ (2 * j - 1) + 2 = 2 * j + 1 /\ 0 + 2 * j - 1 = 2 * j - 1 /\ 0 + 2 * j = 2 * j
          BY <1>3, <3>1, <4>1
        <5> QED
          BY <1>4, <4>1, <5>1
      <4>2. CASE odd = 1
        <5>1. 2 * j \in 1..Len(x) /\ 2 * j + 1 \in 1..Len(x)
              /\ (2 * j + 1) + 1 = 2 * j + 2 /\ 1 + 2 * j - 1 = 2 * j /\ 1 + 2 * j = 2 * j + 1
          BY <1>3, <3>1, <4>2
        <5> QED
          BY <1>4, <4>2, <5>1
      <4> QED
        BY <1>3, <4>1, <4>2
    <3>5. whole[2 * j + 1] \in Nat
      BY <1>4, <3>1, ElementOfSeq
    <3> QED
      BY <3>2, <3>3, <3>4, <3>5
  <2> QED
    BY <2>1, <2>2
<1>11. left = right
  BY <1>6, <1>9, <1>10, SeqEqual, Zenon
<1> QED
  BY <1>1, <1>11


\* The nodes of the code are those of the Yellow Paper ...
LEMMA NodesAgree ==
  ASSUME NEW path \in Seq(Nat), NEW value, NEW reference
  PROVE  /\ Leaf(path, value) = leaf_node_rlp(path, value)
         /\ Extension(path, reference) = extension_node_rlp(path, reference)
<1>1. HexPrefix(path, TRUE) = encode_path(path, TRUE)
  BY EncodePathIsHexPrefix
<1>2. HexPrefix(path, FALSE) = encode_path(path, FALSE)
  BY EncodePathIsHexPrefix
<1>3. Leaf(path, value) = leaf_node_rlp(path, value)
  BY <1>1, Zenon DEF Leaf, leaf_node_rlp
<1>4. Extension(path, reference) = extension_node_rlp(path, reference)
  BY <1>2, Zenon DEF Extension, extension_node_rlp
<1> QED
  BY <1>3, <1>4

\* ... and so are the references.
LEMMA ReferencesAgree ==
  ASSUME NEW rlp, NEW hash
  PROVE  OrHash(rlp) = node_ref(rlp) /\ HashReference(hash) = wrap_hash(hash)
<1>1. kHashLength + 1 = 33 /\ kHashLength = 32
  BY DEF kHashLength
<1>2. \A h : HashReference(h) = wrap_hash(h)
  BY <1>1 DEF HashReference, wrap_hash
<1>3. OrHash(rlp) = node_ref(rlp)
  BY <1>1, <1>2 DEF OrHash, node_ref, keccak256
<1> QED
  BY <1>2, <1>3

-----------------------------------------------------------------------------
(* The references to the places the builder meets.                         *)

\* The entries of a non-empty set.
LEMMA SomeEntryIs ==
  ASSUME NEW E, E # {}
  PROVE  SomeEntry(E) \in E
BY Zenon DEF SomeEntry

\* The entry whose key is the place is the only one below it.
LEMMA AloneBelow ==
  ASSUME NEW E, NEW depth \in Nat, HasTrie(E, depth), NEW e \in E
  PROVE  e.key \in Places(E) /\ Below(E, e.key) = {e}
<1>1. e.key \in Seq(Nat) /\ starts_with(e.key, e.key)
  BY LenProperties DEF HasTrie, starts_with
<1>2. Below(E, e.key) = {e}
  BY <1>1 DEF Below, HasTrie
<1> QED
  BY <1>1, <1>2, PlaceIs

\* Where entries part, all keys go on and they share nothing more.
LEMMA PartedIs ==
  ASSUME NEW E, NEW depth \in Nat, HasTrie(E, depth), NEW p \in Places(E), Parted(E, p)
  PROVE  /\ \A e \in Below(E, p) : Len(e.key) > Len(p)
         /\ SharedPrefix(Below(E, p)) = p
<1>1. p \in Seq(Nat) /\ Len(p) \in Nat /\ Below(E, p) # {}
  BY PlaceIs, LenProperties
<1>2. PICK e \in Below(E, p), g \in Below(E, p) :
        /\ Len(e.key) > Len(p) /\ Len(g.key) > Len(p)
        /\ e.key[Len(p) + 1] # g.key[Len(p) + 1]
  BY DEF Parted, DigitsAt
<1>3. ASSUME NEW h \in Below(E, p)
      PROVE  Len(h.key) > Len(p)
  <2>1. h \in E /\ h.key \in Seq(Nat) /\ Len(h.key) \in Nat /\ starts_with(h.key, p)
    BY LenProperties DEF Below, HasTrie
  <2> SUFFICES ASSUME Len(h.key) <= Len(p)
               PROVE  FALSE
    BY <1>1, <2>1
  <2>2. e \in E /\ g \in E /\ starts_with(e.key, p) /\ starts_with(g.key, p)
    BY DEF Below
  <2>3. starts_with(e.key, h.key) /\ starts_with(g.key, h.key)
    BY <1>1, <2>1, <2>2 DEF starts_with
  <2>4. e = h /\ g = h
    BY <2>1, <2>2, <2>3 DEF HasTrie
  <2> QED
    BY <1>2, <2>4
<1>4. HasTrie(Below(E, p), depth) /\ \A h \in Below(E, p) : starts_with(h.key, p)
  BY TrieBelow
<1>5. SharedPrefix(Below(E, p)) = p
  BY <1>1, <1>2, <1>4, SharedIs
<1> QED
  BY <1>3, <1>5

\* The reference to a leaf.
LEMMA ReferenceOfLeaf ==
  ASSUME NEW E, NEW depth \in Nat, HasTrie(E, depth), NEW p \in Places(E),
         NEW e \in E, Below(E, p) = {e}, e.value.tag = "leaf"
  PROVE  Reference(E, p) =
           node_ref(leaf_node_rlp(SubSeq(e.key, Len(p) + 1, Len(e.key)), e.value.data))
<1> DEFINE q    == SharedPrefix(Below(E, p))
           path == SubSeq(e.key, Len(p) + 1, Len(e.key))
<1>1. p \in Seq(Nat) /\ Len(p) \in Nat /\ e.key \in Seq(Nat) /\ Len(e.key) \in Nat
  BY PlaceIs, LenProperties DEF HasTrie
<1>2. q = e.key
  <2>1. HasTrie({e}, depth)
    BY DEF HasTrie
  <2>2. starts_with(e.key, e.key)
    BY <1>1 DEF starts_with
  <2>3. {e} # {} /\ \A g \in {e} : starts_with(g.key, e.key)
    BY <2>2
  <2> QED
    BY <1>1, <2>1, <2>3, SharedIs
<1>3. e = SomeEntry(Below(E, p))
  BY SomeEntryIs
<1>4. Composed(E, p, References(E)) = Leaf(path, e.value.data)
  <2>1. e.key = SharedPrefix(Below(E, p))
    BY <1>2
  <2> HIDE DEF q
  <2> QED
    BY <1>3, <2>1, LeafComposed
<1> HIDE DEF q
<1>5. path \in Seq(Nat)
  <2>1. starts_with(e.key, p)
    BY DEF Below
  <2>2. Len(p) <= Len(e.key)
    BY <2>1 DEF starts_with
  <2> QED
    BY <1>1, <2>2
<1>6. Referred(E, p, References(E)) = OrHash(Composed(E, p, References(E)))
  BY <1>3, ReferredCases
<1> HIDE DEF path
<1>7. Leaf(path, e.value.data) = leaf_node_rlp(path, e.value.data)
  BY <1>5, NodesAgree
<1>8. Reference(E, p) = node_ref(leaf_node_rlp(path, e.value.data))
  BY <1>4, <1>6, <1>7, ReferenceIs, ReferencesAgree
<1> QED
  BY <1>8 DEF path

\* The reference to a place whose hash an entry says.
LEMMA ReferenceOfHash ==
  ASSUME NEW E, NEW depth \in Nat, HasTrie(E, depth), NEW e \in E, e.value.tag = "hash"
  PROVE  Reference(E, e.key) = wrap_hash(e.value.data)
<1>1. e.key \in Places(E) /\ Below(E, e.key) = {e}
  BY AloneBelow
<1>2. e = SomeEntry(Below(E, e.key))
  BY <1>1, SomeEntryIs
<1>3. Referred(E, e.key, References(E)) = HashReference(e.value.data)
  BY <1>2, ReferredCases
<1> QED
  BY <1>1, <1>3, ReferenceIs, ReferencesAgree


\* The reference to a place from which all entries go on to a longer one, which is
\* known or where they part.
LEMMA ReferenceOfExtension ==
  ASSUME NEW E, NEW depth \in Nat, HasTrie(E, depth), NEW p \in Places(E), NEW q \in Places(E),
         starts_with(q, p), p # q, Below(E, p) = Below(E, q),
         \/ \E e \in E : e.key = q /\ e.value.tag = "hash"
         \/ Parted(E, q)
  PROVE  Reference(E, p) =
           node_ref(extension_node_rlp(SubSeq(q, Len(p) + 1, Len(q)), Reference(E, q)))
<1> DEFINE any   == SomeEntry(Below(E, p))
           path  == SubSeq(q, Len(p) + 1, Len(q))
           below == References(E)
<1>1. p \in Seq(Nat) /\ q \in Seq(Nat) /\ Len(p) \in Nat /\ Len(q) \in Nat
      /\ Below(E, p) # {}
  BY PlaceIs, LenProperties
<1>2. Len(p) < Len(q)
  <2>1. Len(p) <= Len(q) /\ \A i \in 1..Len(p) : q[i] = p[i]
    BY <1>1 DEF starts_with
  <2>2. ASSUME Len(p) = Len(q)
        PROVE  FALSE
    <3>1. p = q
      BY <1>1, <2>1, <2>2, SeqEqual
    <3> QED
      BY <3>1
  <2> QED
    BY <1>1, <2>1, <2>2
<1>3. any \in Below(E, q) /\ any.key \in Seq(Nat) /\ Len(any.key) >= Len(q)
  <2>1. any \in Below(E, q)
    BY <1>1, SomeEntryIs
  <2> HIDE DEF any
  <2> QED
    BY <1>1, <2>1, LenProperties DEF Below, starts_with, HasTrie
<1>4. SharedPrefix(Below(E, p)) = q /\ (any.key = q => any.value.tag # "leaf")
  <2>1. CASE Parted(E, q)
    <3>1. SharedPrefix(Below(E, q)) = q /\ Len(any.key) > Len(q)
      BY <1>3, <2>1, PartedIs
    <3> HIDE DEF any
    <3> QED
      BY <1>1, <3>1
  <2>2. CASE \E e \in E : e.key = q /\ e.value.tag = "hash"
    <3>1. PICK e \in E : e.key = q /\ e.value.tag = "hash"
      BY <2>2
    <3>2. Below(E, p) = {e}
      BY <3>1, AloneBelow
    <3>3. any = e
      BY <1>3, <3>2
    <3>4. HasTrie({e}, depth) /\ starts_with(e.key, q)
      BY <1>1, <3>1 DEF HasTrie, starts_with
    <3>5. SharedPrefix({e}) = q
      BY <1>1, <3>1, <3>4, SharedIs
    <3> HIDE DEF any
    <3> QED
      BY <3>1, <3>2, <3>3, <3>5
  <2> QED
    BY <2>1, <2>2
<1>5. any = SomeEntry(Below(E, p)) /\ q = SharedPrefix(Below(E, p))
  BY <1>4
<1> HIDE DEF any, below
<1>6. ~(any.key = q /\ any.value.tag = "leaf")
  BY <1>4
<1>7. Composed(E, p, below) = Extension(path, below[q])
  BY <1>5, <1>6, ExtensionComposed
<1>8. any.key # p
  BY <1>1, <1>2, <1>3
<1>9. Referred(E, p, below) = OrHash(Composed(E, p, below))
  BY <1>5, <1>8, ReferredCases
<1>10. path \in Seq(Nat)
  BY <1>1, <1>2
<1>11. below[q] = Reference(E, q)
  BY DEF below, References
<1> HIDE DEF path
<1>12. Extension(path, below[q]) = extension_node_rlp(path, Reference(E, q))
  BY <1>10, <1>11, NodesAgree
<1>13. Reference(E, p) = Referred(E, p, below)
  BY ReferenceIs DEF below
<1>14. Reference(E, p) = node_ref(extension_node_rlp(path, Reference(E, q)))
  BY <1>7, <1>9, <1>12, <1>13, ReferencesAgree
<1> QED
  BY <1>14 DEF path

\* The reference to a place where entries part.
LEMMA ReferenceOfBranch ==
  ASSUME NEW E, NEW depth \in Nat, HasTrie(E, depth), NEW p \in Places(E), Parted(E, p)
  PROVE  Reference(E, p) =
           node_ref(branch_node_rlp([d \in DigitsAt(E, p) |-> Reference(E, Append(p, d))]))
<1> DEFINE any      == SomeEntry(Below(E, p))
           below    == References(E)
           children == [d \in DigitsAt(E, p) |-> Reference(E, Append(p, d))]
<1>1. p \in Seq(Nat) /\ Len(p) \in Nat /\ Below(E, p) # {}
  BY PlaceIs, LenProperties
<1>2. p = SharedPrefix(Below(E, p)) /\ any.key # p
  <2>1. any \in Below(E, p)
    BY <1>1, SomeEntryIs
  <2> HIDE DEF any
  <2>2. Len(any.key) > Len(p)
    BY <2>1, PartedIs
  <2> QED
    BY <1>1, <2>2, PartedIs
<1>3. any = SomeEntry(Below(E, p))
  OBVIOUS
<1> HIDE DEF any
<1>4. Composed(E, p, below) = branch_node_rlp(ReferencesAt(E, p, below))
  BY <1>2, <1>3, BranchComposed
<1>5. Referred(E, p, below) = OrHash(Composed(E, p, below))
  BY <1>2, <1>3, ReferredCases
<1>6. ReferencesAt(E, p, below) = children
  <2>1. \A d \in DigitsAt(E, p) : Append(p, d) \in Places(E)
    BY PlaceOfDigit
  <2>2. \A d \in DigitsAt(E, p) : below[Append(p, d)] = Reference(E, Append(p, d))
    BY <2>1 DEF References
  <2> HIDE DEF below
  <2> QED
    BY <2>2 DEF ReferencesAt
<1>7. Reference(E, p) = Referred(E, p, below)
  BY ReferenceIs
<1> HIDE DEF children, below
<1>8. Reference(E, p) = node_ref(branch_node_rlp(children))
  BY <1>4, <1>5, <1>6, <1>7, ReferencesAgree
<1> QED
  BY <1>8 DEF children


-----------------------------------------------------------------------------
(* The references to children on the stack.                                *)

\* A digit of a mask has a rank in it.
LEMMA RankIs ==
  ASSUME NEW mask \in Mask, NEW d \in mask
  PROVE  Rank(mask, d) \in 1..Cardinality(mask)
<1> DEFINE upto == {x \in mask : x <= d}
<1>1. IsFiniteSet(mask) /\ Cardinality(mask) \in Nat
  BY MaskCardinality
<1>2. upto \in SUBSET mask /\ d \in upto
  BY DEF Mask, Digit
<1> HIDE DEF upto
<1>3. IsFiniteSet(upto) /\ Cardinality(upto) <= Cardinality(mask)
  BY <1>1, <1>2, FS_Subset
<1>4. Cardinality(upto) \in Nat /\ Cardinality(upto) # 0
  BY <1>2, <1>3, FS_CardinalityType, FS_EmptySet
<1> QED
  BY <1>1, <1>3, <1>4 DEF Rank, upto

\* The largest digit of a mask is the last; it changes no rank of another.
LEMMA RankOfLargest ==
  ASSUME NEW mask \in Mask, NEW digit \in Digit, \A d \in mask : d < digit
  PROVE  /\ Cardinality(mask \cup {digit}) = Cardinality(mask) + 1
         /\ Rank(mask \cup {digit}, digit) = Cardinality(mask) + 1
         /\ \A d \in mask : Rank(mask \cup {digit}, d) = Rank(mask, d)
<1>1. digit \notin mask
  BY DEF Mask, Digit
<1>2. Cardinality(mask \cup {digit}) = Cardinality(mask) + 1
  BY <1>1, MaskCardinality, FS_AddElement
<1>3. {d \in mask \cup {digit} : d <= digit} = mask \cup {digit}
  <2>1. \A d \in mask \cup {digit} : d <= digit
    BY DEF Mask, Digit
  <2> QED
    BY <2>1
<1>4. ASSUME NEW d \in mask
      PROVE  Rank(mask \cup {digit}, d) = Rank(mask, d)
  <2>1. {x \in mask \cup {digit} : x <= d} = {x \in mask : x <= d}
    BY DEF Mask, Digit
  <2> QED
    BY <2>1 DEF Rank
<1> QED
  BY <1>2, <1>3, <1>4 DEF Rank

\* What HoldsChildren says of the places where the children of each branch begin.
Laid(E, path, masks, stack, base) ==
  \A i \in 1..Len(masks) :
    /\ base[i] = base[i - 1] + Cardinality(masks[i])
    /\ \A d \in masks[i] :
         stack[base[i - 1] + Rank(masks[i], d)] = Reference(E, Append(SubSeq(path, 1, i - 1), d))

\* HoldsChildren by that name.
LEMMA HoldsIs ==
  ASSUME NEW E, NEW path, NEW masks, NEW stack, NEW top
  PROVE  HoldsChildren(E, path, masks, stack, top) <=>
           \E base \in [0..Len(masks) -> 0..top] :
             base[Len(masks)] = top /\ Laid(E, path, masks, stack, base)
BY Zenon DEF HoldsChildren, Laid

\* The children of a branch are between the place where it begins and the place where
\* the next one begins.
LEMMA SlotIs ==
  ASSUME NEW E, NEW path, NEW masks \in Seq(Mask), NEW stack, NEW top \in Nat,
         NEW base \in [0..Len(masks) -> 0..top],
         Laid(E, path, masks, stack, base), NEW i \in 1..Len(masks)
  PROVE  /\ base[i - 1] \in 0..top /\ base[i] \in 0..top
         /\ base[i] = base[i - 1] + Cardinality(masks[i]) /\ Cardinality(masks[i]) \in Nat
         /\ masks[i] \in Mask
         /\ \A d \in masks[i] : /\ base[i - 1] + Rank(masks[i], d) \in 1..base[i]
                                /\ Rank(masks[i], d) \in Nat
<1>1. Len(masks) \in Nat /\ masks[i] \in Mask
  BY LenProperties, ElementOfSeq
<1>2. i - 1 \in 0..Len(masks) /\ i \in 0..Len(masks)
  BY <1>1
<1>3. base[i - 1] \in 0..top /\ base[i] \in 0..top
  BY <1>2
<1>4. base[i] = base[i - 1] + Cardinality(masks[i]) /\ Cardinality(masks[i]) \in Nat
  BY <1>1, MaskCardinality DEF Laid
<1>5. ASSUME NEW d \in masks[i]
      PROVE  base[i - 1] + Rank(masks[i], d) \in 1..base[i] /\ Rank(masks[i], d) \in Nat
  <2>1. Rank(masks[i], d) \in 1..Cardinality(masks[i])
    BY <1>1, RankIs
  <2> QED
    BY <1>3, <1>4, <2>1
<1> QED
  BY <1>1, <1>3, <1>4, <1>5

\* The children of the innermost branch are on top, below them those of the others.
LEMMA HoldsBelow ==
  ASSUME NEW E, NEW path, NEW n \in Nat, NEW masks \in Seq(Mask), Len(masks) = n + 1,
         NEW stack, NEW top \in Nat, HoldsChildren(E, path, masks, stack, top),
         NEW less \in Seq(Mask), Len(less) = n, \A i \in 1..n : less[i] = masks[i],
         NEW first, first = top - Cardinality(masks[n + 1])
  PROVE  /\ first \in 0..top
         /\ HoldsChildren(E, path, less, stack, first)
         /\ \A d \in masks[n + 1] :
              stack[first + Rank(masks[n + 1], d)] =
                Reference(E, Append(SubSeq(path, 1, n), d))
<1>1. PICK base \in [0..Len(masks) -> 0..top] :
        base[Len(masks)] = top /\ Laid(E, path, masks, stack, base)
  BY HoldsIs
<1>2. /\ base[n] \in 0..top /\ base[n + 1] = top /\ Cardinality(masks[n + 1]) \in Nat
      /\ base[n + 1] = base[n] + Cardinality(masks[n + 1])
  <2>1. PICK i \in 1..Len(masks) : i = n + 1 /\ i - 1 = n
    OBVIOUS
  <2>2. /\ base[i - 1] \in 0..top /\ base[i] = base[i - 1] + Cardinality(masks[i])
        /\ Cardinality(masks[i]) \in Nat
    BY <1>1, SlotIs
  <2> QED
    BY <1>1, <2>1, <2>2
<1>3. first = base[n]
  BY <1>2
<1> DEFINE lower == [i \in 0..n |-> base[i]]
<1>4. \A i \in 1..n : /\ lower[i] = lower[i - 1] + Cardinality(less[i])
                      /\ Cardinality(less[i]) \in Nat
  <2> SUFFICES ASSUME NEW i \in 1..n
               PROVE  /\ lower[i] = lower[i - 1] + Cardinality(less[i])
                      /\ Cardinality(less[i]) \in Nat
    OBVIOUS
  <2>1. i \in 1..Len(masks) /\ i - 1 \in 0..n /\ i \in 0..n /\ less[i] = masks[i]
    OBVIOUS
  <2>2. base[i] = base[i - 1] + Cardinality(masks[i]) /\ Cardinality(masks[i]) \in Nat
    BY <1>1, <2>1, SlotIs
  <2> QED
    BY <2>1, <2>2
<1>5. lower \in [0..n -> Nat] /\ lower[n] = first
  BY <1>3
<1>6. lower \in [0..n -> 0..first]
  <2> SUFFICES ASSUME NEW i \in 0..n
               PROVE  lower[i] \in 0..first
    BY Zenon
  <2>1. lower[i] \in Nat
    BY <1>5
  <2> HIDE DEF lower
  <2>2. lower[i] <= lower[n]
    BY <1>4, <1>5, SegmentsRise
  <2> QED
    BY <1>2, <1>3, <1>5, <2>1, <2>2
<1>7. Laid(E, path, less, stack, lower)
  <2> SUFFICES ASSUME NEW i \in 1..n, NEW d \in less[i]
               PROVE  stack[lower[i - 1] + Rank(less[i], d)] =
                        Reference(E, Append(SubSeq(path, 1, i - 1), d))
    BY <1>4 DEF Laid
  <2>1. i \in 1..Len(masks) /\ less[i] = masks[i] /\ lower[i - 1] = base[i - 1]
    OBVIOUS
  <2> QED
    BY <1>1, <2>1 DEF Laid
<1>8. HoldsChildren(E, path, less, stack, first)
  <2> HIDE DEF lower
  <2> QED
    BY <1>5, <1>6, <1>7, HoldsIs
<1>9. ASSUME NEW d \in masks[n + 1]
      PROVE  stack[first + Rank(masks[n + 1], d)] = Reference(E, Append(SubSeq(path, 1, n), d))
  <2>1. n + 1 \in 1..Len(masks) /\ (n + 1) - 1 = n
    OBVIOUS
  <2> QED
    BY <1>1, <1>3, <2>1 DEF Laid
<1> QED
  BY <1>2, <1>3, <1>8, <1>9


\* It does not matter which trie and which stack, as long as the references are the same.
LEMMA HoldsElsewhere ==
  ASSUME NEW E, NEW path, NEW masks \in Seq(Mask), NEW stack, NEW top \in Nat,
         HoldsChildren(E, path, masks, stack, top),
         NEW G, NEW other, NEW copy,
         \A n \in 1..top : copy[n] = stack[n],
         \A i \in 1..Len(masks) : \A d \in masks[i] :
           Reference(E, Append(SubSeq(path, 1, i - 1), d)) =
             Reference(G, Append(SubSeq(other, 1, i - 1), d))
  PROVE  HoldsChildren(G, other, masks, copy, top)
<1>1. PICK base \in [0..Len(masks) -> 0..top] :
        base[Len(masks)] = top /\ Laid(E, path, masks, stack, base)
  BY HoldsIs
<1>2. ASSUME NEW i \in 1..Len(masks)
      PROVE  /\ base[i] = base[i - 1] + Cardinality(masks[i])
             /\ \A d \in masks[i] : copy[base[i - 1] + Rank(masks[i], d)] =
                                      Reference(G, Append(SubSeq(other, 1, i - 1), d))
  <2>1. base[i] = base[i - 1] + Cardinality(masks[i])
    BY <1>1 DEF Laid
  <2>2. ASSUME NEW d \in masks[i]
        PROVE  copy[base[i - 1] + Rank(masks[i], d)] =
                 Reference(G, Append(SubSeq(other, 1, i - 1), d))
    <3> DEFINE slot == base[i - 1] + Rank(masks[i], d)
    <3>1. slot \in 1..base[i] /\ base[i] \in 0..top
      BY <1>1, SlotIs
    <3>2. stack[slot] = Reference(E, Append(SubSeq(path, 1, i - 1), d))
      BY <1>1 DEF Laid
    <3> HIDE DEF slot
    <3>3. copy[slot] = stack[slot]
      BY <3>1
    <3>4. copy[slot] = Reference(G, Append(SubSeq(other, 1, i - 1), d))
      BY <3>2, <3>3
    <3> QED
      BY <3>4 DEF slot
  <2> QED
    BY <2>1, <2>2
<1>3. Laid(G, other, masks, copy, base)
  BY <1>2, Zenon DEF Laid
<1> QED
  BY <1>1, <1>3, HoldsIs

\* Groups without digits have no children.
LEMMA HoldsDropped ==
  ASSUME NEW E, NEW path, NEW masks \in Seq(Mask), NEW stack, NEW top \in Nat,
         HoldsChildren(E, path, masks, stack, top),
         NEW less \in Seq(Mask), Len(less) <= Len(masks),
         \A i \in 1..Len(less) : less[i] = masks[i],
         \A i \in 1..Len(masks) : i > Len(less) => masks[i] = {}
  PROVE  HoldsChildren(E, path, less, stack, top)
<1>1. PICK base \in [0..Len(masks) -> 0..top] : base[Len(masks)] = top /\ Laid(E, path, masks, stack, base)
  BY HoldsIs
<1>2. Len(less) \in Nat /\ Len(masks) \in Nat /\ Len(less) <= Len(masks)
  BY LenProperties
<1>3. base[Len(less)] = top
  <2> DEFINE Good == {k \in 0..(Len(masks) - Len(less)) : base[Len(masks) - k] = top}
  <2>1. 0 \in Good
    BY <1>1, <1>2
  <2>2. ASSUME NEW k \in 0..((Len(masks) - Len(less)) - 1), k \in Good
        PROVE  k + 1 \in Good
    <3> DEFINE i == Len(masks) - k
    <3>1. /\ i \in 1..Len(masks) /\ i > Len(less) /\ i - 1 = Len(masks) - (k + 1)
          /\ k + 1 \in 0..(Len(masks) - Len(less))
      BY <1>2
    <3>4. base[i] = top
      BY <2>2
    <3> HIDE DEF i
    <3>2. masks[i] = {} /\ Cardinality(masks[i]) = 0
      BY <3>1, FS_EmptySet
    <3>3. base[i] = base[i - 1] + Cardinality(masks[i]) /\ base[i - 1] \in 0..top
      <4>1. i - 1 \in 0..Len(masks)
        BY <1>2, <3>1
      <4> QED
        BY <1>1, <3>1, <4>1 DEF Laid
    <3>5. base[i - 1] = top
      BY <3>2, <3>3, <3>4
    <3> QED
      BY <3>1, <3>5
  <2>3. 0..(Len(masks) - Len(less)) \subseteq Good
    <3>1. Len(masks) - Len(less) \in Nat
      BY <1>2
    <3> HIDE DEF Good
    <3> QED
      BY <2>1, <2>2, <3>1, IntervalInduction
  <2>4. Len(masks) - Len(less) \in 0..(Len(masks) - Len(less)) /\ Len(masks) - (Len(masks) - Len(less)) = Len(less)
    BY <1>2
  <2> QED
    BY <2>3, <2>4
<1> DEFINE lower == [i \in 0..Len(less) |-> base[i]]
<1>4. lower \in [0..Len(less) -> 0..top] /\ lower[Len(less)] = top
  BY <1>2, <1>3
<1>5. ASSUME NEW i \in 1..Len(less)
      PROVE  /\ lower[i] = lower[i - 1] + Cardinality(less[i])
             /\ \A d \in less[i] : stack[lower[i - 1] + Rank(less[i], d)] =
                                     Reference(E, Append(SubSeq(path, 1, i - 1), d))
  <2>1. i \in 1..Len(masks) /\ less[i] = masks[i] /\ lower[i - 1] = base[i - 1] /\ lower[i] = base[i]
    BY <1>2
  <2> HIDE DEF lower
  <2> QED
    BY <1>1, <2>1 DEF Laid
<1>6. Laid(E, path, less, stack, lower)
  <2> HIDE DEF lower
  <2> QED
    BY <1>5, Zenon DEF Laid
<1> HIDE DEF lower
<1> QED
  BY <1>4, <1>6, HoldsIs

\* A digit larger than those of its group has its reference on top.
LEMMA HoldsOneMore ==
  ASSUME NEW E, NEW path, NEW masks \in Seq(Mask), NEW n \in Nat, Len(masks) <= n + 1,
         NEW stack, NEW top \in Nat, HoldsChildren(E, path, masks, stack, top),
         NEW digit \in Digit, NEW grown \in Seq(Mask), Len(grown) = n + 1,
         \A i \in 1..n : grown[i] = IF i <= Len(masks) THEN masks[i] ELSE {},
         grown[n + 1] = (IF n + 1 <= Len(masks) THEN masks[n + 1] ELSE {}) \cup {digit},
         n + 1 <= Len(masks) => \A d \in masks[n + 1] : d < digit,
         NEW copy, \A k \in 1..top : copy[k] = stack[k],
         copy[top + 1] = Reference(E, Append(SubSeq(path, 1, n), digit))
  PROVE  HoldsChildren(E, path, grown, copy, top + 1)
<1> DEFINE last == IF n + 1 <= Len(masks) THEN masks[n + 1] ELSE {}
<1>1. PICK base \in [0..Len(masks) -> 0..top] : base[Len(masks)] = top /\ Laid(E, path, masks, stack, base)
  BY HoldsIs
<1>2. Len(masks) \in Nat
  BY LenProperties
<1>3. last \in Mask /\ \A d \in last : d < digit
  BY <1>2, ElementOfSeq DEF Mask
<1> DEFINE higher == [i \in 0..(n + 1) |-> IF i = n + 1 THEN top + 1
                                           ELSE IF i <= Len(masks) THEN base[i] ELSE top]
<1>4. \A i \in 0..n : higher[i] = IF i <= Len(masks) THEN base[i] ELSE top
  BY <1>2
<1>5. higher[n + 1] = top + 1
  OBVIOUS
<1>6. higher \in [0..(n + 1) -> 0..(top + 1)]
  <2>1. \A i \in 0..(n + 1) : i <= Len(masks) => base[i] \in 0..top
    BY <1>2
  <2> QED
    BY <2>1
<1> HIDE DEF higher
<1>7. higher[n] + Cardinality(last) = top /\ Cardinality(last) \in Nat /\ higher[n] \in 0..top
  <2>1. Cardinality(last) \in Nat
    BY <1>3, MaskCardinality
  <2>2. CASE Len(masks) = n + 1
    <3>1. PICK i \in 1..Len(masks) : i = n + 1 /\ i - 1 = n
      BY <2>2
    <3>2. base[i] = base[i - 1] + Cardinality(masks[i]) /\ base[i - 1] \in 0..top
      <4>1. i - 1 \in 0..Len(masks)
        BY <1>2, <3>1
      <4> QED
        BY <1>1, <4>1 DEF Laid
    <3>3. last = masks[i] /\ higher[n] = base[i - 1] /\ base[i] = top
      BY <1>1, <1>4, <2>2, <3>1
    <3> QED
      BY <2>1, <3>2, <3>3
  <2>3. CASE Len(masks) # n + 1
    <3>1. Len(masks) <= n /\ last = {}
      BY <1>2, <2>3
    <3>2. higher[n] = top
      BY <1>1, <1>2, <1>4, <3>1
    <3> QED
      BY <3>1, <3>2, FS_EmptySet
  <2> QED
    BY <2>2, <2>3
<1>8. ASSUME NEW i \in 1..n
      PROVE  /\ higher[i] = higher[i - 1] + Cardinality(grown[i])
             /\ \A d \in grown[i] : copy[higher[i - 1] + Rank(grown[i], d)] =
                                      Reference(E, Append(SubSeq(path, 1, i - 1), d))
  <2>1. CASE i <= Len(masks)
    <3>1. i \in 1..Len(masks) /\ grown[i] = masks[i] /\ higher[i] = base[i] /\ higher[i - 1] = base[i - 1]
      BY <1>2, <1>4, <2>1
    <3>2. base[i] = base[i - 1] + Cardinality(masks[i])
      BY <1>1, <3>1 DEF Laid
    <3>3. ASSUME NEW d \in masks[i]
          PROVE  copy[base[i - 1] + Rank(masks[i], d)] =
                   Reference(E, Append(SubSeq(path, 1, i - 1), d))
      <4> DEFINE slot == base[i - 1] + Rank(masks[i], d)
      <4>1. slot \in 1..base[i] /\ base[i] \in 0..top
        BY <1>1, <3>1, SlotIs
      <4>2. stack[slot] = Reference(E, Append(SubSeq(path, 1, i - 1), d))
        BY <1>1, <3>1 DEF Laid
      <4> HIDE DEF slot
      <4>3. copy[slot] = stack[slot]
        BY <4>1
      <4>4. copy[slot] = Reference(E, Append(SubSeq(path, 1, i - 1), d))
        BY <4>2, <4>3
      <4> QED
        BY <4>4 DEF slot
    <3> QED
      BY <3>1, <3>2, <3>3
  <2>2. CASE ~(i <= Len(masks))
    <3>1. grown[i] = {} /\ higher[i] = top /\ Cardinality(grown[i]) = 0
      BY <1>2, <1>4, <2>2, FS_EmptySet
    <3>2. higher[i - 1] = top
      <4>1. i - 1 \in 0..n /\ (i - 1 <= Len(masks) => i - 1 = Len(masks))
        BY <1>2, <2>2
      <4> QED
        BY <1>1, <1>4, <4>1
    <3> QED
      BY <3>1, <3>2
  <2> QED
    BY <2>1, <2>2
<1>9. /\ higher[n + 1] = higher[n] + Cardinality(grown[n + 1])
      /\ \A d \in grown[n + 1] : copy[higher[n] + Rank(grown[n + 1], d)] =
                                   Reference(E, Append(SubSeq(path, 1, n), d))
  <2>1. grown[n + 1] = last \cup {digit}
    OBVIOUS
  <2> HIDE DEF last
  <2>2. /\ Cardinality(grown[n + 1]) = Cardinality(last) + 1
        /\ Rank(grown[n + 1], digit) = Cardinality(last) + 1
        /\ \A d \in last : Rank(grown[n + 1], d) = Rank(last, d)
    <3>1. Cardinality(last \cup {digit}) = Cardinality(last) + 1
      BY <1>3, RankOfLargest
    <3>2. Rank(last \cup {digit}, digit) = Cardinality(last) + 1
      BY <1>3, RankOfLargest
    <3>3. \A d \in last : Rank(last \cup {digit}, d) = Rank(last, d)
      BY <1>3, RankOfLargest
    <3> QED
      BY <2>1, <3>1, <3>2, <3>3
  <2>3. copy[higher[n] + Rank(grown[n + 1], digit)] = Reference(E, Append(SubSeq(path, 1, n), digit))
    <3>1. higher[n] + Rank(grown[n + 1], digit) = top + 1
      BY <1>7, <2>2
    <3> QED
      BY <3>1
  <2>4. ASSUME NEW d \in last
        PROVE  copy[higher[n] + Rank(grown[n + 1], d)] = Reference(E, Append(SubSeq(path, 1, n), d))
    <3>1. PICK i \in 1..Len(masks) : i = n + 1 /\ i - 1 = n
      BY <1>2, <2>4 DEF last
    <3>2. d \in masks[i] /\ last = masks[i]
      BY <2>4, <3>1 DEF last
    <3> DEFINE slot == base[i - 1] + Rank(masks[i], d)
    <3>3. slot \in 1..base[i] /\ base[i] \in 0..top
      BY <1>1, <3>2, SlotIs
    <3>4. stack[slot] = Reference(E, Append(SubSeq(path, 1, i - 1), d))
      BY <1>1, <3>2 DEF Laid
    <3>5. slot = higher[n] + Rank(grown[n + 1], d)
      <4>1. higher[n] = base[i - 1]
        BY <1>2, <1>4, <3>1
      <4>2. Rank(grown[n + 1], d) = Rank(masks[i], d)
        BY <2>2, <2>4, <3>2
      <4> QED
        BY <4>1, <4>2
    <3> HIDE DEF slot
    <3>6. copy[slot] = stack[slot]
      BY <3>3
    <3> QED
      BY <3>1, <3>4, <3>5, <3>6
  <2>5. higher[n + 1] = higher[n] + Cardinality(grown[n + 1])
    BY <1>5, <1>7, <2>2 DEF last
  <2> QED
    BY <2>1, <2>3, <2>4, <2>5
<1>10. ASSUME NEW i \in 1..(n + 1)
       PROVE  /\ higher[i] = higher[i - 1] + Cardinality(grown[i])
              /\ \A d \in grown[i] : copy[higher[i - 1] + Rank(grown[i], d)] =
                                       Reference(E, Append(SubSeq(path, 1, i - 1), d))
  <2>1. CASE i = n + 1
    <3>1. i - 1 = n
      BY <2>1
    <3> QED
      BY <1>9, <2>1, <3>1, Zenon
  <2>2. CASE i # n + 1
    <3>1. i \in 1..n
      BY <2>2
    <3> QED
      BY <1>8, <3>1
  <2> QED
    BY <2>1, <2>2
<1>11. Laid(E, path, grown, copy, higher)
  BY <1>10, Zenon DEF Laid
<1> QED
  BY <1>5, <1>6, <1>11, HoldsIs


-----------------------------------------------------------------------------
(* One iteration of gen_struct_step: the references it puts on the stack.  *)

\* Where all entries take the same digits along a path that a key begins with, they all
\* go to its end: none can end before, because that key would extend it.
LEMMA OneWay ==
  ASSUME NEW E, NEW depth \in Nat, HasTrie(E, depth), NEW path \in Seq(Nat),
         NEW n \in 0..Len(path), NEW e \in E, starts_with(e.key, path),
         \A i \in (n + 1)..Len(path) : DigitsAt(E, SubSeq(path, 1, i - 1)) \subseteq {path[i]}
  PROVE  /\ Below(E, SubSeq(path, 1, n)) = Below(E, path)
         /\ SubSeq(path, 1, n) \in Places(E) /\ path \in Places(E)
<1> DEFINE cut(k) == SubSeq(path, 1, k)
<1>1. Len(path) \in Nat /\ e.key \in Seq(Nat) /\ Len(e.key) \in Nat
  BY LenProperties DEF HasTrie
<1>2. ASSUME NEW k \in 0..Len(path)
      PROVE  /\ cut(k) \in Seq(Nat) /\ Len(cut(k)) = k /\ starts_with(path, cut(k))
             /\ \A i \in 1..k : cut(k)[i] = path[i]
             /\ starts_with(e.key, cut(k))
  BY <1>1, CutIsPrefix, PrefixTransitive
<1> HIDE DEF cut
<1>3. ASSUME NEW g \in Below(E, path)
      PROVE  g \in Below(E, cut(n))
  <2>1. g \in E /\ starts_with(g.key, path) /\ g.key \in Seq(Nat)
    BY DEF Below, HasTrie
  <2>2. starts_with(g.key, cut(n))
    BY <1>2, <2>1, PrefixTransitive
  <2> QED
    BY <2>1, <2>2 DEF Below
<1>4. ASSUME NEW g \in Below(E, cut(n)), ~starts_with(g.key, path)
      PROVE  FALSE
  <2>1. g \in E /\ starts_with(g.key, cut(n)) /\ g.key \in Seq(Nat) /\ Len(g.key) \in Nat
    BY LenProperties DEF Below, HasTrie
  <2> DEFINE off == {i \in 1..Len(path) : Len(g.key) < i \/ g.key[i] # path[i]}
  <2>2. off \subseteq Nat /\ off # {}
    <3>1. CASE Len(path) <= Len(g.key)
      <4>1. PICK i \in 1..Len(path) : g.key[i] # path[i]
        BY <1>4, <3>1 DEF starts_with
      <4> QED
        BY <4>1
    <3>2. CASE ~(Len(path) <= Len(g.key))
      <4>1. Len(path) \in 1..Len(path) /\ Len(g.key) < Len(path)
        BY <1>1, <2>1, <3>2
      <4> QED
        BY <4>1
    <3> QED
      BY <3>1, <3>2
  <2>3. PICK j \in off : \A i \in off : j <= i
    BY <2>2, LeastNatural
  <2>4. j \in 1..Len(path) /\ (Len(g.key) < j \/ g.key[j] # path[j])
    BY <2>3
  <2>5. \A i \in 1..(j - 1) : ~(Len(g.key) < i) /\ g.key[i] = path[i]
    <3> SUFFICES ASSUME NEW i \in 1..(j - 1)
                 PROVE  ~(Len(g.key) < i) /\ g.key[i] = path[i]
      OBVIOUS
    <3>1. i \in 1..Len(path) /\ ~(j <= i)
      BY <1>1, <2>4
    <3> QED
      BY <2>3, <3>1
  <2> HIDE DEF off
  <2>6. j > n
    <3>1. \A i \in 1..n : g.key[i] = path[i] /\ i <= Len(g.key)
      <4>1. Len(cut(n)) = n /\ \A i \in 1..n : cut(n)[i] = path[i]
        BY <1>2
      <4>2. n <= Len(g.key) /\ \A i \in 1..n : g.key[i] = cut(n)[i]
        BY <2>1, <4>1 DEF starts_with
      <4>3. \A i \in 1..n : i <= Len(g.key)
        BY <1>1, <2>1, <4>2
      <4> QED
        BY <4>1, <4>2, <4>3
    <3> QED
      BY <1>1, <2>1, <2>4, <3>1
  <2>7. /\ j - 1 \in 0..Len(path) /\ cut(j - 1) \in Seq(Nat) /\ Len(cut(j - 1)) = j - 1
        /\ \A i \in 1..(j - 1) : cut(j - 1)[i] = path[i]
    <3>1. j - 1 \in 0..Len(path)
      BY <1>1, <2>4
    <3> QED
      BY <1>2, <3>1
  <2>8. j - 1 <= Len(g.key)
    <3>1. CASE j = 1
      BY <2>1, <3>1
    <3>2. CASE j # 1
      <4>1. j - 1 \in 1..(j - 1)
        BY <1>1, <2>4, <3>2
      <4> QED
        BY <1>1, <2>1, <2>4, <2>5, <4>1
    <3> QED
      BY <3>1, <3>2
  <2>9. starts_with(g.key, cut(j - 1))
    BY <2>1, <2>5, <2>7, <2>8 DEF starts_with
  <2>10. CASE Len(g.key) = j - 1
    <3>1. \A i \in 1..(j - 1) : e.key[i] = path[i]
      BY <1>1, <2>4 DEF starts_with
    <3>2. Len(path) <= Len(e.key)
      BY DEF starts_with
    <3>3. starts_with(e.key, g.key)
      BY <1>1, <2>1, <2>4, <2>5, <2>10, <3>1, <3>2 DEF starts_with
    <3>4. e = g
      BY <2>1, <3>3 DEF HasTrie
    <3> QED
      BY <1>4, <3>4
  <2>11. CASE Len(g.key) # j - 1
    <3>1. Len(g.key) > Len(cut(j - 1)) /\ g.key[j] # path[j]
      <4> DEFINE m == Len(g.key)
      <4>1. m \in Nat /\ j \in Nat /\ j - 1 <= m /\ m # j - 1
        BY <1>1, <2>1, <2>4, <2>8, <2>11
      <4> HIDE DEF m
      <4>2. m > j - 1 /\ ~(m < j)
        BY <4>1
      <4>3. Len(g.key) > j - 1 /\ ~(Len(g.key) < j)
        BY <4>2 DEF m
      <4> QED
        BY <2>4, <2>7, <4>3
    <3>2. g \in Below(E, cut(j - 1)) /\ (j - 1) + 1 = j
      BY <2>1, <2>4, <2>9 DEF Below
    <3>3. g.key[j] \in DigitsAt(E, cut(j - 1))
      BY <2>7, <3>1, <3>2 DEF DigitsAt
    <3>4. j \in (n + 1)..Len(path)
      BY <1>1, <2>4, <2>6
    <3>5. DigitsAt(E, cut(j - 1)) \subseteq {path[j]}
      BY <3>4 DEF cut
    <3> QED
      BY <3>1, <3>3, <3>5
  <2> QED
    BY <2>10, <2>11
<1>5. Below(E, cut(n)) = Below(E, path)
  <2>1. ASSUME NEW g \in Below(E, cut(n))
        PROVE  g \in Below(E, path)
    BY <1>4 DEF Below
  <2> QED
    BY <1>3, <2>1
<1>6. path \in Places(E) /\ cut(n) \in Places(E)
  <2>1. e \in Below(E, path)
    BY DEF Below
  <2> QED
    BY <1>2, <1>5, <2>1, PlaceIs
<1> QED
  BY <1>5, <1>6 DEF cut

\* The stack once the pending entry is on it, and an extension node if need be.
LEMMA StackBuiltIs ==
  ASSUME Iterating, NEW top, top = Len(stack_built)
  PROVE  /\ top = Len(stack_) + (IF build_extensions THEN 0 ELSE 1)
         /\ Len(stack_pushed) = top
         /\ \A n \in 1..Len(stack_) : ~build_extensions => stack_built[n] = stack_[n]
         /\ \A n \in 1..Len(stack_) : n # top => stack_built[n] = stack_[n]
         /\ build_extensions => stack_pushed[top] = stack_[top]
         /\ pushes_leaf =>
              stack_pushed[top] = node_ref(leaf_node_rlp(short_node_key, value_.data))
         /\ pushes_hash => stack_pushed[top] = wrap_hash(value_.data)
         /\ ~extends => stack_built[top] = stack_pushed[top]
         /\ extends /\ top > 0 =>
              stack_built[top] = node_ref(extension_node_rlp(short_node_key, stack_pushed[top]))
<1>1. stack_ \in Seq(Range(stack_)) /\ Len(stack_) \in Nat
  BY LenProperties DEF Iterating, TypeOK
<1>2. value_.tag \in {"leaf", "hash"} /\ build_extensions \in BOOLEAN
  BY DEF Iterating, TypeOK, Value
<1>3. top = Len(stack_) + (IF build_extensions THEN 0 ELSE 1)
  BY IterationPush
<1> DEFINE pushed(r) == stack_pushed = Append(stack_, r)
<1>4. ASSUME NEW r, pushed(r)
      PROVE  /\ Len(stack_pushed) = Len(stack_) + 1
             /\ \A n \in 1..Len(stack_) : stack_pushed[n] = stack_[n]
             /\ stack_pushed[Len(stack_) + 1] = r
  BY <1>1, <1>4, AppendProperties
<1>5. CASE build_extensions
  <2>1. stack_pushed = stack_ /\ ~pushes_leaf /\ ~pushes_hash
    BY <1>5 DEF stack_pushed, pushes_leaf, pushes_hash
  <2>2. CASE extends
    <3>1. stack_built = [stack_ EXCEPT ![top] = node_ref(extension_node_rlp(short_node_key, @))]
      BY <1>1, <1>3, <1>5, <2>1, <2>2 DEF stack_built
    <3>2. stack_ \in [1..Len(stack_) -> Range(stack_)]
      BY <1>1, LenProperties
    <3> QED
      BY <1>1, <1>3, <1>5, <2>1, <2>2, <3>1, <3>2
  <2>3. CASE ~extends
    BY <1>1, <1>3, <1>5, <2>1, <2>3 DEF stack_built
  <2> QED
    BY <2>2, <2>3
<1>6. CASE ~build_extensions
  <2> DEFINE r == IF pushes_leaf THEN node_ref(leaf_node_rlp(short_node_key, value_.data))
                  ELSE wrap_hash(value_.data)
  <2>1. pushed(r) /\ (pushes_leaf \/ pushes_hash) /\ ~(pushes_leaf /\ pushes_hash)
    <3>1. CASE pushes_leaf
      <4>1. ~pushes_hash
        BY <3>1 DEF pushes_leaf, pushes_hash
      <4>2. stack_pushed = Append(stack_, node_ref(leaf_node_rlp(short_node_key, value_.data)))
        BY <3>1, <4>1 DEF stack_pushed
      <4> QED
        BY <3>1, <4>1, <4>2
    <3>2. CASE ~pushes_leaf
      <4>1. pushes_hash
        BY <1>2, <1>6, <3>2 DEF pushes_leaf, pushes_hash
      <4>2. stack_pushed = Append(stack_, wrap_hash(value_.data))
        BY <3>2, <4>1 DEF stack_pushed
      <4> QED
        BY <3>2, <4>1, <4>2
    <3> QED
      BY <3>1, <3>2
  <2>2. /\ pushes_leaf => r = node_ref(leaf_node_rlp(short_node_key, value_.data))
        /\ pushes_hash => r = wrap_hash(value_.data)
    BY <2>1
  <2> HIDE DEF r
  <2>3. /\ Len(stack_pushed) = top /\ top = Len(stack_) + 1 /\ stack_pushed[top] = r
        /\ \A n \in 1..Len(stack_) : stack_pushed[n] = stack_[n]
    BY <1>3, <1>4, <1>6, <2>1
  <2>4. CASE extends
    <3>1. stack_built =
            [stack_pushed EXCEPT ![top] = node_ref(extension_node_rlp(short_node_key, @))]
      BY <2>3, <2>4 DEF stack_built
    <3>2. stack_pushed \in Seq(Range(stack_) \cup {r})
      BY <1>1, <2>1, AppendProperties, SeqMonotonic
    <3>3. stack_pushed \in [1..top -> Range(stack_) \cup {r}]
      BY <2>3, <3>2, LenProperties
    <3> QED
      BY <1>1, <1>6, <2>2, <2>3, <2>4, <3>1, <3>3
  <2>5. CASE ~extends
    <3>1. stack_built = stack_pushed
      BY <2>5 DEF stack_built
    <3> QED
      BY <1>1, <1>6, <2>2, <2>3, <2>5, <3>1
  <2> QED
    BY <2>4, <2>5
<1> QED
  BY <1>5, <1>6


\* What is known of the builder between two steps.
RootInv ==
  /\ LegalInv /\ OrderInv /\ OpenTrie /\ FinishedTrie /\ EntriesFit
  /\ \E depth \in Nat : HasTrie(Added, depth)

\* The last entry is the pending one.
LEMMA PendingEntry ==
  ASSUME TypeOK, LastEntryPending, EntriesFit, key_ # <<>>
  PROVE  /\ [key |-> key_, value |-> value_] \in Added
         /\ Len(entries) \in DOMAIN entries
<1>1. entries \in Seq([key : Keys, value : Value, in_db : BOOLEAN]) /\ sealed \in 0..Len(entries)
  BY DEF TypeOK
<1>2. Len(entries) \in 1..Len(entries) /\ DOMAIN entries = 1..Len(entries)
  BY <1>1, LenProperties DEF LastEntryPending
<1>3. entries[Len(entries)].key = key_ /\ entries[Len(entries)].value = value_
  BY DEF LastEntryPending, EntriesFit
<1> QED
  BY <1>2, <1>3 DEF Added

\* The groups and the stack in an iteration of gen_struct_step.
LEMMA OpenIteration ==
  ASSUME RootInv, Iterating
  PROVE  /\ key_ # <<>> /\ along = current
         /\ starts_with(key_, current)
         /\ \A i \in 1..Len(current) :
              DigitsAt(Added, SubSeq(current, 1, i - 1)) =
                (IF i <= Len(groups_) THEN groups_[i] ELSE {}) \cup {current[i]}
         /\ HoldsChildren(Added, current, groups_, stack_,
                          IF build_extensions THEN Len(stack_) - 1 ELSE Len(stack_))
         /\ build_extensions =>
              Parted(Added, current) /\ stack_[Len(stack_)] = Reference(Added, current)
<1>1. pc = "gen_struct_step" /\ key_ # <<>> /\ starts_with(key_, current) /\ OpenTrie
  BY DEF RootInv, OrderInv, Iterating, CallInProgress, CurrentAlongKey
<1>2. along = current
  BY <1>1 DEF along
<1> QED
  BY <1>1, <1>2 DEF OpenTrie

\* From the branch that its key leaves the pending entry shares its way with no other, or
\* with those of the branch just closed.
LEMMA WayFromBranch ==
  ASSUME RootInv, Iterating, NEW depth \in Nat, HasTrie(Added, depth),
         NEW cut, cut = SubSeq(current, 1, from)
  PROVE  /\ Below(Added, cut) = Below(Added, current)
         /\ cut \in Places(Added) /\ current \in Places(Added)
         /\ cut \in Seq(Nat) /\ Len(cut) = from /\ starts_with(current, cut)
         /\ from \in 0..Len(current) /\ Len(groups_) <= from
         /\ ~build_extensions =>
              current = key_ /\ Below(Added, current) = {[key |-> key_, value |-> value_]}
<1> DEFINE E   == Added
           e   == [key |-> key_, value |-> value_]
<1>1. TypeOK /\ CallInProgress /\ LastEntryPending /\ EntriesFit
  BY DEF RootInv, LegalInv, IInv
<1>2. /\ key_ # <<>> /\ starts_with(key_, current)
      /\ \A i \in 1..Len(current) :
           DigitsAt(E, SubSeq(current, 1, i - 1)) =
             (IF i <= Len(groups_) THEN groups_[i] ELSE {}) \cup {current[i]}
  BY OpenIteration
<1>3. current \in Seq(Nat) /\ key_ \in Seq(Nat) /\ Len(current) \in Nat
  BY <1>1, KeysAreSequences, LenProperties
<1>4. e \in E /\ e.key = key_
  BY <1>1, <1>2, PendingEntry
<1>5. from \in 0..Len(current) /\ Len(groups_) <= from
  <2>1. /\ from = (IF has_parent THEN len + 1 ELSE 0) /\ from \in Nat /\ from <= Len(current)
        /\ ~has_parent => Len(groups_) = 0
    BY IterationFrom
  <2>2. /\ preceding_exists => Len(groups_) = preceding_len + 1
        /\ ~preceding_exists => Len(groups_) = 0
        /\ len \in Nat /\ preceding_len \in Nat /\ len >= preceding_len
    BY <1>1, IterationLengths DEF Iterating
  <2> QED
    BY <1>3, <2>1, <2>2
<1>6. ASSUME NEW i \in (from + 1)..Len(current)
      PROVE  DigitsAt(E, SubSeq(current, 1, i - 1)) \subseteq {current[i]}
  <2>1. i \in 1..Len(current) /\ ~(i <= Len(groups_))
    <3>1. Len(groups_) \in Nat
      BY <1>1, LenProperties DEF TypeOK
    <3> QED
      BY <1>3, <1>5, <3>1
  <2>2. DigitsAt(E, SubSeq(current, 1, i - 1)) = {} \cup {current[i]}
    BY <1>2, <2>1
  <2> QED
    BY <2>2
<1> HIDE DEF E, e
<1>7. HasTrie(E, depth)
  BY DEF E
<1>8. Below(E, cut) = Below(E, current) /\ cut \in Places(E) /\ current \in Places(E)
  <2>1. starts_with(e.key, current)
    BY <1>2, <1>4
  <2> QED
    BY <1>3, <1>4, <1>5, <1>6, <1>7, <2>1, OneWay
<1>9. cut \in Seq(Nat) /\ Len(cut) = from /\ starts_with(current, cut)
  BY <1>3, <1>5, CutIsPrefix
<1>10. ~build_extensions => current = key_ /\ Below(E, current) = {e}
  <2>1. ~build_extensions => current = key_
    BY <1>1 DEF Iterating, CallInProgress
  <2>2. Below(E, key_) = {e}
    BY <1>4, <1>7, AloneBelow
  <2> QED
    BY <2>1, <2>2
<1> QED
  BY <1>5, <1>8, <1>9, <1>10 DEF E, e

\* An iteration leaves on top of the stack the reference to the subtrie that the entry
\* shares with no other: the place one digit below the branch its key leaves, or the
\* root.
LEMMA TopIsReference ==
  ASSUME RootInv, Iterating, NEW depth \in Nat, HasTrie(Added, depth)
  PROVE  /\ SubSeq(current, 1, from) \in Places(Added)
         /\ stack_built[Len(stack_built)] = Reference(Added, SubSeq(current, 1, from))
<1> DEFINE E   == Added
           cut == SubSeq(current, 1, from)
           top == Len(stack_built)
           e   == [key |-> key_, value |-> value_]
<1>1. TypeOK /\ CallInProgress /\ LastEntryPending /\ EntriesFit
  BY DEF RootInv, LegalInv, IInv
<1>2. /\ key_ # <<>> /\ starts_with(key_, current)
      /\ \A i \in 1..Len(current) :
           DigitsAt(E, SubSeq(current, 1, i - 1)) =
             (IF i <= Len(groups_) THEN groups_[i] ELSE {}) \cup {current[i]}
      /\ build_extensions =>
           Parted(E, current) /\ stack_[Len(stack_)] = Reference(E, current)
  BY OpenIteration
<1>3. current \in Seq(Nat) /\ key_ \in Seq(Nat) /\ Len(current) \in Nat
  BY <1>1, KeysAreSequences, LenProperties
<1>4. e \in E /\ e.key = key_ /\ e.value = value_
  BY <1>1, <1>2, PendingEntry
<1>5. /\ Below(E, cut) = Below(E, current) /\ cut \in Places(E) /\ current \in Places(E)
      /\ cut \in Seq(Nat) /\ Len(cut) = from /\ starts_with(current, cut)
      /\ from \in 0..Len(current)
      /\ ~build_extensions => current = key_ /\ Below(E, current) = {e}
  BY WayFromBranch
<1>6. from < Len(current) <=> short_node_key # <<>>
  BY IterationFrom
<1> HIDE DEF E, cut, e
<1>7. HasTrie(E, depth)
  BY DEF E
<1>10. value_.tag \in {"leaf", "hash"} /\ build_extensions \in BOOLEAN
  BY <1>1 DEF TypeOK, Value
<1>11. /\ top \in Nat \ {0}
       /\ build_extensions => top = Len(stack_) /\ stack_pushed[top] = stack_[top]
       /\ pushes_leaf =>
            stack_pushed[top] = node_ref(leaf_node_rlp(short_node_key, value_.data))
       /\ pushes_hash => stack_pushed[top] = wrap_hash(value_.data)
       /\ ~extends => stack_built[top] = stack_pushed[top]
       /\ extends =>
            stack_built[top] = node_ref(extension_node_rlp(short_node_key, stack_pushed[top]))
  <2>1. top = Len(stack_) + (IF build_extensions THEN 0 ELSE 1) /\ Len(stack_) \in Nat
    BY <1>1, LenProperties, StackBuiltIs DEF TypeOK
  <2>2. build_extensions => Len(stack_) > 0
    <3>1. ASSUME build_extensions
          PROVE  Len(stack_) > 0
      <4>1. PICK base \in [0..Len(groups_) -> 0..Len(stack_)] : base[Len(groups_)] < Len(stack_)
        BY <3>1 DEF Iterating, StackCoversGroups
      <4>2. Len(groups_) \in 0..Len(groups_)
        BY <1>1, LenProperties DEF TypeOK
      <4> QED
        BY <2>1, <4>1, <4>2
    <3> QED
      BY <3>1
  <2>3. top \in Nat \ {0}
    BY <1>10, <2>1, <2>2
  <2> HIDE DEF top
  <2> QED
    BY <2>1, <2>3, StackBuiltIs DEF top
<1> HIDE DEF top
<1>12. short_node_key = SubSeq(current, Len(cut) + 1, Len(current))
  BY <1>5 DEF short_node_key
<1>13. CASE pushes_leaf
  <2>1. ~build_extensions /\ value_.tag = "leaf" /\ ~extends
    BY <1>13 DEF pushes_leaf, extends
  <2>2. Reference(E, cut) =
          node_ref(leaf_node_rlp(SubSeq(e.key, Len(cut) + 1, Len(e.key)), e.value.data))
    BY <1>4, <1>5, <1>7, <2>1, ReferenceOfLeaf
  <2>3. current = e.key /\ value_ = e.value
    BY <1>4, <1>5, <1>10, <2>1
  <2> QED
    BY <1>5, <1>11, <1>12, <1>13, <2>1, <2>2, <2>3 DEF E, cut, top
<1>14. CASE ~pushes_leaf
  <2>1. /\ stack_pushed[top] = Reference(E, current)
        /\ \/ \E g \in E : g.key = current /\ g.value.tag = "hash"
           \/ Parted(E, current)
    <3>1. CASE build_extensions
      BY <1>2, <1>11, <3>1 DEF E
    <3>2. CASE ~build_extensions
      <4>1. pushes_hash /\ e.value.tag = "hash" /\ e.key = current
        BY <1>4, <1>5, <1>10, <1>14, <3>2 DEF pushes_leaf, pushes_hash
      <4>2. Reference(E, e.key) = wrap_hash(e.value.data)
        BY <1>4, <1>7, <4>1, ReferenceOfHash
      <4> QED
        BY <1>4, <1>11, <4>1, <4>2
    <3> QED
      BY <1>5, <1>10, <3>1, <3>2
  <2>2. CASE extends
    <3>1. cut # current
      BY <1>3, <1>5, <1>6, <2>2 DEF extends
    <3>2. Reference(E, cut) =
            node_ref(extension_node_rlp(SubSeq(current, Len(cut) + 1, Len(current)),
                                        Reference(E, current)))
      BY <1>5, <1>7, <2>1, <3>1, ReferenceOfExtension
    <3> QED
      BY <1>5, <1>11, <1>12, <2>1, <2>2, <3>2 DEF E, cut, top
  <2>3. CASE ~extends
    <3>1. from = Len(current)
      BY <1>3, <1>5, <1>6, <1>14, <2>3 DEF extends
    <3>2. cut = current
      BY <1>3, <3>1, Zenon, FullCut DEF cut
    <3> QED
      BY <1>5, <1>11, <2>1, <2>3, <3>2 DEF E, cut, top
  <2> QED
    BY <2>2, <2>3
<1> QED
  BY <1>13, <1>14


\* One element more of a string.
LEMMA CutAppend ==
  ASSUME NEW a \in Seq(Nat), NEW n \in Nat, n < Len(a)
  PROVE  SubSeq(a, 1, n + 1) = Append(SubSeq(a, 1, n), a[n + 1])
<1> DEFINE short == SubSeq(a, 1, n)
           long  == SubSeq(a, 1, n + 1)
           more  == Append(short, a[n + 1])
<1>1. n \in 0..Len(a) /\ n + 1 \in 0..Len(a) /\ n + 1 \in 1..Len(a)
  BY LenProperties
<1>2. /\ short \in Seq(Nat) /\ Len(short) = n /\ \A i \in 1..n : short[i] = a[i]
      /\ long \in Seq(Nat) /\ Len(long) = n + 1 /\ \A i \in 1..(n + 1) : long[i] = a[i]
  BY <1>1, CutIsPrefix
<1>3. a[n + 1] \in Nat
  BY <1>1, ElementOfSeq
<1> HIDE DEF short, long
<1>4. /\ more \in Seq(Nat) /\ Len(more) = n + 1 /\ more[n + 1] = a[n + 1]
      /\ \A i \in 1..n : more[i] = a[i]
  BY <1>2, <1>3, AppendProperties
<1> HIDE DEF more
<1>5. ASSUME NEW i \in 1..(n + 1)
      PROVE  long[i] = more[i]
  <2>1. i = n + 1 \/ i \in 1..n
    OBVIOUS
  <2> QED
    BY <1>2, <1>4, <2>1
<1>6. long = more
  BY <1>2, <1>4, <1>5, SeqEqual
<1> QED
  BY <1>6 DEF short, long, more

\* The places along the key.
LEMMA PlacesAlong ==
  ASSUME RootInv, Iterating, NEW depth \in Nat, HasTrie(Added, depth), NEW n \in 0..Len(current)
  PROVE  SubSeq(current, 1, n) \in Places(Added)
<1>1. TypeOK /\ LastEntryPending /\ EntriesFit /\ key_ # <<>> /\ starts_with(key_, current)
  BY OpenIteration DEF RootInv, LegalInv, IInv
<1>2. current \in Seq(Nat) /\ key_ \in Seq(Nat)
  BY <1>1, KeysAreSequences
<1>3. SubSeq(current, 1, n) \in Seq(Nat) /\ starts_with(key_, SubSeq(current, 1, n))
  BY <1>1, <1>2, CutIsPrefix, PrefixTransitive
<1>4. [key |-> key_, value |-> value_] \in Below(Added, SubSeq(current, 1, n))
  BY <1>1, <1>3, PendingEntry DEF Below
<1> QED
  BY <1>3, <1>4, PlaceIs

\* An iteration leaves on the stack the references to the children of the branches open
\* then, the group it leaves or closes included.
LEMMA GrownHolds ==
  ASSUME RootInv, Iterating, has_parent, NEW depth \in Nat, HasTrie(Added, depth)
  PROVE  /\ HoldsChildren(Added, current, groups_grown, stack_built, Len(stack_built))
         /\ groups_grown[len + 1] = DigitsAt(Added, SubSeq(current, 1, len))
         /\ \A i \in 1..len : DigitsAt(Added, SubSeq(current, 1, i - 1)) =
                                groups_grown[i] \cup {current[i]}
<1> DEFINE top == IF build_extensions THEN Len(stack_) - 1 ELSE Len(stack_)
<1>1. TypeOK /\ CallInProgress /\ DigitsRise /\ pc = "gen_struct_step" /\ len < Len(current)
  BY DEF RootInv, LegalInv, IInv, OrderInv, Iterating
<1>2. /\ \A i \in 1..Len(current) :
           DigitsAt(Added, SubSeq(current, 1, i - 1)) =
             (IF i <= Len(groups_) THEN groups_[i] ELSE {}) \cup {current[i]}
      /\ HoldsChildren(Added, current, groups_, stack_, top)
  BY OpenIteration
<1>3. current \in Seq(Nat) /\ Len(current) \in Nat /\ groups_ \in Seq(Mask) /\ Len(groups_) \in Nat
      /\ Len(stack_) \in Nat /\ build_extensions \in BOOLEAN
  BY <1>1, KeysAreSequences, LenProperties DEF TypeOK
<1>4. len \in Nat /\ Len(groups_) <= len + 1
  BY <1>1, <1>3, IterationLengths
<1>5. top \in Nat /\ Len(stack_built) = top + 1
      /\ \A k \in 1..top : stack_built[k] = stack_[k]
  <2>1. PICK base \in [0..Len(groups_) -> 0..top] : TRUE
    BY <1>2 DEF HoldsChildren
  <2>2. Len(groups_) \in 0..Len(groups_)
    BY <1>3
  <2>3. base[Len(groups_)] \in 0..top
    BY <2>1, <2>2
  <2>4. top \in Nat
    BY <1>3, <2>3
  <2>5. /\ Len(stack_built) = Len(stack_) + (IF build_extensions THEN 0 ELSE 1)
        /\ \A n \in 1..Len(stack_) : ~build_extensions => stack_built[n] = stack_[n]
        /\ \A n \in 1..Len(stack_) : n # Len(stack_built) => stack_built[n] = stack_[n]
    BY StackBuiltIs
  <2> QED
    BY <1>3, <2>4, <2>5
<1>6. /\ extra_digit \in Digit /\ groups_grown \in Seq(Mask) /\ Len(groups_grown) = len + 1
      /\ \A i \in 1..len : groups_grown[i] = IF i <= Len(groups_) THEN groups_[i] ELSE {}
      /\ groups_grown[len + 1] =
           (IF len + 1 <= Len(groups_) THEN groups_[len + 1] ELSE {}) \cup {extra_digit}
  BY <1>1, IterationGroups
<1>7. stack_built[top + 1] = Reference(Added, Append(SubSeq(current, 1, len), extra_digit))
  <2>1. from = len + 1
    BY IterationFrom
  <2>2. SubSeq(current, 1, from) = Append(SubSeq(current, 1, len), extra_digit)
    BY <1>1, <1>3, <1>4, <2>1, CutAppend DEF extra_digit
  <2> QED
    BY <1>5, <2>2, TopIsReference
<1>8. len + 1 <= Len(groups_) => \A d \in groups_[len + 1] : d < extra_digit
  BY <1>1, <1>3, <1>4 DEF DigitsRise, extra_digit
<1>9. HoldsChildren(Added, current, groups_grown, stack_built, top + 1)
  <2> HIDE DEF top
  <2> QED
    BY <1>2, <1>3, <1>4, <1>5, <1>6, <1>7, <1>8, HoldsOneMore
<1>10. groups_grown[len + 1] = DigitsAt(Added, SubSeq(current, 1, len))
  <2>1. PICK i \in 1..Len(current) : i = len + 1 /\ i - 1 = len
    BY <1>1, <1>3, <1>4
  <2> QED
    BY <1>2, <1>6, <2>1 DEF extra_digit
<1>11. ASSUME NEW i \in 1..len
       PROVE  DigitsAt(Added, SubSeq(current, 1, i - 1)) = groups_grown[i] \cup {current[i]}
  <2>1. i \in 1..Len(current)
    BY <1>1, <1>3, <1>4
  <2> QED
    BY <1>2, <1>6, <2>1
<1> QED
  BY <1>5, <1>9, <1>10, <1>11

\* A branch that is closed is where entries part, and its reference replaces those to
\* its children.
LEMMA BranchedHolds ==
  ASSUME RootInv, Iterating, has_parent, ~keeps_group, failing = "none",
         NEW depth \in Nat, HasTrie(Added, depth), NEW cut, cut = SubSeq(current, 1, len)
  PROVE  /\ Parted(Added, cut)
         /\ Len(stack_branched) = first_child_idx + 1
         /\ stack_branched[Len(stack_branched)] = Reference(Added, cut)
         /\ HoldsChildren(Added, current, resize(groups_grown, len), stack_branched,
                          first_child_idx)
         /\ cut \in Places(Added)
         /\ \A d \in DigitsAt(Added, cut) : child(d) = Reference(Added, Append(cut, d))
<1>1. TypeOK /\ CallInProgress /\ OrderInv /\ pc = "gen_struct_step" /\ len < Len(current)
  BY DEF RootInv, LegalInv, IInv, Iterating
<1>2. /\ HoldsChildren(Added, current, groups_grown, stack_built, Len(stack_built))
      /\ groups_grown[len + 1] = DigitsAt(Added, cut)
  BY GrownHolds
<1>3. /\ groups_grown \in Seq(Mask) /\ Len(groups_grown) = len + 1 /\ len \in Nat
      /\ groups_grown[len + 1] =
           (IF len + 1 <= Len(groups_) THEN groups_[len + 1] ELSE {}) \cup {extra_digit}
  BY <1>1, IterationGroups, IterationLengths
<1>4. Parted(Added, cut)
  <2>1. BranchesInOrder
    BY <1>1, OrderOfBranch
  <2>2. /\ len + 1 \in DOMAIN groups_ /\ groups_[len + 1] # {}
        /\ \A d \in groups_[len + 1] : d < extra_digit
    BY <1>1, <2>1 DEF BranchesInOrder
  <2>3. len + 1 <= Len(groups_)
    <3>1. groups_ \in Seq(Mask)
      BY <1>1 DEF TypeOK
    <3>2. DOMAIN groups_ = 1..Len(groups_) /\ Len(groups_) \in Nat
      BY <3>1, LenProperties
    <3> QED
      BY <2>2, <3>2
  <2>4. PICK d \in groups_[len + 1] : d < extra_digit
    BY <2>2
  <2>5. d # extra_digit
    <3>1. extra_digit \in Nat
      BY <1>1, IterationGroups DEF Digit
    <3> QED
      BY <2>4, <3>1
  <2> QED
    BY <1>2, <1>3, <2>3, <2>4, <2>5 DEF Parted
<1>5. cut \in Places(Added)
  <2>1. len \in 0..Len(current)
    BY <1>1, <1>3, KeysAreSequences, LenProperties
  <2> QED
    BY <2>1, PlacesAlong
<1> DEFINE less  == resize(groups_grown, len)
           first == first_child_idx
<1>6. less \in Seq(Mask) /\ Len(less) = len /\ \A i \in 1..len : less[i] = groups_grown[i]
  BY <1>3, ResizeProperties
<1>7. Len(stack_built) \in Nat /\ stack_built \in Seq(Range(stack_built))
  BY IterationPush, LenProperties
<1>8. first = Len(stack_built) - Cardinality(groups_grown[len + 1])
  BY DEF first_child_idx, state_mask
<1> HIDE DEF less, first
<1>9. /\ first \in 0..Len(stack_built)
      /\ HoldsChildren(Added, current, less, stack_built, first)
      /\ \A d \in groups_grown[len + 1] :
           stack_built[first + Rank(groups_grown[len + 1], d)] =
             Reference(Added, Append(SubSeq(current, 1, len), d))
  <2> DEFINE n == len
             masks == groups_grown
             top == Len(stack_built)
  <2>1. /\ n \in Nat /\ masks \in Seq(Mask) /\ Len(masks) = n + 1 /\ top \in Nat
        /\ HoldsChildren(Added, current, masks, stack_built, top)
        /\ less \in Seq(Mask) /\ Len(less) = n /\ \A i \in 1..n : less[i] = masks[i]
        /\ first = top - Cardinality(masks[n + 1])
    BY <1>2, <1>3, <1>6, <1>7, <1>8
  <2> HIDE DEF n, masks, top
  <2>2. first \in 0..top
    BY <2>1, HoldsBelow, Z3T(60)
  <2>3. HoldsChildren(Added, current, less, stack_built, first)
    BY <2>1, HoldsBelow
  <2>4. \A d \in masks[n + 1] :
          stack_built[first + Rank(masks[n + 1], d)] =
            Reference(Added, Append(SubSeq(current, 1, n), d))
    BY <2>1, HoldsBelow
  <2> QED
    BY <2>2, <2>3, <2>4, Zenon DEF n, masks, top
<1>10. \A d \in DigitsAt(Added, cut) : child(d) = Reference(Added, Append(cut, d))
  BY <1>2, <1>9 DEF child, state_mask, Rank, first
<1> DEFINE children == [d \in DigitsAt(Added, cut) |-> Reference(Added, Append(cut, d))]
<1>11. [d \in state_mask |-> child(d)] = children
  BY <1>2, <1>10 DEF state_mask
<1>12. Reference(Added, cut) = node_ref(branch_node_rlp(children))
  BY <1>4, <1>5, ReferenceOfBranch
<1> HIDE DEF children
<1> DEFINE below == SubSeq(stack_built, 1, first)
<1>13. stack_branched = Append(below, Reference(Added, cut))
  BY <1>11, <1>12 DEF stack_branched, first
<1>14. /\ below \in Seq(Range(stack_built)) /\ Len(below) = first
       /\ \A k \in 1..first : below[k] = stack_built[k]
  BY <1>7, <1>9, SubSeqProperties
<1> HIDE DEF below
<1>15. /\ Len(stack_branched) = first + 1
       /\ stack_branched[first + 1] = Reference(Added, cut)
       /\ \A k \in 1..first : stack_branched[k] = stack_built[k]
  BY <1>9, <1>13, <1>14, AppendProperties
<1>16. HoldsChildren(Added, current, less, stack_branched, first)
  BY <1>6, <1>9, <1>15, HoldsElsewhere
<1> QED
  BY <1>4, <1>5, <1>10, <1>15, <1>16 DEF less, first


-----------------------------------------------------------------------------
(* The steps.                                                              *)

\* The entries after one more, and without any.
LEMMA AddedIs ==
  ASSUME TypeOK
  PROVE  /\ \A c : entries' = Append(entries, [key |-> c.key, value |-> c.value, in_db |-> c.in_db])
                     /\ c \in Calls =>
                       /\ Added' = Added \cup {[key |-> c.key, value |-> c.value]}
                       /\ entries'[Len(entries')].value = c.value /\ entries' # <<>>
         /\ entries' = entries => Added' = Added
         /\ entries' = <<>> => Added' = {}
         /\ entries = <<>> <=> Added = {}
         /\ \A e \in Added : e.key \in Seq(Nat) /\ e.key \in Seq(Digit)
<1>1. entries \in Seq([key : Keys, value : Value, in_db : BOOLEAN]) /\ Len(entries) \in Nat
      /\ DOMAIN entries = 1..Len(entries)
  BY LenProperties DEF TypeOK
<1>2. ASSUME NEW c, entries' = Append(entries, [key |-> c.key, value |-> c.value, in_db |-> c.in_db]),
             c \in Calls
      PROVE  /\ Added' = Added \cup {[key |-> c.key, value |-> c.value]}
             /\ entries'[Len(entries')].value = c.value /\ entries' # <<>>
  <2> DEFINE new == [key |-> c.key, value |-> c.value, in_db |-> c.in_db]
             n   == Len(entries)
  <2>1. c.key \in Keys /\ c.value \in Value /\ c.in_db \in BOOLEAN
    BY <1>2, CallTypes DEF Calls, Value
  <2>2. new \in [key : Keys, value : Value, in_db : BOOLEAN]
    BY <2>1
  <2>3. new.key = c.key /\ new.value = c.value
    OBVIOUS
  <2> HIDE DEF new
  <2>4. /\ entries' \in Seq([key : Keys, value : Value, in_db : BOOLEAN])
        /\ Len(entries') = n + 1 /\ entries'[n + 1] = new
        /\ \A i \in 1..n : entries'[i] = entries[i]
    BY <1>1, <1>2, <2>2, AppendProperties DEF new
  <2>5. DOMAIN entries' = 1..(n + 1)
    BY <2>4, LenProperties
  <2>6. Added' = {[key |-> entries'[i].key, value |-> entries'[i].value] : i \in 1..(n + 1)}
    BY <2>5 DEF Added
  <2>7. Added = {[key |-> entries[i].key, value |-> entries[i].value] : i \in 1..n}
    BY <1>1 DEF Added
  <2> DEFINE at(i)  == [key |-> entries'[i].key, value |-> entries'[i].value]
             was(i) == [key |-> entries[i].key, value |-> entries[i].value]
  <2>8. \A i \in 1..n : at(i) = was(i)
    BY <2>4
  <2>9. at(n + 1) = [key |-> c.key, value |-> c.value]
    BY <2>3, <2>4
  <2>10. n \in Nat /\ 1..(n + 1) = 1..n \cup {n + 1}
    BY <1>1
  <2>11. entries' # <<>>
    BY <2>4, <2>10
  <2> HIDE DEF at, was, n
  <2>12. {at(i) : i \in 1..(n + 1)} = {was(i) : i \in 1..n} \cup {[key |-> c.key, value |-> c.value]}
    BY <2>8, <2>9, <2>10
  <2> QED
    BY <2>3, <2>4, <2>6, <2>7, <2>11, <2>12 DEF at, was
<1>3. entries' = entries => Added' = Added
  BY DEF Added
<1>4. entries' = <<>> => Added' = {}
  BY DEF Added
<1>5. entries = <<>> <=> Added = {}
  <2>1. ASSUME entries # <<>>
        PROVE  Added # {}
    <3>1. 1 \in DOMAIN entries
      BY <1>1, <2>1
    <3> QED
      BY <3>1 DEF Added
  <2>2. ASSUME entries = <<>>
        PROVE  Added = {}
    BY <2>2 DEF Added
  <2> QED
    BY <2>1, <2>2
<1>6. ASSUME NEW e \in Added
      PROVE  e.key \in Seq(Nat) /\ e.key \in Seq(Digit)
  <2>1. PICK i \in DOMAIN entries : e = [key |-> entries[i].key, value |-> entries[i].value]
    BY DEF Added
  <2>2. entries[i].key \in Keys /\ e.key = entries[i].key
    <3>1. entries[i] \in [key : Keys, value : Value, in_db : BOOLEAN]
      BY <1>1, ElementOfSeq
    <3>2. entries[i].key \in Keys
      BY <3>1
    <3> QED
      BY <2>1, <3>2
  <2>3. Keys \subseteq Seq(Digit) /\ Keys \subseteq Seq(Nat)
    BY KeysAreSequences
  <2> QED
    BY <2>2, <2>3
<1> QED
  BY <1>2, <1>3, <1>4, <1>5, <1>6


\* A string cut twice, or another that begins the same way.
LEMMA SameCut ==
  ASSUME NEW a \in Seq(Nat), NEW b \in Seq(Nat), NEW n \in Nat, n <= Len(a), n <= Len(b),
         \A i \in 1..n : a[i] = b[i]
  PROVE  SubSeq(a, 1, n) = SubSeq(b, 1, n)
<1> DEFINE s == SubSeq(a, 1, n)
           t == SubSeq(b, 1, n)
<1>1. n \in 0..Len(a) /\ n \in 0..Len(b)
  BY LenProperties
<1>2. /\ s \in Seq(Nat) /\ Len(s) = n /\ \A i \in 1..n : s[i] = a[i]
      /\ t \in Seq(Nat) /\ Len(t) = n /\ \A i \in 1..n : t[i] = b[i]
  BY <1>1, CutIsPrefix
<1> HIDE DEF s, t
<1>3. s = t
  BY <1>2, SeqEqual
<1> QED
  BY <1>3 DEF s, t

\* One entry more, greater than the others and extending none, has its place in the trie.
LEMMA TrieGrows ==
  ASSUME NEW E, NEW depth \in Nat, HasTrie(E, depth), NEW e, e.key \in Seq(Nat),
         \A g \in E : greater(e.key, g.key) /\ ~starts_with(e.key, g.key)
  PROVE  \E deeper \in Nat : HasTrie(E, deeper) /\ HasTrie(E \cup {e}, deeper)
<1> DEFINE deeper == IF Len(e.key) > depth THEN Len(e.key) ELSE depth
<1>1. Len(e.key) \in Nat /\ \A g \in E : g.key \in Seq(Nat) /\ Len(g.key) \in Nat
  BY LenProperties DEF HasTrie
<1>2. deeper \in Nat /\ deeper >= depth /\ deeper >= Len(e.key)
  BY <1>1
<1> HIDE DEF deeper
<1>3. \A g \in E : Len(g.key) <= deeper
  BY <1>1, <1>2 DEF HasTrie
<1>4. \A g \in E : ~starts_with(g.key, e.key)
  BY <1>1, GreaterNotPrefix
<1>5. HasTrie(E, deeper) /\ HasTrie(E \cup {e}, deeper)
  BY <1>1, <1>2, <1>3, <1>4 DEF HasTrie
<1> QED
  BY <1>2, <1>5

\* The entry adds its own digits along its key, and nothing anywhere else.
LEMMA DigitsGrow ==
  ASSUME NEW E, NEW e, NEW p, starts_with(e.key, p), Len(e.key) > Len(p)
  PROVE  DigitsAt(E \cup {e}, p) = DigitsAt(E, p) \cup {e.key[Len(p) + 1]}
<1>1. {g \in Below(E \cup {e}, p) : Len(g.key) > Len(p)} =
        {g \in Below(E, p) : Len(g.key) > Len(p)} \cup {e}
  BY DEF Below
<1> QED
  BY <1>1 DEF DigitsAt

\* The entry is not below a place its key does not begin with.
LEMMA BelowElsewhere ==
  ASSUME NEW E, NEW e, NEW p, ~starts_with(e.key, p)
  PROVE  Below(E \cup {e}, p) = Below(E, p)
BY DEF Below

\* The root is what the reference to the empty place stands for.
LEMMA RootIs ==
  ASSUME NEW E, E # {}
  PROVE  Root(E) = hash_of(Reference(E, <<>>))
<1>1. kHashLength + 1 = 33
  BY DEF kHashLength
<1> QED
  BY <1>1 DEF Root, hash_of, keccak256


\* The next entry leaves the key of the pending one behind: all places where there are
\* entries along the two are below digits smaller than its own.
LEMMA SucceedingParts ==
  ASSUME RootInv, Iterating, keeps_group, NEW depth \in Nat, HasTrie(Added, depth)
  PROVE  /\ succeeding \in Seq(Nat) /\ len < Len(succeeding) /\ len \in Nat
         /\ \A i \in 1..len : succeeding[i] = current[i]
         /\ \A d \in groups_grown[len + 1] : d < succeeding[len + 1]
         /\ \A i \in 1..len : \A d \in groups_grown[i] : d < succeeding[i]
         /\ has_parent
<1>1. TypeOK /\ CallInProgress /\ OrderInv /\ pc = "gen_struct_step" /\ len < Len(current)
  BY DEF RootInv, LegalInv, IInv, Iterating
<1>2. /\ succeeding # <<>> /\ preceding_len <= common_prefix_len /\ has_parent
  BY DEF keeps_group, has_parent
<1>3. /\ succeeding \in Seq(Nat) /\ current \in Seq(Nat) /\ key_ \in Seq(Nat)
      /\ Len(succeeding) \in Nat /\ Len(current) \in Nat
  BY <1>1, KeysAreSequences, LenProperties
<1>4. common_prefix_len < Len(succeeding) /\ starts_with(key_, current)
  BY <1>1, <1>2, OpenIteration DEF CallInProgress
<1>5. greater(succeeding, key_)
  <2>1. call.op # "root_hash"
    BY <1>1, <1>2, CallTypes DEF CallInProgress, succeeding
  <2> QED
    BY <1>1, <2>1 DEF CallInProgress
<1>6. /\ len \in Nat /\ preceding_len \in Nat /\ len >= preceding_len /\ len >= common_prefix_len
      /\ len = preceding_len \/ len = common_prefix_len
      /\ common_prefix_len \in 0..Len(current)
  BY <1>1, IterationLengths
<1>7. len = common_prefix_len
  BY <1>2, <1>3, <1>6
<1>8. /\ succeeding[len + 1] > current[len + 1]
      /\ \A i \in 1..len : succeeding[i] = current[i]
  BY <1>1, <1>3, <1>4, <1>5, <1>7, PartsAbove DEF common_prefix_len
<1>9. /\ \A i \in 1..len : \A d \in groups_grown[i] : d < current[i]
      /\ \A d \in groups_grown[len + 1] : d < current[len + 1] \/ d = current[len + 1]
      /\ groups_grown \in Seq(Mask) /\ Len(groups_grown) = len + 1
  BY <1>1, GrownRise
<1>10. \A i \in 1..len : \A d \in groups_grown[i] : d < succeeding[i]
  BY <1>8, <1>9
<1>11. ASSUME NEW d \in groups_grown[len + 1]
       PROVE  d < succeeding[len + 1]
  <2>1. d \in Nat
    <3>1. len + 1 \in 1..Len(groups_grown)
      BY <1>6, <1>9
    <3>2. groups_grown[len + 1] \in Mask
      BY <1>9, <3>1, ElementOfSeq
    <3> QED
      BY <3>2 DEF Mask, Digit
  <2>2. succeeding[len + 1] \in Nat /\ current[len + 1] \in Nat
    BY <1>1, <1>3, <1>4, <1>6, <1>7, ElementOfSeq
  <2> QED
    BY <1>8, <1>9, <2>1, <2>2
<1> QED
  BY <1>2, <1>3, <1>4, <1>6, <1>7, <1>8, <1>10, <1>11

\* With the next entry in the trie the groups and the stack are along its key, and none
\* of the references has changed.
LEMMA KeptAlong ==
  ASSUME RootInv, Iterating, keeps_group, NEW depth \in Nat, HasTrie(Added, depth),
         NEW G, HasTrie(G, depth),
         \A p : ~starts_with(succeeding, p) => Below(G, p) = Below(Added, p),
         \A n \in Nat : n < Len(succeeding) =>
           DigitsAt(G, SubSeq(succeeding, 1, n)) =
             DigitsAt(Added, SubSeq(succeeding, 1, n)) \cup {succeeding[n + 1]}
  PROVE  /\ \A i \in 1..Len(succeeding) :
              DigitsAt(G, SubSeq(succeeding, 1, i - 1)) =
                (IF i <= Len(groups_grown) THEN groups_grown[i] ELSE {}) \cup {succeeding[i]}
         /\ HoldsChildren(G, succeeding, groups_grown, stack_built, Len(stack_built))
<1>1. TypeOK /\ CallInProgress /\ pc = "gen_struct_step" /\ len < Len(current)
  BY DEF RootInv, LegalInv, IInv, Iterating
<1>2. /\ succeeding \in Seq(Nat) /\ len < Len(succeeding) /\ len \in Nat
      /\ \A i \in 1..len : succeeding[i] = current[i]
      /\ \A d \in groups_grown[len + 1] : d < succeeding[len + 1]
      /\ \A i \in 1..len : \A d \in groups_grown[i] : d < succeeding[i]
      /\ has_parent
  BY SucceedingParts
<1>3. /\ HoldsChildren(Added, current, groups_grown, stack_built, Len(stack_built))
      /\ groups_grown[len + 1] = DigitsAt(Added, SubSeq(current, 1, len))
      /\ \A i \in 1..len : DigitsAt(Added, SubSeq(current, 1, i - 1)) =
                             groups_grown[i] \cup {current[i]}
  BY <1>2, GrownHolds
<1>4. groups_grown \in Seq(Mask) /\ Len(groups_grown) = len + 1
  BY <1>1, IterationGroups
<1>5. current \in Seq(Nat) /\ Len(current) \in Nat /\ Len(succeeding) \in Nat
  BY <1>1, <1>2, KeysAreSequences, LenProperties
<1>6. ASSUME NEW n \in 0..len
      PROVE  SubSeq(succeeding, 1, n) = SubSeq(current, 1, n)
  BY <1>1, <1>2, <1>5, SameCut
<1>7. ASSUME NEW i \in 1..Len(succeeding)
      PROVE  DigitsAt(G, SubSeq(succeeding, 1, i - 1)) =
               (IF i <= Len(groups_grown) THEN groups_grown[i] ELSE {}) \cup {succeeding[i]}
  <2>1. PICK n \in Nat : i = n + 1 /\ i - 1 = n /\ n < Len(succeeding)
    BY <1>5
  <2>0. PICK p : p = SubSeq(succeeding, 1, n)
    OBVIOUS
  <2>2. DigitsAt(G, p) = DigitsAt(Added, p) \cup {succeeding[i]}
    BY <2>0, <2>1
  <2>3. CASE i <= len
    <3>1. n \in 0..len /\ i \in 1..len /\ i <= Len(groups_grown)
      BY <1>2, <1>4, <2>1, <2>3
    <3>2. p = SubSeq(current, 1, i - 1)
      BY <1>6, <2>0, <2>1, <3>1
    <3>3. DigitsAt(Added, p) = groups_grown[i] \cup {current[i]} /\ succeeding[i] = current[i]
      BY <1>2, <1>3, <3>1, <3>2
    <3> QED
      BY <2>0, <2>1, <2>2, <3>1, <3>3
  <2>4. CASE i = len + 1
    <3>1. n = len /\ n \in 0..len /\ i <= Len(groups_grown)
      BY <1>2, <1>4, <2>1, <2>4
    <3>2. p = SubSeq(current, 1, len)
      BY <1>6, <2>0, <3>1
    <3>3. DigitsAt(Added, p) = groups_grown[i]
      BY <1>3, <2>4, <3>2
    <3> QED
      BY <2>0, <2>1, <2>2, <3>1, <3>3
  <2>5. CASE i > len + 1
    <3>1. DigitsAt(Added, p) = {}
      <4>1. SUFFICES ASSUME NEW g \in Below(Added, p), Len(g.key) > Len(p)
                     PROVE  FALSE
        BY DEF DigitsAt
      <4>2. g \in Added /\ starts_with(g.key, p) /\ g.key \in Seq(Nat)
        BY <1>1, <4>1, AddedIs DEF Below
      <4>3. /\ p \in Seq(Nat) /\ Len(p) = n /\ \A k \in 1..n : p[k] = succeeding[k]
        <5>1. n \in 0..Len(succeeding)
          BY <1>5, <2>1
        <5> QED
          BY <1>2, <2>0, <5>1, CutIsPrefix
      <4>4. PICK q : q = SubSeq(succeeding, 1, len) /\ q = SubSeq(current, 1, len)
        <5>1. len \in 0..len
          BY <1>2
        <5> QED
          BY <1>6, <5>1
      <4>5. q \in Seq(Nat) /\ Len(q) = len /\ starts_with(succeeding, q) /\ starts_with(succeeding, p)
        <5>1. n \in 0..Len(succeeding) /\ len \in 0..Len(succeeding)
          BY <1>2, <1>5, <2>1
        <5> QED
          BY <1>2, <2>0, <4>4, <5>1, CutIsPrefix
      <4>6. starts_with(p, q)
        BY <1>2, <2>1, <2>5, <4>3, <4>5, PrefixesNest
      <4>7. starts_with(g.key, q)
        BY <4>2, <4>3, <4>5, <4>6, PrefixTransitive
      <4>8. Len(g.key) > len /\ g.key[len + 1] = succeeding[len + 1]
        <5>1. len + 1 \in 1..Len(p) /\ Len(g.key) \in Nat /\ len < Len(g.key)
          BY <1>2, <2>1, <2>5, <4>1, <4>2, <4>3, LenProperties
        <5>2. g.key[len + 1] = p[len + 1]
          BY <4>2, <5>1 DEF starts_with
        <5> QED
          BY <4>3, <5>1, <5>2
      <4>9. succeeding[len + 1] \in DigitsAt(Added, q)
        BY <4>2, <4>5, <4>7, <4>8 DEF DigitsAt, Below
      <4>10. succeeding[len + 1] < succeeding[len + 1]
        BY <1>2, <1>3, <4>4, <4>9
      <4>11. succeeding[len + 1] \in Nat
        BY <1>2, <1>5, ElementOfSeq
      <4> QED
        BY <4>10, <4>11
    <3>2. ~(i <= Len(groups_grown))
      BY <1>2, <1>4, <2>5
    <3> QED
      BY <2>0, <2>1, <2>2, <3>1, <3>2
  <2> QED
    <3>1. i <= len \/ i = len + 1 \/ i > len + 1
      BY <1>2, <1>5
    <3> QED
      BY <2>3, <2>4, <2>5, <3>1, Zenon
<1>8. ASSUME NEW i \in 1..Len(groups_grown), NEW d \in groups_grown[i]
      PROVE  Reference(Added, Append(SubSeq(current, 1, i - 1), d)) =
               Reference(G, Append(SubSeq(succeeding, 1, i - 1), d))
  <2>1. PICK n \in 0..len : i = n + 1 /\ i - 1 = n
    BY <1>2, <1>4
  <2>0. PICK p : p = SubSeq(current, 1, n)
    OBVIOUS
  <2>2. p = SubSeq(succeeding, 1, n)
    BY <1>6, <2>0
  <2>a. n \in 0..Len(current) /\ n \in Nat
    BY <1>1, <1>2, <1>5
  <2>3. p \in Places(Added)
    BY <2>0, <2>a, PlacesAlong
  <2>4. p \in Seq(Nat) /\ Len(p) = n
    BY <1>5, <2>0, <2>a, CutIsPrefix
  <2>5. d \in DigitsAt(Added, p) /\ d < succeeding[i]
    <3>1. CASE i = len + 1
      <4>1. n = len
        BY <1>2, <2>1, <3>1
      <4> QED
        BY <1>2, <1>3, <2>0, <3>1, <4>1
    <3>2. CASE i \in 1..len
      BY <1>2, <1>3, <2>0, <2>1, <3>2
    <3> QED
      BY <1>2, <2>1, <3>1, <3>2
  <2>6. d \in Nat /\ Append(p, d) \in Places(Added)
    BY <2>3, <2>5, PlaceOfDigit
  <2>7. ~starts_with(succeeding, Append(p, d))
    BY <1>2, <2>1, <2>4, <2>5, <2>6, BeginsWithDigit
  <2>8. Below(Added, Append(p, d)) = Below(G, Append(p, d))
    BY <2>7
  <2>9. Reference(Added, Append(p, d)) = Reference(G, Append(p, d))
    BY <2>6, <2>8, ReferenceIsLocal
  <2> QED
    BY <2>0, <2>1, <2>2, <2>9
<1>9. Len(stack_built) \in Nat
  BY IterationPush, LenProperties
<1>10. HoldsChildren(G, succeeding, groups_grown, stack_built, Len(stack_built))
  <2>1. PICK top \in Nat : top = Len(stack_built)
    BY <1>9
  <2>2. PICK grown \in Seq(Mask) : grown = groups_grown
    BY <1>4
  <2>3. /\ HoldsChildren(Added, current, grown, stack_built, top)
        /\ \A n \in 1..top : stack_built[n] = stack_built[n]
        /\ \A i \in 1..Len(grown) : \A d \in grown[i] :
             Reference(Added, Append(SubSeq(current, 1, i - 1), d)) =
               Reference(G, Append(SubSeq(succeeding, 1, i - 1), d))
    BY <1>3, <1>8, <2>1, <2>2
  <2>4. HoldsChildren(G, succeeding, grown, stack_built, top)
    BY <2>3, HoldsElsewhere
  <2> QED
    BY <2>1, <2>2, <2>4
<1> QED
  BY <1>7, <1>10

\* An entry that is added in order is one of the entries the trie then has, and what
\* they were below any place its key does not go through is what they are.
LEMMA EntryAdded ==
  ASSUME RootInv, NEW c \in Calls, InOrder(c.key), root' = <<>>,
         entries' = Append(entries, [key |-> c.key, value |-> c.value, in_db |-> c.in_db])
  PROVE  /\ \E depth \in Nat : HasTrie(Added, depth) /\ HasTrie(Added', depth)
         /\ Added' = Added \cup {[key |-> c.key, value |-> c.value]}
         /\ entries'[Len(entries')].value = c.value /\ entries' # <<>>
         /\ \A p : ~starts_with(c.key, p) => Below(Added', p) = Below(Added, p)
         /\ \A n \in Nat : n < Len(c.key) =>
              DigitsAt(Added', SubSeq(c.key, 1, n)) =
                DigitsAt(Added, SubSeq(c.key, 1, n)) \cup {c.key[n + 1]}
         /\ c.key \in Keys /\ c.value \in Value
         /\ Client!Put(c.key, c.value)
<1>1. TypeOK
  BY DEF RootInv, LegalInv, IInv
<1>2. c.key \in Seq(Nat) /\ c.value \in Value /\ c.key \in Keys
  <2>1. c.key \in Keys
    BY DEF Calls
  <2> QED
    BY <2>1, CallTypes
<1>3. PICK e : e = [key |-> c.key, value |-> c.value]
  OBVIOUS
<1>4. /\ Added' = Added \cup {e}
      /\ entries'[Len(entries')].value = c.value /\ entries' # <<>>
  BY <1>1, <1>3, AddedIs
<1>5. \A g \in Added : greater(c.key, g.key) /\ ~starts_with(c.key, g.key)
  BY DEF Added, InOrder
<1>6. e.key = c.key
  BY <1>3
<1>7. \E depth \in Nat : HasTrie(Added, depth) /\ HasTrie(Added', depth)
  <2>1. PICK depth \in Nat : HasTrie(Added, depth)
    BY DEF RootInv
  <2>2. \A g \in Added : greater(e.key, g.key) /\ ~starts_with(e.key, g.key)
    BY <1>5, <1>6
  <2>3. \E deeper \in Nat : HasTrie(Added, deeper) /\ HasTrie(Added \cup {e}, deeper)
    BY <1>2, <1>6, <2>1, <2>2, TrieGrows
  <2> QED
    BY <1>4, <2>3
<1>8. ASSUME NEW p, ~starts_with(c.key, p)
      PROVE  Below(Added', p) = Below(Added, p)
  BY <1>4, <1>6, <1>8, BelowElsewhere
<1>9. ASSUME NEW n \in Nat, n < Len(c.key)
      PROVE  DigitsAt(Added', SubSeq(c.key, 1, n)) =
               DigitsAt(Added, SubSeq(c.key, 1, n)) \cup {c.key[n + 1]}
  <2>1. PICK p : p = SubSeq(e.key, 1, n)
    OBVIOUS
  <2>2. e.key \in Seq(Nat) /\ n < Len(e.key)
    BY <1>2, <1>6, <1>9
  <2>3. Len(p) = n /\ starts_with(e.key, p)
    <3>1. n \in 0..Len(e.key)
      BY <2>2, LenProperties
    <3> QED
      BY <2>1, <2>2, <3>1, CutIsPrefix
  <2>4. Len(e.key) > Len(p)
    BY <2>2, <2>3, LenProperties
  <2>5. DigitsAt(Added \cup {e}, p) = DigitsAt(Added, p) \cup {e.key[Len(p) + 1]}
    BY <2>3, <2>4, DigitsGrow
  <2> QED
    BY <1>4, <1>6, <2>1, <2>3, <2>5
<1>10. Client!Put(c.key, c.value)
  <2>1. ASSUME NEW g \in Added
        PROVE  Client!greater(c.key, g.key) /\ ~Client!starts_with(c.key, g.key)
    BY <1>5 DEF greater, starts_with, Client!greater, Client!starts_with
  <2> QED
    BY <1>3, <1>4, <2>1 DEF Client!Put, Client!Fits
<1> QED
  BY <1>2, <1>3, <1>4, <1>7, <1>8, <1>9, <1>10

\* What the steps have to keep.
HasOpenTrie == OpenTrie /\ FinishedTrie /\ EntriesFit /\ \E depth \in Nat : HasTrie(Added, depth)

\* What the entry of the call becomes the pending one with.
LEMMA ReturnOfEntry ==
  ASSUME NEW c, NEW stack, Return(c, stack), c.op # "root_hash"
  PROVE  /\ key_' = c.key /\ value_' = c.value /\ stack_' = stack
         /\ pc' = "idle" /\ build_extensions' = FALSE /\ root' = <<>>
         /\ entries' = Append(entries, [key |-> c.key, value |-> c.value, in_db |-> c.in_db])
BY DEF Return

\* An iteration that keeps its group adds the entry of the call.
LEMMA KeepGroupAdds ==
  ASSUME RootInv, KeepGroup
  PROVE  HasOpenTrie' /\ call \in Calls /\ Client!Put(call.key, call.value)
<1>1. IInv /\ TypeOK /\ pc = "gen_struct_step" /\ failing = "none" /\ keeps_group
  BY DEF RootInv, LegalInv, IInv, KeepGroup
<1>2. Iterating /\ call \in Calls \cup {root_hash_call} /\ call.op # "root_hash"
  BY <1>1, IterationStarts DEF keeps_group
<1>3. call \in Calls /\ InOrder(call.key)
  <2>1. call \in Calls
    BY <1>2 DEF root_hash_call
  <2>2. Contract(call)
    BY <1>1, <1>2 DEF RootInv, EntriesFit
  <2> QED
    BY <2>1, <2>2 DEF Contract
<1>4. /\ key_' = succeeding /\ value_' = call.value /\ stack_' = stack_built
      /\ pc' = "idle" /\ build_extensions' = FALSE /\ root' = <<>>
      /\ entries' = Append(entries, [key |-> call.key, value |-> call.value, in_db |-> call.in_db])
      /\ groups_' = groups_grown
  BY <1>2, ReturnOfEntry DEF KeepGroup, succeeding
<1>5. PICK depth \in Nat : HasTrie(Added, depth) /\ HasTrie(Added', depth)
  BY <1>3, <1>4, EntryAdded
<1>6. /\ entries'[Len(entries')].value = call.value
      /\ \A p : ~starts_with(succeeding, p) => Below(Added', p) = Below(Added, p)
      /\ \A n \in Nat : n < Len(succeeding) =>
           DigitsAt(Added', SubSeq(succeeding, 1, n)) =
             DigitsAt(Added, SubSeq(succeeding, 1, n)) \cup {succeeding[n + 1]}
      /\ Client!Put(call.key, call.value)
  BY <1>3, <1>4, EntryAdded DEF succeeding
<1>7. PICK G : G = Added'
  OBVIOUS
<1>8. /\ \A i \in 1..Len(succeeding) :
           DigitsAt(G, SubSeq(succeeding, 1, i - 1)) =
             (IF i <= Len(groups_grown) THEN groups_grown[i] ELSE {}) \cup {succeeding[i]}
      /\ HoldsChildren(G, succeeding, groups_grown, stack_built, Len(stack_built))
  BY <1>1, <1>2, <1>5, <1>6, <1>7, KeptAlong
<1>9. OpenTrie'
  <2>1. along' = succeeding
    BY <1>4 DEF along
  <2> QED
    BY <1>4, <1>7, <1>8, <2>1 DEF OpenTrie
<1>10. FinishedTrie'
  BY <1>1, <1>4 DEF FinishedTrie, keeps_group
<1>11. EntriesFit'
  BY <1>4, <1>6 DEF EntriesFit
<1> QED
  BY <1>3, <1>5, <1>6, <1>9, <1>10, <1>11 DEF HasOpenTrie

\* An iteration that closes a group leaves the reference to its branch above the groups
\* that are still open.
LEMMA CloseGroupHolds ==
  ASSUME RootInv, CloseGroup
  PROVE  HasOpenTrie' /\ UNCHANGED <<entries, root>>
<1>1. /\ IInv /\ TypeOK /\ CallInProgress
      /\ pc = "gen_struct_step" /\ failing = "none" /\ ~keeps_group
      /\ preceding_len # 0
  BY DEF RootInv, LegalInv, IInv, CloseGroup, ClosesGroup
<1>2. Iterating
  BY <1>1, IterationStarts
<1>3. /\ len = preceding_len /\ len \in Nat /\ len < Len(current) /\ Len(current) \in Nat
      /\ has_parent
  BY <1>1, <1>2, ClosingLengths
<1>4. PICK cut : cut = SubSeq(current, 1, len)
  OBVIOUS
<1>5. PICK masks : masks = resize(groups_grown, len)
  OBVIOUS
<1>6. PICK less : less = drop_empty_groups(masks)
  OBVIOUS
<1>7. /\ key_' = key_ /\ value_' = value_ /\ groups_' = less /\ stack_' = stack_branched
      /\ pc' = pc /\ call' = call /\ current' = cut /\ build_extensions' = TRUE
      /\ entries' = entries /\ root' = root /\ sealed' = sealed
  BY <1>3, <1>4, <1>5, <1>6 DEF CloseGroup
<1>8. PICK depth \in Nat : HasTrie(Added, depth)
  BY DEF RootInv
<1>9. Added' = Added
  BY <1>1, <1>7, AddedIs
<1>10. \A i \in 1..len : DigitsAt(Added, SubSeq(current, 1, i - 1)) =
                           groups_grown[i] \cup {current[i]}
  BY <1>2, <1>3, <1>8, GrownHolds
<1>11. /\ Parted(Added, cut)
       /\ Len(stack_branched) = first_child_idx + 1
       /\ stack_branched[Len(stack_branched)] = Reference(Added, cut)
       /\ HoldsChildren(Added, current, masks, stack_branched, first_child_idx)
  BY <1>1, <1>2, <1>3, <1>4, <1>5, <1>8, BranchedHolds
<1>12. first_child_idx \in Nat
  <2>1. first_child_idx \in 0..Len(stack_built)
    BY <1>2, IterationChildren
  <2> QED
    BY <2>1
<1>13. current \in Seq(Nat)
  BY <1>1, KeysAreSequences
<1>14. cut \in Seq(Nat) /\ Len(cut) = len /\ \A i \in 1..len : cut[i] = current[i]
  <2>1. len \in 0..Len(current)
    BY <1>3
  <2> QED
    BY <1>4, <1>13, <2>1, CutIsPrefix
<1>15. ASSUME NEW n \in Nat, n <= len
       PROVE  SubSeq(cut, 1, n) = SubSeq(current, 1, n)
  BY <1>3, <1>13, <1>14, <1>15, SameCut
<1>16. groups_grown \in Seq(Mask) /\ Len(groups_grown) = len + 1
  BY <1>1, <1>3, IterationGroups
<1>17. /\ masks \in Seq(Mask) /\ Len(masks) = len
       /\ \A i \in 1..len : masks[i] = groups_grown[i]
  <2>1. /\ resize(groups_grown, len) \in Seq(Mask) /\ Len(resize(groups_grown, len)) = len
        /\ \A i \in 1..len : resize(groups_grown, len)[i] =
                               IF i <= Len(groups_grown) THEN groups_grown[i] ELSE {}
    BY <1>3, <1>16, ResizeProperties
  <2>2. \A i \in 1..len : i <= Len(groups_grown)
    BY <1>3, <1>16
  <2> QED
    BY <1>5, <2>1, <2>2
<1>18. /\ less \in Seq(Mask) /\ Len(less) \in Nat /\ Len(less) <= len
       /\ \A i \in 1..Len(less) : less[i] = masks[i]
       /\ \A i \in 1..len : i > Len(less) => masks[i] = {}
  BY <1>6, <1>17, DropEmptyGroupsProperties, LenProperties
<1>19. ASSUME NEW i \in 1..Len(cut)
       PROVE  DigitsAt(Added, SubSeq(cut, 1, i - 1)) =
                (IF i <= Len(less) THEN less[i] ELSE {}) \cup {cut[i]}
  <2>1. PICK n \in Nat : i - 1 = n /\ n <= len
    BY <1>3, <1>14
  <2>2. i \in 1..len
    BY <1>14
  <2>3. DigitsAt(Added, SubSeq(cut, 1, i - 1)) = masks[i] \cup {cut[i]}
    BY <1>10, <1>14, <1>15, <1>17, <2>1, <2>2
  <2>4. masks[i] = IF i <= Len(less) THEN less[i] ELSE {}
    <3>1. CASE i <= Len(less)
      BY <1>18, <2>2, <3>1
    <3>2. CASE ~(i <= Len(less))
      <4>1. i > Len(less)
        BY <1>18, <2>2, <3>2
      <4> QED
        BY <1>18, <2>2, <3>2, <4>1
    <3> QED
      BY <3>1, <3>2
  <2> QED
    BY <2>3, <2>4
<1>20. HoldsChildren(Added, cut, less, stack_branched, first_child_idx)
  <2>1. PICK top \in Nat : top = first_child_idx
    BY <1>12
  <2>2. ASSUME NEW i \in 1..Len(masks), NEW d \in masks[i]
        PROVE  Reference(Added, Append(SubSeq(current, 1, i - 1), d)) =
                 Reference(Added, Append(SubSeq(cut, 1, i - 1), d))
    <3>1. PICK n \in Nat : i - 1 = n /\ n <= len
      BY <1>3, <1>17
    <3> QED
      BY <1>15, <3>1
  <2>3. HoldsChildren(Added, cut, masks, stack_branched, top)
    <3>1. /\ HoldsChildren(Added, current, masks, stack_branched, top)
          /\ \A n \in 1..top : stack_branched[n] = stack_branched[n]
      BY <1>11, <2>1
    <3> QED
      BY <1>17, <2>2, <3>1, HoldsElsewhere
  <2>4. HoldsChildren(Added, cut, less, stack_branched, top)
    BY <1>17, <1>18, <2>3, HoldsDropped
  <2> QED
    BY <2>1, <2>4
<1>21. OpenTrie'
  <2>1. along' = cut
    BY <1>1, <1>7 DEF along
  <2>2. Len(stack_branched) - 1 = first_child_idx
    BY <1>11, <1>12
  <2> QED
    BY <1>7, <1>9, <1>11, <1>19, <1>20, <2>1, <2>2 DEF OpenTrie
<1>22. FinishedTrie' /\ EntriesFit'
  <2>1. FinishedTrie'
    BY <1>1, <1>7 DEF FinishedTrie, CallInProgress
  <2>2. Contract(call)' <=> Contract(call)
    BY <1>7 DEF Contract, InOrder
  <2> QED
    BY <1>7, <2>1, <2>2 DEF EntriesFit, RootInv
<1> QED
  BY <1>7, <1>8, <1>9, <1>21, <1>22 DEF HasOpenTrie

\* An iteration that closes the outermost group leaves the reference to the root, and
\* its hash is what root_hash returns.
LEMMA CloseLastGroupAnswers ==
  ASSUME RootInv, CloseLastGroup
  PROVE  HasOpenTrie' /\ Client!AskRoot
<1>1. /\ IInv /\ TypeOK /\ CallInProgress /\ LastEntryPending /\ StackCoversGroups
      /\ pc = "gen_struct_step" /\ failing = "none" /\ ~keeps_group
      /\ preceding_len = 0
  BY DEF RootInv, LegalInv, IInv, CloseLastGroup, ClosesGroup
<1>2. Iterating
  BY <1>1, IterationStarts
<1>3. len = 0 /\ 0 < Len(current) /\ succeeding = <<>>
  BY <1>1, <1>2, ClosingLengths
<1>4. call.op = "root_hash"
  BY <1>1, <1>3 DEF CallInProgress
<1>5. /\ key_' = <<>> /\ stack_' = stack_branched /\ entries' = entries /\ pc' = "idle"
      /\ root' = <<IF stack_branched = <<>> THEN kEmptyRoot ELSE hash_of(Last(stack_branched))>>
      /\ groups_' = resize(groups_grown, 0)
  BY <1>3, <1>4 DEF CloseLastGroup, Return, succeeding
<1>6. groups_' = <<>>
  BY <1>5 DEF resize
<1>7. PICK depth \in Nat : HasTrie(Added, depth)
  BY DEF RootInv
<1>8. Added' = Added /\ entries # <<>> /\ Added # {}
  <2>1. entries # <<>>
    BY <1>1 DEF LastEntryPending, CallInProgress, TypeOK
  <2>2. Added' = Added /\ (entries = <<>> <=> Added = {})
    BY <1>1, <1>5, AddedIs
  <2> QED
    BY <2>1, <2>2
<1>9. current \in Seq(Nat) /\ SubSeq(current, 1, 0) = <<>>
  BY <1>1, KeysAreSequences
<1>10. Len(stack_branched) \in Nat /\ Len(stack_branched) > 0
       /\ stack_branched[Len(stack_branched)] = Reference(Added, <<>>)
  <2>1. CASE has_parent
    <3>1. /\ Len(stack_branched) = first_child_idx + 1
          /\ stack_branched[Len(stack_branched)] = Reference(Added, SubSeq(current, 1, len))
      BY <1>1, <1>2, <1>7, <2>1, BranchedHolds
    <3>2. first_child_idx \in Nat
      <4>1. first_child_idx \in 0..Len(stack_built)
        BY <1>2, IterationChildren
      <4> QED
        BY <4>1
    <3>3. stack_branched[Len(stack_branched)] = Reference(Added, <<>>)
      BY <1>3, <1>9, <3>1
    <3>4. Len(stack_branched) \in Nat /\ Len(stack_branched) > 0
      BY <3>1, <3>2
    <3> QED
      BY <3>3, <3>4
  <2>2. CASE ~has_parent
    <3>1. stack_branched = stack_built /\ from = 0
      BY <1>3, <2>2 DEF stack_branched, from
    <3>2. stack_built[Len(stack_built)] = Reference(Added, <<>>)
      BY <1>2, <1>7, <1>9, <3>1, TopIsReference
    <3>3. Len(stack_built) = Len(stack_) + (IF build_extensions THEN 0 ELSE 1)
          /\ Len(stack_) \in Nat
      BY <1>1, <1>2, IterationPush, LenProperties DEF TypeOK
    <3>4. build_extensions => Len(stack_) > 0
      <4>1. PICK base \in [0..Len(groups_) -> 0..Len(stack_)] :
              build_extensions => base[Len(groups_)] < Len(stack_)
        BY <1>1 DEF StackCoversGroups
      <4>2. Len(groups_) \in 0..Len(groups_)
        BY <1>1, LenProperties DEF TypeOK
      <4>3. base[Len(groups_)] \in 0..Len(stack_)
        BY <4>1, <4>2
      <4> QED
        BY <3>3, <4>1, <4>3
    <3> QED
      BY <3>1, <3>2, <3>3, <3>4
  <2> QED
    BY <2>1, <2>2
<1>11. stack_branched # <<>> /\ hash_of(Last(stack_branched)) = Root(Added)
  BY <1>8, <1>10, RootIs DEF Last
<1>12. OpenTrie' /\ FinishedTrie' /\ EntriesFit'
  BY <1>5, <1>6, <1>8, <1>11 DEF OpenTrie, FinishedTrie, EntriesFit
<1>13. Client!AskRoot
  BY <1>5, <1>8, <1>11 DEF Client!AskRoot
<1> QED
  BY <1>7, <1>8, <1>12, <1>13 DEF HasOpenTrie

\* A call that begins with gen_struct_step finds the trie as the last one left it.
LEMMA EnterHolds ==
  ASSUME RootInv, pc = "idle", key_ # <<>>, NEW c, Enter(c), c.op # "root_hash" => Contract(c)
  PROVE  HasOpenTrie' /\ UNCHANGED <<entries, root>>
<1>1. TypeOK /\ ~build_extensions /\ OpenTrie /\ EntriesFit
  BY DEF RootInv, LegalInv, IInv, GroupsAlongKey
<1>2. /\ key_' = key_ /\ value_' = value_ /\ groups_' = groups_ /\ stack_' = stack_
      /\ entries' = entries /\ root' = root /\ sealed' = sealed
      /\ pc' = "gen_struct_step" /\ call' = c /\ current' = key_ /\ build_extensions' = FALSE
  BY DEF Enter, builder, observed
<1>3. Added' = Added
  BY <1>1, <1>2, AddedIs
<1>4. OpenTrie'
  <2>1. along = key_ /\ along' = key_
    BY <1>2 DEF along
  <2> QED
    BY <1>1, <1>2, <1>3, <2>1 DEF OpenTrie
<1>5. EntriesFit'
  <2>1. c.op # "root_hash" => Contract(c)'
    BY <1>2 DEF Contract, InOrder
  <2>2. c.op # "root_hash" => Contract(call)'
    BY <1>2, <2>1 DEF Contract, InOrder
  <2> QED
    BY <1>1, <1>2, <2>2 DEF EntriesFit
<1>6. FinishedTrie'
  BY <1>2 DEF FinishedTrie
<1> QED
  BY <1>2, <1>3, <1>4, <1>5, <1>6 DEF HasOpenTrie, RootInv

\* The first entry of a trie.
LEMMA FirstEntryAdds ==
  ASSUME RootInv, pc = "idle", key_ = <<>>, NEW c \in Calls, Contract(c),
         NEW stack, Finish(c, stack),
         c.key # <<>> => stack = stack_,
         c.key = <<>> => stack = Append(stack_, wrap_hash(c.value.data)) /\ c.value.tag = "hash"
  PROVE  HasOpenTrie' /\ Client!Put(c.key, c.value)
<1>1. TypeOK /\ LastEntryPending /\ FinishedTrie
  BY DEF RootInv, LegalInv, IInv
<1>2. entries = <<>> /\ groups_ = <<>> /\ stack_ = <<>>
  BY <1>1 DEF LastEntryPending, Contract, TypeOK, FinishedTrie
<1>3. c.op # "root_hash" /\ InOrder(c.key)
  BY DEF Calls, Contract
<1>4. /\ key_' = c.key /\ value_' = c.value /\ stack_' = stack /\ groups_' = <<>>
      /\ pc' = "idle" /\ build_extensions' = FALSE /\ root' = <<>>
      /\ entries' = Append(entries, [key |-> c.key, value |-> c.value, in_db |-> c.in_db])
  BY <1>2, <1>3, ReturnOfEntry DEF Finish
<1>5. PICK depth \in Nat : HasTrie(Added', depth)
  BY <1>3, <1>4, EntryAdded
<1>6. PICK e : e = [key |-> c.key, value |-> c.value]
  OBVIOUS
<1>7. /\ Added' = Added \cup {e}
      /\ entries'[Len(entries')].value = c.value /\ entries' # <<>>
      /\ \A n \in Nat : n < Len(c.key) =>
           DigitsAt(Added', SubSeq(c.key, 1, n)) =
             DigitsAt(Added, SubSeq(c.key, 1, n)) \cup {c.key[n + 1]}
      /\ c.key \in Keys
      /\ Client!Put(c.key, c.value)
  BY <1>3, <1>4, <1>6, EntryAdded
<1>8. Added = {} /\ Added' = {e}
  BY <1>1, <1>2, <1>7, AddedIs
<1>9. OpenTrie'
  <2>1. SUFFICES ASSUME c.key # <<>>
                 PROVE  OpenTrie'
    BY <1>4 DEF OpenTrie
  <2>2. along' = c.key /\ stack_' = <<>>
    BY <1>2, <1>4, <2>1 DEF along
  <2>3. c.key \in Seq(Digit) /\ Len(c.key) \in Nat
    BY <1>1, <1>7, KeysAreSequences, LenProperties
  <2>4. ASSUME NEW i \in 1..Len(c.key)
        PROVE  DigitsAt(Added', SubSeq(c.key, 1, i - 1)) =
                 (IF i <= Len(<<>>) THEN <<>>[i] ELSE {}) \cup {c.key[i]}
    <3>1. PICK n \in Nat : i = n + 1 /\ i - 1 = n /\ n < Len(c.key)
      BY <2>3
    <3>2. DigitsAt(Added, SubSeq(c.key, 1, n)) = {}
      BY <1>8 DEF DigitsAt, Below
    <3>3. ~(i <= Len(<<>>))
      BY <2>3
    <3> QED
      BY <1>7, <3>1, <3>2, <3>3
  <2>5. HoldsChildren(Added', c.key, <<>>, <<>>, 0)
    <3>1. PICK base \in [0..0 -> 0..0] : base[0] = 0
      <4>1. [n \in 0..0 |-> 0] \in [0..0 -> 0..0] /\ [n \in 0..0 |-> 0][0] = 0
        OBVIOUS
      <4> QED
        BY <4>1
    <3>2. Len(<<>>) = 0
      OBVIOUS
    <3> QED
      BY <3>1, <3>2 DEF HoldsChildren
  <2>6. Len(<<>>) = 0
    OBVIOUS
  <2> QED
    BY <1>4, <2>2, <2>4, <2>5, <2>6 DEF OpenTrie
<1>10. FinishedTrie'
  <2>1. SUFFICES ASSUME c.key = <<>>
                 PROVE  stack # <<>> /\ hash_of(Last(stack)) = Root(Added')
    BY <1>4, <1>7 DEF FinishedTrie
  <2>2. /\ Len(stack) = 1 /\ stack # <<>> /\ stack[1] = wrap_hash(c.value.data)
    BY <1>2, <2>1
  <2>3. e \in Added' /\ e.key = <<>> /\ e.value = c.value /\ e.value.tag = "hash"
    BY <1>6, <1>8, <2>1
  <2>4. Reference(Added', e.key) = wrap_hash(e.value.data)
    BY <1>5, <2>3, ReferenceOfHash
  <2>5. Root(Added') = hash_of(Reference(Added', <<>>))
    BY <1>8, RootIs
  <2> QED
    BY <2>2, <2>3, <2>4, <2>5 DEF Last
<1>11. EntriesFit'
  BY <1>4, <1>7 DEF EntriesFit
<1> QED
  BY <1>5, <1>7, <1>9, <1>10, <1>11 DEF HasOpenTrie

\* A step that leaves the trie alone.
LEMMA NothingChanges ==
  ASSUME RootInv,
         UNCHANGED <<key_, value_, groups_, stack_, call, current, build_extensions,
                     entries, root, sealed>>,
         pc' = pc \/ pc' = "aborted"
  PROVE  HasOpenTrie'
<1>1. TypeOK
  BY DEF RootInv, LegalInv, IInv
<1>2. Added' = Added
  BY <1>1, AddedIs
<1>3. pc' = pc => along' = along
  BY DEF along
<1>4. OpenTrie'
  BY <1>2, <1>3 DEF RootInv, OpenTrie
<1>5. FinishedTrie'
  BY <1>2 DEF RootInv, FinishedTrie
<1>6. EntriesFit'
  <2>1. Contract(call) => Contract(call)'
    BY DEF Contract, InOrder
  <2>2. EntriesFit
    BY DEF RootInv
  <2>3. (key_ # <<>> => entries[Len(entries)].value = value_)'
    BY <2>2 DEF EntriesFit
  <2>4. (pc = "gen_struct_step" /\ call.op # "root_hash" => Contract(call))'
    <3>1. SUFFICES ASSUME pc' = "gen_struct_step", call'.op # "root_hash"
                   PROVE  Contract(call)'
      OBVIOUS
    <3>2. Contract(call)
      BY <2>2, <3>1 DEF EntriesFit
    <3> QED
      BY <2>1, <3>2
  <2> QED
    BY <2>3, <2>4 DEF EntriesFit
<1> QED
  BY <1>2, <1>4, <1>5, <1>6 DEF HasOpenTrie, RootInv

\* What a step may be for the client.
Serves ==
  \/ \E key \in Keys, value \in Value : Client!Put(key, value)
  \/ Client!AskRoot
  \/ Client!Clear
  \/ UNCHANGED <<Added, root>>

\* Adding an entry.
LEMMA AddServes ==
  ASSUME RootInv, NEW c \in Calls, Contract(c), Add(c)
  PROVE  HasOpenTrie' /\ Serves
<1>1. IInv /\ pc = "idle"
  BY DEF RootInv, LegalInv, Add, add_leaf, add_branch_node
<1>2. c.key \in Keys /\ c.value \in Value
  <2>1. c.key \in Keys /\ c \in Calls \cup {root_hash_call}
    BY DEF Calls
  <2> QED
    BY <2>1, CallTypes
<1>3. CASE Enter(c) /\ key_ # <<>>
  <2>1. HasOpenTrie' /\ UNCHANGED <<entries, root>>
    BY <1>1, <1>3, EnterHolds
  <2> QED
    BY <2>1 DEF Serves, Added
<1>4. CASE Abort("order")
  <2>1. HasOpenTrie'
    BY <1>4, NothingChanges DEF Abort, builder, observed
  <2> QED
    BY <1>4, <2>1 DEF Abort, Serves, Added, observed
<1>5. CASE key_ = <<>> /\ c.key # <<>> /\ Finish(c, stack_)
  <2>1. HasOpenTrie' /\ Client!Put(c.key, c.value)
    BY <1>1, <1>5, FirstEntryAdds
  <2> QED
    BY <1>2, <2>1 DEF Serves
<1>6. CASE /\ key_ = <<>> /\ c.key = <<>> /\ c.op = "add_branch_node"
           /\ Finish(c, Append(stack_, wrap_hash(c.value.data)))
  <2>1. c.value.tag = "hash"
    BY <1>6 DEF Calls
  <2>2. HasOpenTrie' /\ Client!Put(c.key, c.value)
    BY <1>1, <1>6, <2>1, FirstEntryAdds
  <2> QED
    BY <1>2, <2>2 DEF Serves
<1>7. key_ # <<>> => c.key # <<>>
  BY <1>1, LegalCall DEF greater, starts_with
<1>8. c.op = "add_leaf" => c.key # <<>>
  BY DEF Contract
<1> QED
  BY <1>1, <1>3, <1>4, <1>5, <1>6, <1>7, <1>8 DEF Add, add_leaf, add_branch_node

\* Asking for the root.
LEMMA RootHashServes ==
  ASSUME RootInv, root_hash
  PROVE  HasOpenTrie' /\ Serves
<1>1. TypeOK /\ pc = "idle" /\ FinishedTrie
  BY DEF RootInv, LegalInv, IInv, root_hash
<1>2. root_hash_call.op = "root_hash" /\ root_hash_call.key = <<>>
  BY DEF root_hash_call
<1>3. CASE key_ # <<>> /\ Enter(root_hash_call)
  <2>1. HasOpenTrie' /\ UNCHANGED <<entries, root>>
    BY <1>1, <1>2, <1>3, EnterHolds
  <2> QED
    BY <2>1 DEF Serves, Added
<1>4. CASE key_ = <<>> /\ Finish(root_hash_call, stack_)
  <2>1. /\ key_' = <<>> /\ stack_' = stack_ /\ groups_' = groups_
        /\ root' = <<IF stack_ = <<>> THEN kEmptyRoot ELSE hash_of(Last(stack_))>>
        /\ entries' = entries /\ pc' = "idle"
    BY <1>2, <1>4 DEF Finish, Return
  <2>2. Added' = Added /\ (entries = <<>> <=> Added = {})
    BY <1>1, <2>1, AddedIs
  <2>3. root' = <<Root(Added)>>
    <3>1. CASE entries = <<>>
      BY <1>1, <1>4, <2>1, <2>2, <3>1 DEF FinishedTrie, Root
    <3>2. CASE entries # <<>>
      BY <1>1, <1>4, <2>1, <3>2 DEF FinishedTrie
    <3> QED
      BY <3>1, <3>2
  <2>4. Client!AskRoot
    BY <2>2, <2>3 DEF Client!AskRoot
  <2>5. OpenTrie' /\ EntriesFit'
    BY <2>1 DEF OpenTrie, EntriesFit
  <2>6. FinishedTrie'
    BY <1>1, <1>4, <2>1, <2>2 DEF FinishedTrie
  <2> QED
    BY <2>2, <2>4, <2>5, <2>6 DEF HasOpenTrie, Serves, RootInv
<1> QED
  BY <1>3, <1>4 DEF root_hash

\* Starting again.
LEMMA ResetServes ==
  ASSUME RootInv, reset
  PROVE  HasOpenTrie' /\ Serves
<1>1. TypeOK
  BY DEF RootInv, LegalInv, IInv
<1>2. /\ key_' = <<>> /\ groups_' = <<>> /\ stack_' = <<>> /\ entries' = <<>> /\ root' = <<>>
      /\ pc' = pc /\ pc = "idle"
  BY DEF reset, frame
<1>3. Added' = {}
  BY <1>1, <1>2, AddedIs
<1>4. HasTrie({}, 0)
  BY DEF HasTrie
<1>5. OpenTrie' /\ FinishedTrie' /\ EntriesFit'
  BY <1>2 DEF OpenTrie, FinishedTrie, EntriesFit
<1>6. Client!Clear
  BY <1>2, <1>3 DEF Client!Clear
<1> QED
  BY <1>3, <1>4, <1>5, <1>6 DEF HasOpenTrie, Serves

\* Every step keeps the invariant and is a step of the service, or of none.
LEMMA LegalNextServes ==
  ASSUME RootInv, [LegalNext]_vars
  PROVE  RootInv' /\ Serves
<1>1. LegalInv /\ OrderInv
  BY DEF RootInv
<1>2. LegalInv'
  BY <1>1, LegalNextKeeps
<1>3. OrderInv'
  <2>1. [Next]_vars
    BY DEF LegalNext, Next
  <2> QED
    BY <1>1, <2>1, NextOrder
<1>4. ASSUME HasOpenTrie', UNCHANGED <<entries, root>>
      PROVE  HasOpenTrie' /\ Serves
  BY <1>4 DEF Serves, Added
<1>5. HasOpenTrie' /\ Serves
  <2>1. ASSUME NEW c \in Calls, Contract(c), Add(c)
        PROVE  HasOpenTrie' /\ Serves
    BY <2>1, AddServes
  <2>2. CASE root_hash
    BY <2>2, RootHashServes
  <2>3. CASE reset
    BY <2>3, ResetServes
  <2>4. ASSUME NEW installed \in BOOLEAN, set_node_collector(installed)
        PROVE  HasOpenTrie' /\ Serves
    <3>1. HasOpenTrie'
      BY <2>4, NothingChanges DEF set_node_collector, builder, frame, observed
    <3> QED
      BY <1>4, <2>4, <3>1 DEF set_node_collector, observed
  <2>5. CASE KeepGroup
    <3>1. HasOpenTrie' /\ call \in Calls /\ Client!Put(call.key, call.value)
      BY <2>5, KeepGroupAdds
    <3>2. call.key \in Keys /\ call.value \in Value
      <4>1. call.key \in Keys /\ call \in Calls \cup {root_hash_call}
        BY <3>1 DEF Calls
      <4> QED
        BY <4>1, CallTypes
    <3> QED
      BY <3>1, <3>2 DEF Serves
  <2>6. CASE CloseGroup
    <3>1. HasOpenTrie' /\ UNCHANGED <<entries, root>>
      BY <2>6, CloseGroupHolds
    <3> QED
      BY <1>4, <3>1
  <2>7. CASE CloseLastGroup
    BY <2>7, CloseLastGroupAnswers DEF Serves
  <2>8. CASE FailAssertion
    <3>1. HasOpenTrie'
      BY <2>8, NothingChanges DEF FailAssertion, Abort, builder, observed
    <3> QED
      BY <1>4, <2>8, <3>1 DEF FailAssertion, Abort, observed
  <2>9. CASE UNCHANGED vars
    <3>1. HasOpenTrie'
      BY <2>9, NothingChanges DEF vars, builder, frame, observed
    <3> QED
      BY <1>4, <2>9, <3>1 DEF vars, observed
  <2> QED
    BY <2>1, <2>2, <2>3, <2>4, <2>5, <2>6, <2>7, <2>8, <2>9 DEF LegalNext, gen_struct_step
<1> QED
  BY <1>2, <1>3, <1>5 DEF RootInv, HasOpenTrie

\* A new builder.
LEMMA InitServes ==
  ASSUME Init
  PROVE  RootInv /\ Client!NewTrie
<1>1. LegalInv
  BY LegalInitEstablishes
<1>2. OrderInv
  BY <1>1 DEF Init, OrderInv, LegalInv, CurrentAlongKey, DigitsRise
<1>3. Added = {} /\ root = <<>>
  BY DEF Init, Added
<1>4. HasTrie(Added, 0)
  BY <1>3 DEF HasTrie
<1>5. OpenTrie /\ FinishedTrie /\ EntriesFit
  BY DEF Init, OpenTrie, FinishedTrie, EntriesFit
<1> QED
  BY <1>1, <1>2, <1>3, <1>4, <1>5 DEF RootInv, Client!NewTrie

\* The invariant holds for every client that respects the contract.
THEOREM RootInvariance == LegalSpec => []RootInv
<1>1. Init => RootInv
  BY InitServes
<1>2. RootInv /\ [LegalNext]_vars => RootInv'
  BY LegalNextServes
<1> QED
  BY <1>1, <1>2, PTL DEF LegalSpec

\* At every moment the groups and the stack are what is left of the trie of the entries
\* added so far once all subtries that later entries cannot reach have been replaced by
\* their references (groups_ and stack_, hash_builder.hpp).
THEOREM TrieStaysOpen == LegalSpec => []OpenTrie
<1>1. RootInv => OpenTrie
  BY DEF RootInv
<1> QED
  BY <1>1, RootInvariance, PTL

\* Whatever entries a client adds in order, and whenever it asks, root_hash returns the
\* hash Appendix D of the Yellow Paper defines for exactly those entries: the loop of
\* gen_struct_step, which sees one entry at a time, implements TRIE(J).
THEOREM RootIsOfMerkleTrie == LegalSpec => ServesMerkleTrie
<1>1. Init => RootInv /\ Client!NewTrie
  BY InitServes
<1>2. RootInv /\ [LegalNext]_vars => RootInv'
  BY LegalNextServes
<1>3. RootInv /\ [LegalNext]_vars =>
        [(\E k \in Keys, v \in Value : Client!Put(k, v)) \/ Client!AskRoot \/ Client!Clear]_<<Added, root>>
  BY LegalNextServes DEF Serves
<1> QED
  BY <1>1, <1>2, <1>3, PTL DEF LegalSpec, ServesMerkleTrie, Client!Service

\* What root_hash returned last is the root of the entries there are.
AnswerIsRoot == root # <<>> => root = <<Root(Added)>>

\* The client may rely on it until it adds another entry.
THEOREM AnswersAreRoots == LegalSpec => []AnswerIsRoot
<1>1. Init => AnswerIsRoot
  BY DEF Init, AnswerIsRoot
<1>2. ASSUME RootInv, [LegalNext]_vars, AnswerIsRoot
      PROVE  AnswerIsRoot'
  <2>1. Serves
    BY <1>2, LegalNextServes
  <2>2. CASE root' = <<>>
    BY <2>2 DEF AnswerIsRoot
  <2>3. CASE Client!AskRoot
    BY <2>3 DEF AnswerIsRoot, Client!AskRoot
  <2>4. CASE UNCHANGED <<Added, root>>
    BY <1>2, <2>4 DEF AnswerIsRoot
  <2> QED
    BY <2>1, <2>2, <2>3, <2>4 DEF Serves, Client!Put, Client!Clear
<1> QED
  BY <1>1, <1>2, RootInvariance, PTL DEF LegalSpec

=============================================================================
