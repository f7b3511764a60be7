-------------------------- MODULE ByteStringLemmas ---------------------------
(***************************************************************************)
(* Facts about the operators of ByteStrings, for strings of any length,    *)
(* and of Endian, for all numbers of 64 bits.                              *)
(***************************************************************************)
EXTENDS ByteStrings, Endian, TLAPS, WellFoundedInduction, SequenceTheorems

-----------------------------------------------------------------------------

\* A nonempty set of naturals has a least element: the loops of the code that stop
\* at the first index with some property are CHOOSEs that rest on this.
LEMMA LeastNatural ==
  ASSUME NEW S, S \subseteq Nat, S # {}
  PROVE  \E n \in S : \A m \in S : n <= m
<1>1. IsWellFoundedOn(OpToRel(<, Nat), Nat)
  BY NatLessThanWellFounded
<1>2. PICK n \in S : \A m \in S : <<m, n>> \notin OpToRel(<, Nat)
  BY <1>1, WFMin, Zenon
<1>3. ASSUME NEW m \in S
      PROVE  n <= m
  <2>1. (m \in Nat) /\ (n \in Nat)
    OBVIOUS
  <2>2. <<m, n>> \notin {p \in Nat \X Nat : p[1] < p[2]}
    BY <1>2 DEF OpToRel
  <2>3. ~(m < n)
    BY <2>1, <2>2
  <2> QED
    BY <2>1, <2>3
<1> QED
  BY <1>3

\* prefix_length: its loop stops, within both strings, where they part.
LEMMA PrefixLength ==
  ASSUME NEW S, NEW a \in Seq(S), NEW b \in Seq(S)
  PROVE  /\ prefix_length(a, b) \in 0..Len(a)
         /\ prefix_length(a, b) <= Len(b)
         /\ \A i \in 1..prefix_length(a, b) : a[i] = b[i]
         /\ prefix_length(a, b) < Len(a) /\ prefix_length(a, b) < Len(b)
              => a[prefix_length(a, b) + 1] # b[prefix_length(a, b) + 1]
<1> DEFINE Stop == {n \in Nat : n = Len(a) \/ n = Len(b) \/ a[n + 1] # b[n + 1]}
           P(n) == /\ n <= Len(b)
                   /\ \A i \in 1..n : a[i] = b[i]
                   /\ n < Len(a) /\ n < Len(b) => a[n + 1] # b[n + 1]
<1>1. Len(a) \in Nat /\ Len(b) \in Nat
  OBVIOUS
<1>2. PICK n \in Stop : \A m \in Stop : n <= m
  <2>1. Len(a) \in Stop /\ Stop \subseteq Nat
    BY <1>1
  <2> QED
    BY <2>1, LeastNatural
<1>3. n \in 0..Len(a) /\ n <= Len(b)
  BY <1>1, <1>2
<1>4. ASSUME NEW i \in 1..n
      PROVE  a[i] = b[i]
  <2>1. i - 1 \in Nat /\ i - 1 < n /\ (i - 1) + 1 = i
    BY <1>3, <1>1
  <2>2. i - 1 \notin Stop
    BY <2>1, <1>2
  <2> QED
    BY <2>1, <2>2
<1>5. n < Len(a) /\ n < Len(b) => a[n + 1] # b[n + 1]
  BY <1>1, <1>2
<1>6. \E k \in 0..Len(a) : P(k)
  BY <1>3, <1>4, <1>5
<1>7. prefix_length(a, b) = CHOOSE k \in 0..Len(a) : P(k)
  BY DEF prefix_length
<1>8. prefix_length(a, b) \in 0..Len(a) /\ P(prefix_length(a, b))
  BY <1>6, <1>7, Zenon
<1> QED
  BY <1>8

\* What the loop of prefix_length checks determines its result.
LEMMA PrefixLengthUnique ==
  ASSUME NEW S, NEW a \in Seq(S), NEW b \in Seq(S),
         NEW n \in 0..Len(a), n <= Len(b),
         \A i \in 1..n : a[i] = b[i],
         n < Len(a) /\ n < Len(b) => a[n + 1] # b[n + 1]
  PROVE  prefix_length(a, b) = n
<1>1. /\ prefix_length(a, b) \in 0..Len(a)
      /\ prefix_length(a, b) <= Len(b)
      /\ \A i \in 1..prefix_length(a, b) : a[i] = b[i]
      /\ prefix_length(a, b) < Len(a) /\ prefix_length(a, b) < Len(b)
           => a[prefix_length(a, b) + 1] # b[prefix_length(a, b) + 1]
  BY PrefixLength
<1>2. CASE prefix_length(a, b) < n
  <2>1. prefix_length(a, b) + 1 \in 1..n
    BY <1>1, <1>2
  <2> QED
    BY <1>1, <1>2, <2>1
<1>3. CASE n < prefix_length(a, b)
  <2>1. n + 1 \in 1..prefix_length(a, b)
    BY <1>1, <1>3
  <2> QED
    BY <1>1, <1>3, <2>1
<1> QED
  BY <1>1, <1>2, <1>3

\* Cutting a string off beyond the common prefix leaves the common prefix alone.
LEMMA PrefixLengthOfCut ==
  ASSUME NEW S, NEW a \in Seq(S), NEW b \in Seq(S), NEW p \in 0..Len(b),
         prefix_length(a, b) < p
  PROVE  prefix_length(a, SubSeq(b, 1, p)) = prefix_length(a, b)
<1> DEFINE n == prefix_length(a, b)
           c == SubSeq(b, 1, p)
<1>1. /\ n \in 0..Len(a)
      /\ n <= Len(b)
      /\ \A i \in 1..n : a[i] = b[i]
      /\ n < Len(a) /\ n < Len(b) => a[n + 1] # b[n + 1]
  BY PrefixLength
<1>2. c \in Seq(S) /\ Len(c) = p /\ \A i \in 1..p : c[i] = b[i]
  OBVIOUS
<1>3. n < p
  OBVIOUS
<1>4. \A i \in 1..n : a[i] = c[i]
  BY <1>1, <1>2, <1>3
<1>5. n < Len(a) => a[n + 1] # c[n + 1]
  BY <1>1, <1>2, <1>3
<1> HIDE DEF n, c
<1>6. prefix_length(a, c) = n
  BY <1>1, <1>2, <1>3, <1>4, <1>5, PrefixLengthUnique
<1> QED
  BY <1>6 DEF n, c

\* A string that is greater than another is not a prefix of it.
LEMMA GreaterNotPrefix ==
  ASSUME NEW a \in Seq(Nat), NEW b \in Seq(Nat), greater(a, b)
  PROVE  a # <<>> /\ ~starts_with(b, a)
BY DEF greater, starts_with

\* A greater string leaves the common prefix with the smaller before its own end.
LEMMA GreaterLeavesPrefix ==
  ASSUME NEW a \in Seq(Nat), NEW b \in Seq(Nat), greater(a, b)
  PROVE  prefix_length(a, b) < Len(a)
<1>1. /\ prefix_length(a, b) \in 0..Len(a)
      /\ prefix_length(a, b) <= Len(b)
      /\ \A i \in 1..prefix_length(a, b) : a[i] = b[i]
  BY PrefixLength
<1>2. SUFFICES ASSUME prefix_length(a, b) = Len(a)
               PROVE  FALSE
  BY <1>1
<1>3. starts_with(b, a)
  BY <1>1, <1>2 DEF starts_with
<1> QED
  BY <1>3, GreaterNotPrefix

\* When it does not extend the smaller one, it leaves it before the smaller's end too.
LEMMA ApartLeavesPrefix ==
  ASSUME NEW a \in Seq(Nat), NEW b \in Seq(Nat), ~starts_with(a, b)
  PROVE  prefix_length(a, b) < Len(b)
<1>1. /\ prefix_length(a, b) \in 0..Len(a)
      /\ prefix_length(a, b) <= Len(b)
      /\ \A i \in 1..prefix_length(a, b) : a[i] = b[i]
  BY PrefixLength
<1> QED
  BY <1>1 DEF starts_with

\* And the other way round.
LEMMA PartedNotPrefix ==
  ASSUME NEW a \in Seq(Nat), NEW b \in Seq(Nat), prefix_length(a, b) < Len(b)
  PROVE  ~starts_with(a, b)
<1> DEFINE n == prefix_length(a, b)
<1>1. SUFFICES ASSUME starts_with(a, b)
               PROVE  FALSE
  OBVIOUS
<1>2. Len(b) <= Len(a) /\ \A i \in 1..Len(b) : a[i] = b[i]
  BY <1>1 DEF starts_with
<1>3. n \in 0..Len(a) /\ n < Len(b)
  BY PrefixLength
<1>4. n < Len(a) /\ n + 1 \in 1..Len(b)
  BY <1>2, <1>3
<1>5. a[n + 1] # b[n + 1]
  BY <1>3, <1>4, PrefixLength
<1> QED
  BY <1>2, <1>4, <1>5

\* The order is transitive.
LEMMA GreaterTransitive ==
  ASSUME NEW a \in Seq(Nat), NEW b \in Seq(Nat), NEW c \in Seq(Nat),
         greater(a, b), greater(b, c)
  PROVE  greater(a, c)
<1>1. PICK m \in 0..Len(b) :
        /\ m < Len(a)
        /\ \A i \in 1..m : a[i] = b[i]
        /\ m < Len(b) => a[m + 1] > b[m + 1]
  BY DEF greater
<1>2. PICK n \in 0..Len(c) :
        /\ n < Len(b)
        /\ \A i \in 1..n : b[i] = c[i]
        /\ n < Len(c) => b[n + 1] > c[n + 1]
  BY DEF greater
<1>3. CASE m <= n
  <2>1. m \in 0..Len(c) /\ m < Len(a) /\ m < Len(b)
    BY <1>1, <1>2, <1>3
  <2>2. \A i \in 1..m : a[i] = c[i]
    BY <1>1, <1>2, <1>3
  <2>3. ASSUME m < Len(c)
        PROVE  a[m + 1] > c[m + 1]
    <3>1. a[m + 1] \in Nat /\ b[m + 1] \in Nat /\ c[m + 1] \in Nat
      <4>1. m + 1 \in 1..Len(a) /\ m + 1 \in 1..Len(b) /\ m + 1 \in 1..Len(c)
        BY <2>1, <2>3
      <4> QED
        BY <4>1, ElementOfSeq
    <3>2. a[m + 1] > b[m + 1]
      BY <1>1, <2>1
    <3>3. b[m + 1] = c[m + 1] \/ b[m + 1] > c[m + 1]
      <4>1. m + 1 \in 1..n \/ m = n
        BY <1>3, <2>1
      <4> QED
        BY <1>2, <2>3, <4>1
    <3> DEFINE x == a[m + 1]
               y == b[m + 1]
               z == c[m + 1]
    <3>4. x \in Nat /\ y \in Nat /\ z \in Nat /\ x > y /\ (y = z \/ y > z)
      BY <3>1, <3>2, <3>3
    <3> HIDE DEF x, y, z
    <3>5. x > z
      BY <3>4
    <3> QED
      BY <3>5 DEF x, z
  <2> QED
    BY <2>1, <2>2, <2>3 DEF greater
<1>4. CASE n < m
  <2>1. /\ n \in 0..Len(c) /\ n < Len(a)
        /\ \A i \in 1..n : a[i] = c[i]
        /\ n < Len(c) => a[n + 1] > c[n + 1]
    BY <1>1, <1>2, <1>4
  <2> QED
    BY <2>1 DEF greater
<1> QED
  BY <1>1, <1>2, <1>3, <1>4

\* Between a string and an extension of it there are only extensions of it.
LEMMA BetweenExtension ==
  ASSUME NEW a \in Seq(Nat), NEW b \in Seq(Nat), NEW c \in Seq(Nat),
         greater(a, b), greater(b, c), starts_with(a, c)
  PROVE  starts_with(b, c)
<1>1. PICK m \in 0..Len(b) :
        /\ m < Len(a)
        /\ \A i \in 1..m : a[i] = b[i]
        /\ m < Len(b) => a[m + 1] > b[m + 1]
  BY DEF greater
<1>2. PICK n \in 0..Len(c) :
        /\ n < Len(b)
        /\ \A i \in 1..n : b[i] = c[i]
        /\ n < Len(c) => b[n + 1] > c[n + 1]
  BY DEF greater
<1>3. Len(c) <= Len(a) /\ \A i \in 1..Len(c) : a[i] = c[i]
  BY DEF starts_with
<1>4. SUFFICES ASSUME n < Len(c)
               PROVE  FALSE
  BY <1>2 DEF starts_with
<1>5. /\ a[n + 1] \in Nat /\ b[n + 1] \in Nat
      /\ a[n + 1] = c[n + 1] /\ b[n + 1] > a[n + 1]
  <2> DEFINE k == n + 1
  <2>1. n \in Nat /\ Len(a) \in Nat /\ Len(b) \in Nat /\ Len(c) \in Nat
    BY LenProperties
  <2>2. n < Len(b) /\ n < Len(c) /\ Len(c) <= Len(a)
    BY <1>2, <1>3, <1>4
  <2>3. k \in 1..Len(a) /\ k \in 1..Len(b) /\ k \in 1..Len(c)
    BY <2>1, <2>2
  <2>4. a[k] = c[k] /\ b[k] > c[k]
    BY <2>3, <1>2, <1>3, <1>4
  <2>5. a[k] \in Nat /\ b[k] \in Nat
    BY <2>3, ElementOfSeq
  <2> QED
    BY <2>4, <2>5
<1>6. CASE n < m
  BY <1>1, <1>2, <1>5, <1>6
<1>7. CASE m = n
  <2>1. a[n + 1] > b[n + 1]
    BY <1>1, <1>2, <1>7
  <2> QED
    BY <2>1, <1>5
<1>8. CASE m < n
  <2>1. a[m + 1] \in Nat /\ b[m + 1] = a[m + 1]
    <3>1. m + 1 \in 1..n
      BY <1>8
    <3>2. m + 1 \in 1..Len(c)
      BY <1>4, <1>8
    <3>3. m + 1 \in 1..Len(a)
      BY <1>3, <3>2
    <3> QED
      BY <3>1, <3>2, <3>3, <1>2, <1>3, ElementOfSeq
  <2>2. a[m + 1] > b[m + 1]
    BY <1>1, <1>2, <1>8
  <2> QED
    BY <2>1, <2>2
<1> QED
  BY <1>6, <1>7, <1>8
\* The order is irreflexive and total, and an extension is never the smaller one.
LEMMA GreaterIrreflexive ==
  ASSUME NEW a \in Seq(Nat)
  PROVE  ~greater(a, a)
<1>1. starts_with(a, a)
  BY DEF starts_with
<1> QED
  BY <1>1, GreaterNotPrefix

\* Of two different strings one is greater.
LEMMA GreaterTotal ==
  ASSUME NEW a \in Seq(Nat), NEW b \in Seq(Nat), a # b
  PROVE  greater(a, b) \/ greater(b, a)
<1> DEFINE n == prefix_length(a, b)
<1>1. /\ n \in 0..Len(a)
      /\ n <= Len(b)
      /\ \A i \in 1..n : a[i] = b[i]
      /\ n < Len(a) /\ n < Len(b) => a[n + 1] # b[n + 1]
  BY PrefixLength
<1>2. Len(a) \in Nat /\ Len(b) \in Nat
  OBVIOUS
<1> HIDE DEF n
<1>3. CASE n < Len(a) /\ n < Len(b)
  <2>1. n + 1 \in 1..Len(a) /\ n + 1 \in 1..Len(b)
    BY <1>1, <1>2, <1>3
  <2> DEFINE x == a[n + 1]
             y == b[n + 1]
  <2>2. x \in Nat /\ y \in Nat
    BY <2>1, ElementOfSeq
  <2>3. x # y
    BY <1>1, <1>3
  <2> HIDE DEF x, y
  <2>4. x > y \/ y > x
    BY <2>2, <2>3
  <2>5. n \in 0..Len(a) /\ n \in 0..Len(b) /\ \A i \in 1..n : b[i] = a[i]
    BY <1>1, <1>2
  <2>6. CASE x > y
    <3>1. a[n + 1] > b[n + 1]
      BY <2>6 DEF x, y
    <3> QED
      BY <1>1, <1>3, <2>5, <3>1 DEF greater
  <2>7. CASE y > x
    <3>1. b[n + 1] > a[n + 1]
      BY <2>7 DEF x, y
    <3> QED
      BY <1>3, <2>5, <3>1 DEF greater
  <2> QED
    BY <2>4, <2>6, <2>7
<1>4. CASE n = Len(a) /\ n < Len(b)
  <2>1. n \in 0..Len(a) /\ ~(n < Len(a)) /\ \A i \in 1..n : b[i] = a[i]
    BY <1>1, <1>2, <1>4
  <2>2. \E k \in 0..Len(a) :
          k < Len(b) /\ (\A i \in 1..k : b[i] = a[i]) /\ (k < Len(a) => b[k + 1] > a[k + 1])
    BY <1>4, <2>1
  <2> QED
    BY <2>2 DEF greater
<1>5. CASE n < Len(a) /\ n = Len(b)
  <2>1. n \in 0..Len(b) /\ ~(n < Len(b))
    BY <1>2, <1>5
  <2>2. \E k \in 0..Len(b) :
          k < Len(a) /\ (\A i \in 1..k : a[i] = b[i]) /\ (k < Len(b) => a[k + 1] > b[k + 1])
    BY <1>1, <1>5, <2>1
  <2> QED
    BY <2>2 DEF greater
<1>6. CASE n = Len(a) /\ n = Len(b)
  <2>1. \A i \in 1..Len(a) : a[i] = b[i]
    BY <1>1, <1>6
  <2> QED
    BY <1>6, <2>1, SeqEqual
<1> QED
  BY <1>1, <1>2, <1>3, <1>4, <1>5, <1>6

\* An extension of a string is never the smaller of the two.
LEMMA ExtensionNotSmaller ==
  ASSUME NEW a \in Seq(Nat), NEW b \in Seq(Nat), starts_with(a, b)
  PROVE  ~greater(b, a)
BY GreaterNotPrefix

\* "Not greater" is transitive as well.
LEMMA NotGreaterTransitive ==
  ASSUME NEW a \in Seq(Nat), NEW b \in Seq(Nat), NEW c \in Seq(Nat),
         ~greater(a, b), ~greater(b, c)
  PROVE  ~greater(a, c)
<1>1. a = b \/ greater(b, a)
  BY GreaterTotal
<1>2. b = c \/ greater(c, b)
  BY GreaterTotal
<1>3. a = c \/ greater(c, a)
  BY <1>1, <1>2, GreaterTransitive
<1>4. SUFFICES ASSUME greater(a, c), greater(c, a)
               PROVE  FALSE
  BY <1>3, GreaterIrreflexive
<1>5. greater(a, a)
  BY <1>4, GreaterTransitive
<1> QED
  BY <1>5, GreaterIrreflexive

-----------------------------------------------------------------------------
(* Loops that go through a string or a number byte by byte.                *)

\* What holds at the start of a loop, and is kept, holds all along.
LEMMA IntervalInduction ==
  ASSUME NEW n \in Nat, NEW S, 0 \in S, \A k \in 0..(n - 1) : k \in S => k + 1 \in S
  PROVE  0..n \subseteq S
<1> DEFINE Bad == {k \in 0..n : k \notin S}
<1>1. SUFFICES ASSUME Bad # {}
               PROVE  FALSE
  OBVIOUS
<1>2. Bad \subseteq Nat
  OBVIOUS
<1>3. PICK m \in Bad : \A k \in Bad : m <= k
  BY <1>1, <1>2, LeastNatural
<1>4. m # 0 /\ m \in 0..n
  BY <1>3
<1>5. m - 1 \in 0..(n - 1) /\ (m - 1) + 1 = m /\ ~(m <= m - 1)
  BY <1>4
<1>6. m - 1 \in S
  BY <1>3, <1>5
<1> QED
  BY <1>3, <1>5, <1>6

\* The values of a loop, from the first one on.
Iterates(g, S, base, n, step) ==
  g \in [0..n -> S] /\ g[0] = base /\ \A k \in 1..n : g[k] = step[<<k, g[k - 1]>>]

\* A function that is defined from one number to the next exists.
LEMMA IterationExists ==
  ASSUME NEW S, NEW base \in S, NEW n \in Nat, NEW step \in [(1..n) \X S -> S]
  PROVE  \E g : Iterates(g, S, base, n, step)
<1> DEFINE Is(g, m) == g[0] = base /\ \A k \in 1..m : g[k] = step[<<k, g[k - 1]>>]
           Good == {m \in 0..n : \E g \in [0..m -> S] : Is(g, m)}
<1>1. 0 \in Good
  <2> DEFINE g == [k \in 0..0 |-> base]
  <2>1. g \in [0..0 -> S] /\ g[0] = base
    OBVIOUS
  <2>2. \A k \in 1..0 : g[k] = step[<<k, g[k - 1]>>]
    OBVIOUS
  <2> HIDE DEF g
  <2>3. Is(g, 0)
    BY <2>1, <2>2
  <2> QED
    BY <2>1, <2>3
<1>2. ASSUME NEW m \in 0..(n - 1), m \in Good
      PROVE  m + 1 \in Good
  <2>1. PICK g \in [0..m -> S] : Is(g, m)
    BY <1>2
  <2>2. m \in 0..m /\ g[m] \in S /\ m + 1 \in 1..n
    BY <2>1
  <2> DEFINE h == [k \in 0..(m + 1) |-> IF k = m + 1 THEN step[<<m + 1, g[m]>>] ELSE g[k]]
  <2>3. h \in [0..(m + 1) -> S]
    <3>1. step[<<m + 1, g[m]>>] \in S
      <4>1. <<m + 1, g[m]>> \in (1..n) \X S
        BY <2>2
      <4> QED
        BY <4>1
    <3>2. \A k \in 0..(m + 1) : k # m + 1 => k \in 0..m
      OBVIOUS
    <3> QED
      BY <2>1, <3>1, <3>2
  <2>4. \A k \in 0..m : h[k] = g[k]
    OBVIOUS
  <2>5. h[m + 1] = step[<<m + 1, g[m]>>] /\ (m + 1) - 1 = m
    OBVIOUS
  <2> HIDE DEF h
  <2>6. ASSUME NEW k \in 1..(m + 1)
        PROVE  h[k] = step[<<k, h[k - 1]>>]
    <3>1. CASE k = m + 1
      BY <2>2, <2>4, <2>5, <3>1
    <3>2. CASE k # m + 1
      <4>1. k \in 1..m /\ k \in 0..m /\ k - 1 \in 0..m
        BY <3>2
      <4> QED
        BY <2>1, <2>4, <4>1
    <3> QED
      BY <3>1, <3>2
  <2>7. h[0] = base
    BY <2>1, <2>4
  <2>8. Is(h, m + 1)
    BY <2>6, <2>7
  <2> QED
    BY <2>3, <2>8
<1> HIDE DEF Good
<1>3. 0..n \subseteq Good
  BY <1>1, <1>2, IntervalInduction
<1>4. n \in Good
  BY <1>3
<1> QED
  BY <1>4 DEF Good, Iterates

-----------------------------------------------------------------------------
(* Numbers as bytes.                                                       *)

\* A number and its lowest byte.
LEMMA ByteShift ==
  ASSUME NEW n \in Nat
  PROVE  /\ n \div 256 \in Nat /\ n % 256 \in Byte /\ n = 256 * (n \div 256) + (n % 256)
         /\ n \div 256 <= n
BY SMT DEF Byte

\* The converse.
LEMMA ByteAppended ==
  ASSUME NEW n \in Nat, NEW byte \in Byte
  PROVE  /\ 256 * n + byte \in Nat /\ (256 * n + byte) \div 256 = n
         /\ (256 * n + byte) % 256 = byte
BY SMT DEF Byte

\* What is left of a number while one byte after the other is dropped.
Shifts(rest, width, value) ==
  /\ rest \in [0..width -> Nat] /\ rest[0] = value
  /\ \A k \in 1..width : rest[k] = rest[k - 1] \div 256

\* shifted drops one byte at a time.
LEMMA Shifted ==
  ASSUME NEW value \in Nat, NEW width \in Nat
  PROVE  Shifts(shifted(width, value), width, value)
<1> DEFINE next == [p \in (1..width) \X Nat |-> p[2] \div 256]
           Rest(g) == [k \in 0..width |-> IF k = 0 THEN value ELSE g[k - 1] \div 256]
           rest == CHOOSE g : g = Rest(g)
<1>1. /\ next \in [(1..width) \X Nat -> Nat]
      /\ \A k \in 1..width : \A x \in Nat : next[<<k, x>>] = x \div 256
  <2>1. \A p \in (1..width) \X Nat : p[2] \div 256 \in Nat
    BY ByteShift
  <2>2. ASSUME NEW k \in 1..width, NEW x \in Nat
        PROVE  next[<<k, x>>] = x \div 256
    <3>1. <<k, x>> \in (1..width) \X Nat /\ <<k, x>>[2] = x
      OBVIOUS
    <3> QED
      BY <3>1, Zenon
  <2> QED
    BY <2>1, <2>2
<1> HIDE DEF next
<1>2. PICK g \in [0..width -> Nat] : g[0] = value /\ \A k \in 1..width : g[k] = next[<<k, g[k - 1]>>]
  <2>1. \E g : Iterates(g, Nat, value, width, next)
    BY <1>1, IterationExists
  <2> QED
    BY <2>1 DEF Iterates
<1>3. ASSUME NEW k \in 1..width
      PROVE  g[k] = g[k - 1] \div 256
  <2>1. k - 1 \in 0..width
    OBVIOUS
  <2>2. g[k - 1] \in Nat
    BY <1>2, <2>1
  <2>3. next[<<k, g[k - 1]>>] = g[k - 1] \div 256
    BY <1>1, <2>2, Zenon
  <2> QED
    BY <1>2, <2>3
<1>4. g = Rest(g)
  BY <1>2, <1>3
<1>5. rest = Rest(rest)
  BY <1>4, Zenon
<1>6. shifted(width, value) = rest
  BY Zenon DEF shifted
<1> HIDE DEF rest
<1>7. rest[0] = value /\ \A k \in 1..width : rest[k] = rest[k - 1] \div 256
  BY <1>5
<1> DEFINE Natural == {k \in 0..width : rest[k] \in Nat}
<1>8. 0..width \subseteq Natural
  <2>1. 0 \in Natural
    BY <1>7
  <2>2. ASSUME NEW k \in 0..(width - 1), k \in Natural
        PROVE  k + 1 \in Natural
    <3>1. k + 1 \in 1..width /\ k + 1 \in 0..width /\ (k + 1) - 1 = k /\ rest[k] \in Nat
      BY <2>2
    <3>2. rest[k + 1] = rest[k] \div 256
      BY <1>7, <3>1
    <3>3. rest[k + 1] \in Nat
      BY <3>1, <3>2, ByteShift
    <3> QED
      BY <3>1, <3>3
  <2> HIDE DEF Natural
  <2> QED
    BY <2>1, <2>2, IntervalInduction
<1>9. rest \in [0..width -> Nat]
  BY <1>5, <1>8
<1> QED
  BY <1>6, <1>7, <1>9 DEF Shifts

\* Nothing is left of a number of which nothing was left before.
LEMMA ShiftedZero ==
  ASSUME NEW value \in Nat, NEW width \in Nat, NEW j \in 0..width, shifted(width, value)[j] = 0
  PROVE  \A k \in j..width : shifted(width, value)[k] = 0
<1> DEFINE rest == shifted(width, value)
           Zero == {k \in 0..(width - j) : rest[j + k] = 0}
<1>1. \A k \in 1..width : rest[k] = rest[k - 1] \div 256
  <2>1. Shifts(rest, width, value)
    BY Shifted
  <2> QED
    BY <2>1 DEF Shifts
<1> HIDE DEF rest
<1>2. 0 \in Zero
  BY DEF rest
<1>3. ASSUME NEW k \in 0..((width - j) - 1), k \in Zero
      PROVE  k + 1 \in Zero
  <2>1. j + (k + 1) \in 1..width /\ (j + (k + 1)) - 1 = j + k /\ k + 1 \in 0..(width - j)
    OBVIOUS
  <2>2. rest[j + (k + 1)] = 0
    BY <1>1, <1>3, <2>1
  <2> QED
    BY <2>1, <2>2
<1>4. width - j \in Nat
  OBVIOUS
<1> HIDE DEF Zero
<1>5. 0..(width - j) \subseteq Zero
  BY <1>2, <1>3, <1>4, IntervalInduction
<1>6. ASSUME NEW k \in j..width
      PROVE  rest[k] = 0
  <2>1. k - j \in 0..(width - j) /\ j + (k - j) = k
    OBVIOUS
  <2> QED
    BY <1>5, <2>1 DEF Zero
<1> QED
  BY <1>6 DEF rest

\* Dropping bytes keeps numbers in order.
LEMMA ShiftedOrder ==
  ASSUME NEW x \in Nat, NEW y \in Nat, x <= y, NEW width \in Nat
  PROVE  \A k \in 0..width : shifted(width, x)[k] <= shifted(width, y)[k]
<1> DEFINE a == shifted(width, x)
           b == shifted(width, y)
           InOrder == {k \in 0..width : a[k] <= b[k]}
<1>1. /\ a \in [0..width -> Nat] /\ a[0] = x /\ \A k \in 1..width : a[k] = a[k - 1] \div 256
      /\ b \in [0..width -> Nat] /\ b[0] = y /\ \A k \in 1..width : b[k] = b[k - 1] \div 256
  <2>1. Shifts(a, width, x) /\ Shifts(b, width, y)
    BY Shifted
  <2> QED
    BY <2>1 DEF Shifts
<1> HIDE DEF a, b
<1>2. 0 \in InOrder
  BY <1>1
<1>3. ASSUME NEW k \in 0..(width - 1), k \in InOrder
      PROVE  k + 1 \in InOrder
  <2>1. k \in 0..width /\ k + 1 \in 1..width /\ k + 1 \in 0..width /\ (k + 1) - 1 = k
    OBVIOUS
  <2>2. a[k] \in Nat /\ b[k] \in Nat /\ a[k] <= b[k]
    BY <1>1, <1>3, <2>1
  <2>3. a[k + 1] = a[k] \div 256 /\ b[k + 1] = b[k] \div 256
    BY <1>1, <2>1
  <2>4. \A m, n \in Nat : m <= n => m \div 256 <= n \div 256
    BY SMT
  <2>5. a[k + 1] <= b[k + 1]
    BY <2>2, <2>3, <2>4
  <2> QED
    BY <2>1, <2>5
<1> HIDE DEF InOrder
<1>4. 0..width \subseteq InOrder
  BY <1>2, <1>3, IntervalInduction
<1> QED
  BY <1>4 DEF InOrder, a, b

\* The number that the first bytes of a string are, for each of its beginnings.
Loads(number, data) ==
  /\ number \in [0..Len(data) -> Nat] /\ number[0] = 0
  /\ \A i \in 1..Len(data) : number[i] = 256 * number[i - 1] + data[i]

\* The first byte read is the number so far.
LEMMA FirstByte ==
  \A byte \in Byte : 256 * 0 + byte = byte
BY SMT DEF Byte

\* load_big goes through the bytes of a number from the highest on.
LEMMA Loaded ==
  ASSUME NEW data \in Seq(Byte)
  PROVE  \E number : Loads(number, data) /\ load_big(data) = number[Len(data)]
<1> DEFINE size == Len(data)
           next == [p \in (1..size) \X Nat |-> 256 * p[2] + data[p[1]]]
           Number(g) == [i \in 0..Len(data) |-> IF i = 0 THEN 0 ELSE 256 * g[i - 1] + data[i]]
           number == CHOOSE g : g = Number(g)
<1>1. size \in Nat /\ \A i \in 1..size : data[i] \in Byte
  OBVIOUS
<1>2. /\ next \in [(1..size) \X Nat -> Nat]
      /\ \A i \in 1..size : \A x \in Nat : next[<<i, x>>] = 256 * x + data[i]
  <2>1. \A p \in (1..size) \X Nat : 256 * p[2] + data[p[1]] \in Nat
    BY <1>1, ByteAppended
  <2>2. ASSUME NEW i \in 1..size, NEW x \in Nat
        PROVE  next[<<i, x>>] = 256 * x + data[i]
    <3>1. <<i, x>> \in (1..size) \X Nat /\ <<i, x>>[1] = i /\ <<i, x>>[2] = x
      OBVIOUS
    <3> QED
      BY <3>1, Zenon
  <2> QED
    BY <2>1, <2>2
<1> HIDE DEF next
<1>3. PICK g \in [0..size -> Nat] : g[0] = 0 /\ \A i \in 1..size : g[i] = next[<<i, g[i - 1]>>]
  <2> HIDE DEF size
  <2>1. \E g : Iterates(g, Nat, 0, size, next)
    BY <1>1, <1>2, IterationExists
  <2> QED
    BY <2>1 DEF Iterates
<1>4. ASSUME NEW i \in 1..size
      PROVE  g[i] = 256 * g[i - 1] + data[i]
  <2>1. i - 1 \in 0..size
    OBVIOUS
  <2>2. g[i - 1] \in Nat
    BY <1>3, <2>1
  <2>3. next[<<i, g[i - 1]>>] = 256 * g[i - 1] + data[i]
    BY <1>2, <2>2, Zenon
  <2> QED
    BY <1>3, <2>3
<1>5. g = Number(g)
  BY <1>3, <1>4
<1>6. number = Number(number)
  BY <1>5, Zenon
<1>7. load_big(data) = number[Len(data)]
  BY Zenon DEF load_big
<1> HIDE DEF number
<1>8. number[0] = 0 /\ \A i \in 1..size : number[i] = 256 * number[i - 1] + data[i]
  BY <1>6
<1> DEFINE Natural == {i \in 0..size : number[i] \in Nat}
<1>9. 0..size \subseteq Natural
  <2>1. 0 \in Natural
    BY <1>8
  <2>2. ASSUME NEW i \in 0..(size - 1), i \in Natural
        PROVE  i + 1 \in Natural
    <3>1. i + 1 \in 1..size /\ i + 1 \in 0..size /\ (i + 1) - 1 = i /\ number[i] \in Nat
      BY <2>2
    <3>2. number[i + 1] = 256 * number[i] + data[i + 1] /\ data[i + 1] \in Byte
      BY <1>1, <1>8, <3>1
    <3>3. \A n \in Nat : \A byte \in Byte : 256 * n + byte \in Nat
      BY ByteAppended
    <3>4. number[i + 1] \in Nat
      BY <3>1, <3>2, <3>3
    <3> QED
      BY <3>1, <3>4
  <2> HIDE DEF Natural, size
  <2> QED
    BY <1>1, <2>1, <2>2, IntervalInduction
<1>10. number \in [0..size -> Nat]
  BY <1>6, <1>9
<1>11. Loads(number, data)
  BY <1>8, <1>10 DEF Loads
<1> QED
  BY <1>7, <1>11

-----------------------------------------------------------------------------
(* The compact form of the numbers of 64 bits.                             *)

\* The least element of a set of numbers.
LEMMA MinIs ==
  ASSUME NEW S, NEW least \in S, S \subseteq Int, \A x \in S : least <= x
  PROVE  Min(S) = least
<1>1. \A y \in S : least <= y
  OBVIOUS
<1>2. Min(S) \in S /\ \A y \in S : Min(S) <= y
  BY <1>1 DEF Min
<1>3. Min(S) <= least /\ least <= Min(S) /\ Min(S) \in Int /\ least \in Int
  BY <1>2
<1> QED
  BY <1>3

\* What is left of a string without the zeros on the left.
LEMMA ZerolessTail ==
  ASSUME NEW s \in Seq(Nat), NEW k \in 1..Len(s), s[k] # 0, \A i \in 1..(k - 1) : s[i] = 0
  PROVE  zeroless_view(s) = SubSeq(s, k, Len(s))
<1> DEFINE NonZero == {i \in 1..Len(s) : s[i] # 0}
<1>1. k \in NonZero /\ NonZero \subseteq Int /\ \A x \in NonZero : k <= x
  OBVIOUS
<1>2. Min(NonZero) = k /\ NonZero # {}
  BY <1>1, MinIs
<1>3. zeroless_view(s) =
        LET first == IF NonZero # {} THEN Min(NonZero) ELSE 0
        IN  IF first = 0 THEN <<>> ELSE SubSeq(s, first, Len(s))
  BY DEF zeroless_view, SelectInSeq
<1> HIDE DEF NonZero
<1>4. k # 0
  OBVIOUS
<1> QED
  BY <1>2, <1>3, <1>4

\* The eight bytes of a number.
LEMMA FullBytes ==
  ASSUME NEW n \in Nat
  PROVE  /\ full_be(n) \in Seq(Byte) /\ full_be(n) \in Seq(Nat) /\ Len(full_be(n)) = 8
         /\ \A i \in 1..8 : full_be(n)[i] = shifted(8, n)[8 - i] % 256
<1> DEFINE rest == shifted(8, n)
           s == full_be(n)
<1>1. rest \in [0..8 -> Nat]
  <2>1. Shifts(rest, 8, n)
    BY Shifted
  <2> QED
    BY <2>1 DEF Shifts
<1>2. s = [i \in 1..8 |-> rest[8 - i] % 256]
  BY DEF full_be, store_big
<1> HIDE DEF rest, s
<1>3. ASSUME NEW i \in 1..8
      PROVE  s[i] = rest[8 - i] % 256 /\ s[i] \in Byte
  <2>1. 8 - i \in 0..8
    OBVIOUS
  <2>2. rest[8 - i] \in Nat
    BY <1>1, <2>1
  <2>3. rest[8 - i] % 256 \in Byte
    BY <2>2, ByteShift
  <2> QED
    BY <1>2, <2>3
<1>4. s \in Seq(Byte) /\ Len(s) = 8
  <2>1. s \in [1..8 -> Byte] /\ 8 \in Nat
    BY <1>2, <1>3
  <2>2. s \in Seq(Byte)
    BY <2>1, Zenon, SeqDef
  <2>3. Len(s) = 8
    BY <2>1, <2>2, LenProperties
  <2> QED
    BY <2>2, <2>3
<1>5. Byte \subseteq Nat
  BY SMT DEF Byte
<1>6. s \in Seq(Nat)
  BY <1>4, <1>5, SeqMonotonic
<1> QED
  BY <1>3, <1>4, <1>6 DEF rest, s

\* The compact form of a number has no leading zero, and its bytes are those of the
\* number.
LEMMA CompactForm ==
  ASSUME NEW n \in Uint64
  PROVE  LET c == to_big_compact(n)
         IN  /\ c \in Seq(Byte) /\ Len(c) \in 0..8
             /\ n = 0 <=> c = <<>>
             /\ c # <<>> => c[1] # 0
             /\ shifted(8, n)[Len(c)] = 0
             /\ \A k \in 0..(Len(c) - 1) : shifted(8, n)[k] # 0
             /\ \A i \in 1..Len(c) : c[i] = shifted(8, n)[Len(c) - i] % 256
             /\ c = SubSeq(full_be(n), 8 - Len(c) + 1, 8)
<1> DEFINE rest == shifted(8, n)
           c == to_big_compact(n)
           s == full_be(n)
<1>1. n \in Nat /\ rest[8] = 0
  BY DEF Uint64
<1>2. rest \in [0..8 -> Nat] /\ rest[0] = n /\ \A k \in 1..8 : rest[k] = rest[k - 1] \div 256
  <2>1. Shifts(rest, 8, n)
    BY <1>1, Shifted
  <2> QED
    BY <2>1 DEF Shifts
<1>3. /\ s \in Seq(Byte) /\ s \in Seq(Nat) /\ Len(s) = 8
      /\ \A i \in 1..8 : s[i] = rest[8 - i] % 256
  BY <1>1, FullBytes
<1>4. \A j \in 0..8 : rest[j] = 0 => \A k \in j..8 : rest[k] = 0
  BY <1>1, ShiftedZero
<1>5. c = IF n = 0 THEN <<>> ELSE zeroless_view(s)
  BY DEF to_big_compact
<1> HIDE DEF rest, s, c
<1>6. CASE n = 0
  <2>1. c = <<>> /\ Len(c) = 0
    BY <1>5, <1>6
  <2>2. SubSeq(s, 8 - Len(c) + 1, 8) = <<>>
    BY <1>3, <2>1
  <2>3. rest[Len(c)] = 0
    BY <1>2, <1>6, <2>1
  <2>4. c \in Seq(Byte) /\ Len(c) \in 0..8
    BY <2>1
  <2>5. \A k \in 0..(Len(c) - 1) : rest[k] # 0
    BY <2>1
  <2>6. \A i \in 1..Len(c) : c[i] = rest[Len(c) - i] % 256
    BY <2>1
  <2> QED
    BY <1>6, <2>1, <2>2, <2>3, <2>4, <2>5, <2>6 DEF rest, s, c
<1>7. CASE n # 0
  <2> DEFINE Zero == {k \in 0..8 : rest[k] = 0}
  <2>1. PICK m \in Zero : \A k \in Zero : m <= k
    <3>1. 8 \in Zero /\ Zero \subseteq Nat
      BY <1>1 DEF rest
    <3> QED
      BY <3>1, LeastNatural
  <2>2. m \in 1..8 /\ rest[m] = 0 /\ \A k \in 0..(m - 1) : rest[k] # 0
    <3>1. m # 0
      BY <1>2, <1>7, <2>1
    <3> QED
      BY <2>1, <3>1
  <2> HIDE DEF Zero
  <2>3. 9 - m \in 1..Len(s) /\ s[9 - m] # 0
    <3>1. 9 - m \in 1..8 /\ 8 - (9 - m) = m - 1 /\ m - 1 \in 0..8 /\ m - 1 \in 0..(m - 1)
      BY <2>2
    <3>2. rest[m - 1] \in Nat /\ rest[m - 1] # 0 /\ rest[m - 1] \div 256 = 0
      BY <1>2, <2>2, <3>1
    <3>3. rest[m - 1] % 256 # 0
      BY <3>2, ByteShift
    <3> QED
      BY <1>3, <3>1, <3>3
  <2>4. \A i \in 1..((9 - m) - 1) : s[i] = 0
    <3> SUFFICES ASSUME NEW i \in 1..((9 - m) - 1)
                 PROVE  s[i] = 0
      OBVIOUS
    <3>1. m \in 0..8 /\ 8 - i \in m..8 /\ i \in 1..8
      BY <2>2
    <3>2. rest[8 - i] = 0
      BY <1>4, <2>2, <3>1
    <3>3. 0 % 256 = 0
      BY SMT
    <3> QED
      BY <1>3, <3>1, <3>2, <3>3
  <2>5. c = SubSeq(s, 9 - m, 8)
    BY <1>3, <1>5, <1>7, <2>3, <2>4, ZerolessTail
  <2>6. c \in Seq(Byte) /\ Len(c) = m /\ \A i \in 1..m : c[i] = s[(9 - m) + i - 1]
    <3> DEFINE f == 9 - m
    <3>1. f \in 1..8 /\ 8 - f + 1 = m
      BY <2>2
    <3> HIDE DEF f
    <3>2. /\ SubSeq(s, f, 8) \in Seq(Byte) /\ Len(SubSeq(s, f, 8)) = 8 - f + 1
          /\ \A i \in 1..(8 - f + 1) : SubSeq(s, f, 8)[i] = s[f + i - 1]
      <4>0. \A i \in f..8 : i \in 1..Len(s)
        BY <1>3, <3>1
      <4>1. f \in Int /\ 8 \in Int /\ f <= 8 /\ \A i \in f..8 : s[i] \in Byte
        <5>1. \A i \in f..8 : s[i] \in Byte
          BY <1>3, <4>0, ElementOfSeq
        <5> QED
          BY <3>1, <5>1
      <4> DEFINE last == SubSeq(s, f, 8)
      <4>2. last \in Seq(Byte)
        BY <4>1, SubSeqProperties
      <4>3. Len(last) = IF f <= 8 THEN 8 - f + 1 ELSE 0
        BY <4>1, SubSeqProperties
      <4>4. \A i \in 1..(8 - f + 1) : last[i] = s[f + i - 1]
        BY <4>1, SubSeqProperties
      <4> HIDE DEF last
      <4> QED
        BY <4>1, <4>2, <4>3, <4>4 DEF last
    <3> QED
      BY <2>5, <3>1, <3>2 DEF f
  <2>7. \A i \in 1..m : c[i] = rest[m - i] % 256
    <3> SUFFICES ASSUME NEW i \in 1..m
                 PROVE  c[i] = rest[m - i] % 256
      OBVIOUS
    <3>1. (9 - m) + i - 1 \in 1..8 /\ 8 - ((9 - m) + i - 1) = m - i
      BY <2>2
    <3> QED
      BY <1>3, <2>6, <3>1
  <2>8. c # <<>> /\ c[1] # 0
    <3>1. c[1] = s[9 - m]
      BY <2>2, <2>6
    <3> QED
      BY <2>2, <2>3, <2>6, <3>1
  <2>9. 8 - m + 1 = 9 - m
    BY <2>2
  <2> QED
    BY <1>7, <2>2, <2>5, <2>6, <2>7, <2>8, <2>9 DEF rest, s, c
<1> QED
  BY <1>6, <1>7

\* A number is read back from its compact form.
LEMMA CompactIsRead ==
  ASSUME NEW n \in Uint64
  PROVE  load_big(to_big_compact(n)) = n
<1> DEFINE rest == shifted(8, n)
           c == to_big_compact(n)
<1>1. /\ c \in Seq(Byte) /\ Len(c) \in 0..8 /\ rest[Len(c)] = 0
      /\ \A i \in 1..Len(c) : c[i] = rest[Len(c) - i] % 256
  BY CompactForm
<1>2. rest \in [0..8 -> Nat] /\ rest[0] = n /\ \A k \in 1..8 : rest[k] = rest[k - 1] \div 256
  <2>1. Shifts(rest, 8, n)
    BY Shifted DEF Uint64
  <2> QED
    BY <2>1 DEF Shifts
<1> HIDE DEF rest, c
<1>3. PICK number : Loads(number, c) /\ load_big(c) = number[Len(c)]
  BY <1>1, Loaded
<1> DEFINE size == Len(c)
           Same == {i \in 0..size : number[i] = rest[size - i]}
<1>4. size \in 0..8 /\ size \in Nat
  BY <1>1
<1>5. 0 \in Same
  BY <1>1, <1>3, <1>4 DEF Loads
<1>a. /\ \A i \in 1..size : number[i] = 256 * number[i - 1] + c[i]
      /\ \A i \in 1..size : c[i] = rest[size - i] % 256
  BY <1>1, <1>3 DEF Loads
<1> HIDE DEF size
<1>6. ASSUME NEW i \in 0..(size - 1), i \in Same
      PROVE  i + 1 \in Same
  <2> DEFINE j == size - (i + 1)
  <2>1. /\ i + 1 \in 1..size /\ i + 1 \in 0..size /\ (i + 1) - 1 = i
        /\ j \in 0..8 /\ j + 1 \in 1..8 /\ (j + 1) - 1 = j /\ size - i = j + 1
    BY <1>4
  <2>2. number[i] = rest[size - i]
    BY <1>6
  <2>3. number[i + 1] = 256 * number[i] + c[i + 1] /\ c[i + 1] = rest[j] % 256
    BY <1>a, <2>1, Zenon
  <2> HIDE DEF j
  <2>4. rest[j] \in Nat /\ rest[j + 1] = rest[j] \div 256
    BY <1>2, <2>1
  <2>5. rest[j] = 256 * (rest[j] \div 256) + (rest[j] % 256)
    BY <2>4, ByteShift
  <2>6. number[i + 1] = rest[j]
    BY <2>1, <2>2, <2>3, <2>4, <2>5
  <2> QED
    BY <2>1, <2>6 DEF j
<1> HIDE DEF Same
<1>7. 0..size \subseteq Same
  BY <1>4, <1>5, <1>6, IntervalInduction
<1>8. size \in 0..size /\ size - size = 0
  BY <1>4
<1>9. number[size] = rest[0]
  BY <1>7, <1>8 DEF Same
<1> QED
  BY <1>2, <1>3, <1>9 DEF size, c

\* Every string of at most eight bytes without a leading zero is the compact form of the
\* number it is read as.
LEMMA ReadIsCompact ==
  ASSUME NEW data \in Seq(Byte), Len(data) <= 8, data # <<>> => data[1] # 0
  PROVE  load_big(data) \in Uint64 /\ to_big_compact(load_big(data)) = data
<1> DEFINE n == load_big(data)
           size == Len(data)
           rest == shifted(8, n)
           c == to_big_compact(n)
<1>1. PICK number : Loads(number, data) /\ n = number[size]
  BY Loaded
<1>2. /\ size \in Nat /\ size \in 0..8 /\ number \in [0..size -> Nat] /\ number[0] = 0
      /\ \A i \in 1..size : number[i] = 256 * number[i - 1] + data[i] /\ data[i] \in Byte
  <2>1. size \in Nat /\ size \in 0..8 /\ \A i \in 1..size : data[i] \in Byte
    <3>1. size \in Nat
      BY LenProperties
    <3>2. \A i \in 1..size : data[i] \in Byte
      BY ElementOfSeq
    <3>3. size \in 0..8
      <4>1. size <= 8
        OBVIOUS
      <4> HIDE DEF size
      <4> QED
        BY <3>1, <4>1
    <3> QED
      BY <3>1, <3>2, <3>3
  <2>2. /\ number \in [0..size -> Nat] /\ number[0] = 0
        /\ \A i \in 1..size : number[i] = 256 * number[i - 1] + data[i]
    BY <1>1 DEF Loads
  <2> QED
    BY <2>1, <2>2
<1>3. n \in Nat
  BY <1>1, <1>2
<1> HIDE DEF n
<1>4. rest[0] = n /\ \A k \in 1..8 : rest[k] = rest[k - 1] \div 256
  <2>1. Shifts(rest, 8, n)
    BY <1>3, Shifted
  <2> QED
    BY <2>1 DEF Shifts
<1>5. \A j \in 0..8 : rest[j] = 0 => \A k \in j..8 : rest[k] = 0
  BY <1>3, ShiftedZero
<1> HIDE DEF rest, c
<1> DEFINE Same == {k \in 0..size : rest[k] = number[size - k]}
<1>6. 0..size \subseteq Same
  <2>1. 0 \in Same
    BY <1>1, <1>2, <1>4
  <2>2. ASSUME NEW k \in 0..(size - 1), k \in Same
        PROVE  k + 1 \in Same
    <3>1. /\ k + 1 \in 1..8 /\ k + 1 \in 0..size /\ (k + 1) - 1 = k
          /\ size - k \in 1..size /\ (size - k) - 1 = size - (k + 1) /\ size - (k + 1) \in 0..size
      BY <1>2
    <3>2. /\ number[size - k] = 256 * number[size - (k + 1)] + data[size - k]
          /\ number[size - (k + 1)] \in Nat /\ data[size - k] \in Byte
      BY <1>2, <3>1
    <3>3. rest[k + 1] = number[size - k] \div 256
      <4>1. rest[k] = number[size - k]
        BY <2>2
      <4>2. rest[k + 1] = rest[k] \div 256
        BY <1>4, <3>1, Zenon
      <4> QED
        BY <4>1, <4>2
    <3>4. rest[k + 1] = number[size - (k + 1)]
      <4>1. \A m \in Nat : \A byte \in Byte : (256 * m + byte) \div 256 = m
        BY ByteAppended
      <4> DEFINE m == number[size - (k + 1)]
                 byte == data[size - k]
      <4>2. m \in Nat /\ byte \in Byte /\ rest[k + 1] = (256 * m + byte) \div 256
        BY <3>2, <3>3
      <4> HIDE DEF m, byte
      <4>3. rest[k + 1] = m
        BY <4>1, <4>2
      <4> QED
        BY <4>3 DEF m
    <3> QED
      BY <3>1, <3>4
  <2> HIDE DEF Same, size
  <2> QED
    BY <1>2, <2>1, <2>2, IntervalInduction
<1>7. \A k \in 0..size : rest[k] = number[size - k]
  BY <1>6
<1> HIDE DEF Same
<1>8. rest[size] = 0 /\ rest[8] = 0
  <2>1. size \in 0..size /\ size - size = 0 /\ 8 \in size..8
    BY <1>2
  <2>2. rest[size] = 0
    BY <1>2, <1>7, <2>1
  <2> QED
    BY <1>2, <1>5, <2>1, <2>2
<1>9. n \in Uint64
  BY <1>3, <1>8 DEF Uint64, rest
<1>10. \A k \in 0..(size - 1) : rest[k] # 0
  <2> SUFFICES ASSUME NEW k \in 0..(size - 1), rest[k] = 0
               PROVE  FALSE
    OBVIOUS
  <2>1. /\ k \in 0..8 /\ size - 1 \in k..8 /\ size - 1 \in 0..size /\ size - (size - 1) = 1
        /\ 1 \in 1..size /\ data # <<>>
    BY <1>2
  <2>2. rest[size - 1] = 0 /\ rest[size - 1] = number[1]
    BY <1>5, <1>7, <2>1
  <2>3. number[1] = 256 * number[1 - 1] + data[1] /\ data[1] \in Byte /\ number[1 - 1] = 0
    BY <1>2, <2>1
  <2>4. number[1] = data[1]
    BY <2>3, FirstByte
  <2> QED
    BY <2>1, <2>2, <2>4
<1>11. /\ c \in Seq(Byte) /\ Len(c) \in 0..8 /\ rest[Len(c)] = 0
       /\ \A k \in 0..(Len(c) - 1) : rest[k] # 0
       /\ \A i \in 1..Len(c) : c[i] = rest[Len(c) - i] % 256
  BY <1>9, CompactForm DEF rest, c
<1>12. Len(c) = size
  <2>1. ~(size < Len(c))
    <3>1. size < Len(c) => size \in 0..(Len(c) - 1)
      BY <1>2, <1>11
    <3> QED
      BY <1>8, <1>11, <3>1
  <2>2. ~(Len(c) < size)
    <3>1. Len(c) < size => Len(c) \in 0..(size - 1)
      BY <1>2, <1>11
    <3> QED
      BY <1>10, <1>11, <3>1
  <2> QED
    BY <1>2, <1>11, <2>1, <2>2
<1>13. ASSUME NEW i \in 1..size
       PROVE  c[i] = data[i]
  <2>1. size - i \in 0..size /\ size - (size - i) = i /\ i - 1 \in 0..size
    BY <1>2
  <2>2. c[i] = number[i] % 256
    BY <1>7, <1>11, <1>12, <2>1
  <2>3. number[i] = 256 * number[i - 1] + data[i] /\ number[i - 1] \in Nat /\ data[i] \in Byte
    BY <1>2, <2>1
  <2>4. (256 * number[i - 1] + data[i]) % 256 = data[i]
    <3>1. \A m \in Nat : \A byte \in Byte : (256 * m + byte) % 256 = byte
      BY ByteAppended
    <3> QED
      BY <2>3, <3>1
  <2> QED
    BY <2>2, <2>3, <2>4
<1>14. c = data
  BY <1>11, <1>12, <1>13, SeqEqual
<1> QED
  BY <1>9, <1>14 DEF n, c

\* What is below a number of 64 bits is one.
LEMMA UintBelow ==
  ASSUME NEW y \in Uint64, NEW x \in Nat, x <= y
  PROVE  x \in Uint64
<1>1. y \in Nat /\ shifted(8, y)[8] = 0
  BY DEF Uint64
<1>2. shifted(8, x)[8] <= 0
  BY <1>1, ShiftedOrder
<1>3. shifted(8, x)[8] \in Nat
  <2>1. Shifts(shifted(8, x), 8, x)
    BY Shifted
  <2> QED
    BY <2>1 DEF Shifts
<1>4. shifted(8, x)[8] = 0
  BY <1>2, <1>3
<1> QED
  BY <1>4 DEF Uint64

\* A byte is its own compact form.
LEMMA CompactByte ==
  ASSUME NEW byte \in Byte, byte # 0
  PROVE  byte \in Uint64 /\ to_big_compact(byte) = <<byte>>
<1>1. <<byte>> \in Seq(Byte) /\ Len(<<byte>>) = 1 /\ <<byte>>[1] = byte
  OBVIOUS
<1>2. PICK number : Loads(number, <<byte>>) /\ load_big(<<byte>>) = number[Len(<<byte>>)]
  BY <1>1, Loaded
<1>3. number[1] = 256 * number[1 - 1] + byte /\ number[1 - 1] = 0
  BY <1>1, <1>2 DEF Loads
<1>4. load_big(<<byte>>) = byte
  <2>1. number[1] = byte
    BY <1>3, FirstByte
  <2> QED
    BY <1>1, <1>2, <2>1
<1>5. load_big(<<byte>>) \in Uint64 /\ to_big_compact(load_big(<<byte>>)) = <<byte>>
  <2>1. Len(<<byte>>) <= 8 /\ (<<byte>> # <<>> => <<byte>>[1] # 0)
    OBVIOUS
  <2> DEFINE single == <<byte>>
  <2>2. single \in Seq(Byte) /\ Len(single) <= 8 /\ (single # <<>> => single[1] # 0)
    BY <1>1, <2>1
  <2> HIDE DEF single
  <2>3. load_big(single) \in Uint64 /\ to_big_compact(load_big(single)) = single
    BY <2>2, ReadIsCompact
  <2> QED
    BY <2>3 DEF single
<1> QED
  BY <1>4, <1>5, Zenon

\* The compact forms of two numbers are in the order of the numbers: a shorter one comes
\* first, and of two of the same length the one that is smaller where they first differ.
LEMMA CompactOrder ==
  ASSUME NEW x \in Uint64, NEW y \in Uint64, x < y
  PROVE  LET a == to_big_compact(x)
             b == to_big_compact(y)
         IN  /\ Len(a) <= Len(b)
             /\ Len(a) = Len(b) =>
                  \E d \in 1..Len(a) : (\A i \in 1..(d - 1) : a[i] = b[i]) /\ a[d] < b[d]
<1> DEFINE a == to_big_compact(x)
           b == to_big_compact(y)
           s == shifted(8, x)
           t == shifted(8, y)
<1>1. x \in Nat /\ y \in Nat /\ x <= y
  BY DEF Uint64
<1>2. /\ s \in [0..8 -> Nat] /\ s[0] = x /\ \A k \in 1..8 : s[k] = s[k - 1] \div 256
      /\ t \in [0..8 -> Nat] /\ t[0] = y /\ \A k \in 1..8 : t[k] = t[k - 1] \div 256
  <2>1. Shifts(s, 8, x) /\ Shifts(t, 8, y)
    BY <1>1, Shifted
  <2> QED
    BY <2>1 DEF Shifts
<1>3. \A k \in 0..8 : s[k] <= t[k]
  BY <1>1, ShiftedOrder
<1>4. /\ a \in Seq(Byte) /\ Len(a) \in 0..8 /\ s[Len(a)] = 0
      /\ \A k \in 0..(Len(a) - 1) : s[k] # 0
      /\ \A i \in 1..Len(a) : a[i] = s[Len(a) - i] % 256
  BY CompactForm
<1>5. /\ b \in Seq(Byte) /\ Len(b) \in 0..8 /\ t[Len(b)] = 0
      /\ \A i \in 1..Len(b) : b[i] = t[Len(b) - i] % 256
  BY CompactForm
<1> HIDE DEF a, b, s, t
<1>6. Len(a) <= Len(b)
  <2> SUFFICES ASSUME Len(b) < Len(a)
               PROVE  FALSE
    BY <1>4, <1>5
  <2>1. Len(b) \in 0..(Len(a) - 1) /\ Len(b) \in 0..8
    BY <1>4, <1>5
  <2>2. s[Len(b)] \in Nat /\ s[Len(b)] <= 0
    BY <1>2, <1>3, <1>5, <2>1
  <2> QED
    BY <1>4, <2>1, <2>2
<1>7. ASSUME Len(a) = Len(b)
      PROVE  \E d \in 1..Len(a) : (\A i \in 1..(d - 1) : a[i] = b[i]) /\ a[d] < b[d]
  <2> DEFINE size == Len(a)
             Apart == {d \in 0..size : s[size - d] # t[size - d]}
  <2>1. size \in 0..8 /\ s[size] = 0 /\ t[size] = 0
    BY <1>4, <1>5, <1>7
  <2>2. /\ \A i \in 1..size : a[i] = s[size - i] % 256
        /\ \A i \in 1..size : b[i] = t[size - i] % 256
    BY <1>4, <1>5, <1>7
  <2> HIDE DEF size
  <2>3. size \in Apart
    <3>1. size \in 0..size /\ size - size = 0
      BY <2>1
    <3> QED
      BY <1>1, <1>2, <3>1
  <2>4. PICK d \in Apart : \A e \in Apart : d <= e
    <3>1. Apart \subseteq Nat
      BY <2>1
    <3> HIDE DEF Apart
    <3> QED
      BY <2>3, <3>1, LeastNatural
  <2>5. d \in 0..size /\ s[size - d] # t[size - d]
    BY <2>4
  <2>6. d \in 1..size
    <3>1. d # 0
      BY <2>1, <2>5
    <3> QED
      BY <2>1, <2>5, <3>1
  <2>7. \A i \in 0..(d - 1) : s[size - i] = t[size - i]
    <3> SUFFICES ASSUME NEW i \in 0..(d - 1), s[size - i] # t[size - i]
                 PROVE  FALSE
      OBVIOUS
    <3>1. i \in 0..size /\ ~(d <= i)
      BY <2>1, <2>6
    <3>2. i \in Apart
      BY <3>1
    <3> HIDE DEF Apart
    <3> QED
      BY <2>4, <3>1, <3>2
  <2> HIDE DEF Apart
  <2>8. \A i \in 1..(d - 1) : a[i] = b[i]
    <3> SUFFICES ASSUME NEW i \in 1..(d - 1)
                 PROVE  a[i] = b[i]
      OBVIOUS
    <3>1. i \in 0..(d - 1) /\ i \in 1..size
      BY <2>1, <2>6
    <3> QED
      BY <2>2, <2>7, <3>1
  <2>9. a[d] < b[d]
    <3> DEFINE k == size - d
    <3>1. k \in 0..8 /\ k + 1 \in 1..8 /\ (k + 1) - 1 = k /\ k + 1 = size - (d - 1) /\ d - 1 \in 0..(d - 1)
      BY <2>1, <2>6
    <3>2. a[d] = s[k] % 256 /\ b[d] = t[k] % 256 /\ s[k] # t[k]
      BY <2>2, <2>5, <2>6
    <3> HIDE DEF k
    <3>3. s[k + 1] = t[k + 1]
      BY <2>7, <3>1
    <3>4. s[k] \in Nat /\ t[k] \in Nat /\ s[k] <= t[k]
      BY <1>2, <1>3, <3>1
    <3>5. s[k] \div 256 = t[k] \div 256
      BY <1>2, <3>1, <3>3
    <3>6. \A m, n \in Nat : m < n /\ m \div 256 = n \div 256 => m % 256 < n % 256
      BY SMT
    <3>7. s[k] < t[k]
      BY <3>2, <3>4
    <3> QED
      BY <3>2, <3>4, <3>5, <3>6, <3>7
  <2> QED
    BY <2>6, <2>8, <2>9 DEF size
<1> QED
  BY <1>6, <1>7 DEF a, b
=============================================================================
