-------------------------- MODULE VectorRootProofs ---------------------------
(***************************************************************************)
(* Proofs about VectorIndex and VectorRoot, for vectors of any values and  *)
(* lengths of 64 bits: the loop of root_hash visits every index once, in   *)
(* the order of the keys, none of which is a prefix of another.  So it     *)
(* respects what HashBuilder asks of its client, the builder's invariants  *)
(* hold and none of its assertions fails.                                  *)
(***************************************************************************)
EXTENDS VectorRootTrie, HashBuilderRootProofs

-----------------------------------------------------------------------------
(* The order of the positions is that of the keys.                         *)

\* adjust_index_for_rlp is a permutation of the indices of a vector of any length: the
\* loop of root_hash adds each element exactly once.
THEOREM EveryIndexOnce ==
  ASSUME NEW size \in Nat
  PROVE  /\ \A i \in 0..(size - 1) : adjust_index_for_rlp(i, size) \in 0..(size - 1)
         /\ \A i, m \in 0..(size - 1) :
              adjust_index_for_rlp(i, size) = adjust_index_for_rlp(m, size) => i = m
         /\ \A k \in 0..(size - 1) : \E i \in 0..(size - 1) : adjust_index_for_rlp(i, size) = k
<1>1. \A i \in 0..(size - 1) : adjust_index_for_rlp(i, size) \in 0..(size - 1)
  BY SMT DEF adjust_index_for_rlp
<1>2. \A i, m \in 0..(size - 1) :
        adjust_index_for_rlp(i, size) = adjust_index_for_rlp(m, size) => i = m
  BY SMT DEF adjust_index_for_rlp
<1>3. ASSUME NEW k \in 0..(size - 1)
      PROVE  \E i \in 0..(size - 1) : adjust_index_for_rlp(i, size) = k
  <2>1. CASE k > 127
    <3>1. adjust_index_for_rlp(k, size) = k
      BY <2>1, SMT DEF adjust_index_for_rlp
    <3> QED
      BY <3>1
  <2>2. CASE k \in 1..127
    <3>1. k - 1 \in 0..(size - 1) /\ adjust_index_for_rlp(k - 1, size) = k
      BY <2>2, SMT DEF adjust_index_for_rlp
    <3> QED
      BY <3>1
  <2>3. CASE k = 0 /\ size > 127
    <3>1. 127 \in 0..(size - 1) /\ adjust_index_for_rlp(127, size) = k
      BY <2>3, SMT DEF adjust_index_for_rlp
    <3> QED
      BY <3>1, SMT
  <2>4. CASE k = 0 /\ ~(size > 127)
    <3>1. size - 1 \in 0..(size - 1) /\ adjust_index_for_rlp(size - 1, size) = k
      BY <2>4, SMT DEF adjust_index_for_rlp
    <3> QED
      BY <3>1
  <2> QED
    BY <2>1, <2>2, <2>3, <2>4, SMT
<1> QED
  BY <1>1, <1>2, <1>3

-----------------------------------------------------------------------------
(* The encodings of the indices.                                           *)

\* The encoding of an index.
Encoding(n) ==
  IF n = 0 THEN <<128>>
  ELSE IF n < 128 THEN <<n>>
  ELSE <<128 + Len(to_big_compact(n))>> \o to_big_compact(n)

\* What encode appends to the key is this encoding.
LEMMA IndexBytes ==
  ASSUME NEW n \in Uint64
  PROVE  BytesOf(encode_uint(n)) = Encoding(n)
<1>1. to_big_compact(0) = <<>>
  BY DEF to_big_compact
<1>2. n \in Nat
  BY DEF Uint64
<1>3. CASE n < 128
  <2>1. encode_uint(n) = [bytes |-> IF n = 0 THEN <<128>> ELSE <<n>>, number |-> 0]
    BY <1>2, <1>3, SMT DEF encode_uint, Chunk, kEmptyStringCode
  <2>2. BytesOf(encode_uint(n)) = (IF n = 0 THEN <<128>> ELSE <<n>>) \o <<>>
    BY <1>1, <2>1, SMT DEF BytesOf
  <2> QED
    BY <1>3, <2>2, SMT DEF Encoding
<1>4. CASE ~(n < 128)
  <2>1. encode_uint(n) = [bytes |-> <<128 + Len(to_big_compact(n))>>, number |-> n]
    BY <1>2, <1>4, SMT DEF encode_uint, kEmptyStringCode
  <2>2. BytesOf(encode_uint(n)) = <<128 + Len(to_big_compact(n))>> \o to_big_compact(n)
    BY <2>1, SMT DEF BytesOf
  <2> QED
    BY <1>2, <1>4, <2>2, SMT DEF Encoding
<1> QED
  BY <1>3, <1>4

\* An encoding is a string of bytes: a byte that says how many follow, or what they are.
LEMMA EncodingPlaces ==
  ASSUME NEW n \in Uint64
  PROVE  /\ n \in Nat /\ Encoding(n) \in Seq(Byte) /\ Encoding(n) \in Seq(Nat)
         /\ Len(Encoding(n)) > 0
         /\ n = 0 => Encoding(n)[1] = 128
         /\ n # 0 /\ n < 128 => Encoding(n)[1] = n
         /\ n > 127 => LET c == to_big_compact(n)
                       IN  /\ Len(c) \in 1..8 /\ Len(Encoding(n)) = Len(c) + 1
                           /\ Encoding(n)[1] = 128 + Len(c)
                           /\ \A i \in 1..Len(c) : Encoding(n)[i + 1] = c[i]
<1>1. n \in Nat
  BY DEF Uint64
<1>2. Byte \subseteq Nat
  BY SMT DEF Byte
<1>3. \A k \in Nat : k < 256 => k \in Byte
  BY SMT DEF Byte
<1>4. CASE n < 128
  <2>1. PICK byte \in Byte : byte = IF n = 0 THEN 128 ELSE n
    <3>1. (IF n = 0 THEN 128 ELSE n) \in Nat /\ (IF n = 0 THEN 128 ELSE n) < 256
      BY <1>1, <1>4
    <3> QED
      BY <1>3, <3>1
  <2>2. Encoding(n) = <<byte>>
    BY <1>4, <2>1 DEF Encoding
  <2>3. <<byte>> \in Seq(Byte) /\ <<byte>> \in Seq(Nat) /\ Len(<<byte>>) = 1 /\ <<byte>>[1] = byte
    BY <1>2
  <2>4. ~(n > 127)
    BY <1>1, <1>4
  <2> QED
    BY <1>1, <2>1, <2>2, <2>3, <2>4
<1>5. CASE ~(n < 128)
  <2> DEFINE c == to_big_compact(n)
  <2>1. c \in Seq(Byte) /\ Len(c) \in 0..8 /\ c # <<>>
    <3>1. c \in Seq(Byte) /\ Len(c) \in 0..8 /\ (n = 0 <=> c = <<>>)
      BY CompactForm
    <3>2. n # 0
      BY <1>1, <1>5
    <3> QED
      BY <3>1, <3>2, Zenon
  <2>2. Encoding(n) = <<128 + Len(c)>> \o c
    BY <1>1, <1>5 DEF Encoding
  <2> HIDE DEF c
  <2>3. Len(c) \in 1..8
    BY <2>1
  <2>4. 128 + Len(c) \in Byte
    <3>1. \A k \in 1..8 : 128 + k \in Nat /\ 128 + k < 256
      OBVIOUS
    <3>2. 128 + Len(c) \in Nat /\ 128 + Len(c) < 256
      BY <2>3, <3>1, Zenon
    <3> QED
      BY <1>3, <3>2
  <2>5. /\ <<128 + Len(c)>> \o c \in Seq(Byte) /\ <<128 + Len(c)>> \o c \in Seq(Nat)
        /\ Len(<<128 + Len(c)>> \o c) = Len(c) + 1
        /\ (<<128 + Len(c)>> \o c)[1] = 128 + Len(c)
        /\ \A i \in 1..Len(c) : (<<128 + Len(c)>> \o c)[i + 1] = c[i]
    <3> DEFINE head == 128 + Len(c)
    <3>1. head \in Byte /\ head \in Nat /\ c \in Seq(Nat)
      BY <1>2, <2>1, <2>4, SeqMonotonic
    <3> HIDE DEF head
    <3>2. /\ <<head>> \o c \in Seq(Byte) /\ <<head>> \o c \in Seq(Nat)
          /\ Len(<<head>> \o c) = Len(c) + 1 /\ (<<head>> \o c)[1] = head
      BY <2>1, <3>1
    <3>3. \A i \in 1..Len(c) : (<<head>> \o c)[i + 1] = c[i]
      BY <2>1, <3>1
    <3> QED
      BY <3>2, <3>3 DEF head
  <2>6. n # 0 /\ Len(c) + 1 > 0
    BY <1>1, <1>5, <2>3
  <2> QED
    BY <1>1, <1>5, <2>2, <2>3, <2>5, <2>6 DEF c
<1> QED
  BY <1>4, <1>5

\* Two strings that differ at a place both have, the first being above there.
Above(a, b) ==
  \E n \in Nat :
    /\ n < Len(a) /\ n < Len(b)
    /\ \A i \in 1..n : a[i] = b[i]
    /\ a[n + 1] > b[n + 1]

\* Strings that are above one another are neither equal nor the one the other's
\* prefix.
LEMMA AbovePrefix ==
  ASSUME NEW a \in Seq(Nat), NEW b \in Seq(Nat), Above(a, b)
  PROVE  greater(a, b) /\ ~starts_with(a, b) /\ ~starts_with(b, a)
<1>1. PICK n \in Nat : /\ n < Len(a) /\ n < Len(b)
                       /\ \A i \in 1..n : a[i] = b[i]
                       /\ a[n + 1] > b[n + 1]
  BY DEF Above
<1>2. n \in 0..Len(b) /\ n + 1 \in 1..Len(a) /\ n + 1 \in 1..Len(b) /\ a[n + 1] # b[n + 1]
  BY <1>1, LenProperties
<1>3. greater(a, b)
  BY <1>1, <1>2 DEF greater
<1> QED
  BY <1>2, <1>3 DEF starts_with

\* A byte and its two nibbles.
LEMMA ByteParts ==
  ASSUME NEW byte \in Byte
  PROVE  /\ byte \in Nat /\ byte < 256
         /\ byte \div 16 \in Nibble /\ byte % 16 \in Nibble
         /\ byte = 16 * (byte \div 16) + (byte % 16)
BY SMT DEF Byte, Nibble

\* The two nibbles of each byte.
LEMMA UnpackPlaces ==
  ASSUME NEW data \in Seq(Byte)
  PROVE  /\ unpack_nibbles(data) \in Seq(Nibble)
         /\ Len(unpack_nibbles(data)) = 2 * Len(data) /\ Len(data) \in Nat
         /\ \A n \in 1..Len(data) :
              /\ unpack_nibbles(data)[2 * n - 1] = data[n] \div 16
              /\ unpack_nibbles(data)[2 * n] = data[n] % 16
<1>1. Len(data) \in Nat /\ 2 * Len(data) \in Nat
  OBVIOUS
<1>2. Len(unpack_nibbles(data)) = 2 * Len(data)
  BY <1>1, SMT DEF unpack_nibbles
<1>3. ASSUME NEW n \in 1..Len(data)
      PROVE  /\ unpack_nibbles(data)[2 * n - 1] = data[n] \div 16
             /\ unpack_nibbles(data)[2 * n] = data[n] % 16
  <2>1. 2 * n - 1 \in 1..(2 * Len(data)) /\ 2 * n \in 1..(2 * Len(data))
    BY <1>1, SMT
  <2>2. (2 * n - 1) % 2 = 1 /\ ((2 * n - 1) + 1) \div 2 = n
    BY SMT
  <2>3. (2 * n) % 2 = 0 /\ (2 * n) \div 2 = n
    BY SMT
  <2>4. unpack_nibbles(data)[2 * n - 1] = data[n] \div 16
    BY <2>1, <2>2, Zenon DEF unpack_nibbles
  <2>5. unpack_nibbles(data)[2 * n] = data[n] % 16
    BY <2>1, <2>3, SMT DEF unpack_nibbles
  <2> QED
    BY <2>4, <2>5
<1>4. ASSUME NEW i \in 1..(2 * Len(data))
      PROVE  unpack_nibbles(data)[i] \in Nibble
  <2>1. PICK n \in 1..Len(data) : i = 2 * n - 1 \/ i = 2 * n
    <3>1. i = 2 * ((i + 1) \div 2) - 1 \/ i = 2 * ((i + 1) \div 2)
      BY SMT
    <3>2. (i + 1) \div 2 \in 1..Len(data)
      BY <1>1, SMT
    <3> QED
      BY <3>1, <3>2
  <2>2. data[n] \in Byte
    OBVIOUS
  <2>3. data[n] \div 16 \in Nibble /\ data[n] % 16 \in Nibble
    BY <2>2, ByteParts
  <2> QED
    BY <1>3, <2>1, <2>3
<1>5. unpack_nibbles(data) \in Seq(Nibble)
  <2> DEFINE s == unpack_nibbles(data)
  <2>1. s = [i \in 1..(2 * Len(data)) |-> s[i]]
    BY Zenon DEF unpack_nibbles
  <2> HIDE DEF s
  <2>2. s \in [1..(2 * Len(data)) -> Nibble]
    BY <1>4, <2>1 DEF s
  <2> QED
    BY <1>1, <2>2 DEF s
<1> QED
  BY <1>1, <1>2, <1>3, <1>5

\* The nibbles of strings of bytes stay above one another.
LEMMA UnpackAbove ==
  ASSUME NEW a \in Seq(Byte), NEW b \in Seq(Byte), Above(a, b)
  PROVE  Above(unpack_nibbles(a), unpack_nibbles(b))
<1> DEFINE x == unpack_nibbles(a)
           y == unpack_nibbles(b)
<1>1. /\ Len(x) = 2 * Len(a) /\ Len(y) = 2 * Len(b) /\ Len(a) \in Nat /\ Len(b) \in Nat
      /\ \A n \in 1..Len(a) : x[2 * n - 1] = a[n] \div 16 /\ x[2 * n] = a[n] % 16
      /\ \A n \in 1..Len(b) : y[2 * n - 1] = b[n] \div 16 /\ y[2 * n] = b[n] % 16
  BY UnpackPlaces
<1> HIDE DEF x, y
<1>2. PICK n \in Nat : /\ n < Len(a) /\ n < Len(b)
                       /\ \A i \in 1..n : a[i] = b[i]
                       /\ a[n + 1] > b[n + 1]
  BY DEF Above
<1>3. \A i \in 1..(2 * n) : x[i] = y[i]
  <2> SUFFICES ASSUME NEW i \in 1..(2 * n)
               PROVE  x[i] = y[i]
    OBVIOUS
  <2>1. PICK k \in 1..n : i = 2 * k - 1 \/ i = 2 * k
    <3>1. i = 2 * ((i + 1) \div 2) - 1 \/ i = 2 * ((i + 1) \div 2)
      BY SMT
    <3>2. (i + 1) \div 2 \in 1..n
      BY SMT
    <3> QED
      BY <3>1, <3>2
  <2>2. a[k] = b[k] /\ k \in 1..Len(a) /\ k \in 1..Len(b)
    BY <1>1, <1>2, SMT
  <2> QED
    BY <1>1, <2>1, <2>2
<1>4. n + 1 \in 1..Len(a) /\ n + 1 \in 1..Len(b) /\ a[n + 1] \in Nat /\ b[n + 1] \in Nat
  <2>1. n + 1 \in 1..Len(a) /\ n + 1 \in 1..Len(b)
    BY <1>1, <1>2, SMT
  <2>2. a[n + 1] \in Byte /\ b[n + 1] \in Byte
    BY <2>1
  <2> QED
    BY <2>1, <2>2, ByteParts
<1>5. /\ x[2 * n + 1] = a[n + 1] \div 16 /\ x[2 * n + 2] = a[n + 1] % 16
      /\ y[2 * n + 1] = b[n + 1] \div 16 /\ y[2 * n + 2] = b[n + 1] % 16
  <2>1. 2 * (n + 1) - 1 = 2 * n + 1 /\ 2 * (n + 1) = 2 * n + 2
    BY SMT
  <2> QED
    BY <1>1, <1>4, <2>1
<1>6. CASE a[n + 1] \div 16 > b[n + 1] \div 16
  <2>1. /\ 2 * n \in Nat /\ 2 * n < Len(x) /\ 2 * n < Len(y)
        /\ x[2 * n + 1] > y[2 * n + 1]
    BY <1>1, <1>2, <1>5, <1>6, SMT
  <2> QED
    BY <1>3, <2>1 DEF Above, x, y
<1>7. CASE ~(a[n + 1] \div 16 > b[n + 1] \div 16)
  <2>1. a[n + 1] \div 16 = b[n + 1] \div 16 /\ a[n + 1] % 16 > b[n + 1] % 16
    BY <1>2, <1>4, <1>7, SMT
  <2>2. /\ 2 * n + 1 \in Nat /\ 2 * n + 1 < Len(x) /\ 2 * n + 1 < Len(y)
        /\ (2 * n + 1) + 1 = 2 * n + 2
    BY <1>1, <1>2, SMT
  <2>3. \A i \in 1..(2 * n + 1) : x[i] = y[i]
    BY <1>3, <1>5, <2>1, SMT
  <2>4. x[(2 * n + 1) + 1] > y[(2 * n + 1) + 1]
    BY <1>5, <2>1, <2>2
  <2> QED
    BY <2>2, <2>3, <2>4 DEF Above, x, y
<1> QED
  BY <1>6, <1>7

\* Two positions of a vector, and the indices visited at them: the one that follows is
\* the larger, 0 coming after 0x7f.
LEMMA IndexOrder ==
  ASSUME NEW size \in Nat, NEW i \in 0..(size - 1), NEW m \in 0..(size - 1), i < m,
         NEW x, x = adjust_index_for_rlp(i, size), NEW y, y = adjust_index_for_rlp(m, size)
  PROVE  /\ x \in Nat /\ x < size /\ y \in Nat /\ y < size
         /\ \/ x # 0 /\ y # 0 /\ x < y
            \/ y = 0 /\ x # 0 /\ x < 128
            \/ x = 0 /\ y > 127
BY SMT DEF adjust_index_for_rlp

\* A string is above another from its first byte on, or from a byte that follows a common
\* beginning.
LEMMA AboveAt ==
  ASSUME NEW a \in Seq(Nat), NEW b \in Seq(Nat), NEW d \in Nat, d > 0,
         d <= Len(a), d <= Len(b), \A i \in 1..(d - 1) : a[i] = b[i], a[d] > b[d]
  PROVE  Above(a, b)
<1>1. d - 1 \in Nat /\ d - 1 < Len(a) /\ d - 1 < Len(b) /\ (d - 1) + 1 = d
  BY LenProperties
<1> QED
  BY <1>1 DEF Above

\* The encodings of two indices in that order.
LEMMA EncodingOrder ==
  ASSUME NEW x \in Uint64, NEW y \in Uint64,
         \/ x # 0 /\ y # 0 /\ x < y
         \/ y = 0 /\ x # 0 /\ x < 128
         \/ x = 0 /\ y > 127
  PROVE  /\ Encoding(x) \in Seq(Byte) /\ Encoding(y) \in Seq(Byte)
         /\ Above(Encoding(y), Encoding(x))
<1>1. /\ x \in Nat /\ Encoding(x) \in Seq(Byte) /\ Encoding(x) \in Seq(Nat) /\ Len(Encoding(x)) > 0
      /\ y \in Nat /\ Encoding(y) \in Seq(Byte) /\ Encoding(y) \in Seq(Nat) /\ Len(Encoding(y)) > 0
  BY EncodingPlaces
<1>2. /\ Len(Encoding(x)) \in Nat /\ Len(Encoding(y)) \in Nat /\ 1 \in Nat /\ 1 > 0
      /\ Len(Encoding(x)) >= 1 /\ Len(Encoding(y)) >= 1
      /\ \A i \in 1..(1 - 1) : Encoding(y)[i] = Encoding(x)[i]
  BY <1>1
<1>3. ASSUME Encoding(y)[1] > Encoding(x)[1]
      PROVE  Above(Encoding(y), Encoding(x))
  <2>1. 1 <= Len(Encoding(x)) /\ 1 <= Len(Encoding(y))
    BY <1>2
  <2> QED
    BY <1>1, <1>2, <1>3, <2>1, AboveAt
<1>4. CASE x < 128
  <2>1. Encoding(x)[1] = IF x = 0 THEN 128 ELSE x
    BY <1>1, <1>4, EncodingPlaces
  <2>2. /\ y = 0 => Encoding(y)[1] = 128
        /\ y # 0 /\ y < 128 => Encoding(y)[1] = y
    BY EncodingPlaces
  <2>3. y > 127 => Len(to_big_compact(y)) \in 1..8 /\ Encoding(y)[1] = 128 + Len(to_big_compact(y))
    BY EncodingPlaces
  <2>4. Encoding(y)[1] > Encoding(x)[1]
    <3>1. CASE y > 127
      <4>1. \A k \in 1..8 : 128 + k > 128 /\ 128 + k > x
        BY <1>1, <1>4
      <4> DEFINE k == Len(to_big_compact(y))
      <4>2. k \in 1..8 /\ Encoding(y)[1] = 128 + k
        BY <2>3, <3>1
      <4> HIDE DEF k
      <4>3. Encoding(y)[1] > 128 /\ Encoding(y)[1] > x
        BY <4>1, <4>2
      <4> QED
        BY <2>1, <4>3
    <3>2. CASE ~(y > 127)
      BY <1>1, <1>4, <2>1, <2>2, <3>2
    <3> QED
      BY <3>1, <3>2
  <2> QED
    BY <1>1, <1>3, <2>4
<1>5. CASE ~(x < 128)
  <2> DEFINE a == to_big_compact(x)
             b == to_big_compact(y)
  <2>1. x > 127 /\ y > 127 /\ x < y
    BY <1>1, <1>5
  <2>2. /\ Len(a) \in 1..8 /\ Len(Encoding(x)) = Len(a) + 1 /\ Encoding(x)[1] = 128 + Len(a)
        /\ \A i \in 1..Len(a) : Encoding(x)[i + 1] = a[i]
    BY <2>1, EncodingPlaces
  <2>3. /\ Len(b) \in 1..8 /\ Len(Encoding(y)) = Len(b) + 1 /\ Encoding(y)[1] = 128 + Len(b)
        /\ \A i \in 1..Len(b) : Encoding(y)[i + 1] = b[i]
    BY <2>1, EncodingPlaces
  <2>4. /\ Len(a) <= Len(b)
        /\ Len(a) = Len(b) =>
             \E d \in 1..Len(a) : (\A i \in 1..(d - 1) : a[i] = b[i]) /\ a[d] < b[d]
    BY <2>1, CompactOrder
  <2> HIDE DEF a, b
  <2>5. CASE Len(a) < Len(b)
    <3>1. Encoding(y)[1] > Encoding(x)[1]
      BY <2>2, <2>3, <2>5
    <3> QED
      BY <1>1, <1>3, <3>1
  <2>6. CASE Len(a) = Len(b)
    <3>1. PICK d \in 1..Len(a) : (\A i \in 1..(d - 1) : a[i] = b[i]) /\ a[d] < b[d]
      BY <2>4, <2>6
    <3>2. d \in Nat /\ d + 1 \in Nat /\ d + 1 > 0 /\ d + 1 <= Len(Encoding(x)) /\ d + 1 <= Len(Encoding(y))
      BY <2>2, <2>3, <2>6, <3>1
    <3>3. ASSUME NEW i \in 1..((d + 1) - 1)
          PROVE  Encoding(y)[i] = Encoding(x)[i]
      <4>1. CASE i = 1
        BY <2>2, <2>3, <2>6, <4>1
      <4>2. CASE i # 1
        <5>1. i - 1 \in 1..(d - 1) /\ i - 1 \in 1..Len(a) /\ (i - 1) + 1 = i
          BY <2>2, <3>1, <4>2
        <5> QED
          BY <2>2, <2>3, <2>6, <3>1, <5>1
      <4> QED
        BY <4>1, <4>2
    <3>4. Encoding(y)[d + 1] > Encoding(x)[d + 1]
      <4>1. Encoding(y)[d + 1] = b[d] /\ Encoding(x)[d + 1] = a[d]
        BY <2>2, <2>3, <2>6, <3>1
      <4> QED
        BY <3>1, <4>1
    <3> DEFINE e == d + 1
    <3> HIDE DEF e
    <3>5. /\ e \in Nat /\ e > 0 /\ e <= Len(Encoding(y)) /\ e <= Len(Encoding(x))
          /\ \A i \in 1..(e - 1) : Encoding(y)[i] = Encoding(x)[i]
          /\ Encoding(y)[e] > Encoding(x)[e]
      BY <3>2, <3>3, <3>4 DEF e
    <3> QED
      BY <1>1, <3>5, AboveAt
  <2> QED
    BY <2>2, <2>3, <2>4, <2>5, <2>6
<1> QED
  BY <1>1, <1>4, <1>5

\* The keys of the elements of a vector increase in the order root_hash adds them, and
\* none is a prefix of another, what HashBuilder asks of its client.
THEOREM KeysIncrease ==
  ASSUME NEW size \in Uint64,
         NEW i \in 0..(size - 1), NEW m \in 0..(size - 1), i < m
  PROVE  LET a == index_key(adjust_index_for_rlp(i, size))
             b == index_key(adjust_index_for_rlp(m, size))
         IN  greater(b, a) /\ ~starts_with(b, a) /\ ~starts_with(a, b)
<1> DEFINE x == adjust_index_for_rlp(i, size)
           y == adjust_index_for_rlp(m, size)
<1>0. size \in Nat
  BY DEF Uint64
<1>1. /\ x \in Nat /\ x < size /\ y \in Nat /\ y < size
      /\ \/ x # 0 /\ y # 0 /\ x < y
         \/ y = 0 /\ x # 0 /\ x < 128
         \/ x = 0 /\ y > 127
  BY <1>0, IndexOrder
<1> HIDE DEF x, y
<1>2. x \in Uint64 /\ y \in Uint64
  <2>1. x <= size /\ y <= size
    BY <1>0, <1>1
  <2> QED
    BY <1>1, <2>1, UintBelow
<1>3. index_key(x) = unpack_nibbles(Encoding(x)) /\ index_key(y) = unpack_nibbles(Encoding(y))
  BY <1>2, IndexBytes DEF index_key
<1>4. Encoding(x) \in Seq(Byte) /\ Encoding(y) \in Seq(Byte) /\ Above(Encoding(y), Encoding(x))
  BY <1>1, <1>2, EncodingOrder
<1>5. Above(unpack_nibbles(Encoding(y)), unpack_nibbles(Encoding(x)))
  BY <1>4, UnpackAbove
<1>6. unpack_nibbles(Encoding(x)) \in Seq(Nibble) /\ unpack_nibbles(Encoding(y)) \in Seq(Nibble)
  BY <1>4, UnpackPlaces
<1>7. Nibble \subseteq Nat
  BY SMT DEF Nibble
<1>8. unpack_nibbles(Encoding(x)) \in Seq(Nat) /\ unpack_nibbles(Encoding(y)) \in Seq(Nat)
  BY <1>6, <1>7, SeqMonotonic
<1> QED
  BY <1>3, <1>5, <1>8, AbovePrefix DEF x, y

\* Packing the nibbles of a byte string gives it back.
THEOREM PackingUndoesUnpacking ==
  ASSUME NEW data \in Seq(Byte)
  PROVE  pack_nibbles(unpack_nibbles(data)) = data
<1> DEFINE nibbles == unpack_nibbles(data)
           packed == pack_nibbles(nibbles)
<1>1. /\ Len(nibbles) = 2 * Len(data) /\ Len(data) \in Nat
      /\ \A n \in 1..Len(data) :
           nibbles[2 * n - 1] = data[n] \div 16 /\ nibbles[2 * n] = data[n] % 16
  BY UnpackPlaces
<1> HIDE DEF nibbles
<1>2. Len(nibbles) % 2 = 0 /\ (Len(nibbles) + 0) \div 2 = Len(data)
  BY <1>1, SMT
<1>3. packed = [b \in 1..Len(data) |->
                  (16 * nibbles[2 * b - 1] + (IF 2 * b <= Len(nibbles) THEN nibbles[2 * b] ELSE 0)) % 256]
  BY <1>2, SMT DEF pack_nibbles
<1> HIDE DEF packed
<1>4. ASSUME NEW b \in 1..Len(data)
      PROVE  (16 * nibbles[2 * b - 1] + (IF 2 * b <= Len(nibbles) THEN nibbles[2 * b] ELSE 0)) % 256
             = data[b]
  <2>1. data[b] \in Byte
    OBVIOUS
  <2>2. /\ data[b] \in Nat /\ data[b] < 256
        /\ data[b] = 16 * (data[b] \div 16) + (data[b] % 16)
    BY <2>1, ByteParts
  <2>3. 2 * b <= Len(nibbles)
    BY <1>1, SMT
  <2>4. nibbles[2 * b - 1] = data[b] \div 16 /\ nibbles[2 * b] = data[b] % 16
    BY <1>1
  <2>5. 16 * nibbles[2 * b - 1] + (IF 2 * b <= Len(nibbles) THEN nibbles[2 * b] ELSE 0) = data[b]
    BY <2>2, <2>3, <2>4
  <2>6. data[b] % 256 = data[b]
    BY <2>2, SMT
  <2> QED
    BY <2>5, <2>6
<1>5. packed = [b \in 1..Len(data) |-> data[b]]
  BY <1>3, <1>4
<1> QED
  BY <1>5 DEF packed, nibbles

-----------------------------------------------------------------------------
(* The loop.                                                               *)

\* The call the loop makes next.
IsNext(c) ==
  \/ c = root_hash_call /\ j = Len(v)
  \/ c = element(index) /\ j < Len(v)

\* What the loop keeps: the elements so far are those of the order, the call in
\* progress adds the next one or asks for the root, and nothing is in a finished trie
\* before the root is returned.
LoopInv ==
  /\ node_collector = FALSE /\ failed = "none"
  /\ v \in Vectors /\ j <= Len(v) /\ ElementsInOrder
  /\ root = <<>> => sealed = 0
  /\ root # <<>> => j = Len(v)
  /\ pc = "gen_struct_step" => root = <<>> /\ IsNext(call)

VInv == LegalInv /\ LoopInv

\* The key of an index is not empty.
LEMMA KeyNotEmpty ==
  ASSUME NEW n \in Uint64
  PROVE  index_key(n) # <<>>
<1>1. index_key(n) = unpack_nibbles(Encoding(n))
  BY IndexBytes DEF index_key
<1>2. Encoding(n) \in Seq(Byte) /\ Len(Encoding(n)) > 0
  BY EncodingPlaces, SMT
<1>3. Len(unpack_nibbles(Encoding(n))) = 2 * Len(Encoding(n)) /\ Len(Encoding(n)) \in Nat
  BY <1>2, UnpackPlaces
<1>4. Len(index_key(n)) # 0
  BY <1>1, <1>2, <1>3, SMT
<1> QED
  BY <1>4

\* The element the loop adds next, and its key.
LEMMA NextElement ==
  ASSUME MaxEntries \in Uint64, LegalInv, LoopInv, j < Len(v)
  PROVE  /\ j \in Nat /\ Len(v) \in Nat /\ Len(v) <= MaxEntries /\ Len(v) \in Uint64
         /\ j \in 0..(Len(v) - 1) /\ index \in 0..(Len(v) - 1) /\ index \in Uint64
         /\ index_key(index) \in Keys /\ index_key(index) # <<>>
         /\ value_rlp(v[index + 1]) \in Values
<1>1. j \in Nat
  <2>1. entries \in Seq([key : Keys, value : Value, in_db : BOOLEAN])
    BY DEF LegalInv, IInv, TypeOK
  <2> QED
    BY <2>1, LenProperties DEF j
<1>2. v \in Vectors
  BY DEF LoopInv
<1>3. v \in Seq(Seq(Byte)) /\ Len(v) <= MaxEntries /\ \A i \in 1..Len(v) : index_key(i - 1) \in Keys
  BY <1>2, VectorsAssumption
<1>4. Len(v) \in Nat /\ DOMAIN v = 1..Len(v)
  BY <1>3, LenProperties
<1>5. Len(v) \in Uint64
  BY <1>3, <1>4, UintBelow
<1>6. j \in 0..(Len(v) - 1)
  BY <1>1, <1>4, SMT
<1>7. index \in 0..(Len(v) - 1)
  BY <1>4, <1>6, EveryIndexOnce DEF index
<1>8. index \in Nat /\ index < Len(v) /\ index + 1 \in 1..Len(v) /\ (index + 1) - 1 = index
  BY <1>4, <1>7, SMT
<1>9. index \in Uint64
  <2>1. index <= Len(v)
    BY <1>4, <1>8, SMT
  <2> QED
    BY <1>5, <1>8, <2>1, UintBelow
<1>10. index_key((index + 1) - 1) \in Keys
  BY <1>3, <1>8
<1>11. value_rlp(v[index + 1]) \in Values
  <2>1. {encoded(v[index + 1]), cpp_encoder(v[index + 1])} \subseteq Values
    BY <1>2, <1>4, <1>8, ElementsAssumption
  <2> QED
    BY <2>1 DEF value_rlp
<1> QED
  BY <1>1, <1>3, <1>4, <1>5, <1>6, <1>7, <1>8, <1>9, <1>10, <1>11, KeyNotEmpty

\* The key of the next element is in order with those before it.
LEMMA NextInOrder ==
  ASSUME MaxEntries \in Uint64, LegalInv, LoopInv, j < Len(v)
  PROVE  InOrder(index_key(index))
<1>1. /\ j \in Nat /\ Len(v) \in Nat /\ Len(v) \in Uint64 /\ j \in 0..(Len(v) - 1)
  BY NextElement
<1>2. DOMAIN entries = 1..j
  <2>1. entries \in Seq([key : Keys, value : Value, in_db : BOOLEAN])
    BY DEF LegalInv, IInv, TypeOK
  <2> QED
    BY <2>1, LenProperties DEF j
<1>3. ASSUME NEW i \in 1..j
      PROVE  /\ greater(index_key(index), entries[i].key)
             /\ ~starts_with(index_key(index), entries[i].key)
  <2>1. i - 1 \in 0..(Len(v) - 1) /\ i - 1 < j
    BY <1>1, SMT
  <2>2. entries[i].key = index_key(adjust_index_for_rlp(i - 1, Len(v)))
    BY DEF LoopInv, ElementsInOrder, element
  <2>3. LET a == index_key(adjust_index_for_rlp(i - 1, Len(v)))
            b == index_key(adjust_index_for_rlp(j, Len(v)))
        IN  greater(b, a) /\ ~starts_with(b, a) /\ ~starts_with(a, b)
    BY <1>1, <2>1, KeysIncrease
  <2> QED
    BY <2>2, <2>3 DEF index
<1> QED
  BY <1>2, <1>3 DEF InOrder

\* The loop makes legal calls only.
LEMMA ElementIsLegal ==
  ASSUME MaxEntries \in Uint64, LegalInv, LoopInv, root = <<>>, j < Len(v)
  PROVE  element(index) \in Calls /\ Contract(element(index)) /\ Len(entries) < MaxEntries
<1>1. element(index) \in Calls
  BY NextElement DEF element, Calls
<1>2. InOrder(index_key(index)) /\ index_key(index) # <<>>
  BY NextElement, NextInOrder
<1>3. sealed = 0
  BY DEF LoopInv
<1>4. Contract(element(index))
  BY <1>2, <1>3 DEF Contract, element
<1>5. Len(entries) < MaxEntries
  <2>1. j \in Nat /\ Len(v) \in Nat /\ Len(v) <= MaxEntries /\ MaxEntries \in Nat
    BY NextElement, MaxEntriesAssumption
  <2> QED
    BY <2>1, SMT DEF j
<1> QED
  BY <1>1, <1>4, <1>5

-----------------------------------------------------------------------------
(* The steps keep the invariant.                                           *)

\* Every step of the loop is one of a client that respects the contract.
LEMMA StepIsLegal ==
  ASSUME MaxEntries \in Uint64, VInv, [VNext]_allvars
  PROVE  [LegalNext]_vars
<1>1. LegalInv /\ LoopInv
  BY DEF VInv
<1>2. CASE AddElement
  <2>1. root = <<>> /\ j < Len(v) /\ add_leaf(element(index))
    BY <1>2 DEF AddElement
  <2>2. element(index) \in Calls /\ Contract(element(index)) /\ Len(entries) < MaxEntries
    BY <1>1, <2>1, ElementIsLegal
  <2>3. Add(element(index))
    BY <2>1, <2>2 DEF Add
  <2> QED
    BY <2>2, <2>3 DEF LegalNext
<1>3. CASE ReturnRoot
  BY <1>3 DEF ReturnRoot, LegalNext
<1>4. CASE gen_struct_step
  BY <1>4 DEF LegalNext
<1>5. CASE UNCHANGED allvars
  BY <1>5 DEF allvars
<1> QED
  BY <1>2, <1>3, <1>4, <1>5 DEF VNext

\* The end of a call of the loop.
LEMMA ReturnKeepsLoop ==
  ASSUME MaxEntries \in Uint64, LegalInv, LoopInv, root = <<>>, NEW c, NEW stack,
         IsNext(c), Return(c, stack), UNCHANGED <<v, api>>
  PROVE  LoopInv'
<1>1. entries \in Seq([key : Keys, value : Value, in_db : BOOLEAN]) /\ Len(entries) \in Nat
  BY LenProperties DEF LegalInv, IInv, TypeOK
<1>2. /\ node_collector = FALSE /\ failed = "none" /\ v \in Vectors
      /\ j <= Len(v) /\ ElementsInOrder /\ sealed = 0
  BY DEF LoopInv
<1>3. /\ node_collector' = FALSE /\ failed' = "none" /\ v' \in Vectors /\ pc' = "idle" /\ v' = v
      /\ sealed' = IF c.key = <<>> THEN Len(entries') ELSE sealed
  BY <1>2 DEF Return
<1>4. CASE c = root_hash_call /\ j = Len(v)
  <2>1. entries' = entries /\ root' # <<>>
    <3>1. c.op = "root_hash"
      BY <1>4 DEF root_hash_call
    <3>2. PICK hash : root' = <<hash>>
      BY <3>1 DEF Return
    <3>3. entries' = entries
      BY <3>1 DEF Return
    <3> QED
      BY <3>2, <3>3
  <2>2. j' <= Len(v') /\ j' = Len(v') /\ ElementsInOrder'
    BY <1>2, <1>3, <1>4, <2>1 DEF j, ElementsInOrder, element, value_rlp
  <2> QED
    BY <1>3, <2>1, <2>2 DEF LoopInv
<1>5. CASE c = element(index) /\ j < Len(v)
  <2> DEFINE entry == [key |-> c.key, value |-> c.value, in_db |-> c.in_db]
  <2>1. entries' = Append(entries, entry) /\ root' = <<>>
    BY <1>5 DEF Return, element
  <2>2. /\ Len(entries') = Len(entries) + 1
        /\ \A i \in 1..Len(entries) : entries'[i] = entries[i]
        /\ entries'[Len(entries) + 1] = entry
    <3>1. DOMAIN entries = 1..Len(entries)
      BY <1>1, LenProperties
    <3> QED
      BY <1>1, <2>1
  <2>3. entry.key = element(index).key /\ entry.value = element(index).value
    BY <1>5
  <2> HIDE DEF entry
  <2>4. j' = j + 1 /\ j \in Nat /\ Len(v) \in Nat
    BY <1>1, <1>5, <2>2, NextElement DEF j
  <2>5. j' <= Len(v')
    BY <1>3, <1>5, <2>4, SMT
  <2>6. ASSUME NEW k \in 1..j'
        PROVE  LET added == element(adjust_index_for_rlp(k - 1, Len(v)))
               IN  entries'[k].key = added.key /\ entries'[k].value = added.value
    <3>1. CASE k = j + 1
      <4>1. k - 1 = j
        BY <2>4, <3>1, SMT
      <4>2. entries'[k].key = element(index).key /\ entries'[k].value = element(index).value
        BY <2>2, <2>3, <3>1 DEF j
      <4> QED
        BY <4>1, <4>2 DEF index
    <3>2. CASE k # j + 1
      <4>1. k \in 1..j
        BY <2>4, <3>2, SMT
      <4>2. entries'[k] = entries[k]
        BY <2>2, <4>1 DEF j
      <4> QED
        BY <1>2, <4>1, <4>2 DEF ElementsInOrder
    <3> QED
      BY <3>1, <3>2
  <2>7. ElementsInOrder'
    BY <1>3, <2>6 DEF ElementsInOrder, element, value_rlp
  <2>8. c.key # <<>>
    BY <1>5, NextElement DEF element
  <2>9. sealed' = 0
    BY <1>2, <1>3, <2>8
  <2> QED
    BY <1>3, <2>1, <2>5, <2>7, <2>9 DEF LoopInv
<1> QED
  BY <1>4, <1>5 DEF IsNext

\* The start of a call of the loop.
LEMMA EnterKeepsLoop ==
  ASSUME MaxEntries \in Uint64, LegalInv, LoopInv, root = <<>>, NEW c,
         IsNext(c), Enter(c), UNCHANGED <<v, api>>
  PROVE  LoopInv'
<1>1. call' = c /\ UNCHANGED <<node_collector, entries, root, sealed, failed, v, api>>
  BY DEF Enter, observed
<1> QED
  BY <1>1 DEF LoopInv, IsNext, ElementsInOrder, j, index, element, value_rlp

\* Without a collector no iteration asks for the hash of a child.
LEMMA IterationDoesNotFail ==
  ASSUME LegalInv, LoopInv, pc = "gen_struct_step"
  PROVE  failing = "none"
<1>1. failing \in {"none", "hash_size"}
  BY LegalIteration
<1>2. ~store_in_db_trie
  BY DEF LoopInv, store_in_db_trie, collects
<1> QED
  BY <1>1, <1>2 DEF failing

\* The steps keep what the loop keeps.
LEMMA StepKeepsLoop ==
  ASSUME MaxEntries \in Uint64, VInv, [VNext]_allvars
  PROVE  LoopInv'
<1>1. LegalInv /\ LoopInv
  BY DEF VInv
<1>2. CASE AddElement
  <2>1. root = <<>> /\ j < Len(v) /\ add_leaf(element(index))
        /\ UNCHANGED <<v, api>>
    BY <1>2 DEF AddElement
  <2>2. element(index).key = index_key(index) /\ IsNext(element(index))
    BY <2>1 DEF element, IsNext
  <2>3. greater(element(index).key, key_)
    <3>1. element(index) \in Calls /\ Contract(element(index))
      BY <1>1, <2>1, ElementIsLegal
    <3>2. element(index).key # <<>>
      BY <1>1, <2>1, <2>2, NextElement
    <3>3. IInv
      BY <1>1 DEF LegalInv
    <3> QED
      BY <3>1, <3>2, <3>3, LegalCall
  <2>4. \/ Enter(element(index))
        \/ Return(element(index), stack_)
    BY <2>1, <2>3 DEF add_leaf, Finish
  <2> QED
    BY <1>1, <2>1, <2>2, <2>4, EnterKeepsLoop, ReturnKeepsLoop
<1>3. CASE ReturnRoot
  <2>1. root = <<>> /\ UNCHANGED <<v, api>> /\ IsNext(root_hash_call)
    BY <1>3 DEF ReturnRoot, IsNext
  <2>2. \/ Enter(root_hash_call)
        \/ Return(root_hash_call, stack_)
    BY <1>3 DEF ReturnRoot, root_hash, Finish
  <2> QED
    BY <1>1, <2>1, <2>2, EnterKeepsLoop, ReturnKeepsLoop
<1>4. CASE gen_struct_step /\ UNCHANGED <<v, api>>
  <2>1. pc = "gen_struct_step"
    BY <1>4 DEF gen_struct_step, KeepGroup, CloseGroup, CloseLastGroup, ClosesGroup, FailAssertion
  <2>2. failing = "none"
    BY <1>1, <2>1, IterationDoesNotFail
  <2>3. /\ root = <<>>
        /\ IsNext(call)
    BY <1>1, <2>1 DEF LoopInv
  <2>4. CASE KeepGroup
    <3>1. Return(call, stack_built)
      BY <2>4 DEF KeepGroup
    <3> QED
      BY <1>1, <1>4, <2>3, <3>1, ReturnKeepsLoop
  <2>5. CASE CloseLastGroup
    <3>1. Return(call, stack_branched)
      BY <2>5 DEF CloseLastGroup
    <3> QED
      BY <1>1, <1>4, <2>3, <3>1, ReturnKeepsLoop
  <2>6. CASE CloseGroup
    <3>1. UNCHANGED <<node_collector, pc, call, root, entries, sealed, failed, v, api>>
      BY <1>4, <2>6 DEF CloseGroup
    <3> QED
      BY <1>1, <3>1 DEF LoopInv, IsNext, ElementsInOrder, j, index, element, value_rlp
  <2>7. CASE FailAssertion
    BY <2>2, <2>7 DEF FailAssertion
  <2> QED
    BY <1>4, <2>4, <2>5, <2>6, <2>7 DEF gen_struct_step
<1>5. CASE UNCHANGED allvars
  <2>1. UNCHANGED <<node_collector, pc, call, root, entries, sealed, failed, v, api>>
    BY <1>5 DEF allvars, vars, frame, observed
  <2> QED
    BY <1>1, <2>1 DEF LoopInv, IsNext, ElementsInOrder, j, index, element, value_rlp
<1> QED
  BY <1>2, <1>3, <1>4, <1>5 DEF VNext

-----------------------------------------------------------------------------
(* The theorems.                                                           *)

\* The loop of root_hash starts and goes on in VInv.
LEMMA LoopInvariance ==
  ASSUME MaxEntries \in Uint64
  PROVE  VSpec => []VInv
<1>1. VInit => VInv
  <2> SUFFICES ASSUME VInit
               PROVE  VInv
    OBVIOUS
  <2>1. Init /\ v \in Vectors
    BY DEF VInit
  <2>2. LegalInv
    BY <2>1, LegalInitEstablishes
  <2>3. /\ entries = <<>> /\ root = <<>> /\ sealed = 0 /\ failed = "none"
        /\ node_collector = FALSE /\ pc = "idle"
    BY <2>1 DEF Init
  <2>4. j = 0 /\ Len(v) \in Nat
    <3>1. v \in Seq(Seq(Byte))
      BY <2>1, VectorsAssumption
    <3> QED
      BY <2>3, <3>1, LenProperties DEF j
  <2>5. j <= Len(v) /\ ElementsInOrder
    BY <2>4 DEF ElementsInOrder
  <2> QED
    BY <2>1, <2>2, <2>3, <2>5 DEF VInv, LoopInv
<1>2. VInv /\ [VNext]_allvars => VInv'
  <2> SUFFICES ASSUME VInv, [VNext]_allvars
               PROVE  VInv'
    OBVIOUS
  <2>1. LegalInv'
    BY StepIsLegal, LegalNextKeeps DEF VInv
  <2>2. LoopInv'
    BY StepKeepsLoop
  <2> QED
    BY <2>1, <2>2 DEF VInv
<1> QED
  BY <1>1, <1>2, PTL DEF VSpec

\* root_hash calls HashBuilder as hash_builder.hpp asks its clients to: what is proved
\* of any such client holds of it.
THEOREM RootHashIsALegalClient ==
  ASSUME MaxEntries \in Uint64
  PROVE  VSpec => LegalSpec
<1>1. VSpec => []VInv
  BY LoopInvariance
<1>2. VInit => Init
  BY DEF VInit
<1>3. VInv /\ [VNext]_allvars => [LegalNext]_vars
  BY StepIsLegal
<1> QED
  BY <1>1, <1>2, <1>3, PTL DEF VSpec, LegalSpec

\* None of the builder's assertions fails, whatever the elements, for any number of them
\* of 64 bits.
THEOREM VectorsNeverAbort ==
  ASSUME MaxEntries \in Uint64
  PROVE  VSpec => []IndexOrderNeverAborts
<1>1. VSpec => []VInv
  BY LoopInvariance
<1>2. VInv => IndexOrderNeverAborts
  BY DEF VInv, LoopInv, IndexOrderNeverAborts
<1> QED
  BY <1>1, <1>2, PTL

\* Once the loop is over all elements have been added, each under its own key.
LEMMA AllAdded ==
  ASSUME MaxEntries \in Uint64, VInv, root # <<>>, api = "C++"
  PROVE  Added = TrieOfVector
<1> DEFINE size == Len(v)
           at(k) == adjust_index_for_rlp(k - 1, size)
           pair(k) == [key   |-> index_key(k - 1),
                       value |-> [tag |-> "leaf", data |-> encoded(v[k])]]
<1>1. v \in Seq(Seq(Byte)) /\ size \in Nat /\ DOMAIN v = 1..size
  <2>1. v \in Seq(Seq(Byte))
    BY VectorsAssumption DEF VInv, LoopInv
  <2> QED
    BY <2>1, LenProperties
<1>2. entries \in Seq([key : Keys, value : Value, in_db : BOOLEAN])
  BY DEF VInv, LegalInv, IInv, TypeOK
<1>3. DOMAIN entries = 1..size
  BY <1>2, LenProperties DEF VInv, LoopInv, j
<1>4. ASSUME NEW k \in 1..size
      PROVE  /\ at(k) \in 0..(size - 1) /\ at(k) + 1 \in 1..size
             /\ [key |-> entries[k].key, value |-> entries[k].value] = pair(at(k) + 1)
  <2>1. k - 1 \in 0..(size - 1)
    BY <1>1
  <2>2. at(k) \in 0..(size - 1)
    BY <1>1, <2>1, EveryIndexOnce
  <2>3. /\ entries[k].key = element(at(k)).key
        /\ entries[k].value = element(at(k)).value
    BY DEF VInv, LoopInv, ElementsInOrder, j
  <2> HIDE DEF at
  <2>4. at(k) + 1 \in 1..size /\ (at(k) + 1) - 1 = at(k)
    BY <1>1, <2>2
  <2>5. value_rlp(v[at(k) + 1]) = encoded(v[at(k) + 1])
    BY DEF value_rlp
  <2> QED
    BY <2>2, <2>3, <2>4, <2>5 DEF element
<1>5. ASSUME NEW i \in 1..size
      PROVE  \E k \in 1..size : at(k) + 1 = i
  <2>1. i - 1 \in 0..(size - 1)
    BY <1>1
  <2>2. PICK m \in 0..(size - 1) : adjust_index_for_rlp(m, size) = i - 1
    BY <1>1, <2>1, EveryIndexOnce
  <2>3. m + 1 \in 1..size /\ (m + 1) - 1 = m
    BY <1>1
  <2>4. at(m + 1) + 1 = i
    BY <2>2, <2>3
  <2> QED
    BY <2>3, <2>4
<1>6. Added = {pair(at(k) + 1) : k \in 1..size}
  BY <1>3, <1>4 DEF Added
<1>7. TrieOfVector = {pair(i) : i \in 1..size}
  BY <1>1 DEF TrieOfVector
<1>8. \A k \in 1..size : at(k) + 1 \in 1..size
  BY <1>4
<1> HIDE DEF at, pair, size
<1>9. ASSUME NEW e \in Added
      PROVE  e \in TrieOfVector
  BY <1>6, <1>7, <1>8
<1>10. ASSUME NEW e \in TrieOfVector
       PROVE  e \in Added
  <2>1. PICK i \in 1..size : e = pair(i)
    BY <1>7
  <2>2. PICK k \in 1..size : at(k) + 1 = i
    BY <1>5
  <2> QED
    BY <1>6, <2>1, <2>2
<1> QED
  BY <1>9, <1>10

\* The root returned for a vector, of any number of elements that has 64 bits, is that
\* of the trie of their RLP under the RLP of their indices (vector_root.hpp:27).
THEOREM RootOfAnyVector ==
  ASSUME MaxEntries \in Uint64
  PROVE  VSpec => []RootOfVector
<1>1. VSpec => []VInv /\ []AnswerIsRoot
  BY LoopInvariance, RootHashIsALegalClient, AnswersAreRoots, PTL
<1>2. VInv /\ AnswerIsRoot => RootOfVector
  BY AllAdded DEF AnswerIsRoot, RootOfVector
<1> QED
  BY <1>1, <1>2, PTL

=============================================================================
