------------------------- MODULE NodeStorageProofs -------------------------
(***************************************************************************)
(* Proofs about NodeStorage, for all masks, hashes, byte strings and sizes *)
(* a client may use and whatever memory it gets.                           *)
(***************************************************************************)
EXTENDS NodeStorage, SequenceTheorems, FiniteSetTheorems, TLAPS

-----------------------------------------------------------------------------
(* Masks, hashes and their bytes.                                          *)

\* A mask is read from the two bytes it was stored in.
LEMMA MaskStored ==
  ASSUME NEW mask \in SUBSET Digit
  PROVE  /\ store_big_u16(mask) \in Seq(Byte)
         /\ Len(store_big_u16(mask)) = 2
         /\ load_big_u16(store_big_u16(mask)[1], store_big_u16(mask)[2]) = mask
<1>1. /\ {d - 8 : d \in mask \cap 8..15} \in Byte
      /\ mask \cap 0..7 \in Byte
  BY DEF Byte, ByteBit, Digit
<1>2. {b + 8 : b \in {d - 8 : d \in mask \cap 8..15}} = mask \cap 8..15
  <2>1. \A d \in 8..15 : (d - 8) + 8 = d
    OBVIOUS
  <2>2. ASSUME NEW b \in {e + 8 : e \in {d - 8 : d \in mask \cap 8..15}}
        PROVE  b \in mask \cap 8..15
    <3>1. PICK d \in mask \cap 8..15 : b = (d - 8) + 8
      OBVIOUS
    <3> QED
      BY <2>1, <3>1, Zenon
  <2>3. ASSUME NEW d \in mask \cap 8..15
        PROVE  d \in {e + 8 : e \in {c - 8 : c \in mask \cap 8..15}}
    <3>1. d = (d - 8) + 8
      BY <2>1
    <3> QED
      BY <3>1, Zenon
  <2> QED
    BY <2>2, <2>3, Zenon
<1>3. mask = (mask \cap 8..15) \cup (mask \cap 0..7)
  <2>1. \A d \in Digit : d \in 8..15 \/ d \in 0..7
    BY DEF Digit
  <2> QED
    BY <2>1, Zenon
<1> QED
  BY <1>1, <1>2, <1>3 DEF store_big_u16, load_big_u16

\* Two bytes are stored for the mask that is read from them.
LEMMA MaskLoaded ==
  ASSUME NEW high \in Byte, NEW low \in Byte
  PROVE  /\ load_big_u16(high, low) \in SUBSET Digit
         /\ store_big_u16(load_big_u16(high, low)) = <<high, low>>
<1> DEFINE mask == load_big_u16(high, low)
<1>0. \A b \in 0..7 : /\ b + 8 \in 8..15 /\ b + 8 \in Digit /\ b \in Digit
                     /\ (b + 8) - 8 = b /\ b + 8 \notin 0..7 /\ b \notin 8..15
  BY DEF Digit
<1>a. high \subseteq 0..7 /\ low \subseteq 0..7
  BY Zenon DEF Byte, ByteBit
<1>1. mask \in SUBSET Digit
  BY <1>0, <1>a, Zenon DEF load_big_u16
<1>2. mask \cap 0..7 = low
  BY <1>0, <1>a, Zenon DEF load_big_u16
<1>3. mask \cap 8..15 = {b + 8 : b \in high}
  BY <1>0, <1>a, Zenon DEF load_big_u16
<1>4. {d - 8 : d \in {b + 8 : b \in high}} = high
  <2>1. ASSUME NEW d \in {c - 8 : c \in {b + 8 : b \in high}}
        PROVE  d \in high
    <3>1. PICK b \in high : d = (b + 8) - 8
      OBVIOUS
    <3> QED
      BY <1>0, <1>a, <3>1
  <2>2. ASSUME NEW b \in high
        PROVE  b \in {c - 8 : c \in {e + 8 : e \in high}}
    <3>1. b = (b + 8) - 8
      BY <1>0, <1>a
    <3> QED
      BY <3>1, Zenon
  <2> QED
    BY <2>1, <2>2, Zenon
<1> QED
  BY <1>1, <1>2, <1>3, <1>4 DEF store_big_u16

\* The quotient and the remainder of an index into the bytes of hashes.
LEMMA HashIndex ==
  ASSUME NEW j \in Nat, NEW i \in 1..kHashLength
  PROVE  /\ ((kHashLength * j + i - 1) \div kHashLength) + 1 = j + 1
         /\ ((kHashLength * j + i - 1) % kHashLength) + 1 = i
BY DEF kHashLength

\* As many bytes as a hash has are a hash.
LEMMA HashBytes ==
  ASSUME NEW s \in Seq(Byte), Len(s) = kHashLength
  PROVE  s \in [1..kHashLength -> Byte]
OBVIOUS

\* Hashes with the same bytes are the same.
LEMMA SameHash ==
  ASSUME NEW f \in [1..kHashLength -> Byte], NEW g \in [1..kHashLength -> Byte],
         \A i \in 1..kHashLength : f[i] = g[i]
  PROVE  f = g
<1>1. f = [i \in 1..kHashLength |-> f[i]]
  OBVIOUS
<1>2. g = [i \in 1..kHashLength |-> g[i]]
  OBVIOUS
<1>3. [i \in 1..kHashLength |-> f[i]] = [i \in 1..kHashLength |-> g[i]]
  OBVIOUS
<1> QED
  BY <1>1, <1>2, <1>3, Zenon

\* Hashes are read from their bytes.
LEMMA HashesRead ==
  ASSUME NEW hashes \in Seq(Hash)
  PROVE  /\ hashes_data(hashes) \in Seq(Byte)
         /\ Len(hashes_data(hashes)) = kHashLength * Len(hashes)
         /\ hashes_of(hashes_data(hashes)) = hashes
<1> DEFINE data == hashes_data(hashes)
<1>1. ASSUME NEW i \in 1..kHashLength * Len(hashes)
      PROVE  /\ ((i - 1) \div kHashLength) + 1 \in 1..Len(hashes)
             /\ ((i - 1) % kHashLength) + 1 \in 1..kHashLength
  BY <1>1 DEF kHashLength
<1>2. ASSUME NEW i \in 1..kHashLength * Len(hashes)
      PROVE  data[i] \in Byte
  <2> DEFINE j == ((i - 1) \div kHashLength) + 1
             k == ((i - 1) % kHashLength) + 1
  <2>1. data[i] = hashes[j][k]
    BY Zenon DEF hashes_data
  <2>2. j \in 1..Len(hashes) /\ k \in 1..kHashLength
    BY <1>1
  <2> HIDE DEF j, k
  <2>3. hashes[j] \in [1..kHashLength -> Byte]
    BY <2>2 DEF Hash
  <2> QED
    BY <2>1, <2>2, <2>3
<1>3. data \in Seq(Byte) /\ Len(data) = kHashLength * Len(hashes)
  BY <1>2 DEF hashes_data, kHashLength
<1>4. Len(data) \div kHashLength = Len(hashes)
  BY <1>3 DEF kHashLength
<1>5. ASSUME NEW j \in 1..Len(hashes)
      PROVE  SubSeq(data, kHashLength * (j - 1) + 1, kHashLength * j) = hashes[j]
  <2> DEFINE part == SubSeq(data, kHashLength * (j - 1) + 1, kHashLength * j)
  <2>1. /\ part \in Seq(Byte)
        /\ Len(part) = kHashLength
        /\ \A i \in 1..kHashLength : part[i] = data[kHashLength * (j - 1) + i]
    BY <1>3 DEF kHashLength
  <2>2. ASSUME NEW i \in 1..kHashLength
        PROVE  data[kHashLength * (j - 1) + i] = hashes[j][i]
    <3>1. kHashLength * (j - 1) + i \in 1..kHashLength * Len(hashes)
      BY DEF kHashLength
    <3>2. /\ ((kHashLength * (j - 1) + i - 1) \div kHashLength) + 1 = j
          /\ ((kHashLength * (j - 1) + i - 1) % kHashLength) + 1 = i
      BY HashIndex, j - 1 \in Nat
    <3>3. ASSUME NEW at \in 1..kHashLength * Len(hashes)
          PROVE  data[at] = hashes[((at - 1) \div kHashLength) + 1][((at - 1) % kHashLength) + 1]
      BY Zenon DEF hashes_data
    <3> HIDE DEF data
    <3> DEFINE place == kHashLength * (j - 1) + i
    <3>4. data[place] = hashes[((place - 1) \div kHashLength) + 1][((place - 1) % kHashLength) + 1]
      BY <3>1, <3>3, Zenon
    <3>5. ((place - 1) \div kHashLength) + 1 = j /\ ((place - 1) % kHashLength) + 1 = i
      BY DEF kHashLength
    <3> HIDE DEF place
    <3>6. data[place] = hashes[j][i]
      BY <3>4, <3>5
    <3> QED
      BY <3>6 DEF place
  <2>3. hashes[j] \in [1..kHashLength -> Byte]
    BY DEF Hash
  <2> HIDE DEF part, data
  <2>4. part \in [1..kHashLength -> Byte]
    BY <2>1, HashBytes
  <2>5. \A i \in 1..kHashLength : part[i] = hashes[j][i]
    BY <2>1, <2>2
  <2>6. part = hashes[j]
    BY <2>3, <2>4, <2>5, SameHash
  <2> QED
    BY <2>6 DEF part
<1>6. hashes_of(data) = [j \in 1..Len(hashes) |-> hashes[j]]
  BY <1>4, <1>5 DEF hashes_of
<1> QED
  BY <1>3, <1>6

\* Bytes are those of the hashes that are read from them.
LEMMA HashesWritten ==
  ASSUME NEW data \in Seq(Byte), Len(data) % kHashLength = 0
  PROVE  /\ hashes_of(data) \in Seq(Hash)
         /\ Len(hashes_of(data)) = Len(data) \div kHashLength
         /\ hashes_data(hashes_of(data)) = data
<1> DEFINE count == Len(data) \div kHashLength
           hashes == hashes_of(data)
<1>1. count \in Nat /\ Len(data) = kHashLength * count
  BY DEF kHashLength
<1>2. ASSUME NEW j \in 1..count
      PROVE  /\ hashes[j] \in Hash
             /\ \A i \in 1..kHashLength : hashes[j][i] = data[kHashLength * (j - 1) + i]
  <2>1. hashes[j] = SubSeq(data, kHashLength * (j - 1) + 1, kHashLength * j)
    BY DEF hashes_of
  <2>2. /\ hashes[j] \in Seq(Byte)
        /\ Len(hashes[j]) = kHashLength
        /\ \A i \in 1..kHashLength : hashes[j][i] = data[kHashLength * (j - 1) + i]
    BY <1>1, <2>1 DEF kHashLength
  <2> QED
    BY <2>2 DEF Hash
<1>3. hashes \in Seq(Hash) /\ Len(hashes) = count
  <2>1. hashes = [j \in 1..count |-> hashes[j]]
    BY Zenon DEF hashes_of
  <2>2. hashes \in [1..count -> Hash]
    BY <1>2, <2>1, Zenon
  <2> HIDE DEF hashes, count
  <2> QED
    BY <1>1, <2>2
<1>4. ASSUME NEW i \in 1..Len(data)
      PROVE  hashes_data(hashes)[i] = data[i]
  <2> DEFINE j == ((i - 1) \div kHashLength) + 1
             k == ((i - 1) % kHashLength) + 1
  <2>1. j \in 1..count /\ k \in 1..kHashLength /\ kHashLength * (j - 1) + k = i
    BY <1>1 DEF kHashLength
  <2>2. hashes_data(hashes)[i] = hashes[j][k]
    BY <1>1, <1>3 DEF hashes_data
  <2> QED
    BY <1>2, <2>1, <2>2
<1>5. hashes_data(hashes) = [i \in 1..Len(data) |-> hashes_data(hashes)[i]]
  BY <1>1, <1>3 DEF hashes_data
<1> QED
  BY <1>3, <1>4, <1>5

\* As many hashes are expected as the mask has bits.
LEMMA PopcountType ==
  ASSUME NEW mask \in SUBSET Digit
  PROVE  popcount(mask) \in Nat
<1>1. IsFiniteSet(Digit)
  <2>1. 0 \in Int /\ 15 \in Int
    OBVIOUS
  <2> QED
    BY <2>1, FS_Interval, Zenon DEF Digit
<1> QED
  BY <1>1, FS_Subset, FS_CardinalityType DEF popcount

-----------------------------------------------------------------------------
(* The storage format.                                                     *)

\* One byte string after another.
LEMMA BytesConcat ==
  ASSUME NEW a \in Seq(Byte), NEW b \in Seq(Byte)
  PROVE  /\ a \o b \in Seq(Byte)
         /\ Len(a \o b) = Len(a) + Len(b)
         /\ \A i \in 1..Len(a) : (a \o b)[i] = a[i]
         /\ \A i \in 1..Len(b) : (a \o b)[Len(a) + i] = b[i]
OBVIOUS

\* The hashes that the length of an encoded node tells of.
LEMMA EncodedHashes ==
  ASSUME NEW length, NEW count \in Nat, NEW root \in {0, kHashLength},
         length = 6 + root + kHashLength * count
  PROVE  /\ (length - 6) % kHashLength = 0
         /\ (length - 6) \div kHashLength = count + (IF root = 0 THEN 0 ELSE 1)
         /\ length >= 6
<1>1. CASE root = 0
  BY <1>1 DEF kHashLength
<1>2. CASE root = kHashLength
  <2>1. length - 6 = kHashLength * (count + 1)
    BY <1>2 DEF kHashLength
  <2>2. kHashLength * (count + 1) % kHashLength = 0 /\ (kHashLength * (count + 1)) \div kHashLength = count + 1
    BY DEF kHashLength
  <2> QED
    BY <1>2, <2>1, <2>2 DEF kHashLength
<1> QED
  BY <1>1, <1>2

\* The root hash is no bytes or those of a hash.
LEMMA RootBytes ==
  ASSUME NEW root \in Hash \cup {NoHash}
  PROVE  root \in Seq(Byte) /\ Len(root) \in {0, kHashLength}
<1>1. CASE root = NoHash
  BY <1>1 DEF NoHash
<1>2. CASE root \in [1..kHashLength -> Byte]
  <2>1. kHashLength \in Nat
    BY DEF kHashLength
  <2> QED
    BY <1>2, <2>1, IsASeq, LenProperties
<1> QED
  BY <1>1, <1>2 DEF Hash

\* The bytes of a 16-bit number.
IsPair(s) == s \in Seq(Byte) /\ Len(s) = 2

Joined(s, t, h) == s \o t \o h

\* Three pairs of bytes, one after the other.
LEMMA ThreePairs ==
  ASSUME NEW p1, NEW p2, NEW p3, IsPair(p1), IsPair(p2), IsPair(p3)
  PROVE  /\ Joined(p1, p2, p3) \in Seq(Byte) /\ Len(Joined(p1, p2, p3)) = 6
         /\ Joined(p1, p2, p3)[1] = p1[1] /\ Joined(p1, p2, p3)[2] = p1[2]
         /\ Joined(p1, p2, p3)[3] = p2[1] /\ Joined(p1, p2, p3)[4] = p2[2]
         /\ Joined(p1, p2, p3)[5] = p3[1] /\ Joined(p1, p2, p3)[6] = p3[2]
<1> USE DEF IsPair, Joined
<1> DEFINE st == p1 \o p2
<1>1. /\ st \in Seq(Byte) /\ Len(st) = 4
      /\ \A i \in 1..2 : st[i] = p1[i]
      /\ \A i \in 1..2 : st[2 + i] = p2[i]
  <2>1. /\ st \in Seq(Byte) /\ Len(st) = Len(p1) + Len(p2)
        /\ \A i \in 1..Len(p1) : st[i] = p1[i]
        /\ \A i \in 1..Len(p2) : st[Len(p1) + i] = p2[i]
    BY BytesConcat, Zenon
  <2>2. 2 + 2 = 4
    OBVIOUS
  <2> HIDE DEF st
  <2> QED
    BY <2>1, <2>2, Zenon
<1> HIDE DEF st
<1>2. /\ st \o p3 \in Seq(Byte) /\ Len(st \o p3) = 6
      /\ \A i \in 1..4 : (st \o p3)[i] = st[i]
      /\ \A i \in 1..2 : (st \o p3)[4 + i] = p3[i]
  <2>1. st \in Seq(Byte) /\ Len(st) = 4 /\ 4 + 2 = 6
    BY <1>1
  <2>2. /\ st \o p3 \in Seq(Byte) /\ Len(st \o p3) = Len(st) + Len(p3)
        /\ \A i \in 1..Len(st) : (st \o p3)[i] = st[i]
        /\ \A i \in 1..Len(p3) : (st \o p3)[Len(st) + i] = p3[i]
    BY <2>1, BytesConcat, Zenon
  <2> QED
    BY <2>1, <2>2, Zenon
<1>3. /\ (st \o p3)[1] = st[1] /\ (st \o p3)[2] = st[2] /\ (st \o p3)[3] = st[3]
      /\ (st \o p3)[4] = st[4] /\ (st \o p3)[5] = p3[1] /\ (st \o p3)[6] = p3[2]
  <2>1. 4 + 1 = 5 /\ 4 + 2 = 6 /\ {1, 2, 3, 4} \subseteq 1..4 /\ {1, 2} \subseteq 1..2
    OBVIOUS
  <2> QED
    BY <1>2, <2>1
<1>4. st[1] = p1[1] /\ st[2] = p1[2] /\ st[3] = p2[1] /\ st[4] = p2[2]
  <2>1. 2 + 1 = 3 /\ 2 + 2 = 4 /\ {1, 2} \subseteq 1..2
    OBVIOUS
  <2> QED
    BY <1>1, <2>1
<1> QED
  BY <1>2, <1>3, <1>4 DEF st

\* The parts of an encoded node.
LEMMA EncodedParts ==
  ASSUME NEW n \in Node
  PROVE  LET encoded == encode_for_storage(n)
             root == Len(n.root_hash)
         IN  /\ encoded \in Seq(Byte)
             /\ Len(encoded) = 6 + root + kHashLength * Len(n.hashes)
             /\ \A r, d : Loaded(encoded, r, d) =
                    [state_mask |-> n.state_mask, tree_mask |-> n.tree_mask,
                     hash_mask |-> n.hash_mask, hashes |-> d, root_hash |-> r]
             /\ SubSeq(encoded, 7, 6 + root) = n.root_hash
             /\ SubSeq(encoded, 7 + root, Len(encoded)) = hashes_data(n.hashes)
<1> DEFINE s == store_big_u16(n.state_mask)
           t == store_big_u16(n.tree_mask)
           h == store_big_u16(n.hash_mask)
           masks == s \o t \o h
           r == n.root_hash
           d == hashes_data(n.hashes)
           encoded == encode_for_storage(n)
<1>1. /\ n.state_mask \in SUBSET Digit /\ n.tree_mask \in SUBSET Digit
      /\ n.hash_mask \in SUBSET Digit /\ n.hashes \in Seq(Hash)
      /\ r \in Hash \cup {NoHash}
  BY DEF Node
<1>2. /\ s \in Seq(Byte) /\ Len(s) = 2 /\ load_big_u16(s[1], s[2]) = n.state_mask
      /\ t \in Seq(Byte) /\ Len(t) = 2 /\ load_big_u16(t[1], t[2]) = n.tree_mask
      /\ h \in Seq(Byte) /\ Len(h) = 2 /\ load_big_u16(h[1], h[2]) = n.hash_mask
  BY <1>1, MaskStored
<1>3. r \in Seq(Byte) /\ Len(r) \in Nat
  BY <1>1, RootBytes
<1>4. d \in Seq(Byte) /\ Len(d) = kHashLength * Len(n.hashes)
  BY <1>1, HashesRead
<1>5. encoded = masks \o r \o d
  BY DEF encode_for_storage
<1> HIDE DEF s, t, h, r, d, encoded
<1>6. /\ masks \in Seq(Byte) /\ Len(masks) = 6
      /\ masks[1] = s[1] /\ masks[2] = s[2] /\ masks[3] = t[1]
      /\ masks[4] = t[2] /\ masks[5] = h[1] /\ masks[6] = h[2]
  <2>1. IsPair(s) /\ IsPair(t) /\ IsPair(h)
    BY <1>2 DEF IsPair
  <2>2. /\ Joined(s, t, h) \in Seq(Byte) /\ Len(Joined(s, t, h)) = 6
        /\ Joined(s, t, h)[1] = s[1] /\ Joined(s, t, h)[2] = s[2] /\ Joined(s, t, h)[3] = t[1]
        /\ Joined(s, t, h)[4] = t[2] /\ Joined(s, t, h)[5] = h[1] /\ Joined(s, t, h)[6] = h[2]
    <3> HIDE DEF masks
    <3> QED
      BY <2>1, ThreePairs
  <2>3. masks = Joined(s, t, h)
    BY DEF Joined
  <2> HIDE DEF masks
  <2> QED
    BY <2>2, <2>3, Zenon
<1> HIDE DEF masks
<1>7. masks \o r \in Seq(Byte) /\ Len(masks \o r) = 6 + Len(r)
  <2>1. masks \in Seq(Byte) /\ r \in Seq(Byte) /\ Len(masks) = 6
    BY <1>3, <1>6
  <2> QED
    <3>1. masks \o r \in Seq(Byte) /\ Len(masks \o r) = Len(masks) + Len(r)
      BY <2>1, BytesConcat, Zenon
    <3> QED
      BY <2>1, <3>1, Zenon
<1>8. encoded \in Seq(Byte) /\ Len(encoded) = 6 + Len(r) + Len(d)
  BY <1>4, <1>5, <1>7, ConcatProperties
<1>9. \A i \in 1..6 : encoded[i] = masks[i]
  BY <1>3, <1>4, <1>5, <1>6, <1>7
<1>10. \A root_hash, hashes : Loaded(encoded, root_hash, hashes) =
         [state_mask |-> n.state_mask, tree_mask |-> n.tree_mask,
          hash_mask |-> n.hash_mask, hashes |-> hashes, root_hash |-> root_hash]
  BY <1>2, <1>6, <1>9 DEF Loaded
<1>11. SubSeq(encoded, 7, 6 + Len(r)) = r
  <2>1. SubSeq(encoded, 7, 6 + Len(r)) \in Seq(Byte) /\ Len(SubSeq(encoded, 7, 6 + Len(r))) = Len(r)
    BY <1>3, <1>4, <1>8
  <2>2. \A i \in 1..Len(r) : SubSeq(encoded, 7, 6 + Len(r))[i] = r[i]
    BY <1>3, <1>4, <1>5, <1>6, <1>7, <1>8
  <2> QED
    BY <1>3, <2>1, <2>2, SeqEqual
<1>12. SubSeq(encoded, 7 + Len(r), Len(encoded)) = d
  <2>1. /\ SubSeq(encoded, 7 + Len(r), Len(encoded)) \in Seq(Byte)
        /\ Len(SubSeq(encoded, 7 + Len(r), Len(encoded))) = Len(d)
    BY <1>3, <1>4, <1>8
  <2>2. \A i \in 1..Len(d) : SubSeq(encoded, 7 + Len(r), Len(encoded))[i] = d[i]
    <3> DEFINE mr == masks \o r
    <3>1. \A i \in 1..Len(mr) + Len(d) : encoded[i] = IF i <= Len(mr) THEN mr[i] ELSE d[i - Len(mr)]
      BY <1>4, <1>5, <1>7, ConcatProperties
    <3> HIDE DEF mr
    <3>2. Len(mr) = 6 + Len(r) /\ Len(d) \in Nat
      BY <1>4, <1>7 DEF mr
    <3>3. \A i \in 1..Len(d) : encoded[6 + Len(r) + i] = d[i]
      BY <1>3, <3>1, <3>2
    <3>4. \A i \in 1..Len(d) : SubSeq(encoded, 7 + Len(r), Len(encoded))[i] = encoded[6 + Len(r) + i]
      BY <1>3, <1>8, <3>2
    <3> QED
      BY <3>3, <3>4
  <2> QED
    BY <1>4, <2>1, <2>2, SeqEqual
<1> QED
  BY <1>4, <1>8, <1>10, <1>11, <1>12 DEF r, d, encoded

\* A well-formed node is read from its encoding, whatever it is read into.
THEOREM EncodedNodeIsDecoded ==
  ASSUME NEW n \in Node, NEW m, Asserted(n)
  PROVE  decode_from_storage(encode_for_storage(n), m) = [ok |-> TRUE, node |-> n]
<1> DEFINE encoded == encode_for_storage(n)
           masked == Loaded(encoded, NoHash, << >>)
           root == Len(n.root_hash)
<1>1. /\ n.hash_mask \in SUBSET Digit /\ n.hashes \in Seq(Hash)
      /\ n.root_hash \in Hash \cup {NoHash}
  BY DEF Node
<1>2. root \in {0, kHashLength} /\ Len(n.hashes) \in Nat
  BY <1>1, RootBytes
<1>3. /\ encoded \in Seq(Byte)
      /\ Len(encoded) = 6 + root + kHashLength * Len(n.hashes)
      /\ \A r, d : Loaded(encoded, r, d) =
             [state_mask |-> n.state_mask, tree_mask |-> n.tree_mask,
              hash_mask |-> n.hash_mask, hashes |-> d, root_hash |-> r]
      /\ SubSeq(encoded, 7, 6 + root) = n.root_hash
      /\ SubSeq(encoded, 7 + root, Len(encoded)) = hashes_data(n.hashes)
  BY EncodedParts
<1>4. /\ masked.state_mask = n.state_mask /\ masked.tree_mask = n.tree_mask
      /\ masked.hash_mask = n.hash_mask
  BY <1>3 DEF Node
<1>5. popcount(masked.hash_mask) = Len(n.hashes)
  BY <1>4 DEF Asserted
<1> HIDE DEF encoded, masked, root
<1>a. Len(encoded) = 6 + root + kHashLength * Len(n.hashes)
  BY <1>3
<1> DEFINE count == Len(n.hashes)
<1>c. count \in Nat /\ Len(encoded) = 6 + root + kHashLength * count
  BY <1>2, <1>a
<1> HIDE DEF count
<1>d. /\ (Len(encoded) - 6) % kHashLength = 0
      /\ (Len(encoded) - 6) \div kHashLength = count + (IF root = 0 THEN 0 ELSE 1)
      /\ Len(encoded) >= 6
  BY <1>2, <1>c, EncodedHashes, Zenon
<1>6. HasNodeLength(encoded)
  BY <1>d, Zenon DEF HasNodeLength
<1>7. kHashLength * delta(encoded, masked) = root /\ delta(encoded, masked) \in {0, 1}
  <2>1. (Len(encoded) - 6) \div kHashLength = count + (IF root = 0 THEN 0 ELSE 1)
    BY <1>d
  <2>2. popcount(masked.hash_mask) = count
    BY <1>5 DEF count
  <2>3. delta(encoded, masked) = (count + (IF root = 0 THEN 0 ELSE 1)) - count
    BY <2>1, <2>2, Zenon DEF delta
  <2> QED
    BY <1>2, <1>c, <2>3 DEF kHashLength
<1>8. ValidMasks(encoded, masked)
  BY <1>4, <1>7 DEF ValidMasks, Asserted
<1>9. decode_from_storage(encoded, m) =
        [ok |-> TRUE,
         node |-> Loaded(encoded, SubSeq(encoded, 7, 6 + root),
                         hashes_of(SubSeq(encoded, 7 + root, Len(encoded))))]
  BY <1>6, <1>7, <1>8 DEF decode_from_storage, masked
<1>10. hashes_of(hashes_data(n.hashes)) = n.hashes
  BY <1>1, HashesRead
<1>11. Loaded(encoded, n.root_hash, n.hashes) = n
  BY <1>3 DEF Node
<1> QED
  BY <1>3, <1>9, <1>10, <1>11 DEF encoded

\* Decoding returns a node; a well-formed one if it succeeds, and the node as it
\* was if the length of the bytes is that of no node.
LEMMA DecodedNode ==
  ASSUME NEW raw \in Seq(Byte), NEW n \in Node
  PROVE  /\ decode_from_storage(raw, n).ok \in BOOLEAN
         /\ decode_from_storage(raw, n).node \in Node
         /\ decode_from_storage(raw, n).ok => /\ HasNodeLength(raw)
                                             /\ Asserted(decode_from_storage(raw, n).node)
                                             /\ encode_for_storage(decode_from_storage(raw, n).node) = raw
         /\ ~HasNodeLength(raw) => decode_from_storage(raw, n).node = n
<1> DEFINE masked == Loaded(raw, NoHash, << >>)
           root == kHashLength * delta(raw, masked)
<1>1. CASE ~HasNodeLength(raw)
  <2>1. decode_from_storage(raw, n) = [ok |-> FALSE, node |-> n]
    BY <1>1 DEF decode_from_storage
  <2> QED
    BY <1>1, <2>1
<1>2. CASE HasNodeLength(raw)
  <2>1. /\ Len(raw) \in Nat /\ Len(raw) >= 6 /\ (Len(raw) - 6) % kHashLength = 0
        /\ \A i \in 1..6 : raw[i] \in Byte
    BY <1>2 DEF HasNodeLength
  <2>2. /\ load_big_u16(raw[1], raw[2]) \in SUBSET Digit
        /\ store_big_u16(load_big_u16(raw[1], raw[2])) = <<raw[1], raw[2]>>
        /\ load_big_u16(raw[3], raw[4]) \in SUBSET Digit
        /\ store_big_u16(load_big_u16(raw[3], raw[4])) = <<raw[3], raw[4]>>
        /\ load_big_u16(raw[5], raw[6]) \in SUBSET Digit
        /\ store_big_u16(load_big_u16(raw[5], raw[6])) = <<raw[5], raw[6]>>
    <3>1. \A h, l \in Byte : /\ load_big_u16(h, l) \in SUBSET Digit
                             /\ store_big_u16(load_big_u16(h, l)) = <<h, l>>
      BY MaskLoaded
    <3>2. /\ raw[1] \in Byte /\ raw[2] \in Byte /\ raw[3] \in Byte
          /\ raw[4] \in Byte /\ raw[5] \in Byte /\ raw[6] \in Byte
      BY <2>1
    <3> QED
      BY <3>1, <3>2, Zenon
  <2>3. CASE ~ValidMasks(raw, masked)
    <3>1. decode_from_storage(raw, n) = [ok |-> FALSE, node |-> masked]
      BY <1>2, <2>3 DEF decode_from_storage
    <3>2. masked \in Node
      BY <2>2, << >> \in Seq(Hash) DEF Loaded, Node, NoHash
    <3> QED
      BY <1>2, <3>1, <3>2
  <2>4. CASE ValidMasks(raw, masked)
    <3> DEFINE root_hash == SubSeq(raw, 7, 6 + root)
               rest == SubSeq(raw, 7 + root, Len(raw))
               loaded == Loaded(raw, root_hash, hashes_of(rest))
    <3>1. decode_from_storage(raw, n) = [ok |-> TRUE, node |-> loaded]
      BY <1>2, <2>4 DEF decode_from_storage
    <3>2. /\ delta(raw, masked) \in {0, 1}
          /\ masked.hash_mask = loaded.hash_mask
          /\ masked.hash_mask \in SUBSET Digit
          /\ is_subset(loaded.tree_mask, loaded.state_mask)
          /\ is_subset(loaded.hash_mask, loaded.state_mask)
      BY <2>2, <2>4 DEF ValidMasks, Loaded
    <3>3. popcount(masked.hash_mask) \in Nat
      BY <3>2, PopcountType
    <3> HIDE DEF masked
    <3>4. root \in {0, kHashLength}
      BY <3>2 DEF kHashLength
    <3>5. (Len(raw) - 6) \div kHashLength = popcount(masked.hash_mask) + delta(raw, masked)
      <4>1. (Len(raw) - 6) \div kHashLength \in Int
        BY <2>1 DEF kHashLength
      <4> QED
        BY <3>3, <4>1 DEF delta
    <3>6. Len(raw) = 6 + root + kHashLength * popcount(masked.hash_mask)
      <4>1. Len(raw) = 6 + kHashLength * ((Len(raw) - 6) \div kHashLength)
        BY <2>1 DEF kHashLength
      <4>2. CASE delta(raw, masked) = 0
        BY <3>3, <3>5, <4>1, <4>2 DEF kHashLength
      <4>3. CASE delta(raw, masked) = 1
        BY <3>3, <3>5, <4>1, <4>3 DEF kHashLength
      <4> QED
        BY <3>2, <4>2, <4>3
    <3> HIDE DEF root
    <3>7. root_hash \in Seq(Byte) /\ Len(root_hash) = root
      BY <2>1, <3>3, <3>4, <3>6 DEF kHashLength
    <3>8. root_hash \in Hash \cup {NoHash}
      <4>1. CASE root = 0
        BY <3>7, <4>1 DEF NoHash
      <4>2. CASE root = kHashLength
        BY <3>7, <4>2, HashBytes DEF Hash
      <4> QED
        BY <3>4, <4>1, <4>2
    <3>9. rest \in Seq(Byte) /\ Len(rest) = kHashLength * popcount(masked.hash_mask)
      BY <2>1, <3>3, <3>4, <3>6 DEF kHashLength
    <3>10. /\ Len(rest) % kHashLength = 0
           /\ Len(rest) \div kHashLength = popcount(masked.hash_mask)
      BY <3>3, <3>9 DEF kHashLength
    <3>11. /\ hashes_of(rest) \in Seq(Hash)
           /\ Len(hashes_of(rest)) = popcount(masked.hash_mask)
           /\ hashes_data(hashes_of(rest)) = rest
      BY <3>9, <3>10, HashesWritten
    <3> HIDE DEF root_hash, rest
    <3>12. loaded \in Node
      BY <2>2, <3>8, <3>11 DEF Loaded, Node
    <3>13. Asserted(loaded)
      <4>1. loaded.hashes = hashes_of(rest)
        BY DEF Loaded
      <4> QED
        BY <3>2, <3>11, <4>1 DEF Asserted
    <3>14. encode_for_storage(loaded) = raw
      <4> DEFINE masks == <<raw[1], raw[2]>> \o <<raw[3], raw[4]>> \o <<raw[5], raw[6]>>
      <4>1. encode_for_storage(loaded) = masks \o root_hash \o rest
        BY <2>2, <3>11 DEF encode_for_storage, Loaded
      <4>2. masks = SubSeq(raw, 1, 6)
        <5> DEFINE s == <<raw[1], raw[2]>>
                   t == <<raw[3], raw[4]>>
                   h == <<raw[5], raw[6]>>
        <5>a. /\ s \in Seq(Byte) /\ Len(s) = 2 /\ s[1] = raw[1] /\ s[2] = raw[2]
              /\ t \in Seq(Byte) /\ Len(t) = 2 /\ t[1] = raw[3] /\ t[2] = raw[4]
              /\ h \in Seq(Byte) /\ Len(h) = 2 /\ h[1] = raw[5] /\ h[2] = raw[6]
          BY <2>1
        <5> HIDE DEF s, t, h
        <5>b. /\ Joined(s, t, h) \in Seq(Byte) /\ Len(Joined(s, t, h)) = 6
              /\ Joined(s, t, h)[1] = raw[1] /\ Joined(s, t, h)[2] = raw[2]
              /\ Joined(s, t, h)[3] = raw[3] /\ Joined(s, t, h)[4] = raw[4]
              /\ Joined(s, t, h)[5] = raw[5] /\ Joined(s, t, h)[6] = raw[6]
          <6>1. IsPair(s) /\ IsPair(t) /\ IsPair(h)
            BY <5>a DEF IsPair
          <6>2. /\ Joined(s, t, h) \in Seq(Byte) /\ Len(Joined(s, t, h)) = 6
                /\ Joined(s, t, h)[1] = s[1] /\ Joined(s, t, h)[2] = s[2]
                /\ Joined(s, t, h)[3] = t[1] /\ Joined(s, t, h)[4] = t[2]
                /\ Joined(s, t, h)[5] = h[1] /\ Joined(s, t, h)[6] = h[2]
            BY <6>1, ThreePairs
          <6> QED
            BY <5>a, <6>2
        <5>1. /\ masks \in Seq(Byte) /\ Len(masks) = 6
              /\ masks[1] = raw[1] /\ masks[2] = raw[2] /\ masks[3] = raw[3]
              /\ masks[4] = raw[4] /\ masks[5] = raw[5] /\ masks[6] = raw[6]
          BY <5>b DEF s, t, h, Joined
        <5> HIDE DEF masks
        <5>2. SubSeq(raw, 1, 6) \in Seq(Byte) /\ Len(SubSeq(raw, 1, 6)) = 6
          BY <2>1
        <5>3. \A i \in 1..6 : SubSeq(raw, 1, 6)[i] = raw[i]
          BY <2>1
        <5> QED
          <6>1. \A i \in 1..6 : i = 1 \/ i = 2 \/ i = 3 \/ i = 4 \/ i = 5 \/ i = 6
            OBVIOUS
          <6>2. \A i \in 1..6 : masks[i] = SubSeq(raw, 1, 6)[i]
            BY <5>1, <5>3, <6>1
          <6> QED
            BY <5>1, <5>2, <6>2, SeqEqual
      <4>3. SubSeq(raw, 1, 6) \o SubSeq(raw, 7, 6 + root) = SubSeq(raw, 1, 6 + root)
        <5>1. 1 \in 1..Len(raw) + 1 /\ 6 \in 1 - 1..Len(raw) /\ 6 + root \in 6..Len(raw) /\ 6 + 1 = 7
          BY <2>1, <3>3, <3>4, <3>6 DEF kHashLength
        <5> QED
          BY <5>1, ConcatAdjacentSubSeq, Zenon
      <4>4. SubSeq(raw, 1, 6 + root) \o SubSeq(raw, 7 + root, Len(raw)) = SubSeq(raw, 1, Len(raw))
        <5>1. /\ 1 \in 1..Len(raw) + 1 /\ 6 + root \in 1 - 1..Len(raw)
              /\ Len(raw) \in 6 + root..Len(raw) /\ (6 + root) + 1 = 7 + root
          BY <2>1, <3>3, <3>4, <3>6 DEF kHashLength
        <5> QED
          BY <5>1, ConcatAdjacentSubSeq, Zenon
      <4>5. SubSeq(raw, 1, Len(raw)) = raw
        BY SubSeqFull, Zenon
      <4> HIDE DEF masks
      <4> QED
        BY <4>1, <4>2, <4>3, <4>4, <4>5, Zenon DEF root_hash, rest
    <3> QED
      BY <1>2, <3>1, <3>12, <3>13, <3>14
  <2> QED
    BY <2>3, <2>4
<1> QED
  BY <1>1, <1>2

-----------------------------------------------------------------------------
(* The byte buffer.                                                        *)

\* Half of memory, doubled, wraps to nothing; less does not wrap.
LEMMA Doubling ==
  ASSUME NEW size \in Nat
  PROVE  /\ HalfOfMemory \in Nat
         /\ SizeModulus # 0 => (2 * size) % SizeModulus \in Nat
         /\ size < HalfOfMemory => (2 * size) % SizeModulus = 2 * size
BY SizeModulusAssumption DEF HalfOfMemory

\* What malloc and realloc return.
LEMMA Allocated ==
  /\ \A size \in Nat : \A created \in silkworm_Bytes_create(size) :
        /\ created \in silkworm_Bytes
        /\ created.length = 0
        /\ created.null => created.data = << >>
        /\ created = NullBytes \/ (~created.null /\ Len(created.data) = size)
  /\ \A data \in Seq(Byte), size \in Nat : \A new_data \in realloc(data, size) :
        /\ new_data \in Seq(Byte)
        /\ Len(new_data) = size
        /\ \A i \in 1..size : i <= Len(data) => new_data[i] = data[i]
<1>1. ASSUME NEW size \in Nat, NEW created \in silkworm_Bytes_create(size)
      PROVE  /\ created \in silkworm_Bytes
             /\ created.length = 0
             /\ created.null => created.data = << >>
             /\ created = NullBytes \/ (~created.null /\ Len(created.data) = size)
  <2>1. CASE created = NullBytes
    BY <2>1 DEF NullBytes, silkworm_Bytes
  <2>2. CASE created # NullBytes
    <3>1. PICK byte \in Uninitialised :
             created = [null |-> FALSE, data |-> [i \in 1..size |-> byte], length |-> 0]
      BY <2>2 DEF silkworm_Bytes_create
    <3>2. byte \in Byte
      BY UninitialisedAssumption
    <3>3. [i \in 1..size |-> byte] \in Seq(Byte) /\ Len([i \in 1..size |-> byte]) = size
      BY <3>2
    <3> QED
      BY <3>1, <3>3 DEF silkworm_Bytes
  <2> QED
    BY <2>1, <2>2
<1>2. ASSUME NEW data \in Seq(Byte), NEW size \in Nat, NEW new_data \in realloc(data, size)
      PROVE  /\ new_data \in Seq(Byte)
             /\ Len(new_data) = size
             /\ \A i \in 1..size : i <= Len(data) => new_data[i] = data[i]
  <2>1. PICK byte \in Uninitialised :
           new_data = [i \in 1..size |-> IF i <= Len(data) THEN data[i] ELSE byte]
    BY DEF realloc
  <2>2. byte \in Byte
    BY UninitialisedAssumption
  <2>3. \A i \in 1..size : (IF i <= Len(data) THEN data[i] ELSE byte) \in Byte
    BY <2>2
  <2> QED
    BY <2>1, <2>3
<1> QED
  BY <1>1, <1>2

\* The buffer has the length asked for, keeps its bytes, and has memory for them
\* below half of all memory.
IsResized(bytes, size, resized) ==
  /\ resized.ok = TRUE
  /\ resized = [ok |-> resized.ok, bytes |-> resized.bytes]
  /\ resized.bytes \in silkworm_Bytes
  /\ resized.bytes.length = size
  /\ resized.bytes.null => resized.bytes.data = << >>
  /\ size > capacity(bytes) => ~resized.bytes.null
  /\ ~bytes.null => ~resized.bytes.null
  /\ size < HalfOfMemory => Valid(resized.bytes)
  /\ size < HalfOfMemory =>
        \A i \in 1..Len(bytes.data) : /\ i <= Len(resized.bytes.data)
                                     /\ resized.bytes.data[i] = bytes.data[i]

\* silkworm_Bytes_resize does that or leaves the buffer alone.
LEMMA Resized ==
  ASSUME NEW bytes \in silkworm_Bytes, bytes.null => bytes.data = << >>,
         NEW size \in Nat, SizeModulus # 0,
         NEW resized \in silkworm_Bytes_resize(bytes, size)
  PROVE  resized = [ok |-> FALSE, bytes |-> bytes] \/ IsResized(bytes, size, resized)
<1>0. bytes.data \in Seq(Byte) /\ bytes.length \in Nat /\ bytes.null \in BOOLEAN
  BY DEF silkworm_Bytes
<1> DEFINE new_capacity == (2 * size) % SizeModulus
<1>1. new_capacity \in Nat /\ (size < HalfOfMemory => new_capacity = 2 * size) /\ HalfOfMemory \in Nat
  BY Doubling
<1>2. CASE size > capacity(bytes) /\ resized # [ok |-> FALSE, bytes |-> bytes]
  <2>1. PICK new_data \in realloc(bytes.data, new_capacity) :
           resized = [ok |-> TRUE, bytes |-> [null |-> FALSE, data |-> new_data, length |-> size]]
    BY <1>2 DEF silkworm_Bytes_resize
  <2>2. /\ new_data \in Seq(Byte) /\ Len(new_data) = new_capacity
        /\ \A i \in 1..new_capacity : i <= Len(bytes.data) => new_data[i] = bytes.data[i]
    BY <1>0, <1>1, Allocated
  <2>3. size < HalfOfMemory => Len(bytes.data) <= new_capacity /\ size <= new_capacity
    BY <1>0, <1>1, <1>2 DEF capacity
  <2> HIDE DEF new_capacity
  <2>4. resized.bytes \in silkworm_Bytes
    BY <2>1, <2>2 DEF silkworm_Bytes
  <2>5. size < HalfOfMemory =>
          \A i \in 1..Len(bytes.data) : i <= Len(new_data) /\ new_data[i] = bytes.data[i]
    BY <1>0, <1>1, <2>2, <2>3
  <2> QED
    BY <2>1, <2>2, <2>3, <2>4, <2>5 DEF Valid, capacity, IsResized
<1>3. CASE ~(size > capacity(bytes))
  <2>1. resized = [ok |-> TRUE, bytes |-> [bytes EXCEPT !.length = size]]
    BY <1>3 DEF silkworm_Bytes_resize
  <2>2. [bytes EXCEPT !.length = size] = [null |-> bytes.null, data |-> bytes.data, length |-> size]
    BY DEF silkworm_Bytes
  <2>3. resized.bytes \in silkworm_Bytes
    BY <1>0, <2>1, <2>2 DEF silkworm_Bytes
  <2>4. size <= Len(bytes.data)
    BY <1>0, <1>3 DEF capacity
  <2> QED
    BY <1>0, <1>3, <2>1, <2>2, <2>3, <2>4 DEF Valid, capacity, IsResized
<1> QED
  BY <1>2, <1>3

\* Bytes copied into memory that has room for them.
LEMMA Copied ==
  ASSUME NEW memory \in Seq(Byte), NEW at \in Nat, NEW data \in Seq(Byte),
         at + Len(data) <= Len(memory)
  PROVE  /\ memcpy(memory, at, data) \in Seq(Byte)
         /\ Len(memcpy(memory, at, data)) = Len(memory)
         /\ \A i \in 1..at : memcpy(memory, at, data)[i] = memory[i]
         /\ \A i \in 1..Len(data) : memcpy(memory, at, data)[at + i] = data[i]
<1> DEFINE copy == memcpy(memory, at, data)
<1>1. \A i \in 1..Len(memory) :
         copy[i] = IF i \in (at + 1)..(at + Len(data)) THEN data[i - at] ELSE memory[i]
  BY DEF memcpy
<1>2. \A i \in 1..Len(memory) : copy[i] \in Byte
  BY <1>1
<1>3. copy \in Seq(Byte) /\ Len(copy) = Len(memory)
  BY <1>2 DEF memcpy
<1> HIDE DEF copy
<1>4. \A i \in 1..at : copy[i] = memory[i]
  BY <1>1
<1>5. ASSUME NEW i \in 1..Len(data)
      PROVE  copy[at + i] = data[i]
  <2>1. at + i \in 1..Len(memory) /\ at + i \in (at + 1)..(at + Len(data)) /\ (at + i) - at = i
    OBVIOUS
  <2> QED
    BY <1>1, <2>1
<1> QED
  BY <1>3, <1>4, <1>5 DEF copy

\* All of the data is added to the end.
IsAppended(bytes, data, appended) ==
  /\ appended.ok = TRUE
  /\ appended.bytes \in silkworm_Bytes
  /\ Valid(appended.bytes)
  /\ appended.bytes.null => appended.bytes.data = << >>
  /\ bytes.length + Len(data) > capacity(bytes) \/ ~bytes.null => ~appended.bytes.null
  /\ silkworm_ByteView_create(appended.bytes) = silkworm_ByteView_create(bytes) \o data

\* silkworm_Bytes_append does that or leaves the buffer alone.
LEMMA AppendedOrNot ==
  ASSUME NEW bytes \in silkworm_Bytes, bytes.null => bytes.data = << >>, Valid(bytes),
         NEW data \in Seq(Byte), bytes.length + Len(data) < HalfOfMemory,
         NEW appended \in silkworm_Bytes_append(bytes, data)
  PROVE  appended = [ok |-> FALSE, bytes |-> bytes] \/ IsAppended(bytes, data, appended)
<1> DEFINE size == bytes.length + Len(data)
<1>0. /\ bytes.data \in Seq(Byte) /\ bytes.length \in Nat /\ size \in Nat
      /\ bytes.length <= Len(bytes.data) /\ SizeModulus # 0
  BY SizeModulusAssumption DEF silkworm_Bytes, Valid, capacity, HalfOfMemory
<1>1. PICK resized \in silkworm_Bytes_resize(bytes, size) :
         appended = IF resized.ok
                    THEN [resized EXCEPT !.bytes.data = memcpy(@, resized.bytes.length - Len(data), data)]
                    ELSE resized
  BY DEF silkworm_Bytes_append
<1>2. CASE resized = [ok |-> FALSE, bytes |-> bytes]
  BY <1>1, <1>2
<1>3. CASE resized # [ok |-> FALSE, bytes |-> bytes]
  <2> DEFINE b == resized.bytes
             copy == memcpy(b.data, bytes.length, data)
  <2>1. /\ resized.ok = TRUE /\ resized = [ok |-> resized.ok, bytes |-> b]
        /\ b \in silkworm_Bytes /\ b.length = size
        /\ b.null => b.data = << >>
        /\ size > capacity(bytes) => ~b.null
        /\ ~bytes.null => ~b.null
        /\ Valid(b)
        /\ \A i \in 1..Len(bytes.data) : i <= Len(b.data) /\ b.data[i] = bytes.data[i]
    <3>1. size < HalfOfMemory
      OBVIOUS
    <3>2. IsResized(bytes, size, resized)
      BY <1>0, <1>3, Resized
    <3> HIDE DEF size
    <3> QED
      BY <3>1, <3>2 DEF IsResized
  <2>2. /\ b.data \in Seq(Byte) /\ size <= Len(b.data)
        /\ b = [null |-> b.null, data |-> b.data, length |-> size]
    BY <2>1 DEF silkworm_Bytes, Valid, capacity
  <2>3. size - Len(data) = bytes.length
    BY <1>0
  <2>4. appended = [ok |-> TRUE, bytes |-> [null |-> b.null, data |-> copy, length |-> size]]
    BY <1>1, <2>1, <2>2, <2>3
  <2>5. /\ copy \in Seq(Byte) /\ Len(copy) = Len(b.data)
        /\ \A i \in 1..bytes.length : copy[i] = b.data[i]
        /\ \A i \in 1..Len(data) : copy[bytes.length + i] = data[i]
    BY <1>0, <2>2, Copied
  <2> HIDE DEF copy, b
  <2>6. b.null => copy = << >>
    BY <2>1, <2>2, <2>5
  <2>7. SubSeq(copy, 1, size) = SubSeq(bytes.data, 1, bytes.length) \o data
    <3> DEFINE old == SubSeq(bytes.data, 1, bytes.length)
               new == SubSeq(copy, 1, size)
    <3>1. old \in Seq(Byte) /\ Len(old) = bytes.length /\ \A i \in 1..bytes.length : old[i] = bytes.data[i]
      BY <1>0
    <3>2. new \in Seq(Byte) /\ Len(new) = size /\ \A i \in 1..size : new[i] = copy[i]
      BY <1>0, <2>2, <2>5
    <3> HIDE DEF old, new
    <3>3. /\ old \o data \in Seq(Byte) /\ Len(old \o data) = Len(old) + Len(data)
          /\ \A i \in 1..Len(old) : (old \o data)[i] = old[i]
          /\ \A i \in 1..Len(data) : (old \o data)[Len(old) + i] = data[i]
      BY <3>1, BytesConcat, Zenon
    <3> DEFINE both == old \o data
    <3> HIDE DEF both
    <3>4. /\ both \in Seq(Byte) /\ Len(both) = size
          /\ \A i \in 1..bytes.length : both[i] = old[i]
          /\ \A i \in 1..Len(data) : both[bytes.length + i] = data[i]
      BY <3>1, <3>3 DEF both
    <3>5. ASSUME NEW i \in 1..size
          PROVE  new[i] = both[i]
      <4>1. CASE i <= bytes.length
        BY <1>0, <2>1, <2>5, <3>1, <3>2, <3>4, <4>1
      <4>2. CASE i > bytes.length
        <5>1. i - bytes.length \in 1..Len(data) /\ bytes.length + (i - bytes.length) = i
          BY <1>0, <4>2
        <5> QED
          BY <2>5, <3>2, <3>4, <5>1
      <4> QED
        BY <1>0, <4>1, <4>2
    <3>6. new = both
      BY <3>2, <3>4, <3>5, SeqEqual
    <3> QED
      BY <3>6 DEF new, both, old
  <2>8. /\ appended.bytes = [null |-> b.null, data |-> copy, length |-> size]
        /\ appended.ok = TRUE
    BY <2>4
  <2>9. appended.bytes \in silkworm_Bytes
    BY <1>0, <2>1, <2>5, <2>8 DEF silkworm_Bytes
  <2>10. Valid(appended.bytes)
    BY <2>2, <2>5, <2>8 DEF Valid, capacity
  <2>11. silkworm_ByteView_create(appended.bytes) = silkworm_ByteView_create(bytes) \o data
    <3>1. silkworm_ByteView_create(appended.bytes) = SubSeq(copy, 1, size)
      <4>1. appended.bytes.data = copy /\ appended.bytes.length = size
        BY <2>8
      <4> QED
        BY <4>1, Zenon DEF silkworm_ByteView_create
    <3>2. silkworm_ByteView_create(bytes) = SubSeq(bytes.data, 1, bytes.length)
      BY DEF silkworm_ByteView_create
    <3> QED
      BY <2>7, <3>1, <3>2, Zenon
  <2> QED
    BY <2>1, <2>6, <2>8, <2>9, <2>10, <2>11 DEF IsAppended
<1> QED
  BY <1>2, <1>3

-----------------------------------------------------------------------------
(* The invariants.                                                         *)

\* The buffer: a NULL pointer has no memory, and the length is within it.
BufferInv ==
  /\ buffer \in silkworm_Bytes
  /\ buffer.null => buffer.data = << >>
  /\ LengthWithinCapacity

\* The node: well formed unless a decode failed.
NodeInv ==
  /\ node \in Node \cup {NoNode}
  /\ aborted \in BOOLEAN
  /\ failed \in BOOLEAN
  /\ IllFormedOnlyAfterFailedDecode

\* What the buffer stores.
StoredInv ==
  /\ stored \in Node \cup {NoNode}
  /\ stored # NoNode => /\ Asserted(stored)
                        /\ Valid(buffer)
                        /\ ~buffer.null
                        /\ silkworm_ByteView_create(buffer) = encode_for_storage(stored)

IInv == BufferInv /\ NodeInv /\ StoredInv

\* The view of a valid buffer, and every other one, is a byte string.
LEMMA ViewsAreBytes ==
  ASSUME BufferInv
  PROVE  Views \subseteq Seq(Byte)
<1>1. Valid(buffer) => silkworm_ByteView_create(buffer) \in Seq(Byte)
  BY DEF BufferInv, silkworm_Bytes, Valid, capacity, silkworm_ByteView_create
<1> QED
  BY <1>1, NodeAssumption DEF Views

\* A buffer that has just been allocated is valid.
LEMMA FreshBuffer ==
  ASSUME NEW size \in Nat, NEW created \in silkworm_Bytes_create(size)
  PROVE  /\ created \in silkworm_Bytes
         /\ created.null => created.data = << >>
         /\ created.length = 0
         /\ Valid(created)
         /\ silkworm_ByteView_create(created) = << >>
<1>1. /\ created \in silkworm_Bytes /\ created.length = 0
      /\ created.null => created.data = << >>
  BY Allocated
<1>2. created.data \in Seq(Byte) /\ Len(created.data) \in Nat
  BY <1>1 DEF silkworm_Bytes
<1>3. SubSeq(created.data, 1, 0) = << >>
  BY <1>2
<1> QED
  BY <1>1, <1>2, <1>3 DEF Valid, capacity, silkworm_ByteView_create

\* What silkworm_Node_encode_for_storage leaves in the buffer: all of the bytes or,
\* if it ran out of memory twice, a buffer whose length is 0.
LEMMA EncodedBuffer ==
  ASSUME NEW encoded \in Seq(Byte), encoded # << >>, Len(encoded) < HalfOfMemory,
         NEW created \in silkworm_Bytes_create(Len(encoded)),
         NEW appended \in silkworm_Bytes_append(created, encoded)
  PROVE  /\ appended.ok \in BOOLEAN
         /\ appended.bytes \in silkworm_Bytes
         /\ appended.bytes.null => appended.bytes.data = << >>
         /\ Valid(appended.bytes)
         /\ appended.ok => /\ ~appended.bytes.null
                           /\ silkworm_ByteView_create(appended.bytes) = encoded
<1>1. /\ created \in silkworm_Bytes /\ (created.null => created.data = << >>)
      /\ created.length = 0 /\ Valid(created)
      /\ silkworm_ByteView_create(created) = << >>
  BY FreshBuffer, Len(encoded) \in Nat
<1>2. Len(encoded) \in Nat /\ Len(encoded) > 0 /\ created.length + Len(encoded) = Len(encoded)
  BY <1>1
<1>3. CASE appended = [ok |-> FALSE, bytes |-> created]
  BY <1>1, <1>3
<1>4. CASE appended # [ok |-> FALSE, bytes |-> created]
  <2>1. IsAppended(created, encoded, appended)
    BY <1>1, <1>2, <1>4, AppendedOrNot
  <2>2. created.null => Len(encoded) > capacity(created)
    BY <1>1, <1>2 DEF capacity
  <2>3. << >> \o encoded = encoded
    OBVIOUS
  <2> QED
    BY <1>1, <1>2, <2>1, <2>2, <2>3 DEF IsAppended
<1> QED
  BY <1>3, <1>4

\* The encoding of a node is never empty.
LEMMA EncodedNotEmpty ==
  ASSUME NEW n \in Node
  PROVE  encode_for_storage(n) \in Seq(Byte) /\ encode_for_storage(n) # << >>
<1> DEFINE encoded == encode_for_storage(n)
           root == Len(n.root_hash)
           count == Len(n.hashes)
<1>1. encoded \in Seq(Byte) /\ Len(encoded) = 6 + root + kHashLength * count
  BY EncodedParts
<1>2. n.root_hash \in Hash \cup {NoHash} /\ n.hashes \in Seq(Hash)
  BY DEF Node
<1>3. root \in Nat /\ count \in Nat
  BY <1>2, RootBytes DEF kHashLength
<1> HIDE DEF encoded, root, count
<1>4. Len(encoded) # 0
  BY <1>1, <1>3 DEF kHashLength
<1>5. encoded # << >>
  BY <1>4
<1> QED
  BY <1>1, <1>5 DEF encoded

\* What silkworm_string_to_bytes returns.
LEMMA StringBuffer ==
  ASSUME NEW string \in Seq(Byte), Len(string) < HalfOfMemory,
         NEW bytes \in silkworm_string_to_bytes(string)
  PROVE  /\ bytes \in silkworm_Bytes
         /\ bytes.null => bytes.data = << >>
         /\ Valid(bytes)
<1>0. PICK created \in silkworm_Bytes_create(Len(string)) :
         bytes \in {IF resized.ok
                   THEN [resized.bytes EXCEPT !.data = memcpy(@, 0, string)]
                   ELSE resized.bytes :
                     resized \in silkworm_Bytes_resize(created, Len(string))}
  BY DEF silkworm_string_to_bytes
<1>1. PICK resized \in silkworm_Bytes_resize(created, Len(string)) :
         bytes = IF resized.ok
                 THEN [resized.bytes EXCEPT !.data = memcpy(@, 0, string)]
                 ELSE resized.bytes
  BY <1>0
<1>2. /\ created \in silkworm_Bytes /\ (created.null => created.data = << >>)
      /\ Valid(created) /\ Len(string) \in Nat /\ SizeModulus # 0
  <2>1. Len(string) \in Nat
    OBVIOUS
  <2>2. SizeModulus # 0
    BY <2>1, SizeModulusAssumption DEF HalfOfMemory
  <2> QED
    BY <2>1, <2>2, FreshBuffer
<1>3. CASE resized = [ok |-> FALSE, bytes |-> created]
  BY <1>1, <1>2, <1>3
<1>4. CASE resized # [ok |-> FALSE, bytes |-> created]
  <2>1. IsResized(created, Len(string), resized)
    BY <1>2, <1>4, Resized
  <2> DEFINE b == resized.bytes
             copy == memcpy(b.data, 0, string)
  <2>2. /\ resized.ok = TRUE /\ b \in silkworm_Bytes /\ b.length = Len(string)
        /\ b.null => b.data = << >>
        /\ Valid(b)
    BY <2>1 DEF IsResized
  <2>3. /\ b.data \in Seq(Byte) /\ Len(string) <= Len(b.data)
        /\ b = [null |-> b.null, data |-> b.data, length |-> Len(string)]
        /\ b.null \in BOOLEAN
    BY <2>2 DEF silkworm_Bytes, Valid, capacity
  <2>4. copy \in Seq(Byte) /\ Len(copy) = Len(b.data)
    BY <1>2, <2>3, Copied
  <2>5. bytes = [null |-> b.null, data |-> copy, length |-> Len(string)]
    BY <1>1, <2>2, <2>3
  <2> HIDE DEF copy, b
  <2>6. b.null => copy = << >>
    BY <2>2, <2>3, <2>4
  <2>7. bytes.null = b.null /\ bytes.data = copy /\ bytes.length = Len(string)
    BY <2>5
  <2>8. bytes \in silkworm_Bytes
    BY <1>2, <2>3, <2>4, <2>5 DEF silkworm_Bytes
  <2> QED
    BY <2>3, <2>4, <2>6, <2>7, <2>8 DEF Valid, capacity
<1> QED
  BY <1>3, <1>4

\* The calls that a client makes.
NodeCall ==
  \/ silkworm_Node_create
  \/ \E n \in [state_mask : Masks, tree_mask : Masks, hash_mask : Masks,
               hashes : HashLists, root_hash : RootHashes] :
        silkworm_Node_create_with_params(n)
  \/ silkworm_Node_destroy
  \/ \E root_hash \in RootHashes : silkworm_Node_set_root_hash(root_hash)
  \/ \E raw \in Views : silkworm_Node_decode_from_storage(raw)

\* Those that change the node keep it well formed unless decoding fails.
LEMMA NodeCallKeepsNode ==
  ASSUME BufferInv, NodeInv, NodeCall
  PROVE  NodeInv' /\ UNCHANGED <<buffer, stored>>
<1> USE DEF NodeInv, IllFormedOnlyAfterFailedDecode, PresumedInvariants
<1>1. CASE silkworm_Node_create
  <2>1. DefaultNode \in Node /\ Asserted(DefaultNode)
    <3>1. popcount({}) = 0
      BY FS_EmptySet DEF popcount
    <3>2. << >> \in Seq(Hash) /\ Len(<< >>) = 0 /\ {} \in SUBSET Digit
      OBVIOUS
    <3> QED
      BY <3>1, <3>2 DEF DefaultNode, Node, Asserted, is_subset, NoHash
  <2> QED
    BY <1>1, <2>1 DEF silkworm_Node_create
<1>2. CASE \E n \in [state_mask : Masks, tree_mask : Masks, hash_mask : Masks,
                     hashes : HashLists, root_hash : RootHashes] :
             silkworm_Node_create_with_params(n)
  <2>1. PICK n \in [state_mask : Masks, tree_mask : Masks, hash_mask : Masks,
                    hashes : HashLists, root_hash : RootHashes] :
           silkworm_Node_create_with_params(n)
    BY <1>2
  <2>2. n \in Node
    BY NodeAssumption DEF Node
  <2>3. CASE Asserted(n)
    BY <2>1, <2>2, <2>3 DEF silkworm_Node_create_with_params
  <2>4. CASE ~Asserted(n)
    BY <2>1, <2>4 DEF silkworm_Node_create_with_params
  <2> QED
    BY <2>3, <2>4
<1>3. CASE silkworm_Node_destroy
  BY <1>3 DEF silkworm_Node_destroy
<1>4. CASE \E root_hash \in RootHashes : silkworm_Node_set_root_hash(root_hash)
  <2>1. PICK root_hash \in RootHashes : silkworm_Node_set_root_hash(root_hash)
    BY <1>4
  <2>2. root_hash \in Hash \cup {NoHash} /\ node \in Node /\ node # NoNode
    BY <2>1, NodeAssumption DEF silkworm_Node_set_root_hash
  <2>3. node' = [state_mask |-> node.state_mask, tree_mask |-> node.tree_mask,
                 hash_mask |-> node.hash_mask, hashes |-> node.hashes,
                 root_hash |-> root_hash]
    BY <2>1, <2>2 DEF silkworm_Node_set_root_hash, Node
  <2>4. node' \in Node
    BY <2>2, <2>3 DEF Node
  <2>5. Asserted(node) => Asserted(node')
    BY <2>3 DEF Asserted
  <2>6. UNCHANGED <<buffer, aborted, failed, stored>>
    BY <2>1 DEF silkworm_Node_set_root_hash
  <2> QED
    BY <2>2, <2>4, <2>5, <2>6
<1>5. CASE \E raw \in Views : silkworm_Node_decode_from_storage(raw)
  <2>1. PICK raw \in Views : silkworm_Node_decode_from_storage(raw)
    BY <1>5
  <2>2. raw \in Seq(Byte)
    BY ViewsAreBytes
  <2>3. /\ node \in Node /\ node # NoNode
        /\ node' = decode_from_storage(raw, node).node
        /\ failed' = IF decode_from_storage(raw, node).ok THEN FALSE
                     ELSE IF HasNodeLength(raw) THEN TRUE ELSE failed
        /\ UNCHANGED <<buffer, aborted, stored>>
    BY <2>1 DEF silkworm_Node_decode_from_storage
  <2>4. /\ decode_from_storage(raw, node).ok \in BOOLEAN
        /\ decode_from_storage(raw, node).node \in Node
        /\ decode_from_storage(raw, node).ok => Asserted(decode_from_storage(raw, node).node)
        /\ ~HasNodeLength(raw) => decode_from_storage(raw, node).node = node
    BY <2>2, <2>3, DecodedNode
  <2>5. CASE decode_from_storage(raw, node).ok
    BY <2>3, <2>4, <2>5
  <2>6. CASE ~decode_from_storage(raw, node).ok /\ HasNodeLength(raw)
    BY <2>3, <2>4, <2>6
  <2>7. CASE ~decode_from_storage(raw, node).ok /\ ~HasNodeLength(raw)
    BY <2>3, <2>4, <2>7
  <2> QED
    BY <2>5, <2>6, <2>7
<1> QED
  BY <1>1, <1>2, <1>3, <1>4, <1>5 DEF NodeCall

\* Those that change the buffer.
BytesCall ==
  \/ silkworm_Node_encode_for_storage
  \/ \E size \in Sizes : BytesCreate(size)
  \/ \E string \in Raws : StringToBytes(string)
  \/ BytesDestroy
  \/ \E size \in Sizes : BytesResize(size)
  \/ \E data \in Appended : BytesAppend(data)

\* They keep it within its memory, and know what it stores.
LEMMA BytesCallKeepsBuffer ==
  ASSUME IInv, BytesCall
  PROVE  BufferInv' /\ StoredInv' /\ UNCHANGED <<node, aborted, failed>>
<1> USE DEF IInv, BufferInv, StoredInv, LengthWithinCapacity
<1>1. CASE silkworm_Node_encode_for_storage
  <2> DEFINE encoded == encode_for_storage(node)
  <2>1. /\ node \in Node /\ node # NoNode /\ Len(encoded) < HalfOfMemory
        /\ UNCHANGED <<node, aborted, failed>>
    BY <1>1 DEF silkworm_Node_encode_for_storage, NodeInv
  <2>2. PICK created \in silkworm_Bytes_create(Len(encoded)) :
          \E appended \in silkworm_Bytes_append(created, encoded) :
             /\ buffer' = appended.bytes
             /\ stored' = IF appended.ok /\ Asserted(node) THEN node ELSE NoNode
    BY <1>1 DEF silkworm_Node_encode_for_storage
  <2>3. PICK appended \in silkworm_Bytes_append(created, encoded) :
           /\ buffer' = appended.bytes
           /\ stored' = IF appended.ok /\ Asserted(node) THEN node ELSE NoNode
    BY <2>2
  <2>4. encoded \in Seq(Byte) /\ encoded # << >>
    BY <2>1, EncodedNotEmpty
  <2>5. /\ appended.ok \in BOOLEAN
        /\ appended.bytes \in silkworm_Bytes
        /\ appended.bytes.null => appended.bytes.data = << >>
        /\ Valid(appended.bytes)
        /\ appended.ok => /\ ~appended.bytes.null
                          /\ silkworm_ByteView_create(appended.bytes) = encoded
    BY <2>1, <2>4, EncodedBuffer
  <2>6. CASE appended.ok /\ Asserted(node)
    BY <2>1, <2>3, <2>5, <2>6
  <2>7. CASE ~(appended.ok /\ Asserted(node))
    BY <2>1, <2>3, <2>5, <2>7
  <2> QED
    BY <2>6, <2>7
<1>2. CASE \E size \in Sizes : BytesCreate(size)
  <2>1. PICK size \in Sizes : BytesCreate(size)
    BY <1>2
  <2>2. size \in Nat
    BY NodeAssumption
  <2>3. buffer = NullBytes /\ buffer' \in silkworm_Bytes_create(size)
        /\ UNCHANGED <<node, aborted, failed, stored>>
    BY <2>1 DEF BytesCreate
  <2>4. stored = NoNode
    BY <2>3 DEF NullBytes
  <2> QED
    BY <2>2, <2>3, <2>4, FreshBuffer
<1>3. CASE \E string \in Raws : StringToBytes(string)
  <2>1. PICK string \in Raws : StringToBytes(string)
    BY <1>3
  <2>2. /\ string \in Seq(Byte) /\ Len(string) < HalfOfMemory
        /\ buffer = NullBytes /\ buffer' \in silkworm_string_to_bytes(string)
        /\ UNCHANGED <<node, aborted, failed, stored>>
    BY <2>1, NodeAssumption DEF StringToBytes
  <2>3. stored = NoNode
    BY <2>2 DEF NullBytes
  <2> QED
    BY <2>2, <2>3, StringBuffer
<1>4. CASE BytesDestroy
  <2>1. /\ buffer' = IF buffer.null THEN buffer ELSE NullBytes
        /\ stored' = NoNode /\ UNCHANGED <<node, aborted, failed>>
    BY <1>4 DEF BytesDestroy, silkworm_Bytes_destroy
  <2>2. /\ NullBytes \in silkworm_Bytes /\ NullBytes.data = << >> /\ Valid(NullBytes)
    BY DEF NullBytes, silkworm_Bytes, Valid, capacity
  <2>3. CASE buffer.null
    <3>1. buffer' = buffer
      BY <2>1, <2>3
    <3> QED
      BY <2>1, <3>1
  <2>4. CASE ~buffer.null
    <3>1. buffer' = NullBytes
      BY <2>1, <2>4
    <3> QED
      BY <2>1, <2>2, <3>1
  <2> QED
    BY <2>3, <2>4
<1>5. CASE \E size \in Sizes : BytesResize(size)
  <2>1. PICK size \in Sizes : BytesResize(size)
    BY <1>5
  <2>2. PICK resized \in silkworm_Bytes_resize(buffer, size) :
          /\ buffer' = resized.bytes
          /\ stored' = IF resized.ok THEN NoNode ELSE stored
    BY <2>1 DEF BytesResize
  <2>3. size \in Nat /\ SizeModulus # 0 /\ UNCHANGED <<node, aborted, failed>>
    BY <2>1, NodeAssumption, SizeModulusAssumption DEF BytesResize
  <2>4. CASE resized = [ok |-> FALSE, bytes |-> buffer]
    BY <2>2, <2>3, <2>4
  <2>5. CASE resized # [ok |-> FALSE, bytes |-> buffer]
    <3>1. IsResized(buffer, size, resized)
      BY <2>3, <2>5, Resized
    <3> QED
      BY <2>2, <2>3, <3>1 DEF IsResized
  <2> QED
    BY <2>4, <2>5
<1>6. CASE \E data \in Appended : BytesAppend(data)
  <2>1. PICK data \in Appended : BytesAppend(data)
    BY <1>6
  <2>2. PICK appended \in silkworm_Bytes_append(buffer, data) :
          /\ buffer' = appended.bytes
          /\ stored' = IF appended.ok THEN NoNode ELSE stored
    BY <2>1 DEF BytesAppend
  <2>3. /\ data \in Seq(Byte) /\ Valid(buffer) /\ buffer.length + Len(data) < HalfOfMemory
        /\ UNCHANGED <<node, aborted, failed>>
    BY <2>1, NodeAssumption DEF BytesAppend
  <2>4. CASE appended = [ok |-> FALSE, bytes |-> buffer]
    BY <2>2, <2>3, <2>4
  <2>5. CASE appended # [ok |-> FALSE, bytes |-> buffer]
    <3>1. IsAppended(buffer, data, appended)
      BY <2>3, <2>5, AppendedOrNot
    <3> QED
      BY <2>2, <2>3, <3>1 DEF IsAppended
  <2> QED
    BY <2>4, <2>5
<1> QED
  BY <1>1, <1>2, <1>3, <1>4, <1>5, <1>6 DEF BytesCall

\* The buffer, the node and what is stored stay as they should be.
LEMMA InvariantHolds == Spec => []IInv
<1>1. Init => IInv
  <2>1. NullBytes \in silkworm_Bytes /\ NullBytes.data = << >> /\ Valid(NullBytes)
    BY DEF NullBytes, silkworm_Bytes, Valid, capacity
  <2> QED
    BY <2>1 DEF Init, IInv, BufferInv, NodeInv, StoredInv, LengthWithinCapacity,
                IllFormedOnlyAfterFailedDecode, PresumedInvariants
<1>2. IInv /\ [Next]_vars => IInv'
  <2> SUFFICES ASSUME IInv, [Next]_vars PROVE IInv'
    OBVIOUS
  <2>1. CASE NodeCall
    <3>1. NodeInv' /\ UNCHANGED <<buffer, stored>>
      BY <2>1, NodeCallKeepsNode DEF IInv
    <3> QED
      BY <3>1 DEF IInv, BufferInv, StoredInv, LengthWithinCapacity
  <2>2. CASE BytesCall
    <3>1. BufferInv' /\ StoredInv' /\ UNCHANGED <<node, aborted, failed>>
      BY <2>2, BytesCallKeepsBuffer
    <3> QED
      BY <3>1 DEF IInv, NodeInv, IllFormedOnlyAfterFailedDecode, PresumedInvariants
  <2>3. CASE UNCHANGED vars
    BY <2>3 DEF vars, IInv, BufferInv, NodeInv, StoredInv, LengthWithinCapacity,
                IllFormedOnlyAfterFailedDecode, PresumedInvariants
  <2>4. Next => NodeCall \/ BytesCall
    BY DEF Next, NodeCall, BytesCall
  <2> QED
    BY <2>1, <2>2, <2>3, <2>4
<1> QED
  BY <1>1, <1>2, PTL DEF Spec

\* Type correctness.
THEOREM NodeStorageTypeCorrect == Spec => []TypeOK
<1>1. IInv => TypeOK
  BY DEF IInv, BufferInv, NodeInv, StoredInv, TypeOK
<1> QED
  BY <1>1, InvariantHolds, PTL

\* The length of a C byte buffer stays within its memory, whatever allocations
\* succeed or fail, as long as it is below half of all memory.
THEOREM BufferWithinMemory == Spec => []LengthWithinCapacity
<1>1. IInv => LengthWithinCapacity
  BY DEF IInv, BufferInv
<1> QED
  BY <1>1, InvariantHolds, PTL

\* Nothing but a decode that failed leaves a node other than node.hpp presumes.
THEOREM NodesAreWellFormed == Spec => []IllFormedOnlyAfterFailedDecode
<1>1. IInv => IllFormedOnlyAfterFailedDecode
  BY DEF IInv, NodeInv
<1> QED
  BY <1>1, InvariantHolds, PTL

\* What was stored is what is read.
THEOREM StoredNodesAreRead == Spec => []StoredNodeIsRead
<1>1. IInv => StoredNodeIsRead
  <2> SUFFICES ASSUME IInv, stored # NoNode
               PROVE  /\ Valid(buffer)
                      /\ ~silkworm_ByteView_is_null(buffer)
                      /\ \A n \in {node, DefaultNode} :
                            decode_from_storage(silkworm_ByteView_create(buffer), n)
                                = [ok |-> TRUE, node |-> stored]
    BY DEF StoredNodeIsRead
  <2>1. /\ stored \in Node /\ Asserted(stored) /\ Valid(buffer) /\ ~buffer.null
        /\ silkworm_ByteView_create(buffer) = encode_for_storage(stored)
    BY DEF IInv, StoredInv
  <2>2. \A n : decode_from_storage(encode_for_storage(stored), n) = [ok |-> TRUE, node |-> stored]
    BY <2>1, EncodedNodeIsDecoded
  <2> QED
    BY <2>1, <2>2 DEF silkworm_ByteView_is_null
<1> QED
  BY <1>1, InvariantHolds, PTL

\* What is accepted has no other encoding.
THEOREM AcceptedBytesHaveOneReading == Spec => AcceptedBytesAreCanonical
<1>1. IInv /\ [Next]_vars =>
        [\A raw \in Views :
            silkworm_Node_decode_from_storage(raw) /\ decode_from_storage(raw, node).ok
                => encode_for_storage(node') = raw]_vars
  <2> SUFFICES ASSUME IInv, NEW raw \in Views,
                      silkworm_Node_decode_from_storage(raw), decode_from_storage(raw, node).ok
               PROVE  encode_for_storage(node') = raw
    OBVIOUS
  <2>1. raw \in Seq(Byte)
    BY ViewsAreBytes DEF IInv
  <2>2. node \in Node /\ node' = decode_from_storage(raw, node).node
    BY DEF silkworm_Node_decode_from_storage, IInv, NodeInv
  <2> QED
    BY <2>1, <2>2, DecodedNode
<1> QED
  BY <1>1, InvariantHolds, PTL DEF Spec, AcceptedBytesAreCanonical

\* silkworm_Bytes_append adds all of the data or nothing.
THEOREM AppendAddsAllOrNothing == Spec => AppendIsAllOrNothing
<1>1. IInv /\ [Next]_vars =>
        [\A data \in Appended :
            BytesAppend(data) =>
                \/ buffer' = buffer
                \/ silkworm_ByteView_create(buffer')
                       = silkworm_ByteView_create(buffer) \o data]_vars
  <2> SUFFICES ASSUME IInv, NEW data \in Appended, BytesAppend(data)
               PROVE  \/ buffer' = buffer
                      \/ silkworm_ByteView_create(buffer')
                             = silkworm_ByteView_create(buffer) \o data
    OBVIOUS
  <2>1. PICK appended \in silkworm_Bytes_append(buffer, data) : buffer' = appended.bytes
    BY DEF BytesAppend
  <2>2. /\ data \in Seq(Byte) /\ Valid(buffer) /\ buffer.length + Len(data) < HalfOfMemory
        /\ buffer \in silkworm_Bytes /\ (buffer.null => buffer.data = << >>)
    BY NodeAssumption DEF BytesAppend, IInv, BufferInv
  <2>3. appended = [ok |-> FALSE, bytes |-> buffer] \/ IsAppended(buffer, data, appended)
    BY <2>2, AppendedOrNot
  <2> QED
    BY <2>1, <2>3 DEF IsAppended
<1> QED
  BY <1>1, InvariantHolds, PTL DEF Spec, AppendIsAllOrNothing
=============================================================================
