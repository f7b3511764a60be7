------------------------------ MODULE RlpProofs ------------------------------
(***************************************************************************)
(* Proofs about RLP and hexadecimal text: threads that encode at the same  *)
(* time do not disturb one another; every string and every number of 64    *)
(* bits is read back from its encoding, whatever follows it; what a        *)
(* decoder accepts is the one encoding of the value it returns; text and   *)
(* bytes are each written as what the other was read from.                 *)
(***************************************************************************)
EXTENDS RlpWriters, TextReader, ByteStringLemmas

-----------------------------------------------------------------------------
(* The threads.                                                            *)

\* The view a thread holds is that of its next chunk's number, whose bytes are in its own
\* buffer.
Holds(t) ==
  view[t] # 0 =>
    /\ pending[t] # <<>> /\ Head(pending[t]).number # 0
    /\ buffer[t] = full_be(Head(pending[t]).number)
    /\ view[t] = Len(to_big_compact(Head(pending[t]).number))

\* Type correctness, and what every thread holds.
WritersInv ==
  /\ to \in [Threads -> Seq(Byte)] /\ pending \in [Threads -> Seq(Chunks)]
  /\ buffer \in [Threads -> Seq(Byte)] /\ view \in [Threads -> 0..8]
  /\ \A t \in Threads : Len(buffer[t]) = 8 /\ Holds(t)

\* The first chunk a thread has to append.
LEMMA NextChunk ==
  ASSUME WritersInv, NEW t \in Threads, pending[t] # <<>>
  PROVE  /\ Head(pending[t]) \in Chunks /\ Tail(pending[t]) \in Seq(Chunks)
         /\ Head(pending[t]).bytes \in Seq(Byte) /\ Head(pending[t]).number \in Uint64
<1>1. pending[t] \in Seq(Chunks)
  BY DEF WritersInv
<1>2. Head(pending[t]) \in Chunks /\ Tail(pending[t]) \in Seq(Chunks)
  BY <1>1
<1> QED
  BY <1>2 DEF Chunks

\* What is in the view is the compact form of the number.
LEMMA ViewIsCompact ==
  ASSUME WritersInv, NEW t \in Threads, pending[t] # <<>>,
         Head(pending[t]).number # 0 => view[t] # 0
  PROVE  SubSeq(buffer[t], Len(buffer[t]) - view[t] + 1, Len(buffer[t]))
           = to_big_compact(Head(pending[t]).number)
<1> DEFINE n == Head(pending[t]).number
           c == to_big_compact(n)
<1>1. n \in Uint64
  BY NextChunk
<1>2. /\ c \in Seq(Byte) /\ (n = 0 <=> c = <<>>)
      /\ c = SubSeq(full_be(n), 8 - Len(c) + 1, 8)
  BY <1>1, CompactForm
<1>3. Len(buffer[t]) = 8 /\ Holds(t) /\ buffer[t] \in Seq(Byte)
  BY DEF WritersInv
<1>4. CASE view[t] # 0
  BY <1>2, <1>3, <1>4 DEF Holds
<1>5. CASE view[t] = 0
  <2>1. n = 0
    BY <1>5
  <2>2. c = <<>>
    BY <1>2, <2>1, Zenon
  <2>3. 8 - 0 + 1 = 9 /\ SubSeq(buffer[t], 9, 8) = <<>>
    BY <1>3
  <2> QED
    BY <1>3, <1>5, <2>2, <2>3
<1> QED
  BY <1>4, <1>5

\* Nothing is held at first.
LEMMA WritersInitEstablishes ==
  ASSUME InitWriters
  PROVE  WritersInv
<1>1. full_be(0) \in Seq(Byte) /\ Len(full_be(0)) = 8
  BY FullBytes
<1> HIDE DEF full_be
<1>2. /\ to \in [Threads -> Seq(Byte)] /\ pending \in [Threads -> Seq(Chunks)]
      /\ buffer \in [Threads -> Seq(Byte)] /\ view \in [Threads -> 0..8]
  BY <1>1 DEF InitWriters
<1>3. \A t \in Threads : Len(buffer[t]) = 8 /\ view[t] = 0
  BY <1>1 DEF InitWriters
<1> QED
  BY <1>2, <1>3 DEF WritersInv, Holds

\* Whatever a thread does, it keeps what it holds, and what the others hold.
LEMMA WritersKeep ==
  ASSUME WritersInv, [WritersNext]_writers
  PROVE  WritersInv'
<1>1. ASSUME NEW t \in Threads, NEW chunks \in Seq(Chunks), Begin(t, chunks)
      PROVE  WritersInv'
  <2>1. /\ pending[t] = <<>> /\ pending' = [pending EXCEPT ![t] = chunks]
        /\ UNCHANGED <<to, buffer, view>>
    BY <1>1 DEF Begin
  <2>2. pending' \in [Threads -> Seq(Chunks)]
    BY <2>1 DEF WritersInv
  <2>3. ASSUME NEW u \in Threads
        PROVE  Holds(u)'
    <3>1. Holds(u)
      BY DEF WritersInv
    <3>2. CASE u = t
      BY <2>1, <3>1, <3>2 DEF Holds
    <3>3. CASE u # t
      <4>1. pending'[u] = pending[u]
        BY <2>1, <3>3 DEF WritersInv
      <4> QED
        BY <2>1, <3>1, <4>1 DEF Holds
    <3> QED
      BY <3>2, <3>3
  <2> QED
    BY <2>1, <2>2, <2>3 DEF WritersInv
<1>2. ASSUME NEW t \in Threads, ToBigCompact(t)
      PROVE  WritersInv'
  <2> DEFINE n == Head(pending[t]).number
             size == Len(to_big_compact(n))
             full == full_be(n)
  <2>1. /\ pending[t] # <<>> /\ n # 0 /\ UNCHANGED <<to, pending>>
        /\ buffer' = [buffer EXCEPT ![t] = full] /\ view' = [view EXCEPT ![t] = size]
    BY <1>2 DEF ToBigCompact
  <2>2. n \in Uint64
    BY <2>1, NextChunk
  <2>3. size \in 0..8 /\ full \in Seq(Byte) /\ Len(full) = 8
    BY <2>2, CompactForm, FullBytes DEF Uint64
  <2> HIDE DEF n, size, full
  <2>4. buffer' \in [Threads -> Seq(Byte)] /\ view' \in [Threads -> 0..8]
    BY <2>1, <2>3 DEF WritersInv
  <2>5. ASSUME NEW u \in Threads
        PROVE  Len(buffer'[u]) = 8 /\ Holds(u)'
    <3>1. Len(buffer[u]) = 8 /\ Holds(u)
      BY DEF WritersInv
    <3>2. CASE u = t
      <4>1. buffer'[u] = full /\ view'[u] = size
        BY <2>1, <3>2 DEF WritersInv
      <4> QED
        BY <2>1, <2>3, <3>2, <4>1 DEF Holds, n, size, full
    <3>3. CASE u # t
      <4>1. buffer'[u] = buffer[u] /\ view'[u] = view[u] /\ pending' = pending
        BY <2>1, <3>3 DEF WritersInv
      <4> QED
        BY <3>1, <4>1 DEF Holds
    <3> QED
      BY <3>2, <3>3
  <2> QED
    BY <2>1, <2>4, <2>5 DEF WritersInv
<1>3. ASSUME NEW t \in Threads, AppendChunk(t)
      PROVE  WritersInv'
  <2> DEFINE last == SubSeq(buffer[t], Len(buffer[t]) - view[t] + 1, Len(buffer[t]))
  <2>1. /\ pending[t] # <<>> /\ (Head(pending[t]).number # 0 => view[t] # 0)
        /\ to' = [to EXCEPT ![t] = @ \o Head(pending[t]).bytes \o last]
        /\ pending' = [pending EXCEPT ![t] = Tail(@)] /\ view' = [view EXCEPT ![t] = 0]
        /\ UNCHANGED buffer
    BY <1>3 DEF AppendChunk
  <2>2. Head(pending[t]).bytes \in Seq(Byte) /\ Tail(pending[t]) \in Seq(Chunks)
    BY <2>1, NextChunk
  <2>3. last \in Seq(Byte)
    <3>1. last = to_big_compact(Head(pending[t]).number) /\ Head(pending[t]).number \in Uint64
      BY <2>1, NextChunk, ViewIsCompact
    <3>2. \A n \in Uint64 : to_big_compact(n) \in Seq(Byte)
      BY CompactForm
    <3> QED
      BY <3>1, <3>2, Zenon
  <2> HIDE DEF last
  <2>4. /\ to' \in [Threads -> Seq(Byte)] /\ pending' \in [Threads -> Seq(Chunks)]
        /\ view' \in [Threads -> 0..8]
    BY <2>1, <2>2, <2>3 DEF WritersInv
  <2>5. ASSUME NEW u \in Threads
        PROVE  Holds(u)'
    <3>1. Holds(u)
      BY DEF WritersInv
    <3>2. CASE u = t
      <4>1. view'[u] = 0
        BY <2>1, <3>2 DEF WritersInv
      <4> QED
        BY <4>1 DEF Holds
    <3>3. CASE u # t
      <4>1. view'[u] = view[u] /\ pending'[u] = pending[u] /\ buffer' = buffer
        BY <2>1, <3>3 DEF WritersInv
      <4> QED
        BY <3>1, <4>1 DEF Holds
    <3> QED
      BY <3>2, <3>3
  <2> QED
    BY <2>1, <2>4, <2>5 DEF WritersInv
<1>4. CASE UNCHANGED writers
  BY <1>4 DEF writers, WritersInv, Holds
<1> QED
  BY <1>1, <1>2, <1>3, <1>4 DEF WritersNext

\* A step of the threads appends nothing, or a chunk as it is.
LEMMA ChunkAppended ==
  ASSUME WritersInv, [WritersNext]_writers, NEW t \in Threads, to'[t] # to[t]
  PROVE  pending'[t] = Tail(pending[t]) /\ to'[t] = to[t] \o BytesOf(Head(pending[t]))
<1>1. PICK u \in Threads : AppendChunk(u)
  BY DEF WritersNext, writers, Begin, ToBigCompact
<1> DEFINE last == SubSeq(buffer[u], Len(buffer[u]) - view[u] + 1, Len(buffer[u]))
<1>2. /\ pending[u] # <<>> /\ (Head(pending[u]).number # 0 => view[u] # 0)
      /\ to' = [to EXCEPT ![u] = @ \o Head(pending[u]).bytes \o last]
      /\ pending' = [pending EXCEPT ![u] = Tail(@)]
  BY <1>1 DEF AppendChunk
<1>3. last = to_big_compact(Head(pending[u]).number)
  BY <1>2, ViewIsCompact
<1> HIDE DEF last
<1>4. u = t
  BY <1>2 DEF WritersInv
<1>5. to'[t] = (to[t] \o Head(pending[t]).bytes) \o last /\ pending'[t] = Tail(pending[t])
  BY <1>2, <1>4 DEF WritersInv
<1>6. /\ to[t] \in Seq(Byte) /\ Head(pending[t]).bytes \in Seq(Byte) /\ last \in Seq(Byte)
  <2>1. Head(pending[t]).number \in Uint64
    BY <1>2, <1>4, NextChunk
  <2>2. last \in Seq(Byte)
    BY <1>3, <1>4, <2>1, CompactForm
  <2> QED
    BY <1>2, <1>4, <2>2, NextChunk DEF WritersInv
<1>7. (to[t] \o Head(pending[t]).bytes) \o last = to[t] \o (Head(pending[t]).bytes \o last)
  <2>1. \A a, b, c \in Seq(Byte) : (a \o b) \o c = a \o (b \o c)
    BY ConcatAssociative
  <2> QED
    BY <1>6, <2>1, Zenon
<1> QED
  BY <1>3, <1>4, <1>5, <1>7 DEF BytesOf

\* The threads' chunks are appended whole, however many threads there are and whatever
\* each of them encodes: the buffer of to_big_compact is the thread's own.
THEOREM ThreadsDoNotInterfere ==
  WritersSpec => ChunksAppendedWhole
<1>1. InitWriters => WritersInv
  BY WritersInitEstablishes
<1>2. WritersInv /\ [WritersNext]_writers => WritersInv'
  BY WritersKeep
<1>3. WritersInv /\ [WritersNext]_writers =>
        [\A t \in Threads :
           to'[t] # to[t] =>
             /\ pending'[t] = Tail(pending[t])
             /\ to'[t] = to[t] \o BytesOf(Head(pending[t]))]_writers
  BY ChunkAppended
<1> QED
  BY <1>1, <1>2, <1>3, PTL DEF WritersSpec, ChunksAppendedWhole

-----------------------------------------------------------------------------
(* Strings cut in two, and put together.                                   *)

\* The two parts of a concatenation.
LEMMA ConcatCut ==
  ASSUME NEW a \in Seq(Byte), NEW b \in Seq(Byte)
  PROVE  /\ a \o b \in Seq(Byte) /\ Len(a \o b) = Len(a) + Len(b)
         /\ SubSeq(a \o b, 1, Len(a)) = a /\ remove_prefix(a \o b, Len(a)) = b
<1> DEFINE s == a \o b
           size == Len(a) + Len(b)
<1>1. /\ s \in Seq(Byte) /\ Len(s) = size /\ Len(a) \in Nat /\ Len(b) \in Nat
      /\ \A i \in 1..size : s[i] = IF i <= Len(a) THEN a[i] ELSE b[i - Len(a)]
  BY ConcatProperties, LenProperties
<1>2. \A i \in 1..size : s[i] \in Byte
  BY <1>1, ElementOfSeq
<1> HIDE DEF s
<1>3. SubSeq(s, 1, Len(a)) = a
  <2> DEFINE first == SubSeq(s, 1, Len(a))
  <2>1. \A i \in 1..Len(a) : s[i] \in Byte
    BY <1>1, <1>2
  <2>2. first \in Seq(Byte)
    BY <1>1, <2>1, SubSeqProperties
  <2>3. Len(first) = IF 1 <= Len(a) THEN Len(a) - 1 + 1 ELSE 0
    BY <1>1, <2>1, SubSeqProperties
  <2>4. \A i \in 1..(Len(a) - 1 + 1) : first[i] = s[1 + i - 1]
    BY <1>1, <2>1, SubSeqProperties
  <2> HIDE DEF first
  <2>5. Len(first) = Len(a)
    BY <1>1, <2>3
  <2>6. \A i \in 1..Len(first) : first[i] = a[i]
    <3> SUFFICES ASSUME NEW i \in 1..Len(first)
                 PROVE  first[i] = a[i]
      OBVIOUS
    <3>1. i \in 1..(Len(a) - 1 + 1) /\ 1 + i - 1 = i /\ i \in 1..size /\ i <= Len(a)
      BY <1>1, <2>5
    <3> QED
      BY <1>1, <2>4, <3>1
  <2>7. first = a
    BY <2>2, <2>5, <2>6, SeqEqual
  <2> QED
    BY <2>7 DEF first
<1>4. SubSeq(s, Len(a) + 1, Len(s)) = b
  <2> DEFINE last == SubSeq(s, Len(a) + 1, size)
  <2>1. Len(a) + 1 \in Int /\ size \in Int /\ \A i \in (Len(a) + 1)..size : s[i] \in Byte
    BY <1>1, <1>2
  <2>2. last \in Seq(Byte)
    BY <2>1, SubSeqProperties
  <2>3. Len(last) = IF Len(a) + 1 <= size THEN size - (Len(a) + 1) + 1 ELSE 0
    BY <2>1, SubSeqProperties
  <2>4. \A i \in 1..(size - (Len(a) + 1) + 1) : last[i] = s[(Len(a) + 1) + i - 1]
    BY <2>1, SubSeqProperties
  <2> HIDE DEF last
  <2>5. Len(last) = Len(b)
    BY <1>1, <2>3
  <2>6. \A i \in 1..Len(last) : last[i] = b[i]
    <3> SUFFICES ASSUME NEW i \in 1..Len(last)
                 PROVE  last[i] = b[i]
      OBVIOUS
    <3>1. /\ i \in 1..(size - (Len(a) + 1) + 1) /\ (Len(a) + 1) + i - 1 = Len(a) + i
          /\ Len(a) + i \in 1..size /\ ~(Len(a) + i <= Len(a)) /\ (Len(a) + i) - Len(a) = i
      BY <1>1, <2>5
    <3> QED
      BY <1>1, <2>4, <3>1
  <2>7. last = b
    BY <2>2, <2>5, <2>6, SeqEqual
  <2> QED
    BY <1>1, <2>7 DEF last
<1> QED
  BY <1>1, <1>3, <1>4 DEF s, remove_prefix

\* A string is its two parts.
LEMMA StringCut ==
  ASSUME NEW s \in Seq(Byte), NEW k \in Nat, k <= Len(s)
  PROVE  /\ SubSeq(s, 1, k) \in Seq(Byte) /\ Len(SubSeq(s, 1, k)) = k
         /\ remove_prefix(s, k) \in Seq(Byte) /\ Len(remove_prefix(s, k)) = Len(s) - k
         /\ s = SubSeq(s, 1, k) \o remove_prefix(s, k)
         /\ k > 0 => SubSeq(s, 1, k)[1] = s[1]
<1>1. Len(s) \in Nat /\ \A i \in 1..Len(s) : s[i] \in Byte
  BY ElementOfSeq, LenProperties
<1> DEFINE first == SubSeq(s, 1, k)
           last == SubSeq(s, k + 1, Len(s))
<1>2. /\ first \in Seq(Byte) /\ Len(first) = IF 1 <= k THEN k - 1 + 1 ELSE 0
      /\ \A i \in 1..(k - 1 + 1) : first[i] = s[1 + i - 1]
  <2>1. \A i \in 1..k : s[i] \in Byte
    BY <1>1
  <2>2. first \in Seq(Byte)
    BY <2>1, SubSeqProperties
  <2>3. Len(first) = IF 1 <= k THEN k - 1 + 1 ELSE 0
    BY <2>1, SubSeqProperties
  <2>4. \A i \in 1..(k - 1 + 1) : first[i] = s[1 + i - 1]
    BY <2>1, SubSeqProperties
  <2> QED
    BY <2>2, <2>3, <2>4
<1>3. last \in Seq(Byte) /\ Len(last) = IF k + 1 <= Len(s) THEN Len(s) - (k + 1) + 1 ELSE 0
  <2>1. k + 1 \in Int /\ Len(s) \in Int /\ \A i \in (k + 1)..Len(s) : s[i] \in Byte
    BY <1>1
  <2>2. last \in Seq(Byte)
    BY <2>1, SubSeqProperties
  <2>3. Len(last) = IF k + 1 <= Len(s) THEN Len(s) - (k + 1) + 1 ELSE 0
    BY <2>1, SubSeqProperties
  <2> QED
    BY <2>2, <2>3
<1>4. first \o last = s
  <2>1. 1 \in 1..(Len(s) + 1) /\ k \in (1 - 1)..Len(s) /\ Len(s) \in k..Len(s)
    BY <1>1
  <2>2. first \o last = SubSeq(s, 1, Len(s))
    BY <2>1, ConcatAdjacentSubSeq
  <2>3. SubSeq(s, 1, Len(s)) = s
    BY SubSeqFull
  <2> QED
    BY <2>2, <2>3
<1> HIDE DEF first, last
<1>5. Len(first) = k /\ Len(last) = Len(s) - k
  BY <1>1, <1>2, <1>3
<1>6. ASSUME k > 0
      PROVE  first[1] = s[1]
  <2>1. 1 \in 1..(k - 1 + 1) /\ 1 + 1 - 1 = 1
    BY <1>6
  <2> QED
    BY <1>2, <2>1
<1> QED
  BY <1>2, <1>3, <1>4, <1>5, <1>6 DEF first, last, remove_prefix

\* The first byte of a string, and the others.
LEMMA FirstCut ==
  ASSUME NEW byte \in Byte, NEW last \in Seq(Byte)
  PROVE  /\ <<byte>> \o last \in Seq(Byte) /\ <<byte>> \o last # <<>>
         /\ (<<byte>> \o last)[1] = byte /\ Tail(<<byte>> \o last) = last
<1> DEFINE s == <<byte>> \o last
<1>1. <<byte>> \in Seq(Byte) /\ Len(<<byte>>) = 1 /\ <<byte>>[1] = byte
  OBVIOUS
<1>2. s \in Seq(Byte) /\ Len(s) = 1 + Len(last) /\ remove_prefix(s, 1) = last /\ Len(last) \in Nat
  <2>1. /\ s \in Seq(Byte) /\ Len(s) = Len(<<byte>>) + Len(last)
        /\ remove_prefix(s, Len(<<byte>>)) = last
    BY <1>1, ConcatCut
  <2> QED
    BY <1>1, <2>1, LenProperties
<1>3. s[1] = byte
  BY <1>1
<1> HIDE DEF s
<1>4. s # <<>>
  BY <1>2
<1>5. Tail(s) = SubSeq(s, 2, Len(s))
  BY <1>2, <1>4, TailIsSubSeq
<1>6. Tail(s) = last
  BY <1>2, <1>5 DEF remove_prefix
<1> QED
  BY <1>2, <1>3, <1>4, <1>6 DEF s

\* Every string but the empty one has them.
LEMMA FirstOfString ==
  ASSUME NEW s \in Seq(Byte), s # <<>>
  PROVE  s[1] \in Byte /\ Tail(s) \in Seq(Byte) /\ s = <<s[1]>> \o Tail(s)
<1>1. Len(s) \in Nat /\ Len(s) > 0
  BY EmptySeq
<1>2. s[1] \in Byte /\ Tail(s) \in Seq(Byte)
  BY <1>1, HeadTailProperties, ElementOfSeq
<1>3. 1 \in 1..Len(s) /\ Len(s) \in 1..Len(s)
  BY <1>1
<1>4. SubSeq(s, 1, Len(s)) = <<s[1]>> \o SubSeq(s, 1 + 1, Len(s))
  BY <1>3, SubSeqRecursiveFirst
<1>5. SubSeq(s, 1, Len(s)) = s /\ Tail(s) = SubSeq(s, 2, Len(s)) /\ 1 + 1 = 2
  BY SubSeqFull, TailIsSubSeq
<1> QED
  BY <1>2, <1>4, <1>5

-----------------------------------------------------------------------------
(* Chunks put together.                                                    *)

\* What a sequence of chunks comes to, after each of them.
Writes(parts, chunks) ==
  /\ parts \in [0..Len(chunks) -> Seq(Byte)] /\ parts[0] = <<>>
  /\ \A i \in 1..Len(chunks) : parts[i] = parts[i - 1] \o BytesOf(chunks[i])

\* A chunk is a string of bytes.
LEMMA ChunkBytes ==
  ASSUME NEW chunk \in Chunks
  PROVE  BytesOf(chunk) \in Seq(Byte)
<1>1. chunk.bytes \in Seq(Byte) /\ chunk.number \in Uint64
  BY DEF Chunks
<1>2. to_big_compact(chunk.number) \in Seq(Byte)
  BY <1>1, CompactForm
<1> QED
  BY <1>1, <1>2, ConcatProperties DEF BytesOf

\* Written appends one chunk after the other.
LEMMA ChunksWritten ==
  ASSUME NEW chunks \in Seq(Chunks)
  PROVE  \E parts : Writes(parts, chunks) /\ Written(chunks) = parts[Len(chunks)]
<1> DEFINE size == Len(chunks)
           next == [p \in (1..size) \X Seq(Byte) |-> p[2] \o BytesOf(chunks[p[1]])]
           Parts(g) == [i \in 0..Len(chunks) |-> IF i = 0 THEN <<>> ELSE g[i - 1] \o BytesOf(chunks[i])]
           parts == CHOOSE g : g = Parts(g)
<1>1. size \in Nat /\ \A i \in 1..size : BytesOf(chunks[i]) \in Seq(Byte)
  <2>1. \A i \in 1..size : chunks[i] \in Chunks
    BY ElementOfSeq
  <2> QED
    BY <2>1, ChunkBytes, LenProperties
<1>2. /\ next \in [(1..size) \X Seq(Byte) -> Seq(Byte)]
      /\ \A i \in 1..size : \A x \in Seq(Byte) : next[<<i, x>>] = x \o BytesOf(chunks[i])
  <2>1. \A p \in (1..size) \X Seq(Byte) : p[2] \o BytesOf(chunks[p[1]]) \in Seq(Byte)
    <3> SUFFICES ASSUME NEW p \in (1..size) \X Seq(Byte)
                 PROVE  p[2] \o BytesOf(chunks[p[1]]) \in Seq(Byte)
      OBVIOUS
    <3>1. p[1] \in 1..size /\ p[2] \in Seq(Byte)
      OBVIOUS
    <3>2. BytesOf(chunks[p[1]]) \in Seq(Byte)
      BY <1>1, <3>1
    <3> HIDE DEF size
    <3> QED
      BY <3>1, <3>2, ConcatProperties
  <2>2. ASSUME NEW i \in 1..size, NEW x \in Seq(Byte)
        PROVE  next[<<i, x>>] = x \o BytesOf(chunks[i])
    <3>1. <<i, x>> \in (1..size) \X Seq(Byte) /\ <<i, x>>[1] = i /\ <<i, x>>[2] = x
      OBVIOUS
    <3> QED
      BY <3>1, Zenon
  <2> QED
    BY <2>1, <2>2
<1> HIDE DEF next
<1>3. PICK g \in [0..size -> Seq(Byte)] : g[0] = <<>> /\ \A i \in 1..size : g[i] = next[<<i, g[i - 1]>>]
  <2> HIDE DEF size
  <2>1. \E g : Iterates(g, Seq(Byte), <<>>, size, next)
    <3>1. <<>> \in Seq(Byte)
      BY EmptySeq
    <3> QED
      BY <1>1, <1>2, <3>1, IterationExists
  <2> QED
    BY <2>1 DEF Iterates
<1>4. ASSUME NEW i \in 1..size
      PROVE  g[i] = g[i - 1] \o BytesOf(chunks[i])
  <2>1. i - 1 \in 0..size
    OBVIOUS
  <2>2. g[i - 1] \in Seq(Byte)
    BY <1>3, <2>1
  <2>3. next[<<i, g[i - 1]>>] = g[i - 1] \o BytesOf(chunks[i])
    BY <1>2, <2>2, Zenon
  <2> QED
    BY <1>3, <2>3
<1>5. g = Parts(g)
  <2>1. ASSUME NEW i \in 0..size
        PROVE  g[i] = IF i = 0 THEN <<>> ELSE g[i - 1] \o BytesOf(chunks[i])
    <3>1. CASE i = 0
      BY <1>3, <3>1
    <3>2. CASE i # 0
      <4>1. i \in 1..size
        BY <3>2
      <4> QED
        BY <1>4, <3>2, <4>1
    <3> QED
      BY <3>1, <3>2
  <2> QED
    BY <1>3, <2>1, Zenon
<1>6. parts = Parts(parts)
  BY <1>5, Zenon
<1>7. Written(chunks) = parts[Len(chunks)]
  BY Zenon DEF Written
<1> HIDE DEF parts
<1>8. parts[0] = <<>> /\ \A i \in 1..size : parts[i] = parts[i - 1] \o BytesOf(chunks[i])
  <2>1. ASSUME NEW i \in 0..size
        PROVE  parts[i] = IF i = 0 THEN <<>> ELSE parts[i - 1] \o BytesOf(chunks[i])
    <3>1. parts[i] = Parts(parts)[i]
      BY <1>6, Zenon
    <3>2. Parts(parts)[i] = IF i = 0 THEN <<>> ELSE parts[i - 1] \o BytesOf(chunks[i])
      BY Zenon
    <3> QED
      BY <3>1, <3>2, Zenon
  <2> HIDE DEF Parts, size
  <2>2. 0 \in 0..size /\ \A i \in 1..size : i \in 0..size /\ i # 0
    BY <1>1
  <2> QED
    BY <2>1, <2>2, Zenon
<1> DEFINE Strings == {i \in 0..size : parts[i] \in Seq(Byte)}
<1>9. 0..size \subseteq Strings
  <2>1. 0 \in Strings
    BY <1>1, <1>8, EmptySeq
  <2>2. ASSUME NEW i \in 0..(size - 1), i \in Strings
        PROVE  i + 1 \in Strings
    <3>1. i + 1 \in 1..size /\ i + 1 \in 0..size /\ (i + 1) - 1 = i /\ parts[i] \in Seq(Byte)
      BY <2>2
    <3>2. parts[i + 1] = parts[i] \o BytesOf(chunks[i + 1]) /\ BytesOf(chunks[i + 1]) \in Seq(Byte)
      BY <1>1, <1>8, <3>1
    <3>3. parts[i + 1] \in Seq(Byte)
      BY <3>1, <3>2, ConcatProperties
    <3> QED
      BY <3>1, <3>3
  <2> HIDE DEF Strings, size
  <2> QED
    BY <1>1, <2>1, <2>2, IntervalInduction
<1>10. parts \in [0..size -> Seq(Byte)]
  BY <1>6, <1>9
<1> QED
  BY <1>7, <1>8, <1>10 DEF Writes

\* One chunk, and two.
LEMMA OneWritten ==
  ASSUME NEW a \in Chunks
  PROVE  Written(<<a>>) = BytesOf(a)
<1>1. <<a>> \in Seq(Chunks) /\ Len(<<a>>) = 1 /\ <<a>>[1] = a
  OBVIOUS
<1>2. PICK parts : Writes(parts, <<a>>) /\ Written(<<a>>) = parts[Len(<<a>>)]
  BY <1>1, ChunksWritten
<1>3. parts[0] = <<>> /\ parts[1] = parts[0] \o BytesOf(a)
  <2>1. parts[0] = <<>> /\ \A i \in 1..1 : parts[i] = parts[i - 1] \o BytesOf(<<a>>[i])
    BY <1>1, <1>2 DEF Writes
  <2>2. 1 - 1 = 0 /\ 1 \in 1..1
    OBVIOUS
  <2> QED
    BY <1>1, <2>1, <2>2
<1>4. <<>> \o BytesOf(a) = BytesOf(a)
  BY ChunkBytes, ConcatEmptySeq
<1> QED
  BY <1>1, <1>2, <1>3, <1>4

\* What two chunks append, one after the other.
LEMMA TwoWritten ==
  ASSUME NEW a \in Chunks, NEW b \in Chunks
  PROVE  Written(<<a, b>>) = BytesOf(a) \o BytesOf(b)
<1>1. <<a, b>> \in Seq(Chunks) /\ Len(<<a, b>>) = 2 /\ <<a, b>>[1] = a /\ <<a, b>>[2] = b
  OBVIOUS
<1>2. PICK parts : Writes(parts, <<a, b>>) /\ Written(<<a, b>>) = parts[Len(<<a, b>>)]
  BY <1>1, ChunksWritten
<1>3. parts[0] = <<>> /\ parts[1] = parts[0] \o BytesOf(a) /\ parts[2] = parts[1] \o BytesOf(b)
  <2>1. parts[0] = <<>> /\ \A i \in 1..2 : parts[i] = parts[i - 1] \o BytesOf(<<a, b>>[i])
    BY <1>1, <1>2 DEF Writes
  <2>2. 1 - 1 = 0 /\ 2 - 1 = 1 /\ 1 \in 1..2 /\ 2 \in 1..2
    OBVIOUS
  <2> QED
    BY <1>1, <2>1, <2>2
<1>4. <<>> \o BytesOf(a) = BytesOf(a)
  BY ChunkBytes, ConcatEmptySeq
<1> QED
  BY <1>1, <1>2, <1>3, <1>4

-----------------------------------------------------------------------------
(* Headers.                                                                *)

\* The bytes of a header.
HeaderBytes(list, n) ==
  IF n < 56 THEN <<(IF list THEN 192 ELSE 128) + n>>
  ELSE <<(IF list THEN 247 ELSE 183) + Len(to_big_compact(n))>> \o to_big_compact(n)

\* The compact form of a number that is not zero has one to eight bytes.
LEMMA CompactLength ==
  ASSUME NEW n \in Uint64
  PROVE  /\ to_big_compact(n) \in Seq(Byte) /\ n \in Nat
         /\ Len(to_big_compact(n)) \in 0..8
         /\ n # 0 => Len(to_big_compact(n)) \in 1..8 /\ to_big_compact(n)[1] # 0
         /\ n = 0 => to_big_compact(n) = <<>>
<1> DEFINE c == to_big_compact(n)
<1>1. c \in Seq(Byte) /\ Len(c) \in 0..8 /\ (n = 0 <=> c = <<>>) /\ (c # <<>> => c[1] # 0)
  BY CompactForm
<1> HIDE DEF c
<1>2. ASSUME n # 0
      PROVE  Len(c) \in 1..8 /\ c[1] # 0
  <2>1. c # <<>>
    BY <1>1, <1>2, Zenon
  <2> QED
    BY <1>1, <2>1
<1>3. n = 0 => c = <<>>
  BY <1>1, Zenon
<1>4. n \in Nat
  BY DEF Uint64
<1> QED
  BY <1>1, <1>2, <1>3, <1>4 DEF c

\* A chunk of bytes alone.
LEMMA PlainChunk ==
  ASSUME NEW bytes \in Seq(Byte)
  PROVE  Chunk(bytes) \in Chunks /\ BytesOf(Chunk(bytes)) = bytes
<1>1. 0 \in Uint64
  <2>1. shifted(8, 0)[0] = 0
    <3>1. Shifts(shifted(8, 0), 8, 0)
      BY Shifted
    <3> QED
      BY <3>1 DEF Shifts
  <2>2. \A k \in 0..8 : shifted(8, 0)[k] = 0
    BY <2>1, ShiftedZero
  <2> QED
    BY <2>2 DEF Uint64
<1>2. Chunk(bytes) \in Chunks
  BY <1>1 DEF Chunk, Chunks
<1>3. BytesOf(Chunk(bytes)) = bytes \o <<>>
  BY DEF BytesOf, Chunk, to_big_compact
<1> QED
  BY <1>2, <1>3, ConcatEmptySeq

\* A byte, then a number.
LEMMA NumberChunk ==
  ASSUME NEW byte \in Byte, NEW n \in Uint64
  PROVE  /\ [bytes |-> <<byte>>, number |-> n] \in Chunks
         /\ BytesOf([bytes |-> <<byte>>, number |-> n]) = <<byte>> \o to_big_compact(n)
<1>1. <<byte>> \in Seq(Byte)
  OBVIOUS
<1> QED
  BY <1>1 DEF Chunks, BytesOf

\* The first byte of a header tells its kind.
LEMMA HeaderCode ==
  ASSUME NEW list \in BOOLEAN, NEW n \in Uint64
  PROVE  /\ n < 56 => (IF list THEN 192 ELSE 128) + n \in Byte
         /\ ~(n < 56) => (IF list THEN 247 ELSE 183) + Len(to_big_compact(n)) \in Byte
<1>1. n \in Nat /\ (n # 0 => Len(to_big_compact(n)) \in 1..8)
  BY CompactLength
<1>2. \A k \in Nat : k < 56 => 192 + k \in Byte /\ 128 + k \in Byte
  BY SMT DEF Byte
<1>3. \A k \in 1..8 : 247 + k \in Byte /\ 183 + k \in Byte
  BY SMT DEF Byte
<1>4. ASSUME n < 56
      PROVE  (IF list THEN 192 ELSE 128) + n \in Byte
  <2>1. 192 + n \in Byte /\ 128 + n \in Byte
    BY <1>1, <1>2, <1>4
  <2> QED
    BY <2>1
<1>5. ASSUME ~(n < 56)
      PROVE  (IF list THEN 247 ELSE 183) + Len(to_big_compact(n)) \in Byte
  <2>1. n # 0
    BY <1>5
  <2>2. 247 + Len(to_big_compact(n)) \in Byte /\ 183 + Len(to_big_compact(n)) \in Byte
    BY <1>1, <1>3, <2>1
  <2> QED
    BY <2>2
<1> QED
  BY <1>4, <1>5

\* encode_header appends these bytes.
LEMMA HeaderChunk ==
  ASSUME NEW list \in BOOLEAN, NEW n \in Uint64
  PROVE  \E chunk \in Chunks :
           encode_header(list, n) = <<chunk>> /\ BytesOf(chunk) = HeaderBytes(list, n)
<1>1. CASE n < 56
  <2> DEFINE code == (IF list THEN 192 ELSE 128) + n
  <2>1. code \in Byte
    BY <1>1, HeaderCode
  <2>2. encode_header(list, n) = <<Chunk(<<code>>)>> /\ HeaderBytes(list, n) = <<code>>
    BY <1>1 DEF encode_header, kEmptyListCode, kEmptyStringCode, HeaderBytes
  <2> HIDE DEF code
  <2>3. <<code>> \in Seq(Byte)
    BY <2>1
  <2> QED
    BY <2>2, <2>3, PlainChunk
<1>2. CASE ~(n < 56)
  <2> DEFINE code == (IF list THEN 247 ELSE 183) + Len(to_big_compact(n))
  <2>1. code \in Byte
    BY <1>2, HeaderCode
  <2>2. /\ encode_header(list, n) = <<[bytes |-> <<code>>, number |-> n]>>
        /\ HeaderBytes(list, n) = <<code>> \o to_big_compact(n)
    BY <1>2 DEF encode_header, HeaderBytes
  <2> HIDE DEF code
  <2> QED
    BY <2>1, <2>2, NumberChunk
<1> QED
  BY <1>1, <1>2

\* What the header of a string appends.
LEMMA HeaderWritten ==
  ASSUME NEW list \in BOOLEAN, NEW n \in Uint64
  PROVE  /\ Written(encode_header(list, n)) = HeaderBytes(list, n)
         /\ HeaderBytes(list, n) \in Seq(Byte)
<1>1. PICK chunk \in Chunks : encode_header(list, n) = <<chunk>> /\ BytesOf(chunk) = HeaderBytes(list, n)
  BY HeaderChunk
<1> QED
  BY <1>1, OneWritten, ChunkBytes

\* What follows the first byte of a header.
LEMMA HeaderKinds ==
  ASSUME NEW byte \in Byte, NEW input
  PROVE  /\ byte < 128         => HeaderOf(byte, input) = Announced(FALSE, 1, input)
         /\ byte \in 128..183  => HeaderOf(byte, input) = ShortString(byte - 128, Tail(input))
         /\ byte \in 184..191  => HeaderOf(byte, input) = LongHeader(FALSE, byte - 183, Tail(input))
         /\ byte \in 192..247  => HeaderOf(byte, input) = Announced(TRUE, byte - 192, Tail(input))
<1>1. byte \in Nat /\ byte <= 255
  BY DEF Byte
<1>2. byte < 128 => HeaderOf(byte, input) = Announced(FALSE, 1, input)
  BY DEF HeaderOf
<1>3. ASSUME byte \in 128..183
      PROVE  HeaderOf(byte, input) = ShortString(byte - 128, Tail(input))
  <2>1. ~(byte < 128) /\ byte < 184
    BY <1>1, <1>3
  <2> QED
    BY <2>1, SMTT(30) DEF HeaderOf
<1>4. ASSUME byte \in 184..191
      PROVE  HeaderOf(byte, input) = LongHeader(FALSE, byte - 183, Tail(input))
  <2>1. ~(byte < 128) /\ ~(byte < 184) /\ byte < 192
    BY <1>1, <1>4
  <2> QED
    BY <2>1, SMTT(30) DEF HeaderOf
<1>5. ASSUME byte \in 192..247
      PROVE  HeaderOf(byte, input) = Announced(TRUE, byte - 192, Tail(input))
  <2>1. ~(byte < 128) /\ ~(byte < 184) /\ ~(byte < 192) /\ byte < 248
    BY <1>1, <1>5
  <2> QED
    BY <2>1, SMTT(30) DEF HeaderOf
<1> QED
  BY <1>2, <1>3, <1>4, <1>5

\* The header of a list whose length has bytes of its own.
LEMMA LongListKind ==
  ASSUME NEW byte \in Byte, byte \in 248..255, NEW input
  PROVE  HeaderOf(byte, input) = LongHeader(TRUE, byte - 247, Tail(input))
<1>1. ~(byte < 128) /\ ~(byte < 184) /\ ~(byte < 192) /\ ~(byte < 248)
  BY DEF Byte
<1> QED
  BY <1>1, SMTT(30) DEF HeaderOf

\* There is no other.
LEMMA HeaderSorts ==
  ASSUME NEW byte \in Byte
  PROVE  byte < 128 \/ byte \in 128..183 \/ byte \in 184..191 \/ byte \in 192..247 \/ byte \in 248..255
BY DEF Byte

\* The step that reads the length.
LEMMA LongHeaderIs ==
  ASSUME NEW list, NEW m, NEW input
  PROVE  LongHeader(list, m, input) =
           LET len == from_big_compact(SubSeq(input, 1, m), 8)
           IN  IF Len(input) < m THEN Failed("kInputTooShort", input)
               ELSE IF len.error # "none" THEN Failed(len.error, input)
               ELSE IF len.value < 56 THEN Failed("kNonCanonicalSize", remove_prefix(input, m))
               ELSE Announced(list, len.value, remove_prefix(input, m))
<1> DEFINE len == from_big_compact(SubSeq(input, 1, m), 8)
           after == IF At(input, len).error # "none" THEN At(input, len)
                    ELSE IF At(input, len).value < 56 THEN Failed("kNonCanonicalSize", remove_prefix(input, m))
                    ELSE Announced(list, At(input, len).value, remove_prefix(input, m))
<1>1. LongHeader(list, m, input) = IF Len(input) < m THEN Failed("kInputTooShort", input) ELSE after
  BY Zenon DEF LongHeader, Then
<1> HIDE DEF len
<1>2. CASE len.error = "none"
  <2>1. At(input, len).error = "none" /\ At(input, len).value = len.value
    BY <1>2 DEF At, Decoded
  <2> QED
    BY <1>1, <1>2, <2>1 DEF len
<1>3. CASE len.error # "none"
  <2>1. At(input, len) = Failed(len.error, input) /\ At(input, len).error # "none"
    BY <1>3 DEF At, Failed
  <2> QED
    BY <1>1, <1>3, <2>1 DEF len
<1> QED
  BY <1>2, <1>3

\* A header whose payload is there is accepted.
LEMMA Accepts ==
  ASSUME NEW list, NEW n, NEW input, ~(Len(input) < n)
  PROVE  Announced(list, n, input) = Decoded([list |-> list, payload_length |-> n], input)
BY DEF Announced

\* The header an encoder wrote is read back, and the view is left at the payload.  A single
\* byte below 0x80 is the exception: it must not have a header.
LEMMA HeaderIsRead ==
  ASSUME NEW list \in BOOLEAN, NEW n \in Uint64, NEW rest \in Seq(Byte), n <= Len(rest),
         ~(~list /\ n = 1 /\ rest[1] < 128)
  PROVE  decode_header(HeaderBytes(list, n) \o rest) = Decoded([list |-> list, payload_length |-> n], rest)
<1> DEFINE c == to_big_compact(n)
<1>1. n \in Nat /\ Len(rest) \in Nat /\ c \in Seq(Byte)
  BY CompactLength, LenProperties
<1>2. Announced(list, n, rest) = Decoded([list |-> list, payload_length |-> n], rest)
  <2>1. ~(Len(rest) < n)
    BY <1>1
  <2> QED
    BY <2>1, Accepts
<1>3. CASE n < 56
  <2> DEFINE code == (IF list THEN 192 ELSE 128) + n
             input == <<code>> \o rest
  <2>1. code \in Byte /\ HeaderBytes(list, n) = <<code>>
    BY <1>3, HeaderCode DEF HeaderBytes
  <2>2. list = TRUE => code \in 192..247 /\ code - 192 = n
    BY <1>1, <1>3
  <2>3. list = FALSE => code \in 128..183 /\ code - 128 = n
    BY <1>1, <1>3
  <2> HIDE DEF code
  <2>4. input # <<>> /\ input[1] = code /\ Tail(input) = rest
    BY <2>1, FirstCut
  <2> HIDE DEF input
  <2>5. decode_header(input) = HeaderOf(code, input)
    BY <2>4 DEF decode_header
  <2>6. CASE list = TRUE
    <3>1. HeaderOf(code, input) = Announced(TRUE, code - 192, Tail(input))
      BY <2>1, <2>2, <2>6, HeaderKinds
    <3> QED
      BY <1>2, <2>1, <2>2, <2>4, <2>5, <2>6, <3>1, Zenon DEF input
  <2>7. CASE list = FALSE
    <3>1. HeaderOf(code, input) = ShortString(code - 128, Tail(input))
      BY <2>1, <2>3, <2>7, HeaderKinds
    <3>2. n = 1 => rest # <<>>
      BY <1>1
    <3>3. ShortString(n, rest) = Announced(FALSE, n, rest)
      BY <2>7, <3>2 DEF ShortString, kEmptyStringCode
    <3> QED
      BY <1>2, <2>1, <2>3, <2>4, <2>5, <2>7, <3>1, <3>3, Zenon DEF input
  <2> QED
    BY <2>6, <2>7
<1>4. CASE ~(n < 56)
  <2> DEFINE size == Len(c)
             code == (IF list THEN 247 ELSE 183) + size
             last == c \o rest
             input == <<code>> \o last
  <2>1. code \in Byte /\ HeaderBytes(list, n) = <<code>> \o c
    BY <1>4, HeaderCode DEF HeaderBytes
  <2>2. size \in 1..8 /\ c[1] # 0
    <3>1. n # 0
      BY <1>4
    <3> QED
      BY <3>1, CompactLength
  <2>3. c # <<>>
    BY <2>2
  <2>4. load_big(c) = n
    BY CompactIsRead
  <2>5. /\ last \in Seq(Byte) /\ Len(last) = Len(c) + Len(rest)
        /\ SubSeq(last, 1, Len(c)) = c /\ remove_prefix(last, Len(c)) = rest
    BY <1>1, ConcatCut
  <2>6. (<<code>> \o c) \o rest = <<code>> \o last
    <3> HIDE DEF code, c
    <3>1. <<code>> \in Seq(Byte)
      BY <2>1
    <3>2. \A x, y, z \in Seq(Byte) : (x \o y) \o z = x \o (y \o z)
      BY ConcatAssociative
    <3> QED
      BY <1>1, <3>1, <3>2, Zenon
  <2> HIDE DEF c
  <2>7. list = TRUE => code \in 248..255 /\ code - 247 = size
    <3> HIDE DEF size
    <3> QED
      BY <2>2 DEF code
  <2>8. list = FALSE => code \in 184..191 /\ code - 183 = size
    <3> HIDE DEF size
    <3> QED
      BY <2>2 DEF code
  <2> HIDE DEF code, last
  <2>9. input # <<>> /\ input[1] = code /\ Tail(input) = last
    BY <2>1, <2>5, FirstCut
  <2> HIDE DEF input
  <2>10. decode_header(input) = HeaderOf(code, input)
    BY <2>9 DEF decode_header
  <2>11. HeaderOf(code, input) = LongHeader(list, Len(c), last)
    <3>1. CASE list = TRUE
      <4>1. HeaderOf(code, input) = LongHeader(TRUE, code - 247, Tail(input))
        <5>1. code \in Byte /\ code \in 248..255
          BY <2>1, <2>7, <3>1
        <5> QED
          BY <5>1, LongListKind
      <4> QED
        BY <2>7, <2>9, <3>1, <4>1, Zenon
    <3>2. CASE list = FALSE
      <4>1. HeaderOf(code, input) = LongHeader(FALSE, code - 183, Tail(input))
        BY <2>1, <2>8, <3>2, HeaderKinds
      <4> QED
        BY <2>8, <2>9, <3>2, <4>1, Zenon
    <3> QED
      BY <3>1, <3>2
  <2>12. from_big_compact(c, 8) = [error |-> "none", value |-> n]
    <3>1. ~(size > 8) /\ ~(c # <<>> /\ c[1] = 0)
      <4> HIDE DEF size
      <4> QED
        BY <2>2
    <3> QED
      BY <2>4, <3>1 DEF from_big_compact
  <2>13. LongHeader(list, Len(c), last) = Announced(list, n, rest)
    <3>1. ~(Len(last) < Len(c))
      BY <1>1, <2>2, <2>5
    <3>2. from_big_compact(SubSeq(last, 1, Len(c)), 8) = [error |-> "none", value |-> n]
      BY <2>5, <2>12
    <3> QED
      BY <1>4, <2>5, <3>1, <3>2, LongHeaderIs
  <2> QED
    BY <1>2, <2>1, <2>6, <2>10, <2>11, <2>13 DEF input
<1> QED
  BY <1>3, <1>4

\* What a decoder of headers accepts.
AcceptsHeader(input, list, n, rest) ==
  /\ decode_header(input) = Decoded([list |-> list, payload_length |-> n], rest)
  /\ n <= Len(rest)
  /\ \/ input[1] < 128 /\ list = FALSE /\ n = 1 /\ rest = input
     \/ input = HeaderBytes(list, n) \o rest /\ ~(list = FALSE /\ n = 1 /\ rest[1] < 128)

\* A byte is a number of 64 bits.
LEMMA SmallUint ==
  ASSUME NEW n \in Byte
  PROVE  n \in Uint64
<1>1. CASE n = 0
  BY <1>1, PlainChunk, EmptySeq DEF Chunk, Chunks
<1>2. CASE n # 0
  BY <1>2, CompactByte
<1> QED
  BY <1>1, <1>2

\* An announced payload that is accepted is there.
LEMMA AnnouncedThere ==
  ASSUME NEW list, NEW n \in Nat, NEW input \in Seq(Byte), Announced(list, n, input).error = "none"
  PROVE  n <= Len(input) /\ Announced(list, n, input) = Decoded([list |-> list, payload_length |-> n], input)
<1>1. ~(Len(input) < n)
  BY DEF Announced, Failed
<1> QED
  BY <1>1, Accepts, LenProperties

\* A header with a length in its first byte.
LEMMA ShortAccepted ==
  ASSUME NEW input \in Seq(Byte), input # <<>>, NEW list \in BOOLEAN, NEW n \in 0..55,
         input[1] = (IF list THEN 192 ELSE 128) + n,
         decode_header(input) = Announced(list, n, Tail(input)), decode_header(input).error = "none",
         ~(list = FALSE /\ n = 1 /\ Tail(input)[1] < 128)
  PROVE  AcceptsHeader(input, list, n, Tail(input))
<1>1. Tail(input) \in Seq(Byte) /\ input = <<input[1]>> \o Tail(input)
  BY FirstOfString
<1>2. HeaderBytes(list, n) = <<input[1]>>
  <2>1. n < 56
    OBVIOUS
  <2> QED
    BY <2>1, Zenon DEF HeaderBytes
<1>3. /\ n <= Len(Tail(input))
      /\ decode_header(input) = Decoded([list |-> list, payload_length |-> n], Tail(input))
  <2>1. n \in Nat
    OBVIOUS
  <2>2. Announced(list, n, Tail(input)).error = "none"
    BY Zenon
  <2>3. /\ n <= Len(Tail(input))
        /\ Announced(list, n, Tail(input)) = Decoded([list |-> list, payload_length |-> n], Tail(input))
    BY <1>1, <2>1, <2>2, AnnouncedThere, Zenon
  <2> QED
    BY <2>3, Zenon
<1> QED
  BY <1>1, <1>2, <1>3, Zenon DEF AcceptsHeader

\* A header whose length has m bytes.
LEMMA LongAccepted ==
  ASSUME NEW input \in Seq(Byte), input # <<>>, NEW list \in BOOLEAN, NEW m \in 1..8,
         input[1] = (IF list THEN 247 ELSE 183) + m,
         decode_header(input) = LongHeader(list, m, Tail(input)), decode_header(input).error = "none"
  PROVE  \E n \in Uint64 : \E rest \in Seq(Byte) : AcceptsHeader(input, list, n, rest)
<1> DEFINE last == Tail(input)
           data == SubSeq(last, 1, m)
           rest == remove_prefix(last, m)
           len == from_big_compact(data, 8)
           n == load_big(data)
<1>1. last \in Seq(Byte) /\ input = <<input[1]>> \o last /\ input[1] \in Byte
  BY FirstOfString
<1> HIDE DEF last
<1>2. /\ ~(Len(last) < m) /\ len.error = "none" /\ ~(len.value < 56)
      /\ decode_header(input) = Announced(list, len.value, rest)
  <2>1. LongHeader(list, m, last) =
          IF Len(last) < m THEN Failed("kInputTooShort", last)
          ELSE IF len.error # "none" THEN Failed(len.error, last)
          ELSE IF len.value < 56 THEN Failed("kNonCanonicalSize", remove_prefix(last, m))
          ELSE Announced(list, len.value, rest)
    BY LongHeaderIs, Zenon
  <2>2. decode_header(input) = LongHeader(list, m, last)
    BY DEF last
  <2> HIDE DEF len, rest
  <2>3. \A error, x : Failed(error, x).error = error
    BY DEF Failed
  <2> QED
    BY <2>1, <2>2, <2>3
<1>3. /\ data \in Seq(Byte) /\ Len(data) = m /\ rest \in Seq(Byte)
      /\ last = data \o rest
  BY <1>1, <1>2, StringCut, LenProperties
<1> HIDE DEF data, rest
<1>4. /\ len = [error |-> "none", value |-> n] /\ Len(data) <= 8 /\ (data # <<>> => data[1] # 0)
  <2>1. Len(data) <= 8 /\ ~(Len(data) > 8)
    BY <1>3
  <2>2. ~(data # <<>> /\ data[1] = 0)
    BY <1>2, <2>1 DEF from_big_compact
  <2> QED
    BY <2>1, <2>2 DEF from_big_compact
<1>5. n \in Uint64 /\ to_big_compact(n) = data
  BY <1>3, <1>4, ReadIsCompact
<1> HIDE DEF len, n
<1>6. len.value = n
  BY <1>4
<1>7. n \in Nat /\ ~(n < 56)
  BY <1>2, <1>5, <1>6 DEF Uint64
<1>8. /\ n <= Len(rest)
      /\ decode_header(input) = Decoded([list |-> list, payload_length |-> n], rest)
  <2>1. decode_header(input) = Announced(list, n, rest) /\ Announced(list, n, rest).error = "none"
    BY <1>2, <1>6, Zenon
  <2>2. /\ n <= Len(rest)
        /\ Announced(list, n, rest) = Decoded([list |-> list, payload_length |-> n], rest)
    BY <1>3, <1>7, <2>1, AnnouncedThere, Zenon
  <2> QED
    BY <2>1, <2>2, Zenon
<1>9. input = HeaderBytes(list, n) \o rest
  <2>1. HeaderBytes(list, n) = <<input[1]>> \o data
    BY <1>3, <1>5, <1>7, Zenon DEF HeaderBytes
  <2>2. <<input[1]>> \in Seq(Byte)
    BY <1>1
  <2>3. (<<input[1]>> \o data) \o rest = <<input[1]>> \o (data \o rest)
    BY <1>3, <2>2, ConcatAssociative
  <2> QED
    BY <1>1, <1>3, <2>1, <2>3, Zenon
<1>10. n # 1
  BY <1>7
<1> QED
  BY <1>3, <1>5, <1>8, <1>9, <1>10, Zenon DEF AcceptsHeader

\* What a decoder accepts as a header is the byte that needs none, or the header that an
\* encoder writes, before a payload that is there.
LEMMA HeaderIsCanonical ==
  ASSUME NEW input \in Seq(Byte), decode_header(input).error = "none"
  PROVE  \E list \in BOOLEAN : \E n \in Uint64 : \E rest \in Seq(Byte) : AcceptsHeader(input, list, n, rest)
<1> DEFINE b == input[1]
<1>1. input # <<>>
  BY DEF decode_header, Failed
<1>2. b \in Byte /\ Tail(input) \in Seq(Byte) /\ decode_header(input) = HeaderOf(b, input)
  BY <1>1, FirstOfString DEF decode_header
<1> HIDE DEF b
<1>3. CASE b < 128
  <2>1. decode_header(input) = Announced(FALSE, 1, input)
    BY <1>2, <1>3, HeaderKinds
  <2>2. 1 <= Len(input) /\ decode_header(input) = Decoded([list |-> FALSE, payload_length |-> 1], input)
    <3>1. 1 \in Nat /\ Announced(FALSE, 1, input).error = "none"
      BY <2>1
    <3> QED
      BY <2>1, <3>1, AnnouncedThere, Zenon
  <2>3. 1 \in Uint64
    <3>1. 1 \in Byte
      BY DEF Byte
    <3> QED
      BY <3>1, SmallUint
  <2>4. AcceptsHeader(input, FALSE, 1, input)
    BY <1>3, <2>2, Zenon DEF AcceptsHeader, b
  <2> QED
    BY <2>3, <2>4, Zenon
<1>4. CASE b \in 128..183
  <2> DEFINE n == b - 128
  <2>1. decode_header(input) = ShortString(n, Tail(input))
    BY <1>2, <1>4, HeaderKinds
  <2>2. n \in 0..55 /\ n \in Byte /\ b = 128 + n
    BY <1>4 DEF Byte
  <2> HIDE DEF n
  <2>3. \A error, x : Failed(error, x).error = error
    BY DEF Failed
  <2>4. ~(n = 1 /\ Tail(input) = <<>>)
    <3>1. ASSUME n = 1 /\ Tail(input) = <<>>
          PROVE  decode_header(input).error = "kInputTooShort"
      <4>1. ShortString(n, Tail(input)) = Failed("kInputTooShort", Tail(input))
        BY <3>1, Zenon DEF ShortString
      <4> QED
        BY <2>1, <2>3, <4>1, Zenon
    <3> QED
      BY <3>1
  <2>5. ~(n = 1 /\ Tail(input)[1] < 128)
    <3>1. ASSUME n = 1 /\ Tail(input)[1] < 128
          PROVE  decode_header(input).error = "kNonCanonicalSize"
      <4>1. ShortString(n, Tail(input)) = Failed("kNonCanonicalSize", Tail(input))
        BY <2>4, <3>1, Zenon DEF ShortString, kEmptyStringCode
      <4> QED
        BY <2>1, <2>3, <4>1, Zenon
    <3> QED
      BY <3>1
  <2>6. decode_header(input) = Announced(FALSE, n, Tail(input))
    BY <2>1, <2>4, <2>5 DEF ShortString, kEmptyStringCode
  <2>7. AcceptsHeader(input, FALSE, n, Tail(input))
    BY <1>1, <2>2, <2>5, <2>6, ShortAccepted DEF b
  <2> QED
    BY <1>2, <2>2, <2>7, SmallUint, Zenon
<1>5. CASE b \in 184..191
  <2> DEFINE m == b - 183
  <2>1. decode_header(input) = LongHeader(FALSE, m, Tail(input))
    BY <1>2, <1>5, HeaderKinds
  <2>2. m \in 1..8 /\ b = 183 + m
    BY <1>5
  <2> HIDE DEF m
  <2> QED
    BY <1>1, <2>1, <2>2, LongAccepted DEF b
<1>6. CASE b \in 192..247
  <2> DEFINE n == b - 192
  <2>1. decode_header(input) = Announced(TRUE, n, Tail(input))
    BY <1>2, <1>6, HeaderKinds
  <2>2. n \in 0..55 /\ n \in Byte /\ b = 192 + n
    BY <1>6 DEF Byte
  <2> HIDE DEF n
  <2>3. AcceptsHeader(input, TRUE, n, Tail(input))
    BY <1>1, <2>1, <2>2, ShortAccepted DEF b
  <2> QED
    BY <1>2, <2>2, <2>3, SmallUint, Zenon
<1>7. CASE b \in 248..255
  <2> DEFINE m == b - 247
  <2>1. decode_header(input) = LongHeader(TRUE, m, Tail(input))
    BY <1>2, <1>7, LongListKind
  <2>2. m \in 1..8 /\ b = 247 + m
    BY <1>7
  <2> HIDE DEF m
  <2> QED
    BY <1>1, <2>1, <2>2, LongAccepted DEF b
<1> QED
  BY <1>2, <1>3, <1>4, <1>5, <1>6, <1>7, HeaderSorts

-----------------------------------------------------------------------------
(* Strings.                                                                *)

\* The bytes of a string's encoding.
StringBytes(str) ==
  IF Len(str) = 1 /\ str[1] < 128 THEN str ELSE HeaderBytes(FALSE, Len(str)) \o str

\* encode_bytes appends them.
LEMMA StringWritten ==
  ASSUME NEW str \in Seq(Byte), Len(str) \in Uint64
  PROVE  Written(encode_bytes(str)) = StringBytes(str) /\ StringBytes(str) \in Seq(Byte)
<1>1. Chunk(str) \in Chunks /\ BytesOf(Chunk(str)) = str
  BY PlainChunk
<1>2. CASE Len(str) = 1 /\ str[1] < 128
  <2>1. encode_bytes(str) = <<>> \o <<Chunk(str)>>
    BY <1>2 DEF encode_bytes, kEmptyStringCode
  <2>2. <<>> \o <<Chunk(str)>> = <<Chunk(str)>>
    <3> HIDE DEF Chunk
    <3>1. <<Chunk(str)>> \in Seq(Chunks)
      BY <1>1
    <3> QED
      BY <3>1, ConcatEmptySeq
  <2> QED
    BY <1>1, <1>2, <2>1, <2>2, OneWritten DEF StringBytes
<1>3. CASE ~(Len(str) = 1 /\ str[1] < 128)
  <2>1. PICK chunk \in Chunks :
          encode_header(FALSE, Len(str)) = <<chunk>> /\ BytesOf(chunk) = HeaderBytes(FALSE, Len(str))
    BY HeaderChunk
  <2>2. encode_bytes(str) = <<chunk>> \o <<Chunk(str)>>
    BY <1>3, <2>1, Zenon DEF encode_bytes, kEmptyStringCode
  <2>3. <<chunk>> \o <<Chunk(str)>> = <<chunk, Chunk(str)>>
    <3> HIDE DEF Chunk
    <3>1. \A x, y \in Chunks : <<x>> \o <<y>> = <<x, y>>
      <4> SUFFICES ASSUME NEW x \in Chunks, NEW y \in Chunks
                   PROVE  <<x>> \o <<y>> = <<x, y>>
        OBVIOUS
      <4> DEFINE s == <<x>> \o <<y>>
                 z == <<x, y>>
      <4>1. /\ s \in Seq(Chunks) /\ Len(s) = 2
            /\ \A i \in 1..2 : s[i] = IF i <= 1 THEN <<x>>[i] ELSE <<y>>[i - 1]
        OBVIOUS
      <4>2. z \in Seq(Chunks) /\ Len(z) = 2 /\ z[1] = x /\ z[2] = y
        OBVIOUS
      <4>3. s[1] = x /\ s[2] = y
        BY <4>1
      <4> HIDE DEF s, z
      <4>4. s = z
        BY <4>1, <4>2, <4>3, SeqEqual
      <4> QED
        BY <4>4 DEF s, z
    <3> QED
      BY <1>1, <3>1, Zenon
  <2>4. Written(encode_bytes(str)) = HeaderBytes(FALSE, Len(str)) \o str
    BY <1>1, <2>1, <2>2, <2>3, TwoWritten
  <2>5. StringBytes(str) = HeaderBytes(FALSE, Len(str)) \o str
    BY <1>3, Zenon DEF StringBytes
  <2>6. HeaderBytes(FALSE, Len(str)) \in Seq(Byte)
    BY HeaderWritten
  <2> QED
    BY <2>4, <2>5, <2>6, ConcatProperties
<1> QED
  BY <1>2, <1>3

\* The header of a string.
LEMMA StringHeaderIs ==
  ASSUME NEW input
  PROVE  StringHeader(input) =
           LET h == decode_header(input)
           IN  IF h.error # "none" THEN h
               ELSE IF h.value.list THEN Failed("kUnexpectedList", h.from) ELSE h
BY Zenon DEF StringHeader, Then

\* The view of a decoder that is at the payload of this string.
AtPayload(str, rest) ==
  Decoded([list |-> FALSE, payload_length |-> Len(str)], str \o rest)

\* Every string's header is read back.
LEMMA StringHeaderIsRead ==
  ASSUME NEW str \in Seq(Byte), Len(str) \in Uint64, NEW rest \in Seq(Byte)
  PROVE  StringHeader(StringBytes(str) \o rest) = AtPayload(str, rest)
<1> DEFINE input == StringBytes(str) \o rest
<1>1. str \o rest \in Seq(Byte) /\ Len(str \o rest) = Len(str) + Len(rest)
  BY ConcatCut
<1>2. decode_header(input) = AtPayload(str, rest)
  <2>1. CASE Len(str) = 1 /\ str[1] < 128
    <3> DEFINE last == str \o rest
    <3>1. input = last
      BY <2>1, Zenon DEF StringBytes
    <3>2. /\ last \in Seq(Byte) /\ Len(last) = 1 + Len(rest) /\ Len(rest) \in Nat
          /\ last[1] = str[1]
      BY <1>1, <2>1
    <3> HIDE DEF last
    <3>3. last # <<>> /\ last[1] \in Byte /\ ~(Len(last) < 1)
      BY <3>2, ElementOfSeq
    <3>4. decode_header(last) = HeaderOf(last[1], last)
      BY <3>3 DEF decode_header
    <3>5. HeaderOf(last[1], last) = Announced(FALSE, 1, last)
      BY <2>1, <3>2, <3>3, HeaderKinds
    <3>6. Announced(FALSE, 1, last) = Decoded([list |-> FALSE, payload_length |-> 1], last)
      BY <3>3, Accepts
    <3> QED
      BY <2>1, <3>1, <3>4, <3>5, <3>6, Zenon DEF AtPayload, last
  <2>2. CASE ~(Len(str) = 1 /\ str[1] < 128)
    <3> DEFINE header == HeaderBytes(FALSE, Len(str))
               last == str \o rest
    <3>1. StringBytes(str) = header \o str /\ header \in Seq(Byte)
      BY <2>2, HeaderWritten, Zenon DEF StringBytes
    <3>2. input = header \o last
      <4> HIDE DEF header
      <4>1. (header \o str) \o rest = header \o (str \o rest)
        BY <3>1, ConcatAssociative
      <4> QED
        BY <3>1, <4>1, Zenon
    <3>3. Len(str) <= Len(last) /\ Len(str) \in Nat /\ last \in Seq(Byte)
      BY <1>1, LenProperties
    <3>4. ~(Len(str) = 1 /\ last[1] < 128)
      <4>1. /\ Len(rest) \in Nat
            /\ \A i \in 1..(Len(str) + Len(rest)) :
                 last[i] = IF i <= Len(str) THEN str[i] ELSE rest[i - Len(str)]
        BY ConcatProperties, LenProperties
      <4> HIDE DEF last
      <4>2. ASSUME Len(str) = 1
            PROVE  last[1] = str[1]
        BY <4>1, <4>2
      <4> QED
        BY <2>2, <4>2
    <3> HIDE DEF last, header, input
    <3>5. decode_header(HeaderBytes(FALSE, Len(str)) \o last)
            = Decoded([list |-> FALSE, payload_length |-> Len(str)], last)
      BY <3>3, <3>4, HeaderIsRead
    <3> QED
      BY <3>2, <3>5, Zenon DEF AtPayload, header, last
  <2> QED
    BY <2>1, <2>2
<1> HIDE DEF input
<1>3. AtPayload(str, rest).error = "none" /\ AtPayload(str, rest).value.list = FALSE
  BY DEF AtPayload, Decoded
<1>4. StringHeader(input) = AtPayload(str, rest)
  BY <1>2, <1>3, StringHeaderIs, Zenon
<1> QED
  BY <1>4 DEF input

\* What is accepted as a string's header is the one an encoder writes for the payload that
\* follows.
LEMMA StringHeaderIsCanonical ==
  ASSUME NEW input \in Seq(Byte), StringHeader(input).error = "none"
  PROVE  \E str \in Seq(Byte) : \E rest \in Seq(Byte) :
           /\ Len(str) \in Uint64 /\ input = StringBytes(str) \o rest
           /\ StringHeader(input) = AtPayload(str, rest)
<1>1. /\ decode_header(input).error = "none" /\ ~decode_header(input).value.list
      /\ StringHeader(input) = decode_header(input)
  <2>1. decode_header(input).error = "none"
    BY StringHeaderIs, Zenon
  <2>2. ~decode_header(input).value.list
    <3>1. ASSUME decode_header(input).value.list
          PROVE  StringHeader(input) = Failed("kUnexpectedList", decode_header(input).from)
      BY <2>1, <3>1, StringHeaderIs, Zenon
    <3>2. \A error, x : Failed(error, x).error = error
      BY DEF Failed
    <3>3. "kUnexpectedList" # "none"
      OBVIOUS
    <3> QED
      BY <3>1, <3>2, <3>3, Zenon
  <2> QED
    BY <2>1, <2>2, StringHeaderIs, Zenon
<1>2. PICK list \in BOOLEAN, n \in Uint64, last \in Seq(Byte) : AcceptsHeader(input, list, n, last)
  BY <1>1, HeaderIsCanonical
<1> DEFINE str == SubSeq(last, 1, n)
           rest == remove_prefix(last, n)
<1>3. /\ decode_header(input) = Decoded([list |-> list, payload_length |-> n], last)
      /\ n <= Len(last) /\ n \in Nat
  BY <1>2 DEF AcceptsHeader, Uint64
<1>4. list = FALSE
  <2>1. Decoded([list |-> list, payload_length |-> n], last).value.list = list
    BY DEF Decoded
  <2> QED
    BY <1>1, <1>3, <2>1, Zenon
<1>5. /\ str \in Seq(Byte) /\ Len(str) = n /\ rest \in Seq(Byte) /\ last = str \o rest
      /\ n > 0 => str[1] = last[1]
  BY <1>3, StringCut
<1> HIDE DEF str, rest
<1>6. input = StringBytes(str) \o rest
  <2>1. CASE input[1] < 128 /\ n = 1 /\ last = input
    <3>1. Len(str) = 1 /\ str[1] < 128
      BY <1>5, <2>1
    <3> QED
      BY <1>5, <2>1, <3>1, Zenon DEF StringBytes
  <2>2. CASE input = HeaderBytes(FALSE, n) \o last /\ ~(n = 1 /\ last[1] < 128)
    <3>1. ~(Len(str) = 1 /\ str[1] < 128)
      BY <1>5, <2>2
    <3>2. StringBytes(str) = HeaderBytes(FALSE, n) \o str
      BY <1>5, <3>1, Zenon DEF StringBytes
    <3>3. (HeaderBytes(FALSE, n) \o str) \o rest = HeaderBytes(FALSE, n) \o (str \o rest)
      <4>1. HeaderBytes(FALSE, n) \in Seq(Byte)
        BY HeaderWritten
      <4>2. \A x, y, z \in Seq(Byte) : (x \o y) \o z = x \o (y \o z)
        BY ConcatAssociative
      <4> QED
        BY <1>5, <4>1, <4>2, Zenon
    <3> QED
      BY <1>5, <2>2, <3>2, <3>3, Zenon
  <2> QED
    BY <1>2, <1>4, <2>1, <2>2, Zenon DEF AcceptsHeader
<1>7. StringHeader(input) = AtPayload(str, rest)
  BY <1>1, <1>3, <1>4, <1>5, Zenon DEF AtPayload
<1> QED
  BY <1>5, <1>6, <1>7, Zenon

\* What a decoder finds at the payload of a string.
LEMMA PayloadIs ==
  ASSUME NEW str \in Seq(Byte), NEW rest \in Seq(Byte)
  PROVE  LET h == AtPayload(str, rest)
         IN  /\ h.error = "none" /\ h.from = str \o rest /\ h.value.payload_length = Len(str)
             /\ Payload(h) = str /\ AfterPayload(h) = rest
<1> DEFINE h == AtPayload(str, rest)
<1>1. h.error = "none" /\ h.from = str \o rest /\ h.value.payload_length = Len(str)
  BY DEF AtPayload, Decoded
<1> HIDE DEF h
<1>2. Payload(h) = str /\ AfterPayload(h) = rest
  BY <1>1, ConcatCut DEF Payload, AfterPayload
<1> QED
  BY <1>1, <1>2 DEF h

\* How a decoder that succeeds ends.
LEMMA FinishedWell ==
  ASSUME NEW value, NEW input, NEW mode, Finished(value, input, mode).error = "none"
  PROVE  Finished(value, input, mode) = Decoded(value, input) /\ (mode # "kAllow" => input = <<>>)
BY DEF Finished, Failed

\* Every string is read back from its encoding, whatever follows: what follows is left in
\* the view, or is too long when the caller allows nothing.
THEOREM StringIsRead ==
  ASSUME NEW str \in Seq(Byte), Len(str) \in Uint64, NEW rest \in Seq(Byte), NEW mode
  PROVE  decode_bytes(Written(encode_bytes(str)) \o rest, mode) = Finished(str, rest, mode)
<1> DEFINE input == Written(encode_bytes(str)) \o rest
           h == StringHeader(input)
<1>1. decode_bytes(input, mode) = IF h.error # "none" THEN h ELSE Finished(Payload(h), AfterPayload(h), mode)
  BY Zenon DEF decode_bytes, Then
<1>2. h = AtPayload(str, rest)
  BY StringWritten, StringHeaderIsRead, Zenon
<1> HIDE DEF h, input
<1>3. h.error = "none" /\ Payload(h) = str /\ AfterPayload(h) = rest
  BY <1>2, PayloadIs
<1>4. decode_bytes(input, mode) = Finished(str, rest, mode)
  BY <1>1, <1>3, Zenon
<1> QED
  BY <1>4 DEF input

\* What decode accepts is the encoding of the string it returns, and no other: in
\* particular a decoder that allows nothing to follow accepts one input for each string.
THEOREM StringIsCanonical ==
  ASSUME NEW input \in Seq(Byte), NEW mode, decode_bytes(input, mode).error = "none"
  PROVE  LET d == decode_bytes(input, mode)
         IN  /\ d.value \in Seq(Byte) /\ Len(d.value) \in Uint64
             /\ input = Written(encode_bytes(d.value)) \o d.from
             /\ mode # "kAllow" => d.from = <<>>
<1> DEFINE h == StringHeader(input)
           d == decode_bytes(input, mode)
<1>1. d = IF h.error # "none" THEN h ELSE Finished(Payload(h), AfterPayload(h), mode)
  BY Zenon DEF decode_bytes, Then
<1> HIDE DEF h, d
<1>2. d.error = "none"
  BY DEF d
<1>3. h.error = "none" /\ d = Finished(Payload(h), AfterPayload(h), mode)
  BY <1>1, <1>2, Zenon
<1>4. PICK str \in Seq(Byte), rest \in Seq(Byte) :
        Len(str) \in Uint64 /\ input = StringBytes(str) \o rest /\ h = AtPayload(str, rest)
  BY <1>3, StringHeaderIsCanonical DEF h
<1>5. Payload(h) = str /\ AfterPayload(h) = rest
  BY <1>4, PayloadIs
<1>6. d = Decoded(str, rest) /\ (mode # "kAllow" => rest = <<>>)
  BY <1>2, <1>3, <1>5, FinishedWell
<1>7. d.value = str /\ d.from = rest
  BY <1>6 DEF Decoded
<1>8. Written(encode_bytes(str)) = StringBytes(str)
  BY <1>4, StringWritten
<1> QED
  BY <1>4, <1>6, <1>7, <1>8, Zenon DEF d

\* An array of N bytes is read back from its encoding by the decoder for N bytes, and
\* rejected by the others.
THEOREM ArrayIsRead ==
  ASSUME NEW str \in Seq(Byte), Len(str) \in Uint64, NEW rest \in Seq(Byte), NEW mode, NEW N \in Nat
  PROVE  decode_array(Written(encode_bytes(str)) \o rest, N, mode)
           = IF Len(str) = N THEN Finished(str, rest, mode)
             ELSE Failed("kUnexpectedLength", str \o rest)
<1> DEFINE input == Written(encode_bytes(str)) \o rest
           h == StringHeader(input)
<1>1. decode_array(input, N, mode) =
        IF h.error # "none" THEN h
        ELSE IF h.value.payload_length # N THEN Failed("kUnexpectedLength", h.from)
        ELSE Finished(Payload(h), AfterPayload(h), mode)
  BY Zenon DEF decode_array, Then
<1>2. h = AtPayload(str, rest)
  BY StringWritten, StringHeaderIsRead, Zenon
<1> HIDE DEF h, input
<1>3. /\ h.error = "none" /\ Payload(h) = str /\ AfterPayload(h) = rest
      /\ h.value.payload_length = Len(str) /\ h.from = str \o rest
  BY <1>2, PayloadIs
<1>4. decode_array(input, N, mode)
        = IF Len(str) = N THEN Finished(str, rest, mode) ELSE Failed("kUnexpectedLength", str \o rest)
  BY <1>1, <1>3, Zenon
<1> QED
  BY <1>4 DEF input

\* What it accepts is the encoding of the N bytes it returns.
THEOREM ArrayIsCanonical ==
  ASSUME NEW input \in Seq(Byte), NEW mode, NEW N \in Nat, decode_array(input, N, mode).error = "none"
  PROVE  LET d == decode_array(input, N, mode)
         IN  /\ d.value \in Seq(Byte) /\ Len(d.value) = N
             /\ input = Written(encode_bytes(d.value)) \o d.from
             /\ mode # "kAllow" => d.from = <<>>
<1> DEFINE h == StringHeader(input)
           d == decode_array(input, N, mode)
<1>1. d = IF h.error # "none" THEN h
          ELSE IF h.value.payload_length # N THEN Failed("kUnexpectedLength", h.from)
          ELSE Finished(Payload(h), AfterPayload(h), mode)
  BY Zenon DEF decode_array, Then
<1> HIDE DEF h, d
<1>2. d.error = "none"
  BY DEF d
<1>3. /\ h.error = "none" /\ h.value.payload_length = N
      /\ d = Finished(Payload(h), AfterPayload(h), mode)
  <2>1. h.error = "none"
    BY <1>1, <1>2, Zenon
  <2>2. h.value.payload_length = N
    <3>1. ASSUME h.value.payload_length # N
          PROVE  d = Failed("kUnexpectedLength", h.from)
      BY <1>1, <2>1, <3>1, Zenon
    <3>2. Failed("kUnexpectedLength", h.from).error # "none"
      BY DEF Failed
    <3> QED
      BY <1>2, <3>1, <3>2, Zenon
  <2> QED
    BY <1>1, <2>1, <2>2, Zenon
<1>4. PICK str \in Seq(Byte), rest \in Seq(Byte) :
        Len(str) \in Uint64 /\ input = StringBytes(str) \o rest /\ h = AtPayload(str, rest)
  BY <1>3, StringHeaderIsCanonical DEF h
<1>5. Payload(h) = str /\ AfterPayload(h) = rest /\ h.value.payload_length = Len(str)
  BY <1>4, PayloadIs
<1>6. d = Decoded(str, rest) /\ (mode # "kAllow" => rest = <<>>)
  BY <1>2, <1>3, <1>5, FinishedWell
<1>7. d.value = str /\ d.from = rest
  BY <1>6 DEF Decoded
<1>8. Written(encode_bytes(str)) = StringBytes(str)
  BY <1>4, StringWritten
<1> QED
  BY <1>3, <1>4, <1>5, <1>6, <1>7, <1>8, Zenon DEF d

-----------------------------------------------------------------------------
(* Numbers and booleans.                                                   *)

\* The encoding of a number is that of the string that is its compact form.
LEMMA UintIsString ==
  ASSUME NEW n \in Uint64
  PROVE  BytesOf(encode_uint(n)) = StringBytes(to_big_compact(n))
<1> DEFINE c == to_big_compact(n)
           size == Len(c)
<1>1. n \in Nat /\ c \in Seq(Byte) /\ size \in 0..8 /\ (n # 0 => size \in 1..8 /\ c[1] # 0)
  BY CompactLength
<1>2. CASE n = 0
  <2>1. encode_uint(n) = Chunk(<<128>>) /\ <<128>> \in Seq(Byte)
    BY <1>2 DEF encode_uint, kEmptyStringCode, Byte
  <2>2. BytesOf(encode_uint(n)) = <<128>>
    BY <2>1, PlainChunk
  <2>3. c = <<>> /\ Len(c) = 0
    BY <1>2, CompactLength
  <2>4. StringBytes(c) = HeaderBytes(FALSE, 0) \o <<>>
    BY <2>3 DEF StringBytes
  <2>5. HeaderBytes(FALSE, 0) = <<128>>
    BY DEF HeaderBytes
  <2> QED
    BY <2>1, <2>2, <2>4, <2>5, ConcatEmptySeq
<1>3. CASE n # 0 /\ n < 128
  <2>1. n \in Byte
    BY <1>1, <1>3 DEF Byte
  <2>2. c = <<n>>
    BY <1>3, <2>1, CompactByte
  <2>3. encode_uint(n) = Chunk(<<n>>) /\ <<n>> \in Seq(Byte)
    BY <1>3, <2>1 DEF encode_uint, kEmptyStringCode
  <2>4. BytesOf(encode_uint(n)) = <<n>>
    BY <2>3, PlainChunk
  <2>5. Len(<<n>>) = 1 /\ <<n>>[1] = n
    OBVIOUS
  <2> QED
    BY <1>3, <2>2, <2>4, <2>5, Zenon DEF StringBytes
<1>4. CASE ~(n < 128)
  <2>1. n # 0
    BY <1>4
  <2>2. size \in 1..8 /\ c[1] # 0
    BY <1>1, <2>1
  <2>3. encode_uint(n) = [bytes |-> <<128 + size>>, number |-> n]
    BY <1>4, <2>1, Zenon DEF encode_uint, kEmptyStringCode
  <2>4. 128 + size \in Byte /\ size < 56
    <3> HIDE DEF size
    <3> QED
      BY <2>2 DEF Byte
  <2>5. BytesOf(encode_uint(n)) = <<128 + size>> \o c
    BY <2>3, <2>4, NumberChunk
  <2>6. ~(size = 1 /\ c[1] < 128)
    <3>1. ASSUME size = 1
          PROVE  c[1] = n
      <4> DEFINE x == c[1]
      <4>1. x \in Byte /\ c = <<x>>
        <5> HIDE DEF c
        <5>1. x \in Byte
          BY <1>1, <3>1, ElementOfSeq
        <5> HIDE DEF x
        <5>2. <<x>> \in Seq(Byte) /\ Len(<<x>>) = 1 /\ <<x>>[1] = x
          BY <5>1
        <5>3. \A k \in 1..Len(c) : c[k] = <<x>>[k]
          BY <3>1, <5>2 DEF x
        <5> QED
          BY <1>1, <3>1, <5>1, <5>2, <5>3, SeqEqual
      <4> HIDE DEF x
      <4>2. x # 0
        BY <2>2 DEF x
      <4>3. x \in Uint64 /\ to_big_compact(x) = c
        BY <4>1, <4>2, CompactByte
      <4>4. load_big(c) = x
        BY <4>3, CompactIsRead
      <4>5. load_big(c) = n
        BY CompactIsRead
      <4> QED
        BY <4>4, <4>5 DEF x
    <3> QED
      BY <1>4, <3>1
  <2>7. StringBytes(c) = HeaderBytes(FALSE, size) \o c
    BY <2>6, Zenon DEF StringBytes
  <2>8. HeaderBytes(FALSE, size) = <<128 + size>>
    BY <2>4, Zenon DEF HeaderBytes
  <2> QED
    BY <2>5, <2>7, <2>8, Zenon
<1> QED
  BY <1>2, <1>3, <1>4

\* What is read from a string's payload as a number of `width' bytes.
LEMMA PayloadNumber ==
  ASSUME NEW str \in Seq(Byte), NEW rest \in Seq(Byte), NEW width, NEW mode, NEW input,
         StringHeader(input) = AtPayload(str, rest)
  PROVE  decode_uint(input, width, mode) =
           LET n == from_big_compact(str, width)
           IN  IF n.error # "none" THEN Failed(n.error, str \o rest)
               ELSE Finished(n.value, rest, mode)
<1> DEFINE h == StringHeader(input)
           n == from_big_compact(Payload(h), width)
           i == At(h.from, n)
<1>1. decode_uint(input, width, mode) =
        IF h.error # "none" THEN h
        ELSE IF i.error # "none" THEN i ELSE Finished(i.value, AfterPayload(h), mode)
  BY Zenon DEF decode_uint, Then
<1>2. h.error = "none" /\ Payload(h) = str /\ AfterPayload(h) = rest /\ h.from = str \o rest
  BY PayloadIs
<1>3. CASE n.error = "none"
  <2>1. i.error = "none" /\ i.value = n.value
    BY <1>3, Zenon DEF At, Decoded
  <2> HIDE DEF i
  <2> QED
    BY <1>1, <1>2, <1>3, <2>1, Zenon
<1>4. CASE n.error # "none"
  <2>1. i = Failed(n.error, h.from)
    BY <1>4, Zenon DEF At
  <2>2. Failed(n.error, h.from).error = n.error
    BY DEF Failed
  <2> HIDE DEF i
  <2> QED
    BY <1>1, <1>2, <1>4, <2>1, <2>2, Zenon
<1> QED
  BY <1>3, <1>4

\* Every number of 64 bits is read back from its encoding by a decoder of at least as many
\* bytes as the number has; a narrower one reports the overflow.
THEOREM UintIsRead ==
  ASSUME NEW n \in Uint64, NEW rest \in Seq(Byte), NEW width \in Nat, NEW mode
  PROVE  decode_uint(BytesOf(encode_uint(n)) \o rest, width, mode) =
           IF Len(to_big_compact(n)) > width THEN Failed("kOverflow", to_big_compact(n) \o rest)
           ELSE Finished(n, rest, mode)
<1> DEFINE c == to_big_compact(n)
           input == BytesOf(encode_uint(n)) \o rest
           number == from_big_compact(c, width)
<1>1. c \in Seq(Byte) /\ Len(c) \in 0..8 /\ Len(c) \in Byte /\ (c # <<>> => c[1] # 0)
  <2>1. \A k \in 0..8 : k \in Byte
    BY DEF Byte
  <2> QED
    BY <2>1, CompactForm
<1>2. load_big(c) = n
  BY CompactIsRead
<1> HIDE DEF c
<1>3. StringHeader(input) = AtPayload(c, rest)
  <2>1. Len(c) \in Uint64
    BY <1>1, SmallUint
  <2>2. input = StringBytes(c) \o rest
    BY UintIsString, Zenon DEF c
  <2> HIDE DEF input
  <2> QED
    BY <1>1, <2>1, <2>2, StringHeaderIsRead
<1>4. decode_uint(input, width, mode) =
        IF number.error # "none" THEN Failed(number.error, c \o rest)
        ELSE Finished(number.value, rest, mode)
  <2> HIDE DEF input
  <2> QED
    BY <1>1, <1>3, PayloadNumber
<1>5. CASE Len(c) > width
  <2>1. number = [error |-> "kOverflow", value |-> 0]
    BY <1>5, Zenon DEF from_big_compact
  <2>2. number.error = "kOverflow" /\ "kOverflow" # "none"
    BY <2>1
  <2> HIDE DEF number
  <2> QED
    BY <1>4, <1>5, <2>2, Zenon DEF c
<1>6. CASE ~(Len(c) > width)
  <2>1. number = [error |-> "none", value |-> n]
    BY <1>1, <1>2, <1>6, Zenon DEF from_big_compact
  <2>2. number.error = "none" /\ number.value = n
    BY <2>1
  <2> HIDE DEF number
  <2> QED
    BY <1>4, <1>6, <2>2, Zenon DEF c
<1> QED
  BY <1>5, <1>6

\* What a decoder of numbers accepts is the encoding of the number it returns, which fits
\* in its width: no leading zeros, no long form, nothing that overflows.
THEOREM UintIsCanonical ==
  ASSUME NEW input \in Seq(Byte), NEW width \in 1..8, NEW mode,
         decode_uint(input, width, mode).error = "none"
  PROVE  LET d == decode_uint(input, width, mode)
         IN  /\ d.value \in Uint64 /\ Len(to_big_compact(d.value)) <= width
             /\ input = BytesOf(encode_uint(d.value)) \o d.from
             /\ mode # "kAllow" => d.from = <<>>
<1> DEFINE h == StringHeader(input)
           d == decode_uint(input, width, mode)
<1>1. h.error = "none"
  <2> DEFINE i == At(h.from, from_big_compact(Payload(h), width))
  <2>1. d = IF h.error # "none" THEN h
            ELSE IF i.error # "none" THEN i ELSE Finished(i.value, AfterPayload(h), mode)
    BY Zenon DEF decode_uint, Then
  <2> QED
    BY <2>1, Zenon
<1>2. PICK str \in Seq(Byte), rest \in Seq(Byte) :
        Len(str) \in Uint64 /\ input = StringBytes(str) \o rest /\ h = AtPayload(str, rest)
  BY <1>1, StringHeaderIsCanonical
<1> DEFINE number == from_big_compact(str, width)
           n == load_big(str)
<1>3. d = IF number.error # "none" THEN Failed(number.error, str \o rest)
          ELSE Finished(number.value, rest, mode)
  BY <1>2, PayloadNumber
<1> HIDE DEF d
<1>4. d.error = "none"
  BY DEF d
<1>5. number.error = "none" /\ d = Finished(number.value, rest, mode)
  <2>1. \A error, x : Failed(error, x).error = error
    BY DEF Failed
  <2> HIDE DEF number
  <2> QED
    BY <1>3, <1>4, <2>1, Zenon
<1>6. ~(Len(str) > width) /\ ~(str # <<>> /\ str[1] = 0) /\ number = [error |-> "none", value |-> n]
  <2>1. ~(Len(str) > width)
    BY <1>5 DEF from_big_compact
  <2>2. ~(str # <<>> /\ str[1] = 0)
    BY <1>5, <2>1 DEF from_big_compact
  <2> QED
    BY <2>1, <2>2, Zenon DEF from_big_compact
<1>7. Len(str) <= width /\ Len(str) <= 8
  BY <1>6, LenProperties
<1>8. n \in Uint64 /\ to_big_compact(n) = str
  BY <1>6, <1>7, ReadIsCompact
<1>9. number.value = n
  BY <1>6
<1> HIDE DEF number, n
<1>10. d = Decoded(n, rest) /\ (mode # "kAllow" => rest = <<>>)
  BY <1>4, <1>5, <1>9, FinishedWell
<1>11. d.value = n /\ d.from = rest
  BY <1>10 DEF Decoded
<1>12. BytesOf(encode_uint(n)) = StringBytes(str)
  BY <1>8, UintIsString
<1> QED
  BY <1>2, <1>7, <1>8, <1>10, <1>11, <1>12, Zenon DEF d

\* The number a boolean is encoded as.
Bit(x) == IF x THEN 1 ELSE 0

\* A boolean is encoded as the number 0 or 1.
LEMMA BoolIsUint ==
  ASSUME NEW x \in BOOLEAN
  PROVE  encode_bool(x) = encode_uint(Bit(x)) /\ Bit(x) \in Byte /\ Len(to_big_compact(Bit(x))) <= 8
<1>1. Bit(x) \in Byte
  BY DEF Bit, Byte
<1>2. Len(to_big_compact(Bit(x))) <= 8
  <2>1. \A n \in Uint64 : Len(to_big_compact(n)) \in 0..8
    BY CompactLength
  <2>2. Bit(x) \in Uint64
    BY <1>1, SmallUint
  <2>3. \A k \in 0..8 : k <= 8
    OBVIOUS
  <2> QED
    BY <2>1, <2>2, <2>3, Zenon
<1>3. encode_bool(x) = encode_uint(Bit(x))
  <2>1. CASE x = TRUE
    BY <2>1, SMT DEF encode_bool, encode_uint, Bit, kEmptyStringCode
  <2>2. CASE x = FALSE
    BY <2>2, SMT DEF encode_bool, encode_uint, Bit, kEmptyStringCode
  <2> QED
    BY <2>1, <2>2
<1> QED
  BY <1>1, <1>2, <1>3

\* A boolean is read back from its encoding.
THEOREM BoolIsRead ==
  ASSUME NEW x \in BOOLEAN, NEW rest \in Seq(Byte), NEW mode
  PROVE  decode_bool(BytesOf(encode_bool(x)) \o rest, mode) = Finished(x, rest, mode)
<1> DEFINE input == BytesOf(encode_bool(x)) \o rest
           i == decode_uint(input, 8, mode)
<1>1. decode_bool(input, mode) =
        IF i.error # "none" THEN i
        ELSE IF i.value > 1 THEN Failed("kOverflow", i.from) ELSE Decoded(i.value = 1, i.from)
  BY Zenon DEF decode_bool, Then
<1>2. i = Finished(Bit(x), rest, mode)
  <2>1. Bit(x) \in Uint64 /\ ~(Len(to_big_compact(Bit(x))) > 8) /\ 8 \in Nat
    BY BoolIsUint, SmallUint, CompactLength
  <2>2. input = BytesOf(encode_uint(Bit(x))) \o rest
    BY BoolIsUint, Zenon
  <2> HIDE DEF input
  <2>3. i = IF Len(to_big_compact(Bit(x))) > 8 THEN Failed("kOverflow", to_big_compact(Bit(x)) \o rest)
            ELSE Finished(Bit(x), rest, mode)
    BY <2>1, <2>2, UintIsRead
  <2> QED
    BY <2>1, <2>3, Zenon
<1> HIDE DEF i, input
<1>3. CASE mode # "kAllow" /\ rest # <<>>
  <2>1. \A value : Finished(value, rest, mode) = Failed("kInputTooLong", rest)
    BY <1>3, Zenon DEF Finished
  <2>2. Failed("kInputTooLong", rest).error # "none"
    BY DEF Failed
  <2>3. i = Failed("kInputTooLong", rest) /\ i.error # "none"
    BY <1>2, <2>1, <2>2
  <2>4. decode_bool(input, mode) = Finished(x, rest, mode)
    BY <1>1, <2>1, <2>3, Zenon
  <2> QED
    BY <2>4 DEF input
<1>4. CASE ~(mode # "kAllow" /\ rest # <<>>)
  <2>1. \A value : Finished(value, rest, mode) = Decoded(value, rest)
    BY <1>4, Zenon DEF Finished
  <2>2. i.error = "none" /\ i.value = Bit(x) /\ i.from = rest
    BY <1>2, <2>1 DEF Decoded
  <2>3. ~(Bit(x) > 1) /\ (Bit(x) = 1 <=> x)
    BY DEF Bit
  <2>4. (Bit(x) = 1) = x
    BY <2>3, Zenon
  <2>5. decode_bool(input, mode) = Finished(x, rest, mode)
    BY <1>1, <2>1, <2>2, <2>3, <2>4, Zenon
  <2> QED
    BY <2>5 DEF input
<1> QED
  BY <1>3, <1>4

\* What the decoder of booleans accepts is one of their two encodings.
THEOREM BoolIsCanonical ==
  ASSUME NEW input \in Seq(Byte), NEW mode, decode_bool(input, mode).error = "none"
  PROVE  LET d == decode_bool(input, mode)
         IN  /\ d.value \in BOOLEAN
             /\ input = BytesOf(encode_bool(d.value)) \o d.from
             /\ mode # "kAllow" => d.from = <<>>
<1> DEFINE i == decode_uint(input, 8, mode)
           d == decode_bool(input, mode)
<1>1. d = IF i.error # "none" THEN i
          ELSE IF i.value > 1 THEN Failed("kOverflow", i.from) ELSE Decoded(i.value = 1, i.from)
  BY Zenon DEF decode_bool, Then
<1> HIDE DEF d, i
<1>2. d.error = "none"
  BY DEF d
<1>3. i.error = "none"
  BY <1>1, <1>2, Zenon
<1>4. ~(i.value > 1) /\ d = Decoded(i.value = 1, i.from)
  <2>1. Failed("kOverflow", i.from).error # "none"
    BY DEF Failed
  <2> QED
    BY <1>1, <1>2, <1>3, <2>1, Zenon
<1>5. /\ i.value \in Uint64 /\ input = BytesOf(encode_uint(i.value)) \o i.from
      /\ mode # "kAllow" => i.from = <<>>
  <2>1. 8 \in 1..8
    OBVIOUS
  <2> QED
    BY <1>3, <2>1, UintIsCanonical DEF i
<1>6. i.value \in Nat
  BY <1>5 DEF Uint64
<1> DEFINE x == i.value = 1
<1>7. x \in BOOLEAN /\ i.value = Bit(x)
  BY <1>4, <1>6 DEF Bit
<1> HIDE DEF x
<1>8. d.value = x /\ d.from = i.from
  <2>1. d = Decoded(x, i.from)
    BY <1>4 DEF x
  <2> QED
    BY <2>1 DEF Decoded
<1>9. encode_bool(x) = encode_uint(i.value)
  BY <1>7, BoolIsUint
<1> QED
  BY <1>5, <1>7, <1>8, <1>9, Zenon DEF d

-----------------------------------------------------------------------------
(* Lengths.                                                                *)

\* A number has as many significant bytes as its compact form.
LEMMA SignificantBytes ==
  ASSUME NEW n \in Uint64, n # 0
  PROVE  count_significant_bytes(n) = Len(to_big_compact(n))
<1> DEFINE rest == shifted(8, n)
           c == to_big_compact(n)
           size == Len(c)
<1>1. /\ size \in 0..8 /\ (n = 0 <=> c = <<>>)
      /\ rest[size] = 0 /\ \A k \in 0..(size - 1) : rest[k] # 0
  BY CompactForm
<1>2. size \in 1..8
  BY <1>1, CompactLength
<1>3. \A i \in 0..8 : rest[i] = 0 => \A k \in i..8 : rest[k] = 0
  <2>1. n \in Nat
    BY DEF Uint64
  <2> QED
    BY <2>1, ShiftedZero
<1>4. count_significant_bytes(n) = CHOOSE k \in 1..8 : rest[k - 1] # 0 /\ rest[k] = 0
  BY Zenon DEF count_significant_bytes, shifted
<1> HIDE DEF rest, size
<1>5. \A k \in 1..8 : rest[k - 1] # 0 /\ rest[k] = 0 <=> k = size
  <2> SUFFICES ASSUME NEW k \in 1..8
               PROVE  rest[k - 1] # 0 /\ rest[k] = 0 <=> k = size
    OBVIOUS
  <2>1. CASE k < size
    BY <1>1, <1>2, <2>1
  <2>2. CASE k = size
    BY <1>1, <1>2, <2>2
  <2>3. CASE k > size
    <3>1. size \in 0..8 /\ k - 1 \in size..8
      BY <1>2, <2>3
    <3>2. rest[k - 1] = 0
      BY <1>1, <1>3, <3>1
    <3> QED
      BY <2>3, <3>2, <1>2
  <2> QED
    BY <1>2, <2>1, <2>2, <2>3
<1>6. (CHOOSE k \in 1..8 : rest[k - 1] # 0 /\ rest[k] = 0) = size
  BY <1>2, <1>5
<1> QED
  BY <1>4, <1>6 DEF size

\* One byte in front of a string.
LEMMA OneMore ==
  ASSUME NEW byte \in Byte, NEW str \in Seq(Byte)
  PROVE  Len(<<byte>> \o str) = 1 + Len(str) /\ <<byte>> \o str \in Seq(Byte)
<1>1. <<byte>> \in Seq(Byte) /\ Len(<<byte>>) = 1
  OBVIOUS
<1> DEFINE s == <<byte>>
<1> HIDE DEF s
<1>2. s \in Seq(Byte) /\ Len(s) = 1
  BY <1>1 DEF s
<1>3. Len(s \o str) = Len(s) + Len(str) /\ s \o str \in Seq(Byte)
  BY <1>2, ConcatProperties
<1> QED
  BY <1>2, <1>3 DEF s

\* length_of_length is the size of the header that encode_header writes (encode.cpp), of
\* a string or a list of any length.
THEOREM HeaderLength ==
  ASSUME NEW list \in BOOLEAN, NEW n \in Uint64
  PROVE  Len(Written(encode_header(list, n))) = length_of_length(n)
<1>1. Written(encode_header(list, n)) = HeaderBytes(list, n)
  BY HeaderWritten
<1>2. CASE n < 56
  <2> DEFINE code == (IF list THEN 192 ELSE 128) + n
  <2>1. HeaderBytes(list, n) = <<code>>
    BY <1>2 DEF HeaderBytes
  <2>2. Len(<<code>>) = 1
    OBVIOUS
  <2>3. length_of_length(n) = 1
    BY <1>2 DEF length_of_length
  <2> QED
    BY <1>1, <2>1, <2>2, <2>3, Zenon
<1>3. CASE ~(n < 56)
  <2> DEFINE code == (IF list THEN 247 ELSE 183) + Len(to_big_compact(n))
             c == to_big_compact(n)
  <2>1. HeaderBytes(list, n) = <<code>> \o c
    BY <1>3 DEF HeaderBytes
  <2>2. code \in Byte
    BY <1>3, HeaderCode
  <2>3. n # 0 /\ c \in Seq(Byte)
    BY <1>3, CompactLength
  <2> HIDE DEF code, c
  <2>4. Len(<<code>> \o c) = 1 + Len(c)
    BY <2>2, <2>3, OneMore
  <2>5. length_of_length(n) = 1 + Len(c)
    <3>1. count_significant_bytes(n) = Len(c)
      BY <2>3, SignificantBytes DEF c
    <3> QED
      BY <1>3, <3>1 DEF length_of_length
  <2> QED
    BY <1>1, <2>1, <2>4, <2>5, Zenon
<1> QED
  BY <1>2, <1>3

\* rlp::length of a string is the size of what rlp::encode appends (encode.cpp:45-58),
\* for strings of any length that has 64 bits.
THEOREM StringLength ==
  ASSUME NEW str \in Seq(Byte), Len(str) \in Uint64
  PROVE  Len(Written(encode_bytes(str))) = length_bytes(str)
<1> DEFINE n == Len(str)
           h == HeaderBytes(FALSE, n)
<1>1. Written(encode_bytes(str)) = StringBytes(str)
  BY StringWritten
<1>2. CASE n = 1 /\ str[1] < 128
  BY <1>1, <1>2, Zenon DEF StringBytes, length_bytes, kEmptyStringCode
<1>3. CASE ~(n = 1 /\ str[1] < 128)
  <2>1. StringBytes(str) = h \o str
    BY <1>3, Zenon DEF StringBytes
  <2>2. h \in Seq(Byte) /\ Len(h) = length_of_length(n)
    BY HeaderWritten, HeaderLength
  <2>3. length_bytes(str) = n + length_of_length(n)
    BY <1>3, Zenon DEF length_bytes, kEmptyStringCode
  <2>4. n \in Nat
    BY LenProperties
  <2> HIDE DEF h
  <2>5. Len(h \o str) = Len(h) + n /\ Len(h) \in Nat
    BY <2>2, ConcatProperties, LenProperties
  <2> HIDE DEF n
  <2>6. Len(h) + n = n + Len(h)
    BY <2>4, <2>5
  <2> QED
    BY <1>1, <2>1, <2>2, <2>3, <2>5, <2>6, Zenon
<1> QED
  BY <1>2, <1>3

\* rlp::length of a number is the size of what rlp::encode appends (encode.hpp:28-55), for
\* all numbers of 64 bits; and a boolean takes one byte.
THEOREM UintLength ==
  ASSUME NEW n \in Uint64, NEW x \in BOOLEAN
  PROVE  /\ Len(BytesOf(encode_uint(n))) = length_uint(n)
         /\ Len(BytesOf(encode_bool(x))) = 1
<1>n. n \in Nat
  BY DEF Uint64
<1>1. \A byte \in Byte : Len(BytesOf(Chunk(<<byte>>))) = 1
  <2> SUFFICES ASSUME NEW byte \in Byte
               PROVE  Len(BytesOf(Chunk(<<byte>>))) = 1
    OBVIOUS
  <2>1. <<byte>> \in Seq(Byte) /\ Len(<<byte>>) = 1
    OBVIOUS
  <2> QED
    BY <2>1, PlainChunk
<1>2. ASSUME n < 128
      PROVE  Len(BytesOf(encode_uint(n))) = length_uint(n)
  <2>1. n \in Byte /\ 128 \in Byte
    BY <1>n, <1>2 DEF Byte
  <2>2. encode_uint(n) = Chunk(<<128>>) \/ encode_uint(n) = Chunk(<<n>>)
    BY <1>2, Zenon DEF encode_uint, kEmptyStringCode
  <2>3. length_uint(n) = 1
    BY <1>2, Zenon DEF length_uint, kEmptyStringCode
  <2> QED
    BY <1>1, <2>1, <2>2, <2>3, Zenon
<1>3. ASSUME ~(n < 128)
      PROVE  Len(BytesOf(encode_uint(n))) = length_uint(n)
  <2> DEFINE c == to_big_compact(n)
             size == Len(c)
             code == 128 + size
  <2>1. n # 0
    BY <1>3
  <2>2. encode_uint(n) = [bytes |-> <<code>>, number |-> n]
    BY <1>3, <2>1, Zenon DEF encode_uint, kEmptyStringCode
  <2>3. c \in Seq(Byte) /\ size \in 1..8
    BY <2>1, CompactLength
  <2> HIDE DEF c, size
  <2>4. code \in Byte
    <3>1. \A k \in 1..8 : 128 + k \in Byte
      BY SMT DEF Byte
    <3> QED
      BY <2>3, <3>1
  <2> HIDE DEF code
  <2>5. BytesOf(encode_uint(n)) = <<code>> \o c
    BY <2>2, <2>4, NumberChunk DEF c
  <2>6. Len(<<code>> \o c) = 1 + size
    BY <2>3, <2>4, OneMore DEF size
  <2>7. length_uint(n) = size + 1
    <3>1. count_significant_bytes(n) = size
      BY <2>1, SignificantBytes DEF c, size
    <3>2. length_of_length(size) = 1
      <4>1. size < 56
        BY <2>3
      <4> QED
        BY <4>1, Zenon DEF length_of_length
    <3> QED
      BY <1>3, <3>1, <3>2, Zenon DEF length_uint, kEmptyStringCode
  <2>8. 1 + size = size + 1
    BY <2>3
  <2> QED
    BY <2>5, <2>6, <2>7, <2>8, Zenon
<1>4. Len(BytesOf(encode_bool(x))) = 1
  <2>1. 1 \in Byte /\ 128 \in Byte
    BY DEF Byte
  <2>2. encode_bool(x) = Chunk(<<1>>) \/ encode_bool(x) = Chunk(<<128>>)
    BY DEF encode_bool, kEmptyStringCode
  <2> QED
    BY <1>1, <2>1, <2>2, Zenon
<1> QED
  BY <1>2, <1>3, <1>4

-----------------------------------------------------------------------------
(* Hexadecimal text.                                                       *)

\* The tables of digits.
LEMMA DigitTables ==
  /\ DOMAIN kHexDigits = 1..16 /\ DOMAIN UpperCase = 1..6
  /\ \A i \in 1..16 : kHexDigits[i] \in ToSet(kHexDigits)
  /\ DOMAIN kUnhexTable = ToSet(kHexDigits) \cup ToSet(UpperCase)
  /\ kHexDigits[1] = "0" /\ "0" \in ToSet(kHexDigits) /\ "0" \notin ToSet(UpperCase)
  /\ "x" \notin ToSet(UpperCase) /\ "X" \notin ToSet(UpperCase)
<1>1. DOMAIN kHexDigits = 1..16
  BY DEF kHexDigits
<1>2. DOMAIN UpperCase = 1..6
  BY DEF UpperCase
<1>3. \A i \in 1..16 : kHexDigits[i] \in ToSet(kHexDigits)
  BY <1>1, Zenon DEF ToSet
<1>4. DOMAIN kUnhexTable = ToSet(kHexDigits) \cup ToSet(UpperCase)
  BY DEF kUnhexTable
<1>5. kHexDigits[1] = "0" /\ 1 \in 1..16
  BY DEF kHexDigits
<1>6. "0" \in ToSet(kHexDigits)
  BY <1>1, <1>5, Zenon DEF ToSet
<1>7. \A i \in 1..6 : UpperCase[i] # "0" /\ UpperCase[i] # "x" /\ UpperCase[i] # "X"
  BY DEF UpperCase
<1>8. "0" \notin ToSet(UpperCase) /\ "x" \notin ToSet(UpperCase) /\ "X" \notin ToSet(UpperCase)
  BY <1>2, <1>7, Zenon DEF ToSet
<1> QED
  BY <1>1, <1>2, <1>3, <1>4, <1>5, <1>6, <1>8, Zenon

\* The value of a digit is below 16, and to_hex writes it as that digit in lower case.
LEMMA DigitOf ==
  ASSUME NEW ch \in DOMAIN kUnhexTable
  PROVE  /\ kUnhexTable[ch] \in 0..15
         /\ kHexDigits[kUnhexTable[ch] + 1] = Lower(ch)
         /\ unhex_lut(ch) = kUnhexTable[ch] /\ unhex_lut4(ch) = 16 * kUnhexTable[ch]
<1> DEFINE Is(d) == ch \in {kHexDigits[d + 1]} \cup (IF d > 9 THEN {UpperCase[d - 9]} ELSE {})
           v == kUnhexTable[ch]
<1>1. ch \in ToSet(kHexDigits) \cup ToSet(UpperCase)
  BY DigitTables
<1>2. v = CHOOSE d \in 0..15 : Is(d)
  BY <1>1, Zenon DEF kUnhexTable
<1>3. \E d \in 0..15 : Is(d)
  <2>1. CASE ch \in ToSet(kHexDigits)
    <3>1. PICK i \in 1..16 : ch = kHexDigits[i]
      BY <2>1, DigitTables DEF ToSet
    <3>2. i - 1 \in 0..15 /\ (i - 1) + 1 = i
      OBVIOUS
    <3> QED
      BY <3>1, <3>2, Zenon
  <2>2. CASE ch \in ToSet(UpperCase)
    <3>1. PICK i \in 1..6 : ch = UpperCase[i]
      BY <2>2, DigitTables DEF ToSet
    <3>2. i + 9 \in 0..15 /\ (i + 9) - 9 = i /\ i + 9 > 9
      OBVIOUS
    <3> QED
      BY <3>1, <3>2, Zenon
  <2> QED
    BY <1>1, <2>1, <2>2
<1>4. v \in 0..15 /\ Is(v)
  BY <1>2, <1>3, Zenon
<1> HIDE DEF v
<1>5. kHexDigits[v + 1] = Lower(ch)
  <2>1. CASE ch \in ToSet(UpperCase)
    BY <2>1, Zenon DEF Lower, v
  <2>2. CASE ch \notin ToSet(UpperCase)
    <3>1. ch # "X"
      <4>1. \A i \in 1..16 : kHexDigits[i] # "X"
        BY DEF kHexDigits
      <4> QED
        BY <1>1, <2>2, <4>1, DigitTables, Zenon DEF ToSet
    <3>2. Lower(ch) = ch
      BY <2>2, <3>1, Zenon DEF Lower
    <3>3. CASE ch = kHexDigits[v + 1]
      BY <3>2, <3>3, Zenon
    <3>4. CASE v > 9 /\ ch = UpperCase[v - 9]
      <4>1. v - 9 \in 1..6
        BY <1>4, <3>4
      <4>2. ch \in ToSet(UpperCase)
        BY <3>4, <4>1, DigitTables, Zenon DEF ToSet
      <4> QED
        BY <2>2, <4>2
    <3> QED
      BY <1>4, <3>3, <3>4, Zenon
  <2> QED
    BY <2>1, <2>2
<1>6. unhex_lut(ch) = v /\ unhex_lut4(ch) = 16 * v
  BY Zenon DEF unhex_lut, unhex_lut4, v
<1> QED
  BY <1>4, <1>5, <1>6 DEF v

\* A zero in front of an odd digit has the value 0.
LEMMA ZeroDigit ==
  "0" \in DOMAIN kUnhexTable /\ kUnhexTable["0"] = 0 /\ Lower("0") = "0"
<1>1. "0" \in DOMAIN kUnhexTable
  BY DigitTables, Zenon
<1> DEFINE v == kUnhexTable["0"]
<1>2. v \in 0..15 /\ kHexDigits[v + 1] = Lower("0")
  BY <1>1, DigitOf
<1>3. Lower("0") = "0"
  <2>1. "0" # "X"
    OBVIOUS
  <2> QED
    BY <2>1, DigitTables, Zenon DEF Lower
<1> HIDE DEF v
<1>4. \A i \in 2..16 : kHexDigits[i] # "0"
  BY DEF kHexDigits
<1>5. v = 0
  <2>1. v # 0 => v + 1 \in 2..16
    BY <1>2
  <2> QED
    BY <1>2, <1>3, <1>4, <2>1, Zenon
<1> QED
  BY <1>1, <1>3, <1>5 DEF v

\* What is not a digit has no value.
LEMMA NotADigit ==
  ASSUME NEW ch
  PROVE  unhex_lut(ch) # NoDigit <=> ch \in DOMAIN kUnhexTable
<1>1. CASE ch \in DOMAIN kUnhexTable
  <2>1. unhex_lut(ch) = kUnhexTable[ch] /\ kUnhexTable[ch] \in 0..15
    BY <1>1, DigitOf
  <2>2. \A k \in 0..15 : k # 255
    OBVIOUS
  <2> QED
    BY <1>1, <2>1, <2>2 DEF NoDigit
<1>2. CASE ch \notin DOMAIN kUnhexTable
  BY <1>2, Zenon DEF unhex_lut
<1> QED
  BY <1>1, <1>2

\* The characters that from_hex takes for digits.
Digits == DOMAIN kUnhexTable

\* The digits of a text, a zero in front of an odd one.
Even(digits) == IF Len(digits) % 2 = 1 THEN <<"0">> \o digits ELSE digits

\* It has the digits of the text, behind the zero if there is one.
LEMMA EvenDigits ==
  ASSUME NEW digits \in Seq(Digits)
  PROVE  LET pos == Len(digits) % 2
         IN  /\ Even(digits) \in Seq(Digits)
             /\ Len(Even(digits)) = Len(digits) + pos
             /\ \A i \in 1..Len(digits) : Even(digits)[pos + i] = digits[i]
             /\ pos = 1 => Even(digits)[1] = "0"
<1> DEFINE pos == Len(digits) % 2
           e == <<"0">> \o digits
<1>1. Len(digits) \in Nat /\ pos \in 0..1
  BY LenProperties
<1>2. CASE pos = 0
  <2>1. Even(digits) = digits
    BY <1>2 DEF Even
  <2>2. Len(digits) = Len(digits) + pos /\ \A i \in 1..Len(digits) : pos + i = i
    BY <1>1, <1>2
  <2>3. ~(pos = 1)
    BY <1>2
  <2> HIDE DEF pos
  <2>4. \A i \in 1..Len(digits) : Even(digits)[pos + i] = digits[i]
    BY <2>1, <2>2, Zenon
  <2> QED
    BY <2>1, <2>2, <2>3, <2>4, Zenon DEF pos
<1>3. CASE pos = 1
  <2>1. Even(digits) = e
    BY <1>3 DEF Even
  <2>2. "0" \in Digits
    BY ZeroDigit DEF Digits
  <2> HIDE DEF Digits
  <2>3. <<"0">> \in Seq(Digits) /\ Len(<<"0">>) = 1 /\ <<"0">>[1] = "0"
    <3>1. \A x \in Digits : <<x>> \in Seq(Digits) /\ Len(<<x>>) = 1 /\ <<x>>[1] = x
      OBVIOUS
    <3> QED
      BY <2>2, <3>1, Zenon
  <2>4. /\ e \in Seq(Digits) /\ Len(e) = Len(<<"0">>) + Len(digits)
        /\ \A i \in 1..(Len(<<"0">>) + Len(digits)) :
             e[i] = IF i <= Len(<<"0">>) THEN <<"0">>[i] ELSE digits[i - Len(<<"0">>)]
    BY <2>3, ConcatProperties
  <2> HIDE DEF e
  <2>5. /\ Len(e) = Len(digits) + 1
        /\ \A i \in 1..(1 + Len(digits)) : e[i] = IF i <= 1 THEN "0" ELSE digits[i - 1]
    BY <1>1, <2>3, <2>4
  <2>6. e[1] = "0" /\ \A i \in 1..Len(digits) : e[1 + i] = digits[i]
    BY <1>1, <2>5
  <2> QED
    BY <1>3, <2>1, <2>4, <2>5, <2>6
<1> QED
  BY <1>1, <1>2, <1>3

\* The byte that two digits stand for, and its two digits.
LEMMA TwoDigits ==
  ASSUME NEW a \in 0..15, NEW b \in 0..15
  PROVE  16 * a + b \in Byte /\ (16 * a + b) \div 16 = a /\ (16 * a + b) % 16 = b
BY DEF Byte

\* from_hex makes that byte of two digits.
LEMMA DigitPair ==
  ASSUME NEW x \in Digits, NEW y \in Digits
  PROVE  /\ kUnhexTable[x] \in 0..15 /\ kUnhexTable[y] \in 0..15
         /\ unhex_lut4(x) + unhex_lut(y) = 16 * kUnhexTable[x] + kUnhexTable[y]
         /\ 16 * kUnhexTable[x] + kUnhexTable[y] \in Byte
<1>1. /\ kUnhexTable[x] \in 0..15 /\ unhex_lut4(x) = 16 * kUnhexTable[x]
      /\ kUnhexTable[y] \in 0..15 /\ unhex_lut(y) = kUnhexTable[y]
  BY DigitOf DEF Digits
<1> QED
  BY <1>1, TwoDigits

\* from_hex reads two digits to a byte.
LEMMA DigitsAreRead ==
  ASSUME NEW hex, without_prefix(hex) \in Seq(Digits)
  PROVE  LET e == Even(without_prefix(hex))
             m == (Len(without_prefix(hex)) + 1) \div 2
         IN  /\ from_hex(hex).ok /\ m \in Nat /\ Len(e) = 2 * m
             /\ from_hex(hex).bytes \in Seq(Byte) /\ Len(from_hex(hex).bytes) = m
             /\ \A k \in 1..m :
                  from_hex(hex).bytes[k] = 16 * kUnhexTable[e[2 * k - 1]] + kUnhexTable[e[2 * k]]
<1> DEFINE digits == without_prefix(hex)
           size == Len(digits)
           pos == size % 2
           half == size \div 2
           e == Even(digits)
           m == (size + 1) \div 2
           byte(i) == unhex_lut4(digits[pos + 2 * i - 1]) + unhex_lut(digits[pos + 2 * i])
           first == IF pos = 1 THEN <<unhex_lut(digits[1])>> ELSE <<>>
           last == [i \in 1..half |-> byte(i)]
           bytes == first \o last
<1>1. /\ size \in Nat /\ pos \in 0..1 /\ half \in Nat /\ m \in Nat
      /\ size = 2 * half + pos /\ m = half + pos /\ size + pos = 2 * m
  BY LenProperties
<1>2. \A i \in 1..size : digits[i] \in Digits
  BY ElementOfSeq
<1>3. /\ e \in Seq(Digits) /\ Len(e) = size + pos
      /\ \A i \in 1..size : e[pos + i] = digits[i]
      /\ pos = 1 => e[1] = "0"
  BY EvenDigits
<1>4. DOMAIN digits = 1..size
  BY LenProperties
<1>5. from_hex(hex) = [ok |-> TRUE, bytes |-> bytes]
  <2>1. ~\E i \in DOMAIN digits : unhex_lut(digits[i]) = NoDigit
    BY <1>2, <1>4, NotADigit, Zenon DEF Digits
  <2> QED
    BY <2>1, Zenon DEF from_hex
<1> HIDE DEF digits, e
<1>6. ASSUME NEW i \in 1..half
      PROVE  /\ byte(i) \in Byte
             /\ byte(i) = 16 * kUnhexTable[e[2 * (pos + i) - 1]] + kUnhexTable[e[2 * (pos + i)]]
  <2> DEFINE a == pos + 2 * i - 1
             b == pos + 2 * i
  <2>1. a \in 1..size /\ b \in 1..size /\ pos + a = 2 * (pos + i) - 1 /\ pos + b = 2 * (pos + i)
    BY <1>1
  <2>2. digits[a] \in Digits /\ digits[b] \in Digits /\ e[pos + a] = digits[a] /\ e[pos + b] = digits[b]
    BY <1>2, <1>3, <2>1
  <2> DEFINE x == digits[a]
             y == digits[b]
  <2> HIDE DEF x, y
  <2>3. /\ unhex_lut4(x) + unhex_lut(y) = 16 * kUnhexTable[x] + kUnhexTable[y]
        /\ 16 * kUnhexTable[x] + kUnhexTable[y] \in Byte
    BY <2>2, DigitPair DEF x, y
  <2> QED
    BY <2>1, <2>2, <2>3, Zenon DEF x, y
<1>7. last \in Seq(Byte) /\ Len(last) = half
  BY <1>1, <1>6
<1>8. /\ first \in Seq(Byte) /\ Len(first) = pos
      /\ pos = 1 => first[1] = 16 * kUnhexTable[e[1]] + kUnhexTable[e[2]]
  <2>1. CASE pos = 0
    BY <2>1, EmptySeq
  <2>2. CASE pos = 1
    <3> DEFINE x == digits[1]
    <3>1. 1 \in 1..size /\ pos + 1 = 2
      BY <1>1, <2>2
    <3>2. x \in Digits /\ e[2] = x /\ e[1] = "0"
      BY <1>2, <1>3, <2>2, <3>1
    <3>3. first = <<unhex_lut(x)>>
      BY <2>2
    <3> HIDE DEF x
    <3>4. unhex_lut(x) = kUnhexTable[x] /\ kUnhexTable[x] \in 0..15
      BY <3>2, DigitOf DEF Digits
    <3>5. unhex_lut(x) \in Byte /\ 16 * 0 + kUnhexTable[x] = kUnhexTable[x]
      BY <3>4 DEF Byte
    <3>6. <<unhex_lut(x)>> \in Seq(Byte) /\ Len(<<unhex_lut(x)>>) = 1 /\ <<unhex_lut(x)>>[1] = unhex_lut(x)
      BY <3>5
    <3>7. first[1] = 16 * kUnhexTable[e[1]] + kUnhexTable[e[2]]
      BY <3>2, <3>3, <3>4, <3>5, <3>6, ZeroDigit
    <3> QED
      BY <2>2, <3>3, <3>6, <3>7
  <2> QED
    BY <1>1, <2>1, <2>2
<1>9. \A i \in 1..half : last[i] = byte(i)
  OBVIOUS
<1> HIDE DEF first, last
<1>10. /\ bytes \in Seq(Byte) /\ Len(bytes) = Len(first) + Len(last)
       /\ \A k \in 1..(Len(first) + Len(last)) :
            bytes[k] = IF k <= Len(first) THEN first[k] ELSE last[k - Len(first)]
  BY <1>7, <1>8, ConcatProperties
<1> HIDE DEF bytes, byte
<1>11. Len(bytes) = m /\ \A k \in 1..m : bytes[k] = IF k <= pos THEN first[k] ELSE last[k - pos]
  BY <1>1, <1>7, <1>8, <1>10
<1>12. ASSUME NEW k \in 1..m
       PROVE  bytes[k] = 16 * kUnhexTable[e[2 * k - 1]] + kUnhexTable[e[2 * k]]
  <2>1. CASE k <= pos
    <3>1. pos = 1 /\ k = 1 /\ 2 * k - 1 = 1 /\ 2 * k = 2
      BY <1>1, <2>1
    <3> QED
      BY <1>8, <1>11, <2>1, <3>1
  <2>2. CASE ~(k <= pos)
    <3> DEFINE i == k - pos
    <3>1. i \in 1..half /\ pos + i = k
      BY <1>1, <2>2
    <3>2. bytes[k] = byte(i)
      BY <1>9, <1>11, <2>2, <3>1
    <3> HIDE DEF i
    <3>3. byte(i) = 16 * kUnhexTable[e[2 * (pos + i) - 1]] + kUnhexTable[e[2 * (pos + i)]]
      BY <1>6, <3>1
    <3> QED
      BY <3>1, <3>2, <3>3, Zenon
  <2> QED
    BY <2>1, <2>2
<1>13. from_hex(hex).ok /\ from_hex(hex).bytes = bytes
  BY <1>5
<1> QED
  BY <1>1, <1>3, <1>10, <1>11, <1>12, <1>13, Zenon DEF digits, e

\* The digits of a text that from_hex accepts.
LEMMA AcceptedDigits ==
  ASSUME NEW hex \in Seq(STRING), from_hex(hex).ok
  PROVE  without_prefix(hex) \in Seq(Digits)
<1> DEFINE digits == without_prefix(hex)
           byte(i) == unhex_lut4(digits[(Len(digits) % 2) + 2 * i - 1])
                        + unhex_lut(digits[(Len(digits) % 2) + 2 * i])
<1>1. digits \in Seq(STRING)
  <2>1. CASE has_hex_prefix(hex)
    <3>1. SubSeq(hex, 3, Len(hex)) \in Seq(STRING)
      BY LenProperties, <2>1, SubSeqProperties DEF has_hex_prefix
    <3> QED
      BY <2>1, <3>1, Zenon DEF without_prefix
  <2>2. CASE ~has_hex_prefix(hex)
    BY <2>2, Zenon DEF without_prefix
  <2> QED
    BY <2>1, <2>2
<1>2. ASSUME NEW i \in DOMAIN digits
      PROVE  digits[i] \in Digits
  <2>1. CASE unhex_lut(digits[i]) = NoDigit
    <3>1. from_hex(hex) = [ok |-> FALSE, bytes |-> <<>>]
      BY <2>1, Zenon DEF from_hex
    <3> QED
      BY <3>1
  <2>2. CASE unhex_lut(digits[i]) # NoDigit
    BY <2>2, NotADigit, Zenon DEF Digits
  <2> QED
    BY <2>1, <2>2
<1> HIDE DEF digits, Digits
<1>3. \A i \in 1..Len(digits) : digits[i] \in Digits
  BY <1>1, <1>2, LenProperties
<1>4. digits \in Seq(Digits)
  BY <1>1, <1>3
<1> QED
  BY <1>4 DEF digits

\* to_hex without its prefix.
BodyOf(bytes) ==
  [i \in 1..(2 * Len(bytes)) |->
     kHexDigits[1 + (IF i % 2 = 1 THEN bytes[(i + 1) \div 2] \div 16
                                  ELSE bytes[i \div 2] % 16)]]

\* to_hex writes the digits, in lower case, that the bytes were read from.
LEMMA DigitsAreWritten ==
  ASSUME NEW m \in Nat, NEW bytes \in Seq(Byte), Len(bytes) = m,
         NEW e \in Seq(Digits), Len(e) = 2 * m,
         \A k \in 1..m : bytes[k] = 16 * kUnhexTable[e[2 * k - 1]] + kUnhexTable[e[2 * k]]
  PROVE  BodyOf(bytes) = [i \in 1..(2 * m) |-> Lower(e[i])]
<1> DEFINE at(i) == kHexDigits[1 + (IF i % 2 = 1 THEN bytes[(i + 1) \div 2] \div 16
                                                ELSE bytes[i \div 2] % 16)]
<1>1. ASSUME NEW k \in 1..m
      PROVE  /\ kHexDigits[1 + (bytes[k] \div 16)] = Lower(e[2 * k - 1])
             /\ kHexDigits[1 + (bytes[k] % 16)] = Lower(e[2 * k])
  <2>1. 2 * k - 1 \in 1..(2 * m) /\ 2 * k \in 1..(2 * m)
    OBVIOUS
  <2> DEFINE x == e[2 * k - 1]
             y == e[2 * k]
             a == kUnhexTable[x]
             b == kUnhexTable[y]
             byte == bytes[k]
  <2>2. x \in Digits /\ y \in Digits
    BY <2>1, ElementOfSeq
  <2>3. byte = 16 * a + b
    OBVIOUS
  <2> HIDE DEF x, y, byte
  <2>4. a \in 0..15 /\ kHexDigits[a + 1] = Lower(x) /\ b \in 0..15 /\ kHexDigits[b + 1] = Lower(y)
    BY <2>2, DigitOf DEF Digits
  <2> HIDE DEF a, b
  <2>5. byte \div 16 = a /\ byte % 16 = b
    BY <2>3, <2>4, TwoDigits
  <2>6. 1 + a = a + 1 /\ 1 + b = b + 1
    BY <2>4
  <2> QED
    BY <2>4, <2>5, <2>6, Zenon DEF x, y, byte
<1>2. ASSUME NEW i \in 1..(2 * m)
      PROVE  at(i) = Lower(e[i])
  <2>1. CASE i % 2 = 1
    <3> DEFINE k == (i + 1) \div 2
    <3>1. k \in 1..m /\ 2 * k - 1 = i
      BY <2>1
    <3>2. at(i) = kHexDigits[1 + (bytes[k] \div 16)]
      BY <2>1, Zenon
    <3> HIDE DEF k
    <3>3. kHexDigits[1 + (bytes[k] \div 16)] = Lower(e[2 * k - 1])
      BY <1>1, <3>1
    <3> QED
      BY <3>1, <3>2, <3>3, Zenon
  <2>2. CASE ~(i % 2 = 1)
    <3> DEFINE k == i \div 2
    <3>1. k \in 1..m /\ 2 * k = i
      BY <2>2
    <3>2. at(i) = kHexDigits[1 + (bytes[k] % 16)]
      BY <2>2, Zenon
    <3> HIDE DEF k
    <3>3. kHexDigits[1 + (bytes[k] % 16)] = Lower(e[2 * k])
      BY <1>1, <3>1
    <3> QED
      BY <3>1, <3>2, <3>3, Zenon
  <2> QED
    BY <2>1, <2>2
<1>3. BodyOf(bytes) = [i \in 1..(2 * m) |-> at(i)]
  BY Zenon DEF BodyOf
<1> QED
  BY <1>2, <1>3, Zenon

\* The two characters of the prefix, and what to_hex writes for them.
LEMMA PrefixCharacters == Lower("0") = "0" /\ Lower("x") = "x" /\ Lower("X") = "x"
<1>1. Lower("0") = "0"
  BY ZeroDigit
<1>2. Lower("x") = "x"
  <2>1. "x" # "X"
    OBVIOUS
  <2> QED
    BY <2>1, DigitTables, Zenon DEF Lower
<1>3. Lower("X") = "x"
  BY DigitTables, Zenon DEF Lower
<1> QED
  BY <1>1, <1>2, <1>3

\* The characters that to_hex writes.
Lowered == ToSet(kHexDigits) \cup {"x"}

InLowerCase(s) == [i \in DOMAIN s |-> Lower(s[i])]

\* A prefix in front of a text is written as 0x, whatever the case of its x.
LEMMA PrefixIsWritten ==
  ASSUME NEW S, NEW head \in Seq(S), NEW e \in Seq(S), Len(head) = 2,
         head[1] = "0", head[2] = "x" \/ head[2] = "X",
         InLowerCase(e) \in Seq(Lowered)
  PROVE  <<"0", "x">> \o InLowerCase(e) = InLowerCase(head \o e)
<1> DEFINE n == Len(e)
           p == <<"0", "x">>
           body == InLowerCase(e)
           zero == "0"
           ex == "x"
           whole == head \o e
           both == p \o body
<1>b. body \in Seq(Lowered)
  OBVIOUS
<1>p. p \in Seq(Lowered) /\ Len(p) = 2 /\ p[1] = zero /\ p[2] = ex
  <2>1. zero \in Lowered /\ ex \in Lowered
    BY DigitTables, Zenon DEF Lowered
  <2>2. \A x, y \in Lowered :
           <<x, y>> \in Seq(Lowered) /\ Len(<<x, y>>) = 2 /\ <<x, y>>[1] = x /\ <<x, y>>[2] = y
    OBVIOUS
  <2> QED
    BY <2>1, <2>2, Zenon
<1>q. p[1] = Lower(head[1]) /\ p[2] = Lower(head[2])
  BY <1>p, PrefixCharacters, Zenon
<1>d. n \in Nat /\ body = [i \in 1..n |-> Lower(e[i])]
  BY LenProperties, Zenon DEF InLowerCase
<1> HIDE DEF body
<1>1. n \in Nat /\ Len(body) = n
  <2>1. n \in Nat /\ DOMAIN body = 1..n
    BY <1>d, Zenon
  <2>2. Len(body) \in Nat /\ DOMAIN body = 1..Len(body)
    BY <1>b, LenProperties, Zenon
  <2> QED
    BY <2>1, <2>2
<1>2. /\ whole \in Seq(S) /\ Len(whole) = Len(head) + Len(e)
      /\ \A i \in 1..(Len(head) + Len(e)) :
           whole[i] = IF i <= Len(head) THEN head[i] ELSE e[i - Len(head)]
  BY ConcatProperties
<1>4. \A i \in 1..n : body[i] = Lower(e[i])
  BY <1>d, Zenon
<1> HIDE DEF n, whole, body, p
<1>3. /\ both \in Seq(Lowered) /\ Len(both) = Len(p) + Len(body)
      /\ \A i \in 1..(Len(p) + Len(body)) :
           both[i] = IF i <= Len(p) THEN p[i] ELSE body[i - Len(p)]
  BY <1>b, <1>p, ConcatProperties
<1> HIDE DEF both
<1>5. DOMAIN whole = 1..(2 + n) /\ DOMAIN both = 1..(2 + n)
  BY <1>1, <1>2, <1>3, <1>p, LenProperties DEF n
<1>6. ASSUME NEW i \in 1..(2 + n)
      PROVE  both[i] = Lower(whole[i])
  <2>1. CASE i <= 2
    <3>1. both[i] = p[i] /\ whole[i] = head[i] /\ (i = 1 \/ i = 2)
      BY <1>1, <1>2, <1>3, <1>p, <2>1 DEF n
    <3> QED
      BY <1>q, <3>1, Zenon
  <2>2. CASE ~(i <= 2)
    <3> DEFINE k == i - 2
    <3>1. k \in 1..n /\ both[i] = body[k] /\ whole[i] = e[k]
      BY <1>1, <1>2, <1>3, <1>p, <2>2 DEF n
    <3> HIDE DEF k
    <3> QED
      BY <1>4, <3>1, Zenon
  <2> QED
    BY <2>1, <2>2
<1>7. both = [i \in DOMAIN both |-> both[i]]
  BY <1>3
<1>8. both = [i \in DOMAIN whole |-> Lower(whole[i])]
  BY <1>5, <1>6, <1>7, Zenon
<1> QED
  BY <1>8, Zenon DEF both, whole, p, body, InLowerCase

\* What is written of what is read, for every text.
LEMMA TextIsWritten ==
  ASSUME NEW hex \in Seq(STRING), from_hex(hex).ok
  PROVE  LET even  == Even(without_prefix(hex))
             whole == IF has_hex_prefix(hex) THEN SubSeq(hex, 1, 2) \o even ELSE even
         IN  to_hex(from_hex(hex).bytes, has_hex_prefix(hex)) = InLowerCase(whole)
<1> DEFINE digits == without_prefix(hex)
           even == Even(digits)
           whole == IF has_hex_prefix(hex) THEN SubSeq(hex, 1, 2) \o even ELSE even
           bytes == from_hex(hex).bytes
           m == (Len(digits) + 1) \div 2
           body == BodyOf(bytes)
<1>1. digits \in Seq(Digits)
  BY AcceptedDigits
<1>2. /\ m \in Nat /\ Len(even) = 2 * m /\ bytes \in Seq(Byte) /\ Len(bytes) = m
      /\ \A k \in 1..m : bytes[k] = 16 * kUnhexTable[even[2 * k - 1]] + kUnhexTable[even[2 * k]]
  BY <1>1, DigitsAreRead
<1>3. even \in Seq(Digits)
  BY <1>1, EvenDigits
<1> HIDE DEF digits, even, bytes, m
<1>4. body = [i \in 1..Len(even) |-> Lower(even[i])]
  <2>1. body = [i \in 1..(2 * m) |-> Lower(even[i])]
    BY <1>2, <1>3, DigitsAreWritten, Zenon
  <2> QED
    BY <1>2, <2>1, Zenon
<1>5. \A i \in 1..Len(even) : Lower(even[i]) \in ToSet(kHexDigits)
  <2>1. ASSUME NEW i \in 1..Len(even)
        PROVE  Lower(even[i]) \in ToSet(kHexDigits)
    <3> DEFINE x == even[i]
               v == kUnhexTable[x]
    <3>1. x \in Digits
      BY <1>3, ElementOfSeq
    <3> HIDE DEF x
    <3>2. v \in 0..15 /\ kHexDigits[v + 1] = Lower(x)
      BY <3>1, DigitOf DEF Digits
    <3> HIDE DEF v
    <3>3. v + 1 \in 1..16
      BY <3>2
    <3> QED
      BY <3>2, <3>3, DigitTables, Zenon DEF x
  <2> QED
    BY <2>1
<1>6. body \in Seq(Lowered)
  <2>1. Len(even) \in Nat
    BY <1>3, LenProperties
  <2>2. \A i \in 1..Len(even) : Lower(even[i]) \in Lowered
    BY <1>5 DEF Lowered
  <2>3. \A n \in Nat : \A f \in [1..n -> Lowered] : f \in Seq(Lowered)
    OBVIOUS
  <2> HIDE DEF body
  <2>4. body \in [1..Len(even) -> Lowered]
    BY <1>4, <2>2
  <2> QED
    BY <2>1, <2>3, <2>4, Zenon
<1>7. CASE has_hex_prefix(hex)
  <2> DEFINE head == SubSeq(hex, 1, 2)
             S == STRING \cup Digits
  <2>1. Len(hex) \in Nat /\ Len(hex) >= 2
    BY <1>7, LenProperties DEF has_hex_prefix
  <2>2. head \in Seq(STRING) /\ Len(head) = 2 /\ head[1] = hex[1] /\ head[2] = hex[2]
    BY <2>1, SubSeqProperties
  <2>3. hex[1] = "0" /\ (hex[2] = "x" \/ hex[2] = "X")
    BY <1>7 DEF has_hex_prefix
  <2>4. head \in Seq(S) /\ even \in Seq(S)
    <3> HIDE DEF head
    <3>1. \A A, B : \A s \in Seq(A) : s \in Seq(A \cup B)
      OBVIOUS
    <3>2. Digits \cup STRING = S
      OBVIOUS
    <3> QED
      BY <1>3, <2>2, <3>1, <3>2, Zenon
  <2>5. to_hex(bytes, has_hex_prefix(hex)) = <<"0", "x">> \o body
    BY <1>7, Zenon DEF to_hex, BodyOf
  <2>6. whole = head \o even
    BY <1>7, Zenon
  <2> HIDE DEF S, head, body, whole
  <2>7. head[1] = "0" /\ (head[2] = "x" \/ head[2] = "X") /\ Len(head) = 2
    BY <2>2, <2>3, Zenon
  <2>8. body = InLowerCase(even)
    <3>1. DOMAIN even = 1..Len(even)
      BY <1>3, LenProperties
    <3> QED
      BY <1>4, <3>1, Zenon DEF InLowerCase
  <2>9. <<"0", "x">> \o InLowerCase(even) = InLowerCase(head \o even)
    BY <1>6, <2>4, <2>7, <2>8, PrefixIsWritten
  <2> QED
    BY <2>5, <2>6, <2>8, <2>9, Zenon DEF whole, even, digits, bytes
<1>8. CASE ~has_hex_prefix(hex)
  <2>1. to_hex(bytes, has_hex_prefix(hex)) = <<>> \o body
    BY <1>8, Zenon DEF to_hex, BodyOf
  <2>2. <<>> \o body = body
    <3> HIDE DEF body
    <3> QED
      BY <1>6, ConcatEmptySeq
  <2>3. whole = even /\ DOMAIN even = 1..Len(even)
    BY <1>3, <1>8, LenProperties, Zenon
  <2> HIDE DEF body, whole
  <2> QED
    BY <1>4, <2>1, <2>2, <2>3, Zenon DEF whole, even, digits, bytes, InLowerCase
<1> QED
  BY <1>7, <1>8

\* The texts that a reader may hold.
TextInv == text \in Texts \cup {<<>>}

\* Nothing else is ever read.
LEMMA TextInvKept == TextSpec => []TextInv
<1>1. InitText => TextInv
  BY DEF InitText, TextInv
<1>2. TextInv /\ [TextNext]_text => TextInv'
  BY DEF TextInv, TextNext, OpenText, silkworm_from_hex
<1> QED
  BY <1>1, <1>2, PTL DEF TextSpec

\* Bytes read from a text are, written as text, that text (from_hex and to_hex of
\* util.cpp), for texts of any length.
THEOREM TextsAreRead == TextSpec => []TextIsRead
<1>1. TextInv => TextIsRead
  <2> SUFFICES ASSUME TextInv, text # <<>>, from_hex(text).ok
               PROVE  TextIsRead
    BY Zenon DEF TextIsRead
  <2>1. text \in Seq(STRING)
    BY TextsAssumption DEF TextInv
  <2> QED
    BY <2>1, TextIsWritten, Zenon DEF TextIsRead, Even, InLowerCase
<1> QED
  BY <1>1, TextInvKept, PTL

\* The terminator is not a digit.
LEMMA TerminatorIsNoDigit == NUL \notin Digits
<1>1. \A i \in 1..16 : kHexDigits[i] # NUL
  BY DEF kHexDigits, NUL
<1>2. \A i \in 1..6 : UpperCase[i] # NUL
  BY DEF UpperCase, NUL
<1>3. NUL \notin ToSet(kHexDigits) /\ NUL \notin ToSet(UpperCase)
  BY <1>1, <1>2, DigitTables, Zenon DEF ToSet
<1> QED
  BY <1>3, DigitTables, Zenon DEF Digits

\* What is_valid_hex looks at: the text up to the first terminator.
LEMMA MatchedUpToTerminator ==
  ASSUME NEW hex \in Seq(STRING), NEW end \in 1..Len(hex), EndsAt(hex, end)
  PROVE  is_valid_hex(hex) <=>
           end > 2 /\ hex[1] = "0" /\ hex[2] = "x" /\ \A i \in 3..end : hex[i] \in Digits
<1>1. Len(hex) \in Nat
  BY LenProperties
<1>2. /\ end = Len(hex) \/ hex[end + 1] = NUL
      /\ \A i \in 1..end : hex[i] # NUL
  BY DEF EndsAt
<1>3. ASSUME is_valid_hex(hex)
      PROVE  end > 2 /\ hex[1] = "0" /\ hex[2] = "x" /\ \A i \in 3..end : hex[i] \in Digits
  <2>1. PICK last \in 3..Len(hex) : /\ last = Len(hex) \/ hex[last + 1] = NUL
                                    /\ hex[1] = "0" /\ hex[2] = "x"
                                    /\ \A i \in 3..last : hex[i] \in Digits
    BY <1>3 DEF is_valid_hex, Digits
  <2>2. ~(last < end)
    <3> SUFFICES ASSUME last < end
                 PROVE  FALSE
      OBVIOUS
    <3>1. last + 1 \in 1..end /\ last # Len(hex)
      BY <1>1
    <3> QED
      BY <1>2, <2>1, <3>1
  <2>3. ~(end < last)
    <3> SUFFICES ASSUME end < last
                 PROVE  FALSE
      OBVIOUS
    <3>1. hex[end + 1] = NUL
      BY <1>1, <1>2
    <3>2. CASE end >= 2
      <4>1. end + 1 \in 3..last
        BY <1>1, <3>2
      <4> QED
        BY <2>1, <3>1, <4>1, TerminatorIsNoDigit
    <3>3. CASE end = 1
      BY <2>1, <3>1, <3>3 DEF NUL
    <3> QED
      BY <1>1, <3>2, <3>3
  <2>4. end = last
    BY <1>1, <2>2, <2>3
  <2> QED
    BY <1>1, <2>1, <2>4
<1>4. ASSUME end > 2, hex[1] = "0", hex[2] = "x", \A i \in 3..end : hex[i] \in Digits
      PROVE  is_valid_hex(hex)
  <2>1. end \in 3..Len(hex)
    BY <1>1, <1>4
  <2> QED
    BY <1>2, <1>4, <2>1, Zenon DEF is_valid_hex, Digits
<1> QED
  BY <1>3, <1>4

\* from_hex reads the first n characters of a text that begins with a prefix exactly if
\* the others are digits, and then a byte for every two of them.
LEMMA ReadIffDigits ==
  ASSUME NEW hex \in Seq(STRING), NEW n \in 2..Len(hex), hex[1] = "0", hex[2] = "x"
  PROVE  LET read == from_hex(SubSeq(hex, 1, n))
         IN  /\ read.ok <=> \A i \in 3..n : hex[i] \in Digits
             /\ read.ok => Len(read.bytes) = (n - 1) \div 2
<1> DEFINE s == SubSeq(hex, 1, n)
           digits == SubSeq(s, 3, n)
<1>1. Len(hex) \in Nat /\ n \in Nat /\ n >= 2
  BY LenProperties
<1>2. s \in Seq(STRING) /\ Len(s) = n /\ \A i \in 1..n : s[i] = hex[i]
  BY <1>1, SubSeqProperties
<1> HIDE DEF s
<1>3. has_hex_prefix(s)
  <2>1. s[1] = "0" /\ s[2] = "x" /\ Len(s) >= 2
    BY <1>1, <1>2
  <2> QED
    BY <2>1 DEF has_hex_prefix
<1>4. /\ digits \in Seq(STRING) /\ Len(digits) = n - 2
      /\ \A i \in 1..(n - 2) : digits[i] = s[i + 2]
  BY <1>1, <1>2, SubSeqProperties
<1>5. without_prefix(s) = digits
  BY <1>2, <1>3, Zenon DEF without_prefix
<1> HIDE DEF digits
<1>6. ASSUME \A i \in 3..n : hex[i] \in Digits
      PROVE  digits \in Seq(Digits)
  <2>1. ASSUME NEW i \in 1..(n - 2)
        PROVE  digits[i] \in Digits
    <3>1. i + 2 \in 1..n /\ i + 2 \in 3..n
      BY <1>1
    <3> QED
      BY <1>2, <1>4, <1>6, <3>1, Zenon
  <2> HIDE DEF Digits
  <2> QED
    BY <1>4, <2>1
<1>7. ASSUME digits \in Seq(Digits), NEW i \in 3..n
      PROVE  hex[i] \in Digits
  <2>1. i - 2 \in 1..(n - 2) /\ i \in 1..n /\ (i - 2) + 2 = i
    BY <1>1
  <2>2. digits[i - 2] \in Digits
    BY <1>4, <1>7, <2>1, ElementOfSeq
  <2> QED
    BY <1>2, <1>4, <2>1, <2>2
<1>8. digits \in Seq(Digits) =>
        from_hex(s).ok /\ Len(from_hex(s).bytes) = (Len(digits) + 1) \div 2
  BY <1>5, DigitsAreRead
<1>9. from_hex(s).ok => digits \in Seq(Digits)
  BY <1>2, <1>5, AcceptedDigits
<1>10. (Len(digits) + 1) \div 2 = (n - 1) \div 2
  <2>1. Len(digits) + 1 = n - 1
    BY <1>1, <1>4
  <2> QED
    BY <2>1, Zenon
<1> QED
  BY <1>6, <1>7, <1>8, <1>9, <1>10, Zenon DEF s

\* The verdict of is_valid_hash and is_valid_address (util.hpp) is that on the C string
\* the view points at; a valid hash is read as 32 bytes and a valid address as 20, unless
\* the terminator is in the view, and then not at all.  For texts of any length.
THEOREM VerdictsAreOnCStrings == TextSpec => []VerdictOnCString
<1>1. ASSUME TextInv, NEW end \in 1..Len(text), EndsAt(text, end),
             NEW n \in 1..Len(text), NEW size \in Nat, size >= 1
      PROVE  LET good  == /\ end > 2 /\ text[1] = "0" /\ text[2] = "x"
                          /\ from_hex(SubSeq(text, 1, end)).ok
                 valid == n = 2 + size * 2 /\ is_valid_hex(text)
                 read  == from_hex(SubSeq(text, 1, n))
             IN  /\ valid <=> n = 2 + size * 2 /\ good
                 /\ valid /\ n <= end => read.ok /\ Len(read.bytes) = size
                 /\ valid /\ n > end  => ~read.ok
  <2> DEFINE read == from_hex(SubSeq(text, 1, n))
  <2>1. text \in Seq(STRING) /\ Len(text) \in Nat
    BY <1>1, TextsAssumption, EmptySeq, LenProperties DEF TextInv
  <2>2. is_valid_hex(text) <=>
          end > 2 /\ text[1] = "0" /\ text[2] = "x" /\ \A i \in 3..end : text[i] \in Digits
    BY <1>1, <2>1, MatchedUpToTerminator
  <2>3. ASSUME end > 2, text[1] = "0", text[2] = "x"
        PROVE  from_hex(SubSeq(text, 1, end)).ok <=> \A i \in 3..end : text[i] \in Digits
    <3>1. end \in 2..Len(text)
      BY <2>1, <2>3
    <3> QED
      BY <2>1, <2>3, <3>1, ReadIffDigits
  <2>4. ASSUME n = 2 + size * 2, is_valid_hex(text)
        PROVE  /\ n <= end => read.ok /\ Len(read.bytes) = size
               /\ n > end => ~read.ok
    <3>1. n \in 2..Len(text) /\ (n - 1) \div 2 = size
      BY <1>1, <2>1, <2>4
    <3>2. /\ read.ok <=> \A i \in 3..n : text[i] \in Digits
          /\ read.ok => Len(read.bytes) = (n - 1) \div 2
      BY <2>1, <2>2, <2>4, <3>1, ReadIffDigits
    <3>3. n <= end => \A i \in 3..n : text[i] \in Digits
      BY <1>1, <2>1, <2>2, <2>4
    <3>4. ASSUME n > end
          PROVE  end + 1 \in 3..n /\ text[end + 1] \notin Digits
      <4>1. end + 1 \in 3..n /\ end # Len(text)
        BY <2>1, <2>2, <2>4, <3>4
      <4>2. text[end + 1] = NUL
        BY <1>1, <4>1 DEF EndsAt
      <4> QED
        BY <4>1, <4>2, TerminatorIsNoDigit
    <3> HIDE DEF read
    <3> QED
      BY <3>1, <3>2, <3>3, <3>4
  <2> QED
    BY <2>2, <2>3, <2>4
<1>2. TextInv => VerdictOnCString
  <2> SUFFICES ASSUME TextInv, NEW end \in 1..Len(text), EndsAt(text, end),
                      NEW n \in 1..Len(text), NEW size \in {32, kAddressLength}
               PROVE  LET good  == /\ end > 2 /\ text[1] = "0" /\ text[2] = "x"
                                   /\ from_hex(SubSeq(text, 1, end)).ok
                          valid == IF size = 32 THEN is_valid_hash(text, n)
                                   ELSE is_valid_address(text, n)
                          read  == from_hex(SubSeq(text, 1, n))
                      IN  /\ valid <=> n = 2 + size * 2 /\ good
                          /\ valid /\ n <= end => read.ok /\ Len(read.bytes) = size
                          /\ valid /\ n > end  => ~read.ok
    BY Zenon DEF VerdictOnCString
  <2>1. size \in Nat /\ size >= 1 /\ (size = 32 \/ size = kAddressLength)
    BY DEF kAddressLength
  <2> DEFINE valid == IF size = 32 THEN is_valid_hash(text, n) ELSE is_valid_address(text, n)
             good  == /\ end > 2 /\ text[1] = "0" /\ text[2] = "x"
                      /\ from_hex(SubSeq(text, 1, end)).ok
             read  == from_hex(SubSeq(text, 1, n))
             matched == n = 2 + size * 2 /\ is_valid_hex(text)
  <2>2. valid <=> matched
    BY <2>1, Zenon DEF is_valid_hash, is_valid_address
  <2>3. /\ matched <=> n = 2 + size * 2 /\ good
        /\ matched /\ n <= end => read.ok /\ Len(read.bytes) = size
        /\ matched /\ n > end  => ~read.ok
    BY <1>1, <2>1, Zenon
  <2> HIDE DEF valid, good, read, matched
  <2>4. /\ valid <=> n = 2 + size * 2 /\ good
        /\ valid /\ n <= end => read.ok /\ Len(read.bytes) = size
        /\ valid /\ n > end  => ~read.ok
    BY <2>2, <2>3, Zenon
  <2> QED
    BY <2>4 DEF valid, good, read
<1> QED
  BY <1>2, TextInvKept, PTL

\* to_hex writes a digit that from_hex gives the same value.
LEMMA WrittenDigit ==
  ASSUME NEW d \in 0..15
  PROVE  kHexDigits[1 + d] \in Digits /\ kUnhexTable[kHexDigits[1 + d]] = d
<1> DEFINE ch == kHexDigits[1 + d]
           v == kUnhexTable[ch]
<1>1. 1 + d \in 1..16
  OBVIOUS
<1>2. ch \in ToSet(kHexDigits)
  BY <1>1, DigitTables, Zenon
<1>3. ch \in Digits
  BY <1>2, DigitTables DEF Digits
<1>4. Lower(ch) = ch
  <2>1. \A i \in 1..16 : \A k \in 1..6 : kHexDigits[i] # UpperCase[k]
    BY DEF kHexDigits, UpperCase
  <2>2. ch \notin ToSet(UpperCase)
    BY <1>1, <2>1, DigitTables, Zenon DEF ToSet
  <2>3. \A i \in 1..16 : kHexDigits[i] # "X"
    BY DEF kHexDigits
  <2>4. ch # "X"
    BY <1>1, <2>3, Zenon
  <2> QED
    BY <2>2, <2>4, Zenon DEF Lower
<1>5. v \in 0..15 /\ kHexDigits[v + 1] = ch
  BY <1>3, <1>4, DigitOf DEF Digits
<1>6. \A i, k \in 1..16 : kHexDigits[i] = kHexDigits[k] => i = k
  BY DEF kHexDigits
<1>7. v + 1 \in 1..16 /\ (v + 1 = 1 + d => v = d)
  BY <1>5
<1>8. v = d
  BY <1>1, <1>5, <1>6, <1>7, Zenon
<1> QED
  BY <1>3, <1>8, Zenon

\* The digits that to_hex writes: two to a byte, none of them the x of a prefix.
LEMMA BodyIsDigits ==
  ASSUME NEW bytes \in Seq(Byte)
  PROVE  /\ BodyOf(bytes) \in Seq(Digits) /\ Len(BodyOf(bytes)) = 2 * Len(bytes)
         /\ \A k \in 1..Len(bytes) :
              bytes[k] = 16 * kUnhexTable[BodyOf(bytes)[2 * k - 1]] + kUnhexTable[BodyOf(bytes)[2 * k]]
         /\ ~has_hex_prefix(BodyOf(bytes))
<1> DEFINE m == Len(bytes)
           nibble(i) == IF i % 2 = 1 THEN bytes[(i + 1) \div 2] \div 16 ELSE bytes[i \div 2] % 16
           at(i) == kHexDigits[1 + nibble(i)]
           body == BodyOf(bytes)
<1>1. m \in Nat
  BY LenProperties
<1>2. body = [i \in 1..(2 * m) |-> at(i)]
  BY Zenon DEF BodyOf
<1>b. \A b \in Byte : b \div 16 \in 0..15 /\ b % 16 \in 0..15 /\ b = 16 * (b \div 16) + (b % 16)
  BY DEF Byte
<1>3. ASSUME NEW i \in 1..(2 * m)
      PROVE  nibble(i) \in 0..15
  <2>1. CASE i % 2 = 1
    <3> DEFINE k == (i + 1) \div 2
    <3>1. k \in 1..m
      BY <1>1, <2>1
    <3>2. bytes[k] \in Byte
      BY <3>1, ElementOfSeq
    <3>3. nibble(i) = bytes[k] \div 16
      BY <2>1
    <3> QED
      BY <1>b, <3>2, <3>3, Zenon
  <2>2. CASE ~(i % 2 = 1)
    <3> DEFINE k == i \div 2
    <3>1. k \in 1..m
      BY <1>1, <2>2
    <3>2. bytes[k] \in Byte
      BY <3>1, ElementOfSeq
    <3>3. nibble(i) = bytes[k] % 16
      BY <2>2
    <3> QED
      BY <1>b, <3>2, <3>3, Zenon
  <2> QED
    BY <2>1, <2>2
<1>4. ASSUME NEW k \in 1..m
      PROVE  bytes[k] = 16 * nibble(2 * k - 1) + nibble(2 * k)
  <2>1. (2 * k - 1) % 2 = 1 /\ ((2 * k - 1) + 1) \div 2 = k /\ (2 * k) % 2 = 0 /\ (2 * k) \div 2 = k
    BY <1>1
  <2>2. nibble(2 * k - 1) = bytes[k] \div 16 /\ nibble(2 * k) = bytes[k] % 16
    BY <2>1
  <2>3. bytes[k] \in Byte
    BY ElementOfSeq
  <2> QED
    BY <1>b, <2>2, <2>3, Zenon
<1> HIDE DEF nibble, body, m
<1>5. ASSUME NEW i \in 1..(2 * m)
      PROVE  body[i] \in Digits /\ kUnhexTable[body[i]] = nibble(i)
  <2>1. body[i] = at(i)
    BY <1>2, Zenon
  <2> QED
    BY <1>3, <2>1, WrittenDigit
<1> HIDE DEF at
<1>6. body \in Seq(Digits) /\ Len(body) = 2 * m
  <2> HIDE DEF Digits
  <2>1. \A n \in Nat : \A f \in [1..n -> Digits] : f \in Seq(Digits) /\ Len(f) = n
    OBVIOUS
  <2>2. body \in [1..(2 * m) -> Digits] /\ 2 * m \in Nat
    BY <1>1, <1>2, <1>5
  <2> QED
    BY <2>1, <2>2, Zenon
<1>7. ASSUME NEW k \in 1..m
      PROVE  bytes[k] = 16 * kUnhexTable[body[2 * k - 1]] + kUnhexTable[body[2 * k]]
  <2>1. 2 * k - 1 \in 1..(2 * m) /\ 2 * k \in 1..(2 * m)
    BY <1>1
  <2> QED
    BY <1>4, <1>5, <2>1, Zenon
<1>8. ~has_hex_prefix(body)
  <2> SUFFICES ASSUME has_hex_prefix(body)
               PROVE  FALSE
    OBVIOUS
  <2>1. 2 \in 1..(2 * m) /\ (body[2] = "x" \/ body[2] = "X")
    BY <1>1, <1>6 DEF has_hex_prefix
  <2>2. body[2] \in Digits
    BY <1>5, <2>1
  <2>3. "x" \notin Digits /\ "X" \notin Digits
    <3>1. \A i \in 1..16 : kHexDigits[i] # "x" /\ kHexDigits[i] # "X"
      BY DEF kHexDigits
    <3>2. "x" \notin ToSet(kHexDigits) /\ "X" \notin ToSet(kHexDigits)
      BY <3>1, DigitTables, Zenon DEF ToSet
    <3> QED
      BY <3>2, DigitTables, Zenon DEF Digits
  <2> QED
    BY <2>1, <2>2, <2>3, Zenon
<1> QED
  BY <1>6, <1>7, <1>8 DEF body, m

\* What to_hex writes, with or without a prefix, from_hex reads as the same bytes
\* (util.cpp), for strings of any length.
THEOREM HexIsRead ==
  ASSUME NEW bytes \in Seq(Byte), NEW with_prefix \in BOOLEAN
  PROVE  from_hex(to_hex(bytes, with_prefix)).ok /\ from_hex(to_hex(bytes, with_prefix)).bytes = bytes
<1> DEFINE body == BodyOf(bytes)
           hex == to_hex(bytes, with_prefix)
           p == <<"0", "x">>
           zero == "0"
           ex == "x"
           m == Len(bytes)
<1>1. /\ body \in Seq(Digits) /\ Len(body) = 2 * m /\ ~has_hex_prefix(body)
      /\ \A k \in 1..m : bytes[k] = 16 * kUnhexTable[body[2 * k - 1]] + kUnhexTable[body[2 * k]]
  BY BodyIsDigits
<1>2. m \in Nat /\ (2 * m) % 2 = 0 /\ (2 * m + 1) \div 2 = m
  BY LenProperties
<1>3. without_prefix(hex) = body
  <2>1. CASE with_prefix = TRUE
    <3>1. hex = p \o body
      BY <2>1, Zenon DEF to_hex, BodyOf
    <3> DEFINE T == Digits \cup {ex}
    <3>2. p \in Seq(T) /\ Len(p) = 2 /\ p[1] = zero /\ p[2] = ex
      <4>1. zero \in T /\ ex \in T
        BY ZeroDigit DEF Digits
      <4> HIDE DEF T
      <4>2. \A x, y \in T : <<x, y>> \in Seq(T) /\ Len(<<x, y>>) = 2 /\ <<x, y>>[1] = x /\ <<x, y>>[2] = y
        OBVIOUS
      <4> QED
        BY <4>1, <4>2, Zenon
    <3>3. body \in Seq(T)
      <4> HIDE DEF body, Digits
      <4>1. \A A, B : \A s \in Seq(A) : s \in Seq(A \cup B)
        OBVIOUS
      <4> QED
        BY <1>1, <4>1, Zenon
    <3> HIDE DEF p, T, body, hex, m
    <3>4. /\ hex \in Seq(T) /\ Len(hex) = 2 + 2 * m
          /\ \A i \in 1..(2 + 2 * m) : hex[i] = IF i <= 2 THEN p[i] ELSE body[i - 2]
      <4>1. /\ p \o body \in Seq(T) /\ Len(p \o body) = Len(p) + Len(body)
            /\ \A i \in 1..(Len(p) + Len(body)) :
                 (p \o body)[i] = IF i <= Len(p) THEN p[i] ELSE body[i - Len(p)]
        BY <3>2, <3>3, ConcatProperties
      <4> QED
        BY <1>1, <1>2, <3>1, <3>2, <4>1
    <3>5. has_hex_prefix(hex)
      <4>1. hex[1] = "0" /\ hex[2] = "x" /\ Len(hex) >= 2
        BY <1>2, <3>2, <3>4
      <4> QED
        BY <4>1 DEF has_hex_prefix
    <3>6. without_prefix(hex) = SubSeq(hex, 3, Len(hex))
      BY <3>5, Zenon DEF without_prefix
    <3> DEFINE tail == SubSeq(hex, 3, Len(hex))
    <3>7. tail \in Seq(T) /\ Len(tail) = 2 * m /\ \A i \in 1..(2 * m) : tail[i] = hex[i + 2]
      BY <1>2, <3>4, SubSeqProperties
    <3> HIDE DEF tail
    <3>8. \A i \in 1..(2 * m) : tail[i] = body[i]
      BY <1>2, <3>4, <3>7
    <3>9. tail = body
      BY <1>1, <3>3, <3>7, <3>8, SeqEqual
    <3> QED
      BY <3>6, <3>9 DEF tail
  <2>2. CASE with_prefix = FALSE
    <3>1. hex = <<>> \o body
      BY <2>2, Zenon DEF to_hex, BodyOf
    <3> HIDE DEF body, hex
    <3>2. hex = body
      BY <1>1, <3>1, ConcatEmptySeq
    <3> QED
      BY <1>1, <3>2, Zenon DEF without_prefix
  <2> QED
    BY <2>1, <2>2
<1> HIDE DEF hex, body, m
<1>4. Even(body) = body
  BY <1>1, <1>2 DEF Even
<1>5. /\ from_hex(hex).ok /\ from_hex(hex).bytes \in Seq(Byte) /\ Len(from_hex(hex).bytes) = m
      /\ \A k \in 1..m :
           from_hex(hex).bytes[k] = 16 * kUnhexTable[body[2 * k - 1]] + kUnhexTable[body[2 * k]]
  <2>1. without_prefix(hex) \in Seq(Digits) /\ Even(without_prefix(hex)) = body
    BY <1>1, <1>3, <1>4
  <2>2. (Len(without_prefix(hex)) + 1) \div 2 = m
    BY <1>1, <1>2, <1>3
  <2> QED
    BY <2>1, <2>2, DigitsAreRead
<1>6. \A k \in 1..m : from_hex(hex).bytes[k] = bytes[k]
  BY <1>1, <1>5, Zenon
<1>7. from_hex(hex).bytes = bytes
  <2> DEFINE read == from_hex(hex).bytes
  <2>1. read \in Seq(Byte) /\ Len(read) = m /\ Len(bytes) = m /\ \A k \in 1..m : read[k] = bytes[k]
    BY <1>5, <1>6 DEF m
  <2> HIDE DEF read
  <2>2. read = bytes
    BY <1>2, <2>1, SeqEqual
  <2> QED
    BY <2>2 DEF read
<1> QED
  BY <1>5, <1>7 DEF hex
=============================================================================
