------------------------------- MODULE Endian -------------------------------
(***************************************************************************)
(* common/endian.hpp, common/endian.cpp: numbers as bytes, the most        *)
(* significant first, and the compact form without leading zeros.  A byte  *)
(* string is a sequence of numbers below 256.                              *)
(***************************************************************************)
EXTENDS Integers, Sequences, SequencesExt

Byte == 0..255

\* A number without its k lowest bytes, for each k up to `width'.
shifted(width, value) ==
  LET rest[k \in 0..width] == IF k = 0 THEN value ELSE rest[k - 1] \div 256
  IN  rest

\* uint64_t: the numbers of which nothing is left without their eight lowest bytes.
Uint64 == {n \in Nat : shifted(8, n)[8] = 0}

store_big(width, value) == [i \in 1..width |-> shifted(width, value)[width - i] % 256]

load_big(data) ==
  LET number[i \in 0..Len(data)] == IF i = 0 THEN 0 ELSE 256 * number[i - 1] + data[i]
  IN  number[Len(data)]

\* Without the zeros on the left.
zeroless_view(data) ==
  LET first == SelectInSeq(data, LAMBDA byte : byte # 0)
  IN  IF first = 0 THEN <<>> ELSE SubSeq(data, first, Len(data))

\* Wrong: a buffer for 32 bits.
full_be_u32(value) == store_big(4, value)

\* The bytes of the thread's buffer, and the view of them that is returned.
full_be(value) == store_big(8, value)
to_big_compact(value) == IF value = 0 THEN <<>> ELSE zeroless_view(full_be(value))

\* A number of `width' bytes read from its compact form.
from_big_compact(data, width) ==
  IF Len(data) > width THEN [error |-> "kOverflow", value |-> 0]
  ELSE IF data # <<>> /\ data[1] = 0 THEN [error |-> "kLeadingZero", value |-> 0]
  ELSE [error |-> "none", value |-> load_big(data)]
=============================================================================
