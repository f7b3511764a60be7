----------------------------- MODULE RlpLengths ------------------------------
(* rlp/encode.cpp: how long the header of an encoding is. *)
EXTENDS Integers

\* intx::count_significant_bytes of a number that is not zero.
count_significant_bytes(n) ==
  LET rest[k \in 0..8] == IF k = 0 THEN n ELSE rest[k - 1] \div 256
  IN  CHOOSE k \in 1..8 : rest[k - 1] # 0 /\ rest[k] = 0

\* Wrong: the bytes of the length itself are not counted.
length_of_length_short(payload_length) == 1

length_of_length(payload_length) ==
  IF payload_length < 56 THEN 1 ELSE 1 + count_significant_bytes(payload_length)
=============================================================================
