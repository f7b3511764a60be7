------------------------------ MODULE Nibbles -------------------------------
(***************************************************************************)
(* trie/nibbles.cpp: byte strings as strings of nibbles, the more          *)
(* significant of a byte first, and back.                                  *)
(***************************************************************************)
EXTENDS Integers, Sequences

Nibble == 0..15

unpack_nibbles(data) ==
  [n \in 1..(2 * Len(data)) |->
     IF n % 2 = 1 THEN data[(n + 1) \div 2] \div 16 ELSE data[n \div 2] % 16]

\* An odd nibble at the end is followed by a zero.  A nibble of more than 4 bits
\* would run into its neighbour: the sum is cut to a byte.
pack_nibbles(unpacked) ==
  LET pos == Len(unpacked) % 2
  IN  [b \in 1..((Len(unpacked) + pos) \div 2) |->
         (16 * unpacked[2 * b - 1] + (IF 2 * b <= Len(unpacked) THEN unpacked[2 * b] ELSE 0)) % 256]
=============================================================================
