----------------------------- MODULE VectorIndex -----------------------------
(***************************************************************************)
(* trie/vector_root.hpp: the keys of the trie of a vector, which are the   *)
(* RLP of its indices, and the order in which they increase.               *)
(***************************************************************************)
EXTENDS Rlp, Nibbles

\* Wrong: the index that follows 0x7f is left where it is.
adjust_index_for_rlp_unadjusted(i, len) == i

\* The RLP of 0, 0x80, comes between that of 0x7f and those of 0x80 on.
adjust_index_for_rlp(i, len) ==
  IF i > 127 THEN i
  ELSE IF i = 127 \/ i + 1 = len THEN 0
  ELSE i + 1

\* The key of an element of the vector.
index_key(index) == unpack_nibbles(BytesOf(encode_uint(index)))
=============================================================================
