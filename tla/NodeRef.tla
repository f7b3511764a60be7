------------------------------- MODULE NodeRef -------------------------------
(***************************************************************************)
(* The RLP of trie nodes and the references parents keep to them.          *)
(*                                                                         *)
(* An encoding is a record: its length in bytes, computed exactly because  *)
(* it decides whether a node is embedded or hashed, and the item that was  *)
(* encoded, which stands for the bytes.  Keccak-256 is symbolic, the hash  *)
(* of an encoding being a term that holds it: two hashes are equal only if *)
(* the encodings are.                                                      *)
(***************************************************************************)
EXTENDS RlpLengths, Sequences, FiniteSets, FiniteSetsExt

CONSTANTS
  Values,      \* leaf values (byte strings)
  RlpLength    \* rlp::length of each of them

ASSUME RlpLengthAssumption == RlpLength \in [Values -> Nat \ {0}]

kHashLength == 32

-----------------------------------------------------------------------------
(* rlp/encode.cpp: the lengths of encodings.                               *)

\* rlp::length of a byte string.
string_length(bytes) ==
  IF Len(bytes) = 1 /\ bytes[1] < 128
  THEN 1
  ELSE length_of_length(Len(bytes)) + Len(bytes)

\* encode_header of a list, followed by a payload of that length.
list_rlp(payload_length, item) ==
  [length |-> length_of_length(payload_length) + payload_length, item |-> item]

\* The encoding of the empty string, kEmptyStringCode.
empty_string_rlp == [length |-> 1, item |-> [string |-> <<>>]]

-----------------------------------------------------------------------------
(* trie/hash_builder.cpp: nodes and references to them.                    *)

\* Hex-prefix encoding: flags (and the odd nibble) in the first byte, then
\* two nibbles to a byte.
encode_path(nibbles, terminating) ==
  LET odd   == Len(nibbles) % 2
      flags == (IF terminating THEN 32 ELSE 0) + 16 * odd
      first == IF odd = 1 THEN flags + nibbles[1] ELSE flags
  IN  <<first>> \o [i \in 1..(Len(nibbles) \div 2) |->
                      16 * nibbles[odd + 2 * i - 1] + nibbles[odd + 2 * i]]

keccak256(rlp) == [keccak |-> rlp]

wrap_hash(hash) == [length |-> kHashLength + 1, item |-> [hash |-> hash]]

\* Wrong: a node as long as a hash is embedded.
node_ref_as_long(rlp) == IF rlp.length <= kHashLength THEN rlp ELSE wrap_hash(keccak256(rlp))

\* A node shorter than a hash is embedded in its parent, any other is hashed.
node_ref(rlp) == IF rlp.length < kHashLength THEN rlp ELSE wrap_hash(keccak256(rlp))

leaf_node_rlp(path, value) ==
  LET encoded_path == encode_path(path, TRUE)
  IN  list_rlp(string_length(encoded_path) + RlpLength[value],
               [path |-> encoded_path, value |-> value])

extension_node_rlp(path, child_ref) ==
  LET encoded_path == encode_path(path, FALSE)
  IN  list_rlp(string_length(encoded_path) + child_ref.length,
               [path |-> encoded_path, child |-> child_ref])

\* "children" maps the digits of the state mask to references; each of the
\* other digits, and the value no branch has here, takes one byte.
branch_node_rlp(children) ==
  LET child_length(digit) == children[digit].length
  IN  list_rlp(MapThenSumSet(child_length, DOMAIN children)
                 + (16 - Cardinality(DOMAIN children)) + 1,
               [children |-> children])

\* A reference as a 32-byte hash: the hash it wraps, or else its own Keccak.
hash_of(ref) ==
  IF ref.length = kHashLength + 1 THEN ref.item.hash ELSE keccak256(ref)

\* Root hash of an empty trie: Keccak of the RLP of the empty string.
kEmptyRoot == keccak256(empty_string_rlp)
=============================================================================
