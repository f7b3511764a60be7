----------------------------- MODULE MerkleTrie ------------------------------
(***************************************************************************)
(* What a HashBuilder is for: the root hash of a set of entries, as        *)
(* Appendix D of the Yellow Paper defines it (hash_builder.hpp refers to   *)
(* it), and the branch nodes an incremental rebuild of that trie needs.    *)
(* The definitions work on the whole set of entries at once, from the root *)
(* down; the builder works on one entry at a time, from the leaves up.     *)
(*                                                                         *)
(* An entry is [key, value]; its value is a leaf value or the hash of      *)
(* everything below the key.  No key extends another.  How long an RLP     *)
(* encoding is, NodeRef says.                                              *)
(***************************************************************************)
EXTENDS NodeRef, ByteStrings

-----------------------------------------------------------------------------
(* The places of a trie are the prefixes of its keys.                      *)

Places(E) == UNION {{SubSeq(e.key, 1, n) : n \in 0..Len(e.key)} : e \in E}

Below(E, p) == {e \in E : starts_with(e.key, p)}

DigitsAt(E, p) ==
  {e.key[Len(p) + 1] : e \in {e \in Below(E, p) : Len(e.key) > Len(p)}}

\* The longest prefix that the keys of a set share; of a single key, the key.
SharedPlaces(E) == {p \in Places(E) : \A e \in E : starts_with(e.key, p)}
SharedPrefix(E) ==
  CHOOSE p \in SharedPlaces(E) : \A r \in SharedPlaces(E) : Len(r) <= Len(p)

SomeEntry(E) == CHOOSE e \in E : TRUE

-----------------------------------------------------------------------------
(* The trie of a set of entries.                                           *)

\* HP of the Yellow Paper, nibble by nibble: an even number of nibbles, the
\* first one or two of them flags, packed in pairs.
HexPrefix(x, t) ==
  LET f       == IF t THEN 2 ELSE 0
      nibbles == IF Len(x) % 2 = 0 THEN <<f, 0>> \o x ELSE <<f + 1>> \o x
  IN  [i \in 1..(Len(nibbles) \div 2) |-> nibbles[2 * i - 1] * 16 + nibbles[2 * i]]

Leaf(path, value) ==
  LET encoded == HexPrefix(path, TRUE)
  IN  list_rlp(string_length(encoded) + RlpLength[value], [path |-> encoded, value |-> value])

Extension(path, reference) ==
  LET encoded == HexPrefix(path, FALSE)
  IN  list_rlp(string_length(encoded) + reference.length, [path |-> encoded, child |-> reference])

HashReference(hash) == [length |-> 33, item |-> [hash |-> hash]]

\* c(J, i) of the Yellow Paper, the encoding of the node at a place, given the references
\* below it: a leaf, an extension or a branch.
Composed(E, p, below) ==
  LET any  == SomeEntry(Below(E, p))
      q    == SharedPrefix(Below(E, p))
      path == SubSeq(q, Len(p) + 1, Len(q))
  IN  IF any.key = q /\ any.value.tag = "leaf" THEN Leaf(path, any.value.data)
      ELSE IF q # p THEN Extension(path, below[q])
      ELSE branch_node_rlp([d \in DigitsAt(E, p) |-> below[Append(p, d)]])

\* n(J, i), the reference to it, unless an entry says what its hash is.
Referred(E, p, below) ==
  LET any == SomeEntry(Below(E, p))
      rlp == Composed(E, p, below)
  IN  IF any.key = p /\ any.value.tag = "hash" THEN HashReference(any.value.data)
      ELSE IF rlp.length < 32 THEN rlp ELSE HashReference([keccak |-> rlp])

Reference(E, place) ==
  LET reference[p \in Places(E)] == Referred(E, p, reference)
  IN  reference[place]

\* TRIE(J): the root is always a hash.
Root(E) ==
  IF E = {} THEN kEmptyRoot
  ELSE LET top == Reference(E, <<>>)
       IN  IF top.length = 33 THEN top.item.hash ELSE [keccak |-> top]

-----------------------------------------------------------------------------
(* The nodes of the DB trie, for entries some of whose hashes stand for    *)
(* subtries with nodes in the DB already.  See also Node in trie/node.hpp. *)

\* Where two entries part there is a branch.
Parted(E, p) == \E c, d \in DigitsAt(E, p) : c # d

Branches(E) == {p \in Places(E) : Parted(E, p)}

\* The places whose node has a hash of its own in the DB trie: not leaves, nor
\* extensions.
Hashed(E, p) ==
  \/ p \in Branches(E)
  \/ \E e \in E : e.key = p /\ e.value.tag = "hash"

HashMask(E, p) == {d \in DigitsAt(E, p) : Hashed(E, Append(p, d))}

\* The places below which there is a stored node, in the DB or new.  A branch is stored
\* for the hashes of its children or because a node below it is: the lowest one for hashes.
Stored(E, in_db, p) ==
  \/ \E k \in in_db : starts_with(k, p)
  \/ \E q \in Branches(E) : starts_with(q, p) /\ HashMask(E, q) # {}

TreeMask(E, in_db, p) == {d \in DigitsAt(E, p) : Stored(E, in_db, Append(p, d))}

DbPlaces(E, in_db) == {p \in Branches(E) : HashMask(E, p) \cup TreeMask(E, in_db, p) # {}}

DbNode(E, in_db, p) ==
  [key        |-> p,
   state_mask |-> DigitsAt(E, p),
   tree_mask  |-> TreeMask(E, in_db, p),
   hash_mask  |-> HashMask(E, p),
   hashes     |-> [d \in HashMask(E, p) |-> Reference(E, Append(p, d)).item.hash],
   root_hash  |-> IF p = <<>> THEN <<Root(E)>> ELSE <<>>]

DbNodes(E, in_db) == {DbNode(E, in_db, p) : p \in DbPlaces(E, in_db)}
=============================================================================
