--------------------------- MODULE HashBuilderTrie ---------------------------
(***************************************************************************)
(* HashBuilder against MerkleTrie, from inside: the entries a builder      *)
(* stands for are read back from its own state, and under that mapping too *)
(* the builder is a TrieService.                                           *)
(***************************************************************************)
EXTENDS HashBuilderDb

-----------------------------------------------------------------------------
(* The entries below a reference, given the prefix of its keys.            *)

PathNibbles(encoded) ==
  LET nibbles == [i \in 1..(2 * Len(encoded)) |->
                    IF i % 2 = 1 THEN encoded[(i + 1) \div 2] \div 16
                                 ELSE encoded[i \div 2] % 16]
  IN  SubSeq(nibbles, IF nibbles[1] % 2 = 1 THEN 2 ELSE 3, Len(nibbles))

RECURSIVE EntriesOf(_, _)
EntriesOf(item, prefix) ==
  CASE "hash" \in DOMAIN item ->
         IF item.hash \in Hashes
         THEN {[key |-> prefix, value |-> [tag |-> "hash", data |-> item.hash]]}
         ELSE EntriesOf(item.hash.keccak.item, prefix)
    [] "value" \in DOMAIN item ->
         {[key |-> prefix \o PathNibbles(item.path),
           value |-> [tag |-> "leaf", data |-> item.value]]}
    [] "child" \in DOMAIN item ->
         EntriesOf(item.child.item, prefix \o PathNibbles(item.path))
    [] "children" \in DOMAIN item ->
         UNION {EntriesOf(item.children[d].item, Append(prefix, d)) : d \in DOMAIN item.children}

\* The stack is aligned from the top: below the groups' references there may be
\* those of a trie that root_hash finished.
Along    == IF pc = "idle" THEN key_ ELSE current
OnTop    == IF build_extensions THEN 1 ELSE 0
Digits   == UNION {{<<i, d>> : d \in groups_[i]} : i \in DOMAIN groups_}
Above(x) == {y \in Digits : y[1] > x[1] \/ (y[1] = x[1] /\ y[2] >= x[2])}
Held(x)  == stack_[Len(stack_) - OnTop - Cardinality(Above(x)) + 1]

\* All the entries: those of the open groups, those of the branch just closed, the
\* pending one, or those of a finished trie.
Contents ==
  UNION {EntriesOf(Held(x).item, Append(SubSeq(Along, 1, x[1] - 1), x[2])) : x \in Digits}
  \cup (IF build_extensions THEN EntriesOf(Last(stack_).item, current)
        ELSE IF key_ # <<>> THEN {[key |-> key_, value |-> value_]}
        ELSE IF stack_ # <<>> THEN EntriesOf(Last(stack_).item, <<>>)
        ELSE {})

T == INSTANCE TrieService WITH trie <- Contents, answer <- root, Key <- Keys, Val <- Value

-----------------------------------------------------------------------------

\* Refinement: seen from outside, a call is one step on the set of entries,
\* whatever gen_struct_step does to the stack in between, no entry is ever lost,
\* changed or moved to another key, and root_hash returns the root hash of the set.
ImplementsMerkleTrie == T!Service

-----------------------------------------------------------------------------
(* What the documentation says, where the code differs.                    *)

\* hash_builder.hpp:61: root_hash "Returns the root hash computed on behalf of added
\* entries", for entries that are in the documented order.
RootOfAddedEntries ==
  /\ root # <<>>
  /\ \A j \in DOMAIN entries : \A i \in 1..(j - 1) :
       /\ greater(entries[j].key, entries[i].key)
       /\ ~starts_with(entries[j].key, entries[i].key)
  => root = <<Root(Added)>>

\* hash_builder.cpp:228 asserts that the child hashes of a collected node are hashes,
\* for every client that respects the documented order.
ChildHashesAreHashes == failed # "hash_size"
=============================================================================
