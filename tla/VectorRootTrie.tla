--------------------------- MODULE VectorRootTrie ----------------------------
(***************************************************************************)
(* VectorRoot against MerkleTrie.                                          *)
(***************************************************************************)
EXTENDS VectorRoot, MerkleTrie

\* The trie the documentation means (vector_root.hpp:27): "Trie root hash of
\* RLP-encoded values, the keys are RLP-encoded integers".
TrieOfVector ==
  {[key   |-> index_key(i - 1),
    value |-> [tag |-> "leaf", data |-> encoded(v[i])]] : i \in DOMAIN v}

\* The root returned for a vector is the root hash of the trie of its elements, each
\* under its index, whatever the number of elements.
RootOfVector == api = "C++" /\ root # <<>> => root = <<Root(TrieOfVector)>>

\* vector_root.hpp:59 documents silkworm_trie_root_hash with "Вычисление корневого
\* хэша" (computes the root hash), with the encoder of encode.hpp as its callback.
CRootIsRootOfVector == api = "C" /\ root # <<>> => root = <<Root(TrieOfVector)>>
=============================================================================
