----------------------------- MODULE VectorRoot ------------------------------
(***************************************************************************)
(* root_hash(v, value_encoder) of trie/vector_root.hpp, and                *)
(* silkworm_trie_root_hash of trie/vector_root.cpp on top of it: a client  *)
(* of HashBuilder that adds the encodings of the elements of a vector      *)
(* under the keys of their indices.                                        *)
(*                                                                         *)
(* The loop's j is the number of entries the builder has accepted: it goes *)
(* up when add_leaf returns.                                               *)
(***************************************************************************)
EXTENDS HashBuilder, VectorIndex

CONSTANTS Vectors    \* sequences of byte strings

\* The vectors are short enough for the bound on entries.
ASSUME VectorsAssumption ==
  \A vector \in Vectors :
    /\ vector \in Seq(Seq(Byte)) /\ Len(vector) <= MaxEntries
    /\ \A i \in 1..Len(vector) : index_key(i - 1) \in Keys

VARIABLES
  v,           \* the vector
  api          \* "C++" or "C"

allvars == <<vars, v, api>>

\* rlp::encode, as value_encoder.
encoded(value) == Written(encode_bytes(value))

\* silkworm_rlp_encode_bytes and its like: what is appended goes to a copy, and only
\* the length comes back.
EncodedByC(to, chunks) == [to EXCEPT !.length = Len(SubSeq(to.data, 1, to.length) \o Written(chunks))]

\* The callback is given the cleared string's memory, whose size is then set to
\* what the callback says: the string grows from nothing by zero bytes.
cpp_encoder(value) ==
  LET c_out == EncodedByC([data |-> <<>>, length |-> 0], encode_bytes(value))
  IN  [i \in 1..c_out.length |-> 0]

value_rlp(value) == IF api = "C" THEN cpp_encoder(value) ELSE encoded(value)

ASSUME ElementsAssumption ==
  \A vector \in Vectors : \A i \in DOMAIN vector :
    {encoded(vector[i]), cpp_encoder(vector[i])} \subseteq Values

j     == Len(entries)
index == adjust_index_for_rlp(j, Len(v))

\* The call that adds an element.
element(i) == [op |-> "add_leaf", key |-> index_key(i),
               value |-> [tag |-> "leaf", data |-> value_rlp(v[i + 1])], in_db |-> FALSE]

VInit == Init /\ v \in Vectors /\ api \in {"C++", "C"}

\* Wrong: the value of the position, not of the index, is added.
AddElement_at_position ==
  /\ pc = "idle" /\ root = <<>> /\ j < Len(v)
  /\ add_leaf([element(index) EXCEPT !.value.data = value_rlp(v[j + 1])])
  /\ UNCHANGED <<v, api>>

\* The body of the loop.
AddElement ==
  /\ pc = "idle" /\ root = <<>> /\ j < Len(v)
  /\ add_leaf(element(index))
  /\ UNCHANGED <<v, api>>

ReturnRoot ==
  /\ pc = "idle" /\ root = <<>> /\ j = Len(v)
  /\ root_hash
  /\ UNCHANGED <<v, api>>

VNext == AddElement \/ ReturnRoot \/ (gen_struct_step /\ UNCHANGED <<v, api>>)

VSpec == VInit /\ [][VNext]_allvars

\* The call runs to its end.
FairVSpec == VSpec /\ WF_allvars(VNext)

-----------------------------------------------------------------------------

\* The vector's elements were added under their own keys, those of the order first:
\* what the loop keeps.
ElementsInOrder ==
  \A k \in 1..j :
    LET added == element(adjust_index_for_rlp(k - 1, Len(v)))
    IN  entries[k].key = added.key /\ entries[k].value = added.value

\* The order of the indices is that of their keys: no assertion of the builder fails,
\* whatever the vector's length.
IndexOrderNeverAborts == failed = "none"

\* The root of every vector is returned.
RootIsReturned == <>(root # <<>>)
=============================================================================
