---------------------------- MODULE MCVectorRoot -----------------------------
(* Constants of the instance TLC checks VectorRoot on: vectors with lengths on both
   sides of the places where the order of the indices changes. *)
EXTENDS VectorRootTrie

MCLengths == {0, 1, 2, 3, 17, 127, 128, 129, 130}

\* Neighbours differ; one of five elements makes a leaf that is hashed.
Element(i) ==
  CASE i % 5 = 0 -> <<>>
    [] i % 5 = 1 -> <<0>>
    [] i % 5 = 2 -> <<200>>
    [] i % 5 = 3 -> [n \in 1..40 |-> 7]
    [] i % 5 = 4 -> <<1, 2, 3>>

MCVectors == {[i \in 1..n |-> Element(i)] : n \in MCLengths}

MCValues == UNION {{encoded(Element(i)), [n \in 1..Len(encoded(Element(i))) |-> 0]} : i \in 0..4}
              \cup {<<>>}
MCRlpLength == [value \in MCValues |-> length_bytes(value)]
MCEmptyBytes == <<>>
MCKeys == {index_key(i) : i \in 0..129}
=============================================================================
