---------------------------- MODULE MCHashBuilder ----------------------------
(* Constants of the instances TLC checks HashBuilder on. *)
EXTENDS HashBuilderTrie

CONSTANTS empty, exact, long, h1

\* Leaf values by the length of their RLP: the empty string; one that makes the
\* leaf with an empty path 32 bytes, the least that is hashed; a 32-byte string.
AllLengths == (empty :> 1) @@ (exact :> 30) @@ (long :> 33)
Lengths(values) == [v \in values |-> AllLengths[v]]

MCLengthsEmpty      == Lengths({empty})
MCLengthsEmptyExact == Lengths({empty, exact})
MCLengthsLong       == Lengths({long})

\* Keys that collide in every way: equal, extending one another, parting at the
\* first, the second or the third digit.
MCKeysAll ==
  {<<>>} \cup UNION {[1..k -> {0, 15}] : k \in 1..2}
  \cup {<<0, 7>>, <<0, 15, 0>>, <<0, 15, 15>>}

\* Keys for tries with a root that branches or extends, branches of two and three
\* digits, branches below branches, and paths of up to three nibbles in between.
MCKeysShapes ==
  {<<>>, <<0>>, <<0, 0>>, <<0, 15>>, <<0, 15, 0, 7>>, <<0, 15, 0, 15>>, <<0, 15, 9>>,
   <<7>>, <<7, 0, 1, 2>>, <<7, 0, 1, 3>>, <<15, 4, 3, 2, 1>>}

\* The same with fewer keys and longer paths, for tries of leaves of two lengths.
MCKeysLeaves ==
  {<<>>, <<0, 15, 0, 7>>, <<0, 15, 0, 15>>, <<0, 15, 9>>, <<7>>, <<7, 1, 0, 2>>,
   <<15, 4, 3, 2, 1>>}
=============================================================================
