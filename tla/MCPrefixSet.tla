----------------------------- MODULE MCPrefixSet -----------------------------
(* Constants of the instances TLC checks PrefixSet on. *)
EXTENDS PrefixSet

\* Keys that extend one another or part at the first or second nibble, one of them
\* longer than the others by zeros.
MCKeys == {<<>>, <<0>>, <<0, 0, 0>>, <<0, 7>>, <<15>>}

\* Queries below, at, between, above and beyond these keys.
MCQueries == {<<>>, <<0>>, <<0, 0>>, <<0, 0, 0, 0>>, <<0, 7>>, <<0, 15>>, <<7>>, <<15>>, <<15, 0, 0>>}
=============================================================================
