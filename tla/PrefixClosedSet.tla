--------------------------- MODULE PrefixClosedSet ---------------------------
(***************************************************************************)
(* What trie/prefix_set.hpp says a PrefixSet is: a set of byte strings     *)
(* such that if x is in it and x starts with y, then y is in it.  It is    *)
(* given by the strings inserted, each with its marker; asking does not    *)
(* change it.                                                              *)
(***************************************************************************)
EXTENDS ByteStrings

CONSTANTS Item, Query   \* what is inserted, what is asked for

VARIABLES items, answer

Member(x) == \E item \in items : starts_with(item.key, x)

EmptySet == items = {} /\ answer = <<>>

Insert(item) == items' = items \cup {item} /\ answer' = <<>>

Ask(x) == answer' = <<x, Member(x)>> /\ UNCHANGED items

Clear == items' = {} /\ answer' = <<>>

Step == (\E item \in Item : Insert(item)) \/ (\E x \in Query : Ask(x)) \/ Clear

vars == <<items, answer>>

PrefixClosed == EmptySet /\ [][Step]_vars
=============================================================================
