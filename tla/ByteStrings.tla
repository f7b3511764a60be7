----------------------------- MODULE ByteStrings -----------------------------
(***************************************************************************)
(* Byte strings (Bytes and ByteView of the library) as sequences, with the *)
(* three comparisons the tries are built on.  Nothing here is recursive,   *)
(* so that proofs can use the module.                                      *)
(***************************************************************************)
EXTENDS Naturals, Sequences

\* util.cpp, prefix_length: how many leading elements two strings share.  The
\* loop stops at the end of the shorter string or at the first difference.
prefix_length(a, b) ==
  CHOOSE n \in 0..Len(a) :
    /\ n <= Len(b)
    /\ \A i \in 1..n : a[i] = b[i]
    /\ n < Len(a) /\ n < Len(b) => a[n + 1] # b[n + 1]

\* ByteView::starts_with.
starts_with(s, prefix) ==
  /\ Len(prefix) <= Len(s)
  /\ \A i \in 1..Len(prefix) : s[i] = prefix[i]

\* operator> of Bytes and ByteView: lexicographic, a proper extension being
\* greater than its prefix.
greater(a, b) ==
  \E n \in 0..Len(b) :
    /\ n < Len(a)
    /\ \A i \in 1..n : a[i] = b[i]
    /\ n < Len(b) => a[n + 1] > b[n + 1]
=============================================================================
