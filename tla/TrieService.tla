----------------------------- MODULE TrieService -----------------------------
(***************************************************************************)
(* What a HashBuilder promises its client: a set of entries that grows one *)
(* entry at a time, in the order of the keys, and is asked for its root.   *)
(***************************************************************************)
EXTENDS ByteStrings

CONSTANTS Key, Val,    \* keys and tagged values
          Root(_)      \* the root of a set of entries, see MerkleTrie

VARIABLES trie, answer

Fits(key) == \A e \in trie : greater(key, e.key) /\ ~starts_with(key, e.key)

NewTrie == trie = {} /\ answer = <<>>

Put(key, value) ==
  /\ Fits(key)
  /\ trie' = trie \cup {[key |-> key, value |-> value]}
  /\ answer' = <<>>

AskRoot ==
  /\ answer' = <<Root(trie)>>
  /\ UNCHANGED trie

Clear == trie' = {} /\ answer' = <<>>

Service ==
  NewTrie /\ [][(\E k \in Key, v \in Val : Put(k, v)) \/ AskRoot \/ Clear]_<<trie, answer>>
=============================================================================
