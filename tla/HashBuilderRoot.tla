--------------------------- MODULE HashBuilderRoot ---------------------------
(***************************************************************************)
(* HashBuilder against TrieService, seen from outside: the trie is that of *)
(* the entries the client added.                                           *)
(***************************************************************************)
EXTENDS HashBuilder, MerkleTrie

Added == {[key |-> entries[i].key, value |-> entries[i].value] : i \in DOMAIN entries}

Client == INSTANCE TrieService WITH trie <- Added, answer <- root, Key <- Keys, Val <- Value

\* Refinement: a client that respects the contract is served the root hash of exactly
\* the entries it added since the last reset, however they were interleaved with calls
\* of root_hash.
ServesMerkleTrie == Client!Service

-----------------------------------------------------------------------------
(* Why it is: what the groups and the stack say about those entries, along *)
(* the key of the entry that is not yet in the trie.                       *)

along == IF pc = "gen_struct_step" THEN current ELSE key_

\* How many digits of a mask there are up to one of them.
Rank(mask, digit) == Cardinality({d \in mask : d <= digit})

\* The first "top" elements of a stack are the references to the children of the open
\* branches along a path, from the root down and in the order of their digits.
HoldsChildren(E, path, masks, stack, top) ==
  \E base \in [0..Len(masks) -> 0..top] :
    /\ base[Len(masks)] = top
    /\ \A i \in 1..Len(masks) :
         /\ base[i] = base[i - 1] + Cardinality(masks[i])
         /\ \A d \in masks[i] :
              stack[base[i - 1] + Rank(masks[i], d)] =
                Reference(E, Append(SubSeq(path, 1, i - 1), d))

\* The groups are the digits the entries have along that key, without its own, and the
\* stack holds the references to exactly the subtries under them, and above them, while
\* a branch is being closed, the one to its node: what is left of a trie once all that
\* the entries to come cannot change has been replaced by references.
OpenTrie ==
  key_ # <<>> /\ pc # "aborted" =>
    /\ \A i \in 1..Len(along) :
         DigitsAt(Added, SubSeq(along, 1, i - 1)) =
           (IF i <= Len(groups_) THEN groups_[i] ELSE {}) \cup {along[i]}
    /\ HoldsChildren(Added, along, groups_, stack_,
                     IF build_extensions THEN Len(stack_) - 1 ELSE Len(stack_))
    /\ build_extensions =>
         Parted(Added, along) /\ stack_[Len(stack_)] = Reference(Added, along)

\* A finished trie is the reference to its root on the stack.
FinishedTrie ==
  key_ = <<>> /\ pc # "aborted" =>
    /\ groups_ = <<>>
    /\ IF entries = <<>> THEN stack_ = <<>>
       ELSE stack_ # <<>> /\ hash_of(Last(stack_)) = Root(Added)

\* The entries have a trie, and what is pending or being added is one of theirs.
EntriesFit ==
  /\ key_ # <<>> => entries[Len(entries)].value = value_
  /\ pc = "gen_struct_step" /\ call.op # "root_hash" => Contract(call)
=============================================================================
