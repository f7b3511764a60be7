---------------------------- MODULE HashBuilderDb ----------------------------
(***************************************************************************)
(* HashBuilder against the DB trie of MerkleTrie: the nodes it gives to    *)
(* the collector are those an incremental rebuild of the trie needs.       *)
(***************************************************************************)
EXTENDS HashBuilderRoot

\* The keys whose hashes stand for subtries with nodes in the DB.
InDb == {entries[i].key : i \in {n \in DOMAIN entries :
           entries[n].value.tag = "hash" /\ entries[n].in_db}}

\* The nodes collected by the time root_hash returns are exactly the nodes the DB
\* trie of the entries consists of, with all their masks and hashes, and each was
\* given to the collector once.
CollectedIsDbTrie ==
  node_collector /\ root # <<>> =>
    /\ ToSet(collected) = DbNodes(Added, InDb)
    /\ Cardinality(ToSet(collected)) = Len(collected)

\* What the collector is for: if the entries below any hashed child of a collected
\* node are replaced by that hash alone, the root is the same, and so are the nodes
\* outside that subtrie when the child is marked as the tree mask says.
Outside(E, p) == {e \in E : ~starts_with(e.key, p)}

Substituted(p, hash) ==
  Outside(Added, p) \cup {[key |-> p, value |-> [tag |-> "hash", data |-> hash]]}

SubstitutedInDb(p, stored) ==
  {k \in InDb : ~starts_with(k, p)} \cup (IF stored THEN {p} ELSE {})

RebuildsFromCollected ==
  root # <<>> =>
    \A i \in DOMAIN collected : \A d \in collected[i].hash_mask :
      LET p       == Append(collected[i].key, d)
          rebuilt == Substituted(p, collected[i].hashes[d])
          stored  == SubstitutedInDb(p, d \in collected[i].tree_mask)
      IN  /\ Root(rebuilt) = root[1]
          /\ DbNodes(rebuilt, stored) = {n \in ToSet(collected) : ~starts_with(n.key, p)}

-----------------------------------------------------------------------------
(* Why it is: what the masks and the nodes collected so far say about the  *)
(* part of the trie that is complete.                                      *)

\* The digits along the key with a complete subtrie; the branch just closed is one.
Complete(i) ==
  (IF i <= Len(groups_) THEN groups_[i] ELSE {})
  \cup (IF build_extensions /\ i = Len(along) THEN {along[i]} ELSE {})

\* The masks flag those of them that are hashed, or have a stored node, and none beside.
FlagsOfTrie ==
  node_collector /\ key_ # <<>> /\ pc # "aborted" =>
    /\ Len(groups_) <= Len(hash_masks_)
    /\ build_extensions => Len(along) <= Len(hash_masks_)
    /\ \A i \in DOMAIN hash_masks_ :
         LET place(d) == Append(SubSeq(along, 1, i - 1), d)
         IN  /\ hash_masks_[i] = {d \in Complete(i) : Hashed(Added, place(d))}
             /\ tree_masks_[i] = {d \in Complete(i) : Stored(Added, InDb, place(d))}

\* The branches that are closed.
Closed(p) == key_ = <<>> \/ ~starts_with(along, p) \/ (build_extensions /\ p = along)

\* Their nodes, as far as they are stored, have been collected, and the hashes in them
\* are what their parents refer to.
CollectedSoFar ==
  node_collector /\ pc # "aborted" =>
    /\ ToSet(collected) =
         {DbNode(Added, InDb, p) : p \in {q \in DbPlaces(Added, InDb) : Closed(q)}}
    /\ \A n \in ToSet(collected) : \A d \in n.hash_mask :
         Reference(Added, Append(n.key, d)) = HashReference(n.hashes[d])

\* What is pending may be in the DB; when nothing is, no flags are left, and only then,
\* while no assertion has failed, there is an answer.
PendingFits ==
  /\ key_ # <<>> /\ value_.tag = "hash" => (is_in_db_trie_ <=> key_ \in InDb)
  /\ key_ = <<>> /\ pc # "aborted" => tree_masks_ = <<>> /\ hash_masks_ = <<>>
  /\ key_ # <<>> \/ pc = "aborted" => root = <<>>
=============================================================================
