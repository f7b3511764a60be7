----------------------------- MODULE HashBuilder -----------------------------
(***************************************************************************)
(* HashBuilder (trie/hash_builder.hpp, trie/hash_builder.cpp) computes the *)
(* root hash of a Merkle Patricia trie from entries added in key order,    *)
(* keeping only the path to the last entry: groups_ says which digits the  *)
(* open branches along that path have, stack_ holds a reference to the     *)
(* subtrie under each of those digits.  On the way it hands the branch     *)
(* nodes it closes to node_collector.                                      *)
(*                                                                         *)
(* The variables with a trailing underscore are the members.  A call is    *)
(* one step when the builder is empty; otherwise it runs gen_struct_step   *)
(* first, and each iteration of its loop is a step, because an iteration   *)
(* may call the collector, which sees the builder in that state, and may   *)
(* fail an assertion, which aborts the process and leaves it there.        *)
(*                                                                         *)
(* Vectors of masks are sequences of sets of digits.  Lengths are those of *)
(* the code; sequences count from 1, so the code's v[n] is v[n + 1] here.  *)
(***************************************************************************)
EXTENDS NodeRef, ByteStrings, SequencesExt

CONSTANTS
  Hashes,      \* hashes of subtries the client already knows
  EmptyBytes,  \* the empty leaf value
  Keys,        \* unpacked keys clients use
  MaxEntries   \* bound: entries added between two resets

Digit == 0..15
Mask  == SUBSET Digit

ASSUME EmptyBytesAssumption == EmptyBytes \in Values
ASSUME KeysAssumption == Keys \subseteq Seq(Digit)
ASSUME MaxEntriesAssumption == MaxEntries \in Nat

VARIABLES
  key_, value_, is_in_db_trie_,           \* the last entry, not yet in the trie
  groups_, tree_masks_, hash_masks_,      \* masks of the open branches
  stack_,                                 \* references to closed subtries
  node_collector,                         \* is one installed?
  pc,                                     \* "idle", "gen_struct_step", "aborted"
  call,                                   \* the call in progress
  current, build_extensions,              \* locals of gen_struct_step
  collected,                              \* nodes the collector was given
  root,                                   \* <<what the last root_hash returned>>
  entries,                                \* entries accepted since the last reset
  sealed,                                 \* how many of them are in a finished trie
  failed                                  \* the assertion that aborted, or "none"

builder   == <<key_, value_, is_in_db_trie_, groups_, tree_masks_, hash_masks_, stack_>>
frame     == <<pc, call, current, build_extensions>>
observed  == <<collected, root, entries, sealed>>
vars      == <<builder, node_collector, frame, observed, failed>>

Value == [tag : {"leaf"}, data : Values] \cup [tag : {"hash"}, data : Hashes]
NoValue == [tag |-> "leaf", data |-> EmptyBytes]

\* The calls that add entries.
Calls ==
  [op : {"add_leaf"}, key : Keys, value : [tag : {"leaf"}, data : Values], in_db : {FALSE}]
  \cup
  [op : {"add_branch_node"}, key : Keys, value : [tag : {"hash"}, data : Hashes],
   in_db : BOOLEAN]
\* finalize() runs gen_struct_step with an empty succeeding key and then clears
\* key_ and value_: the same as moving on to an entry without key and value.
root_hash_call == [op |-> "root_hash", key |-> <<>>, value |-> NoValue, in_db |-> FALSE]
no_call        == [op |-> "none", key |-> <<>>, value |-> NoValue, in_db |-> FALSE]

\* resize(n) of a vector of masks: truncates it, or pads it with empty masks.
resize(masks, n) == [i \in 1..n |-> IF i <= Len(masks) THEN masks[i] ELSE {}]

\* Wrong: empty groups stay.
drop_empty_groups_never(masks) == masks

\* while (!groups_.empty() && groups_.back() == 0) groups_.pop_back();
drop_empty_groups(masks) ==
  LET size == CHOOSE n \in 0..Len(masks) :
                /\ \A i \in (n + 1)..Len(masks) : masks[i] = {}
                /\ n > 0 => masks[n] # {}
  IN  SubSeq(masks, 1, size)

set_digit(masks, n, digit)   == [masks EXCEPT ![n] = @ \cup {digit}]
clear_digit(masks, n, digit) == [masks EXCEPT ![n] = @ \ {digit}]

Init ==
  /\ key_ = <<>> /\ value_ = NoValue /\ is_in_db_trie_ = FALSE
  /\ groups_ = <<>> /\ tree_masks_ = <<>> /\ hash_masks_ = <<>> /\ stack_ = <<>>
  /\ node_collector = FALSE
  /\ pc = "idle" /\ call = no_call /\ current = <<>> /\ build_extensions = FALSE
  /\ collected = <<>> /\ root = <<>> /\ entries = <<>> /\ sealed = 0
  /\ failed = "none"

-----------------------------------------------------------------------------
(* One iteration of gen_struct_step: the locals of its loop, in order.     *)

succeeding        == call.key
preceding_exists  == groups_ # <<>>
\* Wrong: the number of groups for the length of the prefix.
preceding_len_off_by_one == Len(groups_)
preceding_len     == IF groups_ = <<>> THEN 0 ELSE Len(groups_) - 1
common_prefix_len == prefix_length(succeeding, current)
len == IF preceding_len > common_prefix_len THEN preceding_len ELSE common_prefix_len
extra_digit == current[len + 1]

has_parent     == succeeding # <<>> \/ preceding_exists
from           == IF has_parent THEN len + 1 ELSE len
short_node_key == SubSeq(current, from + 1, Len(current))

groups_grown ==
  set_digit(resize(groups_, IF Len(groups_) > len THEN Len(groups_) ELSE len + 1),
            len + 1, extra_digit)

\* Both vectors of masks grow when tree_masks_ is too short.
masks_grown(masks) ==
  IF Len(tree_masks_) < Len(current) THEN resize(masks, Len(current)) ELSE masks

\* The pending entry is pushed by the first iteration: a leaf, or a known hash,
\* which also enters the masks of its parent.
pushes_leaf == ~build_extensions /\ value_.tag = "leaf"
pushes_hash == ~build_extensions /\ value_.tag = "hash"

\* Wrong: the digit goes to the open group, not to the end of the key.
own_digit_in_group(masks) == set_digit(masks_grown(masks), len + 1, current[Len(current)])

own_digit_in(masks) == set_digit(masks_grown(masks), Len(current), current[Len(current)])

stack_pushed ==
  CASE pushes_leaf -> Append(stack_, node_ref(leaf_node_rlp(short_node_key, value_.data)))
    [] pushes_hash -> Append(stack_, wrap_hash(value_.data))
    [] OTHER       -> stack_
tree_masks_pushed ==
  IF pushes_hash /\ node_collector /\ is_in_db_trie_
  THEN own_digit_in(tree_masks_) ELSE masks_grown(tree_masks_)
hash_masks_pushed ==
  IF pushes_hash /\ node_collector
  THEN own_digit_in(hash_masks_) ELSE masks_grown(hash_masks_)

\* An extension node goes on top of a hash or of the branch just closed when
\* there is a path between them and the parent.
extends == ~pushes_leaf /\ short_node_key # <<>>

stack_built ==
  IF extends
  THEN [stack_pushed EXCEPT ![Len(stack_pushed)] =
          node_ref(extension_node_rlp(short_node_key, @))]
  ELSE stack_pushed
\* The DB trie cannot use the hash of an extension node ...
hash_masks_built ==
  IF ~extends THEN hash_masks_pushed
  ELSE IF node_collector /\ from > 0
       THEN resize(clear_digit(hash_masks_pushed, from, current[from]), from)
       ELSE resize(hash_masks_pushed, from)
\* ... but what is stored below it is flagged to the parent all the same.
tree_masks_built ==
  IF ~extends THEN tree_masks_pushed
  ELSE IF node_collector /\ from > 0 /\ tree_masks_pushed[Len(current)] # {}
       THEN resize(set_digit(tree_masks_pushed, from, current[from]), from)
       ELSE resize(tree_masks_pushed, from)

\* Wrong: only a group that this iteration opens stays open.
keeps_group_opened == preceding_len < common_prefix_len /\ succeeding # <<>>

\* The group of len stays open: the succeeding entry belongs to it.
keeps_group == preceding_len <= common_prefix_len /\ succeeding # <<>>

\* Otherwise the group is closed: branch_ref replaces its children on the stack
\* by a reference to their branch node.
state_mask == groups_grown[len + 1]
tree_mask  == tree_masks_built[len + 1]
hash_mask  == hash_masks_built[len + 1]

first_child_idx == Len(stack_built) - Cardinality(state_mask)
child(digit) == stack_built[first_child_idx + Cardinality({d \in state_mask : d <= digit})]
child_hashes == [d \in hash_mask |-> child(d)]

\* Wrong: the children are taken off, the branch is not put there.
stack_branched_missing ==
  IF has_parent THEN SubSeq(stack_built, 1, first_child_idx) ELSE stack_built

stack_branched ==
  IF has_parent
  THEN Append(SubSeq(stack_built, 1, first_child_idx),
              node_ref(branch_node_rlp([d \in state_mask |-> child(d)])))
  ELSE stack_built

\* The node is collected if it has a hashed or a stored child, and flagged to
\* the parent branch.
collects         == has_parent /\ node_collector
store_in_db_trie == collects /\ tree_mask \cup hash_mask # {}

node_at(key, hashes) ==
  [key        |-> key,
   state_mask |-> state_mask,
   tree_mask  |-> tree_mask,
   hash_mask  |-> hash_mask,
   hashes     |-> hashes,
   root_hash  |-> IF len = 0 THEN <<hash_of(Last(stack_branched))>> ELSE <<>>]

\* Wrong: the key ends with the prefix of the succeeding key.
node_of_common_prefix ==
  node_at(SubSeq(current, 1, common_prefix_len), [d \in hash_mask |-> hash_of(child_hashes[d])])

\* Wrong: hashes are read once the branch has replaced its children.
node_read_late ==
  node_at(SubSeq(current, 1, len), [d \in hash_mask |-> hash_of(Last(stack_branched))])

node == node_at(SubSeq(current, 1, len), [d \in hash_mask |-> hash_of(child_hashes[d])])

\* Wrong: tree masks keep their size.
tree_masks_closed_unsized ==
  IF store_in_db_trie /\ len > 0 THEN set_digit(tree_masks_built, len, current[len])
  ELSE tree_masks_built

\* Wrong: the digit below the branch is registered in its parent.
hash_masks_closed_off_by_one ==
  resize(IF collects /\ len > 0 THEN set_digit(hash_masks_built, len, extra_digit)
         ELSE hash_masks_built, len)

hash_masks_closed ==
  resize(IF collects /\ len > 0 THEN set_digit(hash_masks_built, len, current[len])
         ELSE hash_masks_built, len)
tree_masks_closed ==
  resize(IF store_in_db_trie /\ len > 0 THEN set_digit(tree_masks_built, len, current[len])
         ELSE tree_masks_built, len)

\* The assertion this iteration fails, in the order the code meets them: its
\* own, then the one of branch_ref and its unchecked assumption that the stack
\* has as many references as it takes, then the one on the children's hashes, and
\* Node's constructor (its hashes are as many as the hash mask has digits, since
\* child_hashes has one for each).
failing ==
  IF len >= Len(current)                THEN "length"
  ELSE IF keeps_group \/ ~has_parent    THEN "none"
  ELSE IF ~(hash_mask \subseteq state_mask) THEN "subset"
  ELSE IF first_child_idx < 0           THEN "stack"
  ELSE IF ~store_in_db_trie             THEN "none"
  ELSE IF \E d \in hash_mask : child_hashes[d].length # kHashLength + 1
                                        THEN "hash_size"
  ELSE IF ~(tree_mask \subseteq state_mask) THEN "node"
  ELSE "none"

-----------------------------------------------------------------------------
(* The steps of gen_struct_step.                                           *)

Abort(assertion) ==
  /\ pc' = "aborted" /\ failed' = assertion
  /\ UNCHANGED <<builder, node_collector, call, current, build_extensions, observed>>

\* The rest of the call after gen_struct_step, or without it: the entry of the
\* call becomes the pending one, or root_hash returns the top of the stack.  A
\* call with an empty key, root_hash or a known root, leaves a finished trie.
Return(c, stack) ==
  /\ key_' = c.key /\ value_' = c.value
  /\ is_in_db_trie_' = IF c.op = "add_branch_node" THEN c.in_db ELSE is_in_db_trie_
  /\ stack_' = stack
  /\ IF c.op = "root_hash"
     THEN /\ root' = <<IF stack = <<>> THEN kEmptyRoot ELSE hash_of(Last(stack))>>
          /\ UNCHANGED entries
     ELSE /\ root' = <<>>
          /\ entries' = Append(entries, [key |-> c.key, value |-> c.value, in_db |-> c.in_db])
  /\ sealed' = IF c.key = <<>> THEN Len(entries') ELSE sealed
  /\ pc' = "idle" /\ call' = no_call /\ current' = <<>> /\ build_extensions' = FALSE
  /\ UNCHANGED <<node_collector, failed>>

\* The iteration ends the loop because the group stays open.
KeepGroup ==
  /\ pc = "gen_struct_step" /\ failing = "none"
  /\ keeps_group
  /\ groups_' = groups_grown
  /\ tree_masks_' = tree_masks_built /\ hash_masks_' = hash_masks_built
  /\ Return(call, stack_built)
  /\ UNCHANGED collected

ClosesGroup ==
  /\ pc = "gen_struct_step" /\ failing = "none"
  /\ ~keeps_group
  /\ tree_masks_' = tree_masks_closed /\ hash_masks_' = hash_masks_closed
  /\ collected' = IF store_in_db_trie THEN Append(collected, node) ELSE collected

\* Wrong: the loop goes on with the same key.
CloseGroup_same_key ==
  /\ ClosesGroup
  /\ preceding_len # 0
  /\ groups_' = drop_empty_groups(resize(groups_grown, len))
  /\ stack_' = stack_branched
  /\ build_extensions' = TRUE
  /\ UNCHANGED <<key_, value_, is_in_db_trie_, node_collector, pc, call, current,
                 root, entries, sealed, failed>>

\* The iteration closes a group and goes on with the one that encloses it.
CloseGroup ==
  /\ ClosesGroup
  /\ preceding_len # 0
  /\ groups_' = drop_empty_groups(resize(groups_grown, len))
  /\ stack_' = stack_branched
  /\ current' = SubSeq(current, 1, preceding_len)
  /\ build_extensions' = TRUE
  /\ UNCHANGED <<key_, value_, is_in_db_trie_, node_collector, pc, call, root, entries, sealed, failed>>

\* The iteration closes the outermost group.
CloseLastGroup ==
  /\ ClosesGroup
  /\ preceding_len = 0
  /\ groups_' = resize(groups_grown, len)
  /\ Return(call, stack_branched)

FailAssertion ==
  /\ pc = "gen_struct_step" /\ failing # "none"
  /\ Abort(failing)

gen_struct_step == KeepGroup \/ CloseGroup \/ CloseLastGroup \/ FailAssertion

-----------------------------------------------------------------------------
(* The calls of the interface.                                             *)

\* A call runs gen_struct_step on the pending entry, if there is one.
Enter(c) ==
  /\ pc' = "gen_struct_step" /\ call' = c /\ current' = key_ /\ build_extensions' = FALSE
  /\ UNCHANGED <<builder, node_collector, observed, failed>>

Finish(c, stack) ==
  /\ Return(c, stack)
  /\ UNCHANGED <<groups_, tree_masks_, hash_masks_, collected>>

\* Wrong: the order of keys is not checked.
add_leaf_unchecked(c) ==
  /\ pc = "idle" /\ c.op = "add_leaf"
  /\ \/ key_ # <<>> /\ Enter(c)
     \/ key_ = <<>> /\ Finish(c, stack_)

add_leaf(c) ==
  /\ pc = "idle" /\ c.op = "add_leaf"
  /\ \/ ~greater(c.key, key_) /\ Abort("order")
     \/ greater(c.key, key_) /\ key_ # <<>> /\ Enter(c)
     \/ greater(c.key, key_) /\ key_ = <<>> /\ Finish(c, stack_)

add_branch_node(c) ==
  LET in_order == greater(c.key, key_) \/ (key_ = <<>> /\ c.key = <<>>)
  IN  /\ pc = "idle" /\ c.op = "add_branch_node"
      /\ \/ ~in_order /\ Abort("order")
         \/ in_order /\ key_ # <<>> /\ Enter(c)
         \/ in_order /\ key_ = <<>> /\ c.key # <<>> /\ Finish(c, stack_)
         \* known root hash
         \/ in_order /\ c.key = <<>> /\ Finish(c, Append(stack_, wrap_hash(c.value.data)))

root_hash ==
  /\ pc = "idle"
  /\ \/ key_ # <<>> /\ Enter(root_hash_call)
     \/ key_ = <<>> /\ Finish(root_hash_call, stack_)

\* What was collected and returned before is of no interest any more.
reset ==
  /\ pc = "idle"
  /\ key_' = <<>> /\ value_' = NoValue /\ is_in_db_trie_' = FALSE
  /\ groups_' = <<>> /\ tree_masks_' = <<>> /\ hash_masks_' = <<>> /\ stack_' = <<>>
  /\ collected' = <<>> /\ root' = <<>> /\ entries' = <<>> /\ sealed' = 0
  /\ UNCHANGED <<node_collector, frame, failed>>

\* The client assigns the public member node_collector.
set_node_collector(installed) ==
  /\ pc = "idle"
  /\ node_collector' = installed
  /\ UNCHANGED <<builder, frame, observed, failed>>

-----------------------------------------------------------------------------
(* The builder used by any client at all ...                               *)

Add(c) == /\ Len(entries) < MaxEntries
          /\ add_leaf(c) \/ add_branch_node(c)

Next ==
  \/ \E c \in Calls : Add(c)
  \/ root_hash
  \/ reset
  \/ \E installed \in BOOLEAN : set_node_collector(installed)
  \/ gen_struct_step

Spec == Init /\ [][Next]_vars

(* ... and by one that respects what hash_builder.hpp asks for: keys       *)
(* increase and none extends another; and what it takes for granted:       *)
(* nothing is added once root_hash has been called or the root is known,   *)
(* and the collector is installed before the first entry.                  *)

InOrder(key) ==
  \A i \in DOMAIN entries : greater(key, entries[i].key) /\ ~starts_with(key, entries[i].key)

Contract(c) ==
  /\ InOrder(c.key)
  /\ c.op = "add_leaf" => c.key # <<>>
  /\ sealed = 0

LegalNext ==
  \/ \E c \in Calls : Contract(c) /\ Add(c)
  \/ root_hash
  \/ reset
  \/ entries = <<>> /\ \E installed \in BOOLEAN : set_node_collector(installed)
  \/ gen_struct_step

LegalSpec == Init /\ [][LegalNext]_vars
-----------------------------------------------------------------------------
(* Properties of the builder's own state; those that need a reference trie *)
(* are in HashBuilderTrie.                                                 *)

Calling == Calls \cup {root_hash_call, no_call}

Assertions == {"none", "order", "length", "subset", "stack", "hash_size", "node"}

\* Type invariant: keys are unpacked, masks are sets of digits, and the two
\* vectors of child masks always have one size.
TypeOK ==
  /\ key_ \in Seq(Digit) /\ value_ \in Value /\ is_in_db_trie_ \in BOOLEAN
  /\ groups_ \in Seq(Mask) /\ tree_masks_ \in Seq(Mask) /\ hash_masks_ \in Seq(Mask)
  /\ Len(tree_masks_) = Len(hash_masks_)
  /\ stack_ \in Seq(Range(stack_))
  /\ node_collector \in BOOLEAN
  /\ pc \in {"idle", "gen_struct_step", "aborted"}
  /\ call \in Calling
  /\ current \in Seq(Digit) /\ build_extensions \in BOOLEAN
  /\ collected \in Seq(Range(collected))
  /\ root \in Seq(Range(root))
  /\ entries \in Seq([key : Keys, value : Value, in_db : BOOLEAN])
  /\ sealed \in 0..Len(entries)
  /\ failed \in Assertions /\ (failed # "none" <=> pc = "aborted")

\* No call sequence whatever, the collector coming and going included, makes the
\* masks or the stack inconsistent: of all assertions only those on the client's
\* keys and on the size of child hashes can fail (lines 259, 263 and those of the
\* Node constructor cannot).
OnlyClientErrorsAbort == failed \in {"none", "order", "length", "hash_size"}

\* A client that respects the documented order of keys aborts for no reason but
\* the size of the hash of a child (line 228).
ContractNeverAborts == failed \in {"none", "hash_size"}

\* The two assertions on keys, one on the last key only and one deep inside
\* gen_struct_step, enforce the whole documented contract: the entries of a trie
\* are in order, and no key extends any other, not only the one before it.
ContractEnforced ==
  \A j \in (sealed + 1)..Len(entries) : \A i \in (sealed + 1)..(j - 1) :
    greater(entries[j].key, entries[i].key) /\ ~starts_with(entries[j].key, entries[i].key)

\* A child flagged as hashed or as stored is a child of its branch; while a
\* branch is being closed its own digit is still missing from its parent's group.
MasksWithinGroups ==
  \A i \in DOMAIN tree_masks_ :
    tree_masks_[i] \cup hash_masks_[i] \subseteq
      (IF i <= Len(groups_) THEN groups_[i] ELSE {})
      \cup (IF build_extensions /\ i = Len(current) THEN {current[i]} ELSE {})

\* Every open group has a segment of its own on the stack with one reference per
\* digit, and while a branch is being closed its reference is above them all: what
\* branch_ref relies on when it takes its children off the stack unchecked.
StackCoversGroups ==
  \E base \in [0..Len(groups_) -> 0..Len(stack_)] :
    /\ \A i \in 1..Len(groups_) : base[i] = base[i - 1] + Cardinality(groups_[i])
    /\ build_extensions => base[Len(groups_)] < Len(stack_)

\* The loop of gen_struct_step ends: every iteration that does not return goes on
\* with a strictly shorter key.
LoopShrinks ==
  [][pc = "gen_struct_step" /\ pc' = "gen_struct_step" => Len(current') < Len(current)]_vars

\* The entry pending in key_ is the last one accepted, and there is none exactly when
\* all entries are in a finished trie.
LastEntryPending ==
  IF key_ = <<>> THEN sealed = Len(entries)
  ELSE sealed < Len(entries) /\ entries[Len(entries)].key = key_

\* Between calls the open groups are along the pending key.
GroupsAlongKey ==
  pc = "idle" => Len(groups_) <= Len(key_) /\ ~build_extensions

\* What a call of gen_struct_step has been given, and what its loop keeps: current is
\* a prefix of the pending key that holds the groups and, from the second iteration
\* on, reaches beyond the common prefix with the succeeding key.
CallInProgress ==
  pc = "gen_struct_step" =>
    /\ call \in Calls \cup {root_hash_call}
    /\ call.op # "root_hash" => greater(succeeding, key_) /\ succeeding # <<>>
    /\ succeeding # <<>> => common_prefix_len < Len(succeeding)
    /\ current # <<>> /\ key_ # <<>> /\ Len(groups_) <= Len(current)
    /\ ~build_extensions => current = key_
    /\ build_extensions => common_prefix_len < Len(current) /\ ~starts_with(succeeding, key_)

\* The inductive invariant of the builder under any client.
IInv ==
  /\ TypeOK /\ LastEntryPending /\ GroupsAlongKey /\ CallInProgress
  /\ OnlyClientErrorsAbort /\ ContractEnforced /\ MasksWithinGroups /\ StackCoversGroups

\* Under a client that respects the contract: the succeeding key does not extend the
\* pending one either.
LegalInv ==
  /\ IInv
  /\ pc = "gen_struct_step" => ~starts_with(succeeding, key_)
  /\ ContractNeverAborts

\* The collector gets the nodes below a node before that node, so that a consumer
\* never meets a parent whose stored children are still to come.
CollectedBottomUp ==
  \A j \in DOMAIN collected : \A i \in 1..(j - 1) :
    ~starts_with(collected[j].key, collected[i].key)

\* A branch has at least two children, and they are on the stack in the order of their
\* digits, which is how child() finds them: a group that is closed has digits already,
\* all below the one that is added last.
BranchesInOrder ==
  pc = "gen_struct_step" /\ failing = "none" /\ ~keeps_group /\ has_parent =>
    /\ len + 1 \in DOMAIN groups_ /\ groups_[len + 1] # {}
    /\ \A d \in groups_[len + 1] : d < extra_digit

\* The key of the entry that is being moved into the trie is never left.
CurrentAlongKey == pc = "gen_struct_step" => starts_with(key_, current)

\* The digits of the open groups are those of earlier entries, hence below that of the
\* pending one, and the innermost group has one.
DigitsRise ==
  /\ groups_ # <<>> => groups_[Len(groups_)] # {}
  /\ \A i \in DOMAIN groups_ : \A d \in groups_[i] :
       /\ pc = "idle" => d < key_[i]
       /\ pc = "gen_struct_step" => d < current[i]

\* The nodes collected so far are behind the entries to come, except that the loop may
\* still be at the branch it has just closed.
CollectedClosed ==
  /\ collected # <<>> => entries # <<>>
  /\ \A i \in DOMAIN collected :
       LET key == collected[i].key
       IN  /\ key \in Seq(Digit)
           /\ pc = "idle" /\ key_ # <<>> => greater(key_, key) /\ ~starts_with(key_, key)
           /\ pc = "gen_struct_step" =>
                /\ starts_with(current, key) => Len(key) = Len(current)
                /\ succeeding # <<>> => greater(succeeding, key) /\ ~starts_with(succeeding, key)

\* The inductive invariants behind BranchesInOrder, under any client, and behind
\* CollectedBottomUp, under one that respects the contract.
OrderInv   == IInv /\ CurrentAlongKey /\ DigitsRise
CollectInv == LegalInv /\ OrderInv /\ CollectedClosed /\ CollectedBottomUp
=============================================================================
