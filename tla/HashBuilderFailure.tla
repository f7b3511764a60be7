-------------------------- MODULE HashBuilderFailure -------------------------
(***************************************************************************)
(* HashBuilder under a collector that may throw, as one that writes to a   *)
(* database does.  The exception leaves gen_struct_step and the call in    *)
(* the middle of an iteration: the branch is on the stack, its group is    *)
(* still open, the pending entry is still in key_ and the one of the call  *)
(* was not accepted.  Nothing brings the builder back to where it was; a   *)
(* client can but reset it and start again.                                *)
(***************************************************************************)
EXTENDS HashBuilder

VARIABLE thrown    \* an exception has left a call, and reset has not been called

failvars == <<vars, thrown>>

FInit == Init /\ thrown = FALSE

\* The call of node_collector that closes a group.
Collects ==
  /\ pc = "gen_struct_step" /\ failing = "none"
  /\ ~keeps_group /\ store_in_db_trie

\* Wrong: the exception is caught in the loop, which goes on.
CollectorThrows_caught ==
  /\ Collects /\ preceding_len # 0
  /\ groups_' = drop_empty_groups(resize(groups_grown, len))
  /\ tree_masks_' = tree_masks_closed /\ hash_masks_' = hash_masks_closed
  /\ stack_' = stack_branched
  /\ current' = SubSeq(current, 1, preceding_len)
  /\ build_extensions' = TRUE
  /\ UNCHANGED <<key_, value_, is_in_db_trie_, node_collector, pc, call, observed, failed, thrown>>

\* The masks have the branch's digit in its parent, and are not truncated yet.
CollectorThrows ==
  /\ Collects
  /\ groups_' = groups_grown
  /\ hash_masks_' = IF len > 0 THEN set_digit(hash_masks_built, len, current[len]) ELSE hash_masks_built
  /\ tree_masks_' = IF len > 0 THEN set_digit(tree_masks_built, len, current[len]) ELSE tree_masks_built
  /\ stack_' = stack_branched
  /\ pc' = "idle" /\ call' = no_call /\ current' = <<>> /\ build_extensions' = FALSE
  /\ thrown' = TRUE
  /\ UNCHANGED <<key_, value_, is_in_db_trie_, node_collector, observed, failed>>

\* What was collected since the last reset is of no use without the rest.
StartAgain == thrown /\ reset /\ thrown' = FALSE

FNext ==
  \/ ~thrown /\ LegalNext /\ UNCHANGED thrown
  \/ CollectorThrows
  \/ StartAgain

FailureSpec == FInit /\ [][FNext]_failvars

-----------------------------------------------------------------------------
\* What is left of a call that was thrown out of: nothing is known of the masks and of
\* the stack, but no call is in progress and nothing has failed, which is all that reset
\* needs.
Abandoned ==
  /\ pc = "idle" /\ call = no_call /\ current = <<>> /\ build_extensions = FALSE
  /\ failed = "none" /\ node_collector \in BOOLEAN

\* The inductive invariant behind CollectedBottomUp when the collector may throw.
FailureInv ==
  IF thrown THEN Abandoned /\ CollectedBottomUp ELSE thrown = FALSE /\ CollectInv
=============================================================================
