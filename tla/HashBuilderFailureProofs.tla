---------------------- MODULE HashBuilderFailureProofs -----------------------
(***************************************************************************)
(* Proofs about what a HashBuilder gives to the collector, for a client    *)
(* that respects the contract and a collector that may throw: the order of *)
(* the nodes, and that they are the DB trie of the entries, from which the *)
(* trie can be rebuilt.                                                    *)
(***************************************************************************)
EXTENDS HashBuilderRootProofs, HashBuilderDb, HashBuilderFailure

-----------------------------------------------------------------------------
(* What the collector gets, under a client that respects the contract.     *)

\* Nothing was collected and nothing is: all there is to show is that the calls leave
\* the keys of collected nodes behind the keys to come.
LEMMA BetweenIterationsCollected ==
  ASSUME CollectInv,
         \/ \E c \in Calls : Contract(c) /\ (add_leaf(c) \/ add_branch_node(c))
         \/ root_hash
         \/ reset
         \/ \E installed \in BOOLEAN : set_node_collector(installed)
  PROVE  CollectedClosed' /\ CollectedBottomUp'
<1>1. /\ pc = "idle" /\ IInv /\ TypeOK /\ LastEntryPending /\ CollectedClosed /\ CollectedBottomUp
  BY DEF CollectInv, LegalInv, IInv, add_leaf, add_branch_node, root_hash, reset,
         set_node_collector
<1>2. /\ collected # <<>> => entries # <<>>
      /\ \A i \in DOMAIN collected :
           /\ collected[i].key \in Seq(Digit) /\ collected[i].key \in Seq(Nat)
           /\ key_ # <<>> => /\ greater(key_, collected[i].key)
                             /\ ~starts_with(key_, collected[i].key)
  <2>1. Digit \subseteq Nat
    BY DEF Digit
  <2> QED
    BY <1>1, <2>1, SeqMonotonic DEF CollectedClosed
<1>3. ASSUME NEW c, Enter(c), key_ # <<>>, c.key \in Seq(Nat), key_ \in Seq(Nat),
             c.key # <<>> => greater(c.key, key_)
      PROVE  CollectedClosed' /\ CollectedBottomUp'
  <2>1. /\ pc' = "gen_struct_step" /\ key_' = key_ /\ current' = key_ /\ call' = c
        /\ collected' = collected /\ entries' = entries /\ succeeding' = c.key
    BY <1>3 DEF Enter, builder, observed, succeeding
  <2>2. ASSUME NEW i \in DOMAIN collected, c.key # <<>>
        PROVE  greater(c.key, collected[i].key) /\ ~starts_with(c.key, collected[i].key)
    BY <1>2, <1>3, <2>2, GreaterTransitive, BetweenExtension
  <2> QED
    BY <1>1, <1>2, <1>3, <2>1, <2>2 DEF CollectedClosed, CollectedBottomUp
<1>4. ASSUME Abort("order")
      PROVE  CollectedClosed' /\ CollectedBottomUp'
  <2>1. pc' = "aborted" /\ collected' = collected /\ entries' = entries
    BY <1>4 DEF Abort, observed
  <2> QED
    BY <1>1, <2>1 DEF CollectedClosed, CollectedBottomUp
<1>5. key_ \in Seq(Nat)
  BY <1>1, KeysAreSequences
<1>6. ASSUME NEW c \in Calls, Contract(c), add_leaf(c) \/ add_branch_node(c)
      PROVE  CollectedClosed' /\ CollectedBottomUp'
  <2>1. /\ key_ # <<>> => greater(c.key, key_)
        /\ key_ = <<>> /\ c.key # <<>> => greater(c.key, key_)
        /\ c.key \in Seq(Nat)
    BY <1>1, <1>6, LegalCall, CallTypes
  <2>2. ~greater(<<>>, key_)
    BY DEF greater
  <2>3. \/ Abort("order")
        \/ key_ # <<>> /\ Enter(c)
        \/ key_ = <<>> /\ \E stack : Finish(c, stack)
    BY <1>6, <2>2 DEF add_leaf, add_branch_node
  <2>4. ASSUME NEW stack, key_ = <<>>, Finish(c, stack)
        PROVE  CollectedClosed' /\ CollectedBottomUp'
    <3>1. sealed = 0 /\ sealed = Len(entries)
      BY <1>1, <1>6, <2>4 DEF Contract, LastEntryPending
    <3>2. entries = <<>>
      BY <1>1, <3>1, EmptySeq DEF TypeOK
    <3>3. collected' = <<>>
      BY <1>2, <2>4, <3>2 DEF Finish
    <3> QED
      BY <3>3 DEF CollectedClosed, CollectedBottomUp
  <2> QED
    BY <1>3, <1>4, <1>5, <2>1, <2>3, <2>4
<1>7. CASE root_hash
  <2>1. root_hash_call.key = <<>> /\ <<>> \in Seq(Nat)
    BY DEF root_hash_call
  <2>2. CASE key_ # <<>> /\ Enter(root_hash_call)
    BY <1>3, <1>5, <2>1, <2>2
  <2>3. CASE key_ = <<>> /\ Finish(root_hash_call, stack_)
    <3>1. key_' = <<>> /\ collected' = collected /\ entries' = entries /\ pc' = "idle"
      BY <2>3 DEF Finish, Return, root_hash_call
    <3> QED
      BY <1>1, <1>2, <3>1 DEF CollectedClosed, CollectedBottomUp
  <2> QED
    BY <1>7, <2>2, <2>3 DEF root_hash
<1>8. CASE reset
  <2>1. collected' = <<>>
    BY <1>8 DEF reset
  <2> QED
    BY <2>1 DEF CollectedClosed, CollectedBottomUp
<1>9. CASE \E installed \in BOOLEAN : set_node_collector(installed)
  <2>1. UNCHANGED <<collected, entries, pc, key_, current, call>>
    BY <1>9 DEF set_node_collector, builder, frame, observed
  <2> QED
    BY <1>1, <2>1 DEF CollectedClosed, CollectedBottomUp, succeeding
<1> QED
  BY <1>6, <1>7, <1>8, <1>9

\* The entry that follows is behind all that was collected.
LEMMA KeepGroupCollected ==
  ASSUME CollectInv, KeepGroup
  PROVE  CollectedClosed' /\ CollectedBottomUp'
<1>1. /\ pc = "gen_struct_step" /\ succeeding # <<>> /\ collected' = collected
      /\ key_' = succeeding /\ pc' = "idle"
      /\ entries' = entries \/ \E e : entries' = Append(entries, e)
  BY DEF KeepGroup, keeps_group, Return, succeeding
<1>2. /\ CollectedClosed /\ CollectedBottomUp /\ TypeOK
  BY DEF CollectInv, LegalInv, IInv
<1>3. entries # <<>> => entries' # <<>>
  BY <1>1, <1>2 DEF TypeOK
<1> QED
  BY <1>1, <1>2, <1>3 DEF CollectedClosed, CollectedBottomUp

\* The branch that is closed is above all that was collected, or to the right of it, and
\* the entry that follows is not below it.
LEMMA CloseGroupCollected ==
  ASSUME CollectInv, CloseGroup \/ CloseLastGroup
  PROVE  CollectedClosed' /\ CollectedBottomUp'
<1> DEFINE branch == SubSeq(current, 1, len)
<1>1. /\ pc = "gen_struct_step" /\ failing = "none" /\ ~keeps_group
      /\ collected' = IF store_in_db_trie THEN Append(collected, node) ELSE collected
  BY DEF CloseGroup, CloseLastGroup, ClosesGroup
<1>2. /\ IInv /\ TypeOK /\ LastEntryPending /\ CallInProgress /\ CurrentAlongKey
      /\ CollectedClosed /\ CollectedBottomUp
  BY DEF CollectInv, LegalInv, OrderInv, IInv
<1>3. Iterating
  BY <1>1, <1>2, IterationStarts
<1>4. /\ len = preceding_len /\ len \in Nat /\ len < Len(current) /\ Len(current) \in Nat
      /\ preceding_len # 0 => common_prefix_len < len /\ has_parent
      /\ preceding_len = 0 => succeeding = <<>>
  BY <1>1, <1>3, ClosingLengths
<1>5. /\ current \in Seq(Digit) /\ current \in Seq(Nat) /\ key_ \in Seq(Nat)
      /\ succeeding \in Seq(Nat) /\ starts_with(key_, current)
      /\ succeeding # <<>> => greater(succeeding, key_)
  BY <1>1, <1>2, <1>3, IterationStarts, KeysAreSequences DEF CurrentAlongKey, CallInProgress
<1>6. /\ branch \in Seq(Digit) /\ branch \in Seq(Nat) /\ Len(branch) = len
      /\ starts_with(current, branch) /\ node.key = branch
  <2>1. len \in 0..Len(current)
    BY <1>4
  <2>2. branch \in Seq(Digit)
    BY <1>5, <2>1
  <2>3. node.key = branch
    BY DEF node, node_at
  <2> QED
    BY <1>5, <2>1, <2>2, <2>3, CutIsPrefix
<1>7. succeeding # <<>> => greater(succeeding, branch) /\ ~starts_with(succeeding, branch)
  <2>1. SUFFICES ASSUME succeeding # <<>>
                 PROVE  greater(succeeding, branch) /\ ~starts_with(succeeding, branch)
    OBVIOUS
  <2>2. common_prefix_len < len /\ len \in 0..Len(current)
    BY <1>4, <2>1
  <2> QED
    BY <1>5, <2>1, <2>2, PartsBehind DEF common_prefix_len
<1> HIDE DEF branch
<1>8. \A i \in DOMAIN collected :
        /\ collected[i].key \in Seq(Digit) /\ collected[i].key \in Seq(Nat)
        /\ starts_with(current, collected[i].key) => Len(collected[i].key) = Len(current)
        /\ succeeding # <<>> => /\ greater(succeeding, collected[i].key)
                                /\ ~starts_with(succeeding, collected[i].key)
  <2>1. Digit \subseteq Nat
    BY DEF Digit
  <2> QED
    BY <1>1, <1>2, <2>1, SeqMonotonic DEF CollectedClosed
\* What is collected and above a prefix of current is above current.
<1>9. ASSUME NEW i \in DOMAIN collected
      PROVE  ~starts_with(branch, collected[i].key)
  <2>1. SUFFICES ASSUME starts_with(branch, collected[i].key)
                 PROVE  FALSE
    OBVIOUS
  <2>2. starts_with(current, collected[i].key)
    BY <1>5, <1>6, <1>8, <2>1, PrefixTransitive
  <2>3. Len(collected[i].key) <= len
    BY <1>6, <2>1 DEF starts_with
  <2> QED
    BY <1>4, <1>8, <2>2, <2>3
<1>10. /\ Len(collected) \in Nat /\ DOMAIN collected = 1..Len(collected)
       /\ Len(collected') \in Nat /\ DOMAIN collected' = 1..Len(collected')
       /\ Len(collected) <= Len(collected') /\ Len(collected') <= Len(collected) + 1
       /\ \A i \in 1..Len(collected) : collected'[i] = collected[i]
       /\ Len(collected') > Len(collected) =>
            Len(collected') = Len(collected) + 1 /\ collected'[Len(collected) + 1].key = branch
  <2>1. collected \in Seq(Range(collected))
    BY <1>2 DEF TypeOK
  <2>2. CASE collected' = collected
    BY <2>1, <2>2, LenProperties
  <2>3. CASE collected' = Append(collected, node)
    <3>1. /\ Append(collected, node) \in Seq(Range(collected) \cup {node})
          /\ Len(Append(collected, node)) = Len(collected) + 1
          /\ \A i \in 1..Len(collected) : Append(collected, node)[i] = collected[i]
          /\ Append(collected, node)[Len(collected) + 1] = node
      BY <2>1, SeqMonotonic, AppendProperties
    <3> QED
      BY <1>6, <2>1, <2>3, <3>1, LenProperties
  <2> QED
    BY <1>1, <2>2, <2>3
<1> DEFINE m == Len(collected)
           n == Len(collected')
<1>a. m \in Nat /\ n \in Nat /\ m <= n /\ n <= m + 1
  BY <1>10, Zenon
<1> HIDE DEF m, n
<1>11. CollectedBottomUp'
  <2>1. SUFFICES ASSUME NEW j \in DOMAIN collected', NEW i \in 1..(j - 1)
                 PROVE  ~starts_with(collected'[j].key, collected'[i].key)
    BY DEF CollectedBottomUp
  <2>2. j \in 1..n
    BY <1>10, <2>1, Zenon DEF n
  <2>3. i \in 1..m
    BY <1>a, <2>1, <2>2
  <2>4. i \in DOMAIN collected /\ collected'[i] = collected[i]
    BY <1>10, <2>3, Zenon DEF m
  <2>5. CASE j \in 1..m
    <3>1. j \in DOMAIN collected /\ collected'[j] = collected[j]
      BY <1>10, <2>5, Zenon DEF m
    <3> QED
      BY <1>2, <2>1, <2>4, <3>1 DEF CollectedBottomUp
  <2>6. CASE j \notin 1..m
    <3>1. j = m + 1 /\ n > m
      BY <1>a, <2>2, <2>6
    <3> QED
      BY <1>9, <1>10, <2>4, <3>1, Zenon DEF m, n
  <2> QED
    BY <2>5, <2>6
\* The keys of the nodes, with the one that may be new.
<1>12. \A i \in DOMAIN collected' :
         \/ collected'[i].key = branch
         \/ i \in DOMAIN collected /\ collected'[i].key = collected[i].key
  <2>1. SUFFICES ASSUME NEW i \in DOMAIN collected', i \notin DOMAIN collected
                 PROVE  collected'[i].key = branch
    BY <1>10
  <2>2. i \in 1..n /\ i \notin 1..m
    BY <1>10, <2>1, Zenon DEF m, n
  <2>3. i = m + 1 /\ n > m
    BY <1>a, <2>2
  <2> QED
    BY <1>10, <2>3, Zenon DEF m, n
<1>13. entries' # <<>>
  <2>1. entries' = entries \/ \E e : entries' = Append(entries, e)
    BY DEF CloseGroup, CloseLastGroup, Return
  <2>2. entries # <<>> /\ entries \in Seq(Range(entries))
    <3>1. key_ # <<>> /\ sealed \in Nat /\ sealed < Len(entries)
      BY <1>1, <1>2, LenProperties DEF CallInProgress, LastEntryPending, TypeOK
    <3>2. entries # <<>>
      BY <3>1, EmptySeq
    <3> QED
      BY <1>2, <3>2, SeqOfRange DEF TypeOK
  <2> QED
    BY <2>1, <2>2
<1>14. CASE CloseGroup
  <2>1. /\ pc' = "gen_struct_step" /\ succeeding' = succeeding
        /\ current' = branch
    BY <1>1, <1>4, <1>14 DEF CloseGroup, succeeding, branch
  <2>2. ASSUME NEW i \in DOMAIN collected'
        PROVE  LET key == collected'[i].key
               IN  /\ key \in Seq(Digit)
                   /\ starts_with(branch, key) => Len(key) = Len(branch)
                   /\ succeeding # <<>> =>
                        greater(succeeding, key) /\ ~starts_with(succeeding, key)
    BY <1>6, <1>7, <1>8, <1>9, <1>12
  <2> QED
    BY <1>11, <1>13, <2>1, <2>2 DEF CollectedClosed
<1>15. CASE CloseLastGroup
  <2>1. pc' = "idle" /\ key_' = <<>>
    BY <1>4, <1>15 DEF CloseLastGroup, Return, succeeding
  <2>2. \A i \in DOMAIN collected' : collected'[i].key \in Seq(Digit)
    BY <1>6, <1>8, <1>12
  <2> QED
    BY <1>11, <1>13, <2>1, <2>2 DEF CollectedClosed
<1> QED
  BY <1>14, <1>15

\* An iteration that fails an assertion collects nothing, and nothing follows it.
LEMMA FailureCollected ==
  ASSUME CollectInv, FailAssertion
  PROVE  CollectedClosed' /\ CollectedBottomUp'
<1>1. pc' = "aborted" /\ collected' = collected /\ entries' = entries
  BY DEF FailAssertion, Abort, observed
<1> QED
  BY <1>1 DEF CollectInv, CollectedClosed, CollectedBottomUp

\* A builder just made, or just reset, satisfies the invariant.
LEMMA EmptyCollects == Empty => CollectInv
<1> SUFFICES ASSUME Empty
             PROVE  CollectInv
  OBVIOUS
<1>1. IInv
  BY EmptyBuilder
<1>2. LegalInv
  BY <1>1 DEF LegalInv, Empty, ContractNeverAborts
<1>3. OrderInv
  BY <1>1 DEF OrderInv, CurrentAlongKey, DigitsRise, Empty
<1>4. CollectedClosed /\ CollectedBottomUp
  BY DEF CollectedClosed, CollectedBottomUp, Empty
<1> QED
  BY <1>2, <1>3, <1>4 DEF CollectInv

\* Every step of a client that respects the contract keeps the invariant.
LEMMA LegalNextCollects == CollectInv /\ [LegalNext]_vars => CollectInv'
<1> SUFFICES ASSUME CollectInv, [LegalNext]_vars
             PROVE  CollectInv'
  OBVIOUS
<1>1. LegalInv'
  BY LegalNextKeeps DEF CollectInv
<1>2. OrderInv'
  <2>1. [Next]_vars
    BY DEF LegalNext, Next
  <2> QED
    BY <2>1, NextOrder DEF CollectInv
<1>3. CASE UNCHANGED vars
  <2>1. UNCHANGED <<collected, entries, pc, key_, current, call>>
    BY <1>3 DEF vars, builder, frame, observed
  <2>2. CollectedClosed' /\ CollectedBottomUp'
    BY <2>1 DEF CollectInv, CollectedClosed, CollectedBottomUp, succeeding
  <2> QED
    BY <1>1, <1>2, <2>2 DEF CollectInv
<1>4. CASE gen_struct_step
  <2>1. CollectedClosed' /\ CollectedBottomUp'
    BY <1>4, KeepGroupCollected, CloseGroupCollected, FailureCollected DEF gen_struct_step
  <2> QED
    BY <1>1, <1>2, <2>1 DEF CollectInv
<1>5. CASE LegalNext /\ ~gen_struct_step
  <2>1. \/ \E c \in Calls : Contract(c) /\ (add_leaf(c) \/ add_branch_node(c))
        \/ root_hash
        \/ reset
        \/ \E installed \in BOOLEAN : set_node_collector(installed)
    BY <1>5 DEF LegalNext, Add
  <2>2. CollectedClosed' /\ CollectedBottomUp'
    BY <2>1, BetweenIterationsCollected
  <2> QED
    BY <1>1, <1>2, <2>2 DEF CollectInv
<1> QED
  BY <1>3, <1>4, <1>5

-----------------------------------------------------------------------------
(* The collector that throws.                                              *)

\* FailureInv holds initially ...
LEMMA FailureInitEstablishes == FInit => FailureInv
<1> SUFFICES ASSUME FInit
             PROVE  FailureInv
  OBVIOUS
<1>1. Empty
  <2>1. no_call \in Calling /\ <<>> \in Seq(Digit)
    BY DEF Calling
  <2>2. node_collector \in BOOLEAN
    BY DEF FInit, Init
  <2> QED
    BY <2>1, <2>2 DEF FInit, Init, Empty
<1> QED
  BY <1>1, EmptyCollects DEF FInit, FailureInv

\* ... and every step keeps it: an exception leaves no call behind and collects nothing
\* more, and reset does not depend on what the exception left.
LEMMA FailureNextKeeps == FailureInv /\ [FNext]_failvars => FailureInv'
<1> SUFFICES ASSUME FailureInv, [FNext]_failvars
             PROVE  FailureInv'
  OBVIOUS
<1>1. CASE ~thrown /\ LegalNext /\ UNCHANGED thrown
  <2>1. CollectInv'
    BY <1>1, LegalNextCollects DEF FailureInv
  <2> QED
    BY <1>1, <2>1 DEF FailureInv
<1>2. CASE CollectorThrows
  <2>1. pc = "gen_struct_step" /\ ~thrown
    BY <1>2 DEF CollectorThrows, Collects, FailureInv, Abandoned
  <2>2. TypeOK /\ CollectedBottomUp
    BY <2>1 DEF FailureInv, CollectInv, LegalInv, IInv
  <2>3. failed = "none" /\ node_collector \in BOOLEAN
    BY <2>1, <2>2 DEF TypeOK
  <2>4. /\ pc' = "idle" /\ call' = no_call /\ current' = <<>> /\ build_extensions' = FALSE
        /\ thrown' = TRUE /\ failed' = failed /\ node_collector' = node_collector
        /\ collected' = collected
    BY <1>2 DEF CollectorThrows, observed
  <2>5. Abandoned' /\ CollectedBottomUp'
    BY <2>2, <2>3, <2>4 DEF Abandoned, CollectedBottomUp
  <2> QED
    BY <2>4, <2>5 DEF FailureInv
<1>3. CASE StartAgain
  <2>1. Abandoned /\ thrown' = FALSE
    BY <1>3 DEF StartAgain, FailureInv
  <2>2. no_call \in Calling /\ <<>> \in Seq(Digit)
    BY DEF Calling
  <2>3. Empty'
    BY <1>3, <2>1, <2>2 DEF StartAgain, reset, frame, Abandoned, Empty
  <2>4. CollectInv'
    BY <2>3, EmptyCollects, PTL
  <2> QED
    BY <2>1, <2>4 DEF FailureInv
<1>4. CASE UNCHANGED failvars
  <2>1. UNCHANGED vars /\ UNCHANGED <<thrown, pc, call, current, build_extensions, failed,
                                     node_collector, collected>>
    BY <1>4 DEF failvars, vars, frame, observed
  <2>2. CASE thrown
    <3>1. Abandoned' /\ CollectedBottomUp'
      BY <2>1, <2>2 DEF FailureInv, Abandoned, CollectedBottomUp
    <3> QED
      BY <2>1, <2>2, <3>1 DEF FailureInv
  <2>3. CASE ~thrown
    <3>1. CollectInv'
      BY <2>1, <2>3, LegalNextCollects DEF FailureInv
    <3> QED
      BY <2>1, <2>3, <3>1 DEF FailureInv
  <2> QED
    BY <2>2, <2>3
<1> QED
  BY <1>1, <1>2, <1>3, <1>4 DEF FNext

\* The invariant holds in every state, before and after an exception.
LEMMA FailureInvariance == FailureSpec => []FailureInv
<1>1. FInit => FailureInv
  BY FailureInitEstablishes
<1>2. FailureInv /\ [FNext]_failvars => FailureInv'
  BY FailureNextKeeps
<1> QED
  BY <1>1, <1>2, PTL DEF FailureSpec

\* For a client that respects the contract, the collector gets the nodes below a node
\* before that node, also when it throws and the builder is reset and used again.
THEOREM CollectorSeesChildrenFirst == FailureSpec => []CollectedBottomUp
<1>1. FailureInv => CollectedBottomUp
  BY DEF FailureInv, CollectInv
<1> QED
  BY <1>1, FailureInvariance, PTL

\* reset undoes what an exception of the collector left behind: from then on all that is
\* true of a builder that was never thrown out of holds again, and no exception makes a
\* later call fail an assertion.
THEOREM ResetRecovers ==
  FailureSpec => []((~thrown => IInv /\ BranchesInOrder) /\ ContractNeverAborts)
<1>1. FailureInv => (~thrown => IInv /\ BranchesInOrder) /\ ContractNeverAborts
  BY OrderOfBranch DEF FailureInv, Abandoned, CollectInv, OrderInv, LegalInv, ContractNeverAborts
<1> QED
  BY <1>1, FailureInvariance, PTL

-----------------------------------------------------------------------------
(* The places of the DB trie.                                              *)

\* A branch is where entries part; what is below a place decides that.
LEMMA BranchIs ==
  ASSUME NEW E, NEW depth \in Nat, HasTrie(E, depth), NEW p
  PROVE  p \in Branches(E) <=> p \in Places(E) /\ Parted(E, p)
BY DEF Branches

\* Where no entry is there are no digits.
LEMMA DigitsAgree ==
  ASSUME NEW E, NEW G, NEW p, Below(E, p) = Below(G, p)
  PROVE  DigitsAt(E, p) = DigitsAt(G, p) /\ (Parted(E, p) <=> Parted(G, p))
BY DEF DigitsAt, Parted

\* Whether a place is hashed depends on the entries below it.
LEMMA HashedIsLocal ==
  ASSUME NEW E, NEW G, NEW depth \in Nat, HasTrie(E, depth), HasTrie(G, depth),
         NEW p \in Seq(Nat), Below(E, p) = Below(G, p)
  PROVE  Hashed(E, p) <=> Hashed(G, p)
<1>1. p \in Branches(E) <=> p \in Branches(G)
  BY PlaceIs, DigitsAgree, BranchIs
<1>2. \A e : e \in E /\ e.key = p <=> e \in Below(E, p) /\ e.key = p
  BY LenProperties DEF Below, starts_with
<1>3. \A e : e \in G /\ e.key = p <=> e \in Below(G, p) /\ e.key = p
  BY LenProperties DEF Below, starts_with
<1> QED
  BY <1>1, <1>2, <1>3 DEF Hashed

\* So does the hash mask of a place.
LEMMA HashMaskIsLocal ==
  ASSUME NEW E, NEW G, NEW depth \in Nat, HasTrie(E, depth), HasTrie(G, depth),
         NEW p \in Places(E), Below(E, p) = Below(G, p)
  PROVE  HashMask(E, p) = HashMask(G, p)
<1>1. p \in Seq(Nat)
  BY PlaceIs
<1>2. DigitsAt(E, p) = DigitsAt(G, p)
  BY DigitsAgree
<1>3. ASSUME NEW d \in DigitsAt(E, p)
      PROVE  Hashed(E, Append(p, d)) <=> Hashed(G, Append(p, d))
  <2>1. d \in Nat
    BY PlaceOfDigit
  <2>2. Append(p, d) \in Seq(Nat) /\ starts_with(Append(p, d), p)
    BY <1>1, <2>1, BeginsWithDigit
  <2>3. Below(E, Append(p, d)) = Below(G, Append(p, d))
    BY <1>1, <2>2, AgreeBelow
  <2> QED
    BY <2>2, <2>3, HashedIsLocal
<1> QED
  BY <1>2, <1>3 DEF HashMask

\* Whether there is a stored node below a place depends on what is below it.
LEMMA StoredIsLocal ==
  ASSUME NEW E, NEW G, NEW depth \in Nat, HasTrie(E, depth), HasTrie(G, depth),
         NEW p \in Seq(Nat), Below(E, p) = Below(G, p), NEW old, NEW new,
         \A k : starts_with(k, p) => (k \in old <=> k \in new)
  PROVE  Stored(E, old, p) <=> Stored(G, new, p)
<1>1. ASSUME NEW q, starts_with(q, p)
      PROVE  /\ q \in Branches(E) <=> q \in Branches(G)
             /\ q \in Branches(E) => HashMask(E, q) = HashMask(G, q)
  <2>1. CASE q \in Seq(Nat)
    <3>1. Below(E, q) = Below(G, q)
      BY <1>1, <2>1, AgreeBelow
    <3>2. q \in Places(E) <=> q \in Places(G)
      BY <3>1, PlaceIs
    <3> QED
      BY <3>1, <3>2, BranchIs, DigitsAgree, HashMaskIsLocal
  <2>2. CASE q \notin Seq(Nat)
    BY <2>2, PlaceIs, BranchIs
  <2> QED
    BY <2>1, <2>2
<1> QED
  BY <1>1, Zenon DEF Stored

\* A place that a key begins with, and what goes on from it.
LEMMA NextDigit ==
  ASSUME NEW E, NEW depth \in Nat, HasTrie(E, depth), NEW p \in Places(E),
         NEW e \in Below(E, p), Len(e.key) > Len(p)
  PROVE  \E d \in DigitsAt(E, p) : starts_with(e.key, Append(p, d))
<1>1. p \in Seq(Nat) /\ Len(p) \in Nat /\ e \in E /\ starts_with(e.key, p) /\ e.key \in Seq(Nat)
      /\ Len(e.key) \in Nat
  BY PlaceIs, LenProperties DEF Below, HasTrie
<1>2. e.key[Len(p) + 1] \in DigitsAt(E, p)
  BY Zenon DEF DigitsAt
<1>3. e.key[Len(p) + 1] \in Nat
  BY <1>2, PlaceOfDigit
<1>4. starts_with(e.key, Append(p, e.key[Len(p) + 1]))
  BY <1>1, <1>3, BeginsWithDigit
<1> QED
  BY <1>2, <1>4

\* A place below another goes on from it with one of its digits.
LEMMA PlaceOnward ==
  ASSUME NEW E, NEW depth \in Nat, HasTrie(E, depth), NEW p \in Places(E),
         NEW q \in Places(E), starts_with(q, p), q # p
  PROVE  \E d \in DigitsAt(E, p) : starts_with(q, Append(p, d))
<1>1. p \in Seq(Nat) /\ Len(p) \in Nat /\ q \in Seq(Nat) /\ Len(q) \in Nat /\ Below(E, q) # {}
  BY PlaceIs, LenProperties
<1>2. PICK e \in E : starts_with(e.key, q)
  BY <1>1 DEF Below
<1>3. e.key \in Seq(Nat) /\ Len(e.key) \in Nat /\ Len(q) <= Len(e.key)
  BY <1>2, LenProperties DEF HasTrie, starts_with
<1>4. starts_with(e.key, p)
  BY <1>1, <1>2, <1>3, PrefixTransitive
<1>5. starts_with(q, q) /\ Len(p) < Len(q)
  <2>1. starts_with(q, q) /\ Len(p) <= Len(q)
    BY <1>1 DEF starts_with
  <2>2. Len(p) # Len(q)
    BY <1>1, <2>1, PrefixesNest
  <2> QED
    BY <1>1, <2>1, <2>2
<1>6. e \in Below(E, p) /\ Len(e.key) > Len(p)
  BY <1>1, <1>2, <1>3, <1>4, <1>5 DEF Below
<1>7. PICK d \in DigitsAt(E, p) : starts_with(e.key, Append(p, d))
  BY <1>6, NextDigit
<1>8. Append(p, d) \in Seq(Nat) /\ Len(Append(p, d)) = Len(p) + 1
  <2>1. d \in Nat
    BY PlaceOfDigit
  <2> QED
    BY <1>1, <2>1, BeginsWithDigit
<1>9. starts_with(q, Append(p, d))
  <2>1. PICK r \in Seq(Nat) : r = Append(p, d) /\ Len(r) = Len(p) + 1
    BY <1>8
  <2>2. starts_with(e.key, r) /\ Len(r) <= Len(q)
    BY <1>1, <1>5, <1>7, <2>1
  <2>3. starts_with(q, r)
    BY <1>1, <1>2, <1>3, <2>2, PrefixesNest
  <2> QED
    BY <2>1, <2>3
<1> QED
  BY <1>9

\* There is a stored node below a branch exactly if its own node is stored.
LEMMA StoredAtBranch ==
  ASSUME NEW E, NEW depth \in Nat, HasTrie(E, depth), NEW p \in Branches(E),
         NEW in_db, \A k \in in_db : \E e \in E : e.key = k
  PROVE  Stored(E, in_db, p) <=> HashMask(E, p) \cup TreeMask(E, in_db, p) # {}
<1>1. /\ p \in Places(E) /\ Parted(E, p) /\ p \in Seq(Nat)
      /\ \A e \in Below(E, p) : Len(e.key) > Len(p)
  BY BranchIs, PartedIs, PlaceIs
<1>2. ASSUME NEW k \in in_db, starts_with(k, p)
      PROVE  TreeMask(E, in_db, p) # {}
  <2>1. PICK e \in E : e.key = k
    OBVIOUS
  <2>2. e \in Below(E, p)
    BY <1>2, <2>1 DEF Below
  <2>3. PICK d \in DigitsAt(E, p) : starts_with(k, Append(p, d))
    BY <1>1, <2>1, <2>2, NextDigit
  <2> QED
    BY <2>3 DEF TreeMask, Stored
<1>3. ASSUME NEW q \in Branches(E), starts_with(q, p), HashMask(E, q) # {}
      PROVE  HashMask(E, p) \cup TreeMask(E, in_db, p) # {}
  <2>1. CASE q = p
    BY <1>3, <2>1
  <2>2. CASE q # p
    <3>1. q \in Places(E)
      BY BranchIs
    <3>2. PICK d \in DigitsAt(E, p) : starts_with(q, Append(p, d))
      BY <1>1, <1>3, <2>2, <3>1, PlaceOnward
    <3>3. d \in TreeMask(E, in_db, p)
      BY <1>3, <3>2 DEF TreeMask, Stored
    <3> QED
      BY <3>3
  <2> QED
    BY <2>1, <2>2
<1>4. ASSUME HashMask(E, p) # {}
      PROVE  Stored(E, in_db, p)
  <2>1. starts_with(p, p)
    BY <1>1, LenProperties DEF starts_with
  <2> QED
    BY <1>4, <2>1 DEF Stored
<1>5. ASSUME NEW d \in TreeMask(E, in_db, p)
      PROVE  Stored(E, in_db, p)
  <2>1. Append(p, d) \in Seq(Nat) /\ starts_with(Append(p, d), p) /\ Stored(E, in_db, Append(p, d))
    <3>1. d \in DigitsAt(E, p) /\ Stored(E, in_db, Append(p, d))
      BY DEF TreeMask
    <3>2. d \in Nat
      BY <1>1, <3>1, PlaceOfDigit
    <3> QED
      BY <1>1, <3>1, <3>2, BeginsWithDigit
  <2>2. ASSUME NEW k \in in_db, starts_with(k, Append(p, d))
        PROVE  starts_with(k, p)
    <3>1. k \in Seq(Nat)
      BY DEF HasTrie
    <3> QED
      BY <1>1, <2>1, <2>2, <3>1, PrefixTransitive
  <2>3. ASSUME NEW q \in Branches(E), starts_with(q, Append(p, d))
        PROVE  starts_with(q, p)
    <3>1. q \in Seq(Nat)
      BY BranchIs, PlaceIs
    <3> QED
      BY <1>1, <2>1, <2>3, <3>1, PrefixTransitive
  <2> QED
    BY <2>1, <2>2, <2>3, Zenon DEF Stored
<1>6. ASSUME Stored(E, in_db, p)
      PROVE  HashMask(E, p) \cup TreeMask(E, in_db, p) # {}
  BY <1>2, <1>3, <1>6 DEF Stored
<1> QED
  BY <1>4, <1>5, <1>6

\* Where all entries go on to a longer place, the place in between is not hashed, and what
\* is stored below it is stored below the longer one.
LEMMA OnTheWay ==
  ASSUME NEW E, NEW depth \in Nat, HasTrie(E, depth), NEW p \in Places(E), NEW q \in Places(E),
         starts_with(q, p), p # q, Below(E, p) = Below(E, q),
         NEW in_db, \A k \in in_db : \E e \in E : e.key = k
  PROVE  ~Hashed(E, p) /\ (Stored(E, in_db, p) <=> Stored(E, in_db, q))
<1>1. /\ p \in Seq(Nat) /\ q \in Seq(Nat) /\ Len(p) \in Nat /\ Len(q) \in Nat
      /\ starts_with(q, q)
  BY PlaceIs, LenProperties DEF starts_with
<1>2. Len(p) < Len(q)
  <2>1. Len(p) <= Len(q)
    BY DEF starts_with
  <2> QED
    BY <1>1, <2>1, PrefixesNest
<1>3. \A e \in Below(E, p) : /\ e.key \in Seq(Nat) /\ Len(e.key) \in Nat /\ Len(q) <= Len(e.key)
                             /\ starts_with(e.key, q) /\ e \in E
  BY LenProperties DEF Below, HasTrie, starts_with
<1>4. ~Parted(E, p)
  <2>1. ASSUME NEW d \in DigitsAt(E, p)
        PROVE  d = q[Len(p) + 1]
    <3>1. PICK e \in Below(E, p) : Len(e.key) > Len(p) /\ d = e.key[Len(p) + 1]
      BY <2>1 DEF DigitsAt
    <3>2. Len(p) + 1 \in 1..Len(q)
      BY <1>1, <1>2
    <3> QED
      BY <1>3, <3>1, <3>2 DEF starts_with
  <2> QED
    BY <2>1 DEF Parted
<1>5. ~Hashed(E, p)
  <2>1. ASSUME NEW e \in E, e.key = p
        PROVE  FALSE
    <3>1. e \in Below(E, p)
      BY <1>1, <2>1, LenProperties DEF Below, starts_with
    <3> QED
      BY <1>1, <1>2, <1>3, <2>1, <3>1
  <2> QED
    BY <1>4, <2>1 DEF Hashed, Branches
<1>6. ASSUME NEW k \in in_db
      PROVE  starts_with(k, p) <=> starts_with(k, q)
  <2>1. PICK e \in E : e.key = k
    OBVIOUS
  <2>2. e \in Below(E, p) <=> e \in Below(E, q)
    OBVIOUS
  <2> QED
    BY <2>1, <2>2 DEF Below
<1>7. ASSUME NEW r \in Branches(E)
      PROVE  starts_with(r, p) <=> starts_with(r, q)
  <2>1. r \in Places(E) /\ r \in Seq(Nat) /\ Len(r) \in Nat /\ Below(E, r) # {} /\ Parted(E, r)
    BY BranchIs, PlaceIs, LenProperties
  <2>2. starts_with(r, q) => starts_with(r, p)
    BY <1>1, <2>1, PrefixTransitive
  <2>3. ASSUME starts_with(r, p)
        PROVE  starts_with(r, q)
    <3>1. PICK e \in E : starts_with(e.key, r)
      BY <2>1 DEF Below
    <3>2. e.key \in Seq(Nat)
      BY DEF HasTrie
    <3>3. starts_with(e.key, p)
      BY <1>1, <2>1, <2>3, <3>1, <3>2, PrefixTransitive
    <3>4. starts_with(e.key, q)
      BY <1>3, <3>3 DEF Below
    <3>5. CASE Len(q) <= Len(r)
      BY <1>1, <2>1, <3>1, <3>2, <3>4, <3>5, PrefixesNest
    <3>6. CASE Len(r) < Len(q)
      <4>1. ASSUME NEW g \in E, starts_with(g.key, r)
            PROVE  Len(r) + 1 \in 1..Len(q) /\ g.key[Len(r) + 1] = q[Len(r) + 1]
        <5>1. starts_with(g.key, p)
          <6>1. g.key \in Seq(Nat)
            BY DEF HasTrie
          <6> QED
            BY <1>1, <2>1, <2>3, <4>1, <6>1, PrefixTransitive
        <5>2. starts_with(g.key, q)
          BY <1>3, <5>1 DEF Below
        <5>3. Len(r) + 1 \in 1..Len(q)
          BY <1>1, <2>1, <3>6
        <5> QED
          BY <5>2, <5>3 DEF starts_with
      <4>2. ~Parted(E, r)
        BY <4>1 DEF Parted, DigitsAt, Below
      <4> QED
        BY <2>1, <4>2
    <3> QED
      BY <1>1, <2>1, <3>5, <3>6
  <2> QED
    BY <2>2, <2>3
<1> QED
  BY <1>5, <1>6, <1>7, Zenon DEF Stored

\* A single entry is hashed where its key ends, if at all, and is stored if it is in the DB.
LEMMA SingleEntry ==
  ASSUME NEW E, NEW depth \in Nat, HasTrie(E, depth), NEW p \in Places(E),
         NEW e \in E, Below(E, p) = {e}, NEW in_db, \A k \in in_db : \E g \in E : g.key = k
  PROVE  /\ Hashed(E, p) <=> e.key = p /\ e.value.tag = "hash"
         /\ Stored(E, in_db, p) <=> e.key \in in_db
<1>1. p \in Seq(Nat) /\ Len(p) \in Nat /\ e.key \in Seq(Nat) /\ starts_with(e.key, p)
  BY PlaceIs, LenProperties DEF HasTrie, Below
<1>2. ASSUME NEW q \in Seq(Nat), starts_with(q, p), q \in Branches(E)
      PROVE  FALSE
  <2>1. Below(E, q) \subseteq {e}
    <3>1. ASSUME NEW g \in Below(E, q)
          PROVE  g \in Below(E, p)
      <4>1. g \in E /\ g.key \in Seq(Nat) /\ starts_with(g.key, q)
        BY DEF Below, HasTrie
      <4>2. starts_with(g.key, p)
        BY <1>1, <1>2, <4>1, PrefixTransitive
      <4> QED
        BY <4>1, <4>2 DEF Below
    <3> QED
      BY <3>1
  <2>2. ~Parted(E, q)
    BY <2>1 DEF Parted, DigitsAt
  <2> QED
    BY <1>2, <2>2, BranchIs
<1>3. starts_with(p, p)
  BY <1>1 DEF starts_with
<1>4. \A g \in E : g.key = p => g = e
  BY <1>3 DEF Below
<1>5. \A k \in in_db : starts_with(k, p) => k = e.key
  BY DEF Below
<1>6. \A q \in Branches(E) : q \in Seq(Nat)
  BY BranchIs, PlaceIs
<1>7. p \notin Branches(E)
  BY <1>1, <1>2, <1>3
<1>8. \A q \in Branches(E) : ~starts_with(q, p)
  BY <1>2, <1>6
<1> QED
  BY <1>1, <1>4, <1>5, <1>7, <1>8 DEF Hashed, Stored

\* The node at a branch, and whether it is stored, depends on what is below it.
LEMMA DbNodeIsLocal ==
  ASSUME NEW E, NEW G, NEW depth \in Nat, HasTrie(E, depth), HasTrie(G, depth),
         NEW p \in Branches(E), Below(E, p) = Below(G, p), NEW old, NEW new,
         \A k : starts_with(k, p) => (k \in old <=> k \in new),
         \A k \in old : k \in Seq(Nat), \A k \in new : k \in Seq(Nat)
  PROVE  /\ p \in Branches(G)
         /\ p \in DbPlaces(E, old) <=> p \in DbPlaces(G, new)
         /\ DbNode(E, old, p) = DbNode(G, new, p)
<1>1. p \in Places(E) /\ Parted(E, p) /\ p \in Seq(Nat)
  BY BranchIs, PlaceIs
<1>2. /\ DigitsAt(E, p) = DigitsAt(G, p) /\ Parted(G, p) /\ p \in Places(G)
      /\ HashMask(E, p) = HashMask(G, p)
  BY <1>1, DigitsAgree, HashMaskIsLocal, PlaceIs
<1>3. p \in Branches(G)
  BY <1>2, BranchIs
<1>4. ASSUME NEW d \in DigitsAt(E, p)
      PROVE  /\ Stored(E, old, Append(p, d)) <=> Stored(G, new, Append(p, d))
             /\ Reference(E, Append(p, d)) = Reference(G, Append(p, d))
  <2>1. d \in Nat /\ Append(p, d) \in Places(E)
    BY <1>1, PlaceOfDigit
  <2>2. Append(p, d) \in Seq(Nat) /\ starts_with(Append(p, d), p)
    BY <1>1, <2>1, BeginsWithDigit
  <2>3. Below(E, Append(p, d)) = Below(G, Append(p, d))
    BY <1>1, <2>2, AgreeBelow
  <2>4. \A k : starts_with(k, Append(p, d)) => (k \in old <=> k \in new)
    <3>1. \A k : k \in Seq(Nat) /\ starts_with(k, Append(p, d)) => starts_with(k, p)
      BY <1>1, <2>2, PrefixTransitive
    <3> QED
      BY <3>1
  <2> QED
    BY <2>1, <2>2, <2>3, <2>4, StoredIsLocal, ReferenceIsLocal
<1>5. TreeMask(E, old, p) = TreeMask(G, new, p)
  BY <1>2, <1>4 DEF TreeMask
<1>6. p \in DbPlaces(E, old) <=> p \in DbPlaces(G, new)
  BY <1>2, <1>3, <1>5 DEF DbPlaces
<1>7. [d \in HashMask(E, p) |-> Reference(E, Append(p, d)).item.hash] =
      [d \in HashMask(G, p) |-> Reference(G, Append(p, d)).item.hash]
  <2>1. \A d \in HashMask(E, p) : d \in DigitsAt(E, p)
    BY DEF HashMask
  <2> QED
    BY <1>2, <1>4, <2>1
<1>8. p = <<>> => Root(E) = Root(G)
  <2>1. ASSUME NEW k \in Seq(Nat)
        PROVE  starts_with(k, <<>>)
    BY <2>1, LenProperties DEF starts_with
  <2>2. \A e \in E \cup G : e.key \in Seq(Nat)
    BY DEF HasTrie
  <2>3. Below(E, <<>>) = E /\ Below(G, <<>>) = G
    BY <2>1, <2>2 DEF Below
  <2> QED
    BY <2>3
<1>9. DbNode(E, old, p) = DbNode(G, new, p)
  BY <1>2, <1>5, <1>7, <1>8, Zenon DEF DbNode
<1> QED
  BY <1>3, <1>6, <1>9

-----------------------------------------------------------------------------
(* Vectors of masks that flag the places of a set.                         *)

\* Of the digits a path may have, a mask flags those that lead to one of the places.
Flags(masks, path, digits, places) ==
  \A i \in 1..Len(masks) :
    masks[i] = {d \in digits[i] : Append(SubSeq(path, 1, i - 1), d) \in places}

\* Cutting masks off, or adding masks for no digits.
LEMMA FlagsResized ==
  ASSUME NEW masks \in Seq(Mask), NEW path, NEW digits, NEW places,
         Flags(masks, path, digits, places), NEW n \in Nat,
         \A i \in 1..n : i > Len(masks) => digits[i] = {}
  PROVE  Flags(resize(masks, n), path, digits, places)
<1>1. Len(masks) \in Nat
  BY LenProperties
<1>2. PICK more : more = resize(masks, n)
  OBVIOUS
<1>3. Len(more) = n /\ \A i \in 1..n : more[i] = IF i <= Len(masks) THEN masks[i] ELSE {}
  BY <1>2, ResizeProperties
<1>4. ASSUME NEW i \in 1..n
      PROVE  more[i] = {d \in digits[i] : Append(SubSeq(path, 1, i - 1), d) \in places}
  <2>1. CASE i <= Len(masks)
    BY <1>1, <1>3, <2>1 DEF Flags
  <2>2. CASE i > Len(masks)
    BY <1>1, <1>3, <2>2
  <2> QED
    BY <1>1, <2>1, <2>2
<1> QED
  BY <1>2, <1>3, <1>4 DEF Flags

\* One digit more, flagged if it leads to one of the places.
LEMMA FlagsSet ==
  ASSUME NEW masks \in Seq(Mask), NEW path, NEW digits, NEW more, NEW places,
         Flags(masks, path, digits, places), NEW n \in 1..Len(masks), NEW digit \in Digit,
         \A i \in 1..Len(masks) : more[i] = digits[i] \cup (IF i = n THEN {digit} ELSE {})
  PROVE  /\ Append(SubSeq(path, 1, n - 1), digit) \in places =>
              Flags(set_digit(masks, n, digit), path, more, places)
         /\ Append(SubSeq(path, 1, n - 1), digit) \notin places =>
              Flags(masks, path, more, places)
<1>1. PICK grown : grown = set_digit(masks, n, digit)
  OBVIOUS
<1>2. Len(grown) = Len(masks)
      /\ \A i \in 1..Len(masks) : grown[i] = IF i = n THEN masks[i] \cup {digit} ELSE masks[i]
  <2>1. /\ Len(set_digit(masks, n, digit)) = Len(masks)
        /\ \A i \in 1..Len(masks) :
             set_digit(masks, n, digit)[i] = IF i = n THEN masks[i] \cup {digit} ELSE masks[i]
    BY SetDigitProperties, Zenon
  <2> QED
    BY <1>1, <2>1
<1>3. ASSUME NEW i \in 1..Len(masks)
      PROVE  /\ Append(SubSeq(path, 1, n - 1), digit) \in places =>
                  grown[i] = {d \in more[i] : Append(SubSeq(path, 1, i - 1), d) \in places}
             /\ Append(SubSeq(path, 1, n - 1), digit) \notin places =>
                  masks[i] = {d \in more[i] : Append(SubSeq(path, 1, i - 1), d) \in places}
  <2>1. masks[i] = {d \in digits[i] : Append(SubSeq(path, 1, i - 1), d) \in places}
    BY DEF Flags
  <2>2. CASE i = n
    <3>1. more[i] = digits[i] \cup {digit} /\ grown[i] = masks[i] \cup {digit}
      BY <1>2, <2>2
    <3> QED
      BY <2>1, <2>2, <3>1
  <2>3. CASE i # n
    <3>1. more[i] = digits[i] /\ grown[i] = masks[i]
      BY <1>2, <2>3
    <3> QED
      BY <2>1, <3>1
  <2> QED
    BY <2>2, <2>3
<1> QED
  BY <1>1, <1>2, <1>3 DEF Flags

\* A digit that is not flagged can be cleared.
LEMMA FlagsCleared ==
  ASSUME NEW masks \in Seq(Mask), NEW path, NEW digits, NEW places,
         Flags(masks, path, digits, places), NEW n \in 1..Len(masks), NEW digit \in Digit,
         Append(SubSeq(path, 1, n - 1), digit) \notin places
  PROVE  Flags(clear_digit(masks, n, digit), path, digits, places)
<1>1. PICK less : less = clear_digit(masks, n, digit)
  OBVIOUS
<1>2. Len(less) = Len(masks)
      /\ \A i \in 1..Len(masks) : less[i] = IF i = n THEN masks[i] \ {digit} ELSE masks[i]
  <2>1. /\ Len(clear_digit(masks, n, digit)) = Len(masks)
        /\ \A i \in 1..Len(masks) :
             clear_digit(masks, n, digit)[i] = IF i = n THEN masks[i] \ {digit} ELSE masks[i]
    BY ClearDigitProperties, Zenon
  <2> QED
    BY <1>1, <2>1
<1>3. ASSUME NEW i \in 1..Len(masks)
      PROVE  less[i] = {d \in digits[i] : Append(SubSeq(path, 1, i - 1), d) \in places}
  <2>1. masks[i] = {d \in digits[i] : Append(SubSeq(path, 1, i - 1), d) \in places}
    BY DEF Flags
  <2>2. i = n => digit \notin masks[i]
    BY <2>1
  <2> QED
    BY <1>2, <2>1, <2>2
<1> QED
  BY <1>1, <1>2, <1>3 DEF Flags

-----------------------------------------------------------------------------
(* What the masks and the collected nodes have to do with the trie.        *)

\* The places with a hashed subtrie ...
HashedPlaces == {p \in Seq(Nat) : Hashed(Added, p)}

\* ... and those with a stored node at or below them.
StoredPlaces == {p \in Seq(Nat) : Stored(Added, InDb, p)}

\* The digits with a complete subtrie, position by position.
CompleteDigits == [i \in Nat |-> Complete(i)]

\* FlagsOfTrie by these names.
LEMMA FlagsAre ==
  ASSUME TypeOK, along \in Seq(Digit), Len(groups_) <= Len(along), build_extensions => along # <<>>
  PROVE  FlagsOfTrie <=>
           (node_collector /\ key_ # <<>> /\ pc # "aborted" =>
              /\ Len(groups_) <= Len(hash_masks_)
              /\ build_extensions => Len(along) <= Len(hash_masks_)
              /\ Flags(hash_masks_, along, CompleteDigits, HashedPlaces)
              /\ Flags(tree_masks_, along, CompleteDigits, StoredPlaces))
<1>1. /\ hash_masks_ \in Seq(Mask) /\ tree_masks_ \in Seq(Mask) /\ groups_ \in Seq(Mask)
      /\ Len(tree_masks_) = Len(hash_masks_) /\ along \in Seq(Nat) /\ Len(along) \in Nat
      /\ Len(hash_masks_) \in Nat /\ Len(groups_) \in Nat /\ build_extensions \in BOOLEAN
  <2>1. Digit \subseteq Nat
    BY DEF Digit
  <2>2. along \in Seq(Nat)
    BY <2>1, SeqMonotonic
  <2> QED
    BY <2>2, LenProperties DEF TypeOK
<1>2. DOMAIN hash_masks_ = 1..Len(hash_masks_) /\ 1..Len(hash_masks_) \subseteq Nat
  BY <1>1, LenProperties
<1>3. \A i \in 1..Len(hash_masks_) : Complete(i) = CompleteDigits[i]
  BY <1>2 DEF CompleteDigits
<1>4. ASSUME NEW i \in 1..Len(hash_masks_), NEW d \in Complete(i)
      PROVE  Append(SubSeq(along, 1, i - 1), d) \in Seq(Nat)
  <2>1. i \in 1..Len(along) /\ d \in Nat
    <3>1. CASE i <= Len(groups_) /\ d \in groups_[i]
      <4>1. i \in 1..Len(groups_) /\ i \in 1..Len(along)
        BY <1>1, <1>2, <3>1
      <4>2. groups_[i] \in Mask
        BY <1>1, <4>1, ElementOfSeq
      <4> QED
        BY <3>1, <4>1, <4>2 DEF Mask, Digit
    <3>2. CASE i = Len(along) /\ d = along[i] /\ along # <<>>
      <4>1. i \in 1..Len(along)
        BY <1>1, <3>2, EmptySeq
      <4> QED
        BY <1>1, <3>2, <4>1, ElementOfSeq
    <3> QED
      BY <3>1, <3>2 DEF Complete
  <2>2. i - 1 \in 0..Len(along)
    BY <1>1, <2>1
  <2>3. SubSeq(along, 1, i - 1) \in Seq(Nat)
    BY <1>1, <2>2, CutIsPrefix
  <2> QED
    BY <2>1, <2>3, AppendProperties
<1>5. ASSUME NEW i \in 1..Len(hash_masks_)
      PROVE  /\ {d \in Complete(i) : Hashed(Added, Append(SubSeq(along, 1, i - 1), d))} =
                {d \in CompleteDigits[i] : Append(SubSeq(along, 1, i - 1), d) \in HashedPlaces}
             /\ {d \in Complete(i) : Stored(Added, InDb, Append(SubSeq(along, 1, i - 1), d))} =
                {d \in CompleteDigits[i] : Append(SubSeq(along, 1, i - 1), d) \in StoredPlaces}
  BY <1>3, <1>4 DEF HashedPlaces, StoredPlaces
<1> QED
  BY <1>1, <1>2, <1>5, Zenon DEF FlagsOfTrie, Flags

\* What is known of the builder between two steps, the collector's part included.
DbInv == RootInv /\ CollectInv /\ FlagsOfTrie /\ CollectedSoFar /\ PendingFits

\* The keys marked as in the DB are keys of known hashes, and the pending entry's is one
\* of them exactly if is_in_db_trie_ says so.
LEMMA InDbIs ==
  ASSUME RootInv, PendingFits, NEW depth \in Nat, HasTrie(Added, depth)
  PROVE  /\ \A k \in InDb : \E e \in Added : e.key = k /\ e.value.tag = "hash"
         /\ \A k \in InDb : k \in Seq(Nat)
         /\ key_ # <<>> => (key_ \in InDb <=> value_.tag = "hash" /\ is_in_db_trie_)
<1>1. TypeOK /\ LastEntryPending /\ EntriesFit
  BY DEF RootInv, LegalInv, IInv
<1>2. \A k \in InDb : \E e \in Added : e.key = k /\ e.value.tag = "hash"
  <2>1. ASSUME NEW k \in InDb
        PROVE  \E e \in Added : e.key = k /\ e.value.tag = "hash"
    <3>1. PICK i \in DOMAIN entries : k = entries[i].key /\ entries[i].value.tag = "hash"
      BY DEF InDb
    <3>2. PICK e : e = [key |-> entries[i].key, value |-> entries[i].value]
      OBVIOUS
    <3>3. e \in Added
      BY <3>2 DEF Added
    <3> QED
      BY <3>1, <3>2, <3>3
  <2> QED
    BY <2>1
<1>3. \A k \in InDb : k \in Seq(Nat)
  BY <1>2 DEF HasTrie
<1>4. ASSUME key_ # <<>>
      PROVE  key_ \in InDb <=> value_.tag = "hash" /\ is_in_db_trie_
  <2>1. PICK e \in Added : e.key = key_ /\ e.value = value_
    BY <1>1, <1>4, PendingEntry
  <2>2. \A g \in Added : g.key = key_ => g = e
    <3>1. key_ \in Seq(Nat)
      BY <1>1, KeysAreSequences
    <3>2. starts_with(key_, key_)
      BY <3>1, LenProperties DEF starts_with
    <3> QED
      BY <2>1, <3>2 DEF HasTrie
  <2>3. key_ \in InDb => value_.tag = "hash"
    BY <1>2, <2>1, <2>2
  <2> QED
    BY <1>4, <2>3 DEF PendingFits
<1> QED
  BY <1>2, <1>3, <1>4

\* FlagsOfTrie at the beginning of an iteration.
LEMMA OpenFlags ==
  ASSUME RootInv, FlagsOfTrie, Iterating, node_collector
  PROVE  /\ Len(groups_) <= Len(hash_masks_)
         /\ build_extensions => Len(current) <= Len(hash_masks_)
         /\ Flags(hash_masks_, current, CompleteDigits, HashedPlaces)
         /\ Flags(tree_masks_, current, CompleteDigits, StoredPlaces)
         /\ \A i \in Nat : CompleteDigits[i] =
                             IF build_extensions THEN OpenDigits[i] ELSE GroupDigits[i]
<1>1. TypeOK /\ CallInProgress /\ pc = "gen_struct_step" /\ along = current
  BY DEF RootInv, LegalInv, IInv, Iterating, along
<1>2. /\ along \in Seq(Digit) /\ Len(groups_) <= Len(along) /\ along # <<>> /\ key_ # <<>>
      /\ pc # "aborted"
  BY <1>1 DEF CallInProgress, TypeOK
<1>3. \A i \in Nat : CompleteDigits[i] =
                       IF build_extensions THEN OpenDigits[i] ELSE GroupDigits[i]
  BY <1>1 DEF CompleteDigits, Complete, OpenDigits, GroupDigits
<1> QED
  BY <1>1, <1>2, <1>3, FlagsAre

\* Growing the masks adds masks for no digits.
LEMMA GrownFlags ==
  ASSUME RootInv, FlagsOfTrie, Iterating, node_collector,
         NEW masks, masks = hash_masks_ \/ masks = tree_masks_,
         NEW places, Flags(masks, current, CompleteDigits, places),
         NEW grown, grown = masks_grown(masks)
  PROVE  /\ Flags(grown, current, CompleteDigits, places)
         /\ grown \in Seq(Mask) /\ Len(grown) \in Nat /\ Len(grown) >= Len(current)
<1>1. /\ masks \in Seq(Mask) /\ Len(masks) \in Nat /\ Len(masks) = Len(tree_masks_)
      /\ Len(masks) = Len(hash_masks_) /\ current \in Seq(Nat) /\ Len(current) \in Nat
      /\ groups_ \in Seq(Mask) /\ Len(groups_) \in Nat /\ build_extensions \in BOOLEAN
  BY KeysAreSequences, LenProperties DEF Iterating, TypeOK
<1>2. CASE Len(tree_masks_) < Len(current)
  <2>1. grown = resize(masks, Len(current))
    BY <1>2 DEF masks_grown
  <2>2. ASSUME NEW i \in 1..Len(current), i > Len(masks)
        PROVE  CompleteDigits[i] = {}
    <3>1. /\ Len(groups_) <= Len(hash_masks_)
          /\ build_extensions => Len(current) <= Len(hash_masks_)
          /\ \A n \in Nat : CompleteDigits[n] =
                              IF build_extensions THEN OpenDigits[n] ELSE GroupDigits[n]
      BY OpenFlags
    <3>2. ~build_extensions /\ i \in Nat /\ ~(i <= Len(groups_))
      BY <1>1, <1>2, <2>2, <3>1
    <3> QED
      BY <3>1, <3>2 DEF GroupDigits
  <2>3. resize(masks, Len(current)) \in Seq(Mask) /\ Len(resize(masks, Len(current))) = Len(current)
    BY <1>1, ResizeProperties
  <2>4. Flags(resize(masks, Len(current)), current, CompleteDigits, places)
    BY <1>1, <2>2, FlagsResized
  <2> QED
    BY <1>1, <2>1, <2>3, <2>4
<1>3. CASE ~(Len(tree_masks_) < Len(current))
  <2>1. grown = masks
    BY <1>3 DEF masks_grown
  <2> QED
    BY <1>1, <1>3, <2>1
<1> QED
  BY <1>2, <1>3

\* The pending entry is pushed: a known hash is flagged at the end of its own key.
LEMMA PushedFlags ==
  ASSUME DbInv, Iterating, node_collector, NEW depth \in Nat, HasTrie(Added, depth)
  PROVE  /\ pushes_leaf =>
              /\ Flags(hash_masks_pushed, current, GroupDigits, HashedPlaces)
              /\ Flags(tree_masks_pushed, current, GroupDigits, StoredPlaces)
         /\ ~pushes_leaf =>
              /\ Flags(hash_masks_pushed, current, OpenDigits, HashedPlaces)
              /\ Flags(tree_masks_pushed, current, OpenDigits, StoredPlaces)
<1>1. RootInv /\ FlagsOfTrie /\ PendingFits /\ TypeOK /\ CallInProgress
  BY DEF DbInv, RootInv, LegalInv, IInv
<1>2. PICK hash : hash = masks_grown(hash_masks_)
  OBVIOUS
<1>3. PICK tree : tree = masks_grown(tree_masks_)
  OBVIOUS
<1>4. /\ Flags(hash_masks_, current, CompleteDigits, HashedPlaces)
      /\ Flags(tree_masks_, current, CompleteDigits, StoredPlaces)
      /\ \A i \in Nat : CompleteDigits[i] =
                          IF build_extensions THEN OpenDigits[i] ELSE GroupDigits[i]
  BY <1>1, OpenFlags
<1>5. /\ Flags(hash, current, CompleteDigits, HashedPlaces)
      /\ hash \in Seq(Mask) /\ Len(hash) \in Nat /\ Len(hash) >= Len(current)
  BY <1>1, <1>2, <1>4, GrownFlags
<1>6. /\ Flags(tree, current, CompleteDigits, StoredPlaces)
      /\ tree \in Seq(Mask) /\ Len(tree) \in Nat /\ Len(tree) >= Len(current)
  BY <1>1, <1>3, <1>4, GrownFlags
<1>7. /\ \A i \in 1..Len(hash) : i \in Nat
      /\ \A i \in 1..Len(tree) : i \in Nat
  BY <1>5, <1>6
<1>8. build_extensions \in BOOLEAN /\ value_.tag \in {"leaf", "hash"}
  BY <1>1 DEF TypeOK, Value
<1>9. CASE build_extensions
  <2>1. ~pushes_leaf /\ hash_masks_pushed = hash /\ tree_masks_pushed = tree
    BY <1>2, <1>3, <1>9
       DEF pushes_leaf, pushes_hash, hash_masks_pushed, tree_masks_pushed
  <2>2. /\ Flags(hash, current, OpenDigits, HashedPlaces)
        /\ Flags(tree, current, OpenDigits, StoredPlaces)
    BY <1>4, <1>5, <1>6, <1>7, <1>9 DEF Flags
  <2> QED
    BY <2>1, <2>2
<1>10. CASE pushes_leaf
  <2>1. ~build_extensions /\ hash_masks_pushed = hash /\ tree_masks_pushed = tree
    BY <1>2, <1>3, <1>10
       DEF pushes_leaf, pushes_hash, hash_masks_pushed, tree_masks_pushed
  <2>2. /\ Flags(hash, current, GroupDigits, HashedPlaces)
        /\ Flags(tree, current, GroupDigits, StoredPlaces)
    BY <1>4, <1>5, <1>6, <1>7, <2>1 DEF Flags
  <2> QED
    BY <1>10, <2>1, <2>2
<1>11. CASE pushes_hash
  <2>1. ~build_extensions /\ value_.tag = "hash" /\ ~pushes_leaf
    BY <1>11 DEF pushes_leaf, pushes_hash
  <2>2. key_ # <<>> /\ current = key_
    BY <1>1, <2>1 DEF CallInProgress, Iterating
  <2>3. PICK e \in Added : e.key = current /\ e.value.tag = "hash" /\ Below(Added, current) = {e}
    <3>1. PICK e \in Added : e.key = key_ /\ e.value = value_
      BY <1>1, <2>2, PendingEntry DEF RootInv, LegalInv, IInv
    <3>2. Below(Added, e.key) = {e}
      BY <3>1, AloneBelow
    <3> QED
      BY <2>1, <2>2, <3>1, <3>2
  <2>4. current \in Places(Added) /\ current \in Seq(Nat)
    BY <2>3, AloneBelow, PlaceIs
  <2>5. /\ \A k \in InDb : \E g \in Added : g.key = k
        /\ key_ \in InDb <=> is_in_db_trie_
    BY <1>1, <2>1, <2>2, InDbIs
  <2>6. Hashed(Added, current) /\ (Stored(Added, InDb, current) <=> is_in_db_trie_)
    BY <2>2, <2>3, <2>4, <2>5, SingleEntry
  <2>7. PICK n \in Nat, digit \in Digit :
          n = Len(current) /\ digit = current[Len(current)] /\ n > 0
    BY IterationDigits
  <2>8. Append(SubSeq(current, 1, n - 1), digit) = current
    <3>1. PICK m \in Nat : m = n - 1 /\ m < Len(current) /\ m + 1 = n
      BY <2>7
    <3>2. SubSeq(current, 1, m + 1) = Append(SubSeq(current, 1, m), current[m + 1])
      BY <2>4, <3>1, CutAppend
    <3>3. SubSeq(current, 1, Len(current)) = current
      BY <2>4, FullCut
    <3> QED
      BY <2>7, <3>1, <3>2, <3>3
  <2>9. /\ Append(SubSeq(current, 1, n - 1), digit) \in HashedPlaces
        /\ Append(SubSeq(current, 1, n - 1), digit) \in StoredPlaces <=> is_in_db_trie_
    BY <2>4, <2>6, <2>8 DEF HashedPlaces, StoredPlaces
  <2>10. ASSUME NEW i \in Nat
         PROVE  OpenDigits[i] = CompleteDigits[i] \cup (IF i = n THEN {digit} ELSE {})
    <3>1. OpenDigits[i] = GroupDigits[i] \cup (IF i = Len(current) THEN {current[i]} ELSE {})
      BY DEF OpenDigits
    <3> QED
      BY <1>4, <2>1, <2>7, <3>1
  <2>11. Flags(set_digit(hash, n, digit), current, OpenDigits, HashedPlaces)
    <3>1. /\ n \in 1..Len(hash)
          /\ \A i \in 1..Len(hash) :
               OpenDigits[i] = CompleteDigits[i] \cup (IF i = n THEN {digit} ELSE {})
      BY <1>5, <1>7, <2>7, <2>10
    <3> QED
      BY <1>5, <2>9, <3>1, FlagsSet
  <2>12. /\ is_in_db_trie_ => Flags(set_digit(tree, n, digit), current, OpenDigits, StoredPlaces)
         /\ ~is_in_db_trie_ => Flags(tree, current, OpenDigits, StoredPlaces)
    <3>1. /\ n \in 1..Len(tree)
          /\ \A i \in 1..Len(tree) :
               OpenDigits[i] = CompleteDigits[i] \cup (IF i = n THEN {digit} ELSE {})
      BY <1>6, <1>7, <2>7, <2>10
    <3> QED
      BY <1>6, <2>9, <3>1, FlagsSet
  <2>13. /\ hash_masks_pushed = set_digit(hash, n, digit)
         /\ is_in_db_trie_ => tree_masks_pushed = set_digit(tree, n, digit)
         /\ ~is_in_db_trie_ => tree_masks_pushed = tree
    <3>1. set_digit(hash, n, digit) = own_digit_in(hash_masks_)
      BY <1>2, <2>7 DEF own_digit_in
    <3>2. set_digit(tree, n, digit) = own_digit_in(tree_masks_)
      BY <1>3, <2>7 DEF own_digit_in
    <3>3. hash_masks_pushed = own_digit_in(hash_masks_)
      BY <1>11 DEF hash_masks_pushed
    <3>4. is_in_db_trie_ => tree_masks_pushed = own_digit_in(tree_masks_)
      BY <1>11 DEF tree_masks_pushed
    <3>5. ~is_in_db_trie_ => tree_masks_pushed = masks_grown(tree_masks_)
      BY DEF tree_masks_pushed
    <3> QED
      BY <1>3, <3>1, <3>2, <3>3, <3>4, <3>5
  <2> QED
    BY <2>1, <2>11, <2>12, <2>13
<1> QED
  BY <1>8, <1>9, <1>10, <1>11 DEF pushes_leaf, pushes_hash

\* The digit that an iteration adds to the groups.
LEMMA GrownDigitsAre ==
  ASSUME Iterating, has_parent
  PROVE  /\ from \in Nat \ {0} /\ current[from] \in Digit /\ from = len + 1
         /\ \A i \in Nat \ {0} :
              GrownDigits[i] = GroupDigits[i] \cup (IF i = from THEN {current[from]} ELSE {})
<1>1. /\ len \in Nat /\ Len(groups_) \in Nat /\ len < Len(current)
      /\ preceding_exists => Len(groups_) = preceding_len + 1
      /\ ~preceding_exists => Len(groups_) = 0
      /\ preceding_len \in Nat /\ len >= preceding_len
  BY IterationLengths, LenProperties DEF Iterating, TypeOK
<1>2. from = len + 1 /\ current[from] = extra_digit
  BY IterationFrom
<1>3. /\ extra_digit \in Digit /\ groups_grown \in Seq(Mask) /\ Len(groups_grown) = len + 1
      /\ \A i \in 1..len : groups_grown[i] = IF i <= Len(groups_) THEN groups_[i] ELSE {}
      /\ groups_grown[len + 1] =
           (IF len + 1 <= Len(groups_) THEN groups_[len + 1] ELSE {}) \cup {extra_digit}
  BY IterationGroups DEF Iterating
<1>4. ASSUME NEW i \in Nat \ {0}
      PROVE  GrownDigits[i] = GroupDigits[i] \cup (IF i = from THEN {current[from]} ELSE {})
  <2>1. CASE i \in 1..len
    <3>1. i <= len + 1 /\ i # from
      BY <1>1, <1>2, <2>1
    <3>2. GrownDigits[i] = groups_grown[i] /\ GroupDigits[i] = groups_grown[i]
      BY <1>3, <2>1, <3>1 DEF GrownDigits, GroupDigits
    <3> QED
      BY <3>1, <3>2
  <2>2. CASE i = len + 1
    <3>1. GrownDigits[i] = groups_grown[i]
      BY <1>1, <2>2 DEF GrownDigits
    <3>2. GroupDigits[i] = IF len + 1 <= Len(groups_) THEN groups_[len + 1] ELSE {}
      BY <1>1, <2>2 DEF GroupDigits
    <3> QED
      BY <1>2, <1>3, <2>2, <3>1, <3>2
  <2>3. CASE i > len + 1
    <3>1. GrownDigits[i] = {} /\ i # from
      BY <1>1, <1>2, <2>3 DEF GrownDigits
    <3>2. GroupDigits[i] = {}
      BY <1>1, <2>3 DEF GroupDigits
    <3> QED
      BY <3>1, <3>2
  <2> QED
    BY <1>1, <2>1, <2>2, <2>3
<1> QED
  BY <1>1, <1>2, <1>3, <1>4

\* Whether the place where an iteration's node hangs is flagged: a leaf is not, an extension
\* if something below it is stored.
LEMMA TopFlags ==
  ASSUME DbInv, Iterating, NEW depth \in Nat, HasTrie(Added, depth),
         NEW cut, cut = SubSeq(current, 1, from)
  PROVE  /\ pushes_leaf => cut \notin HashedPlaces /\ cut \notin StoredPlaces
         /\ extends => cut \notin HashedPlaces /\ (cut \in StoredPlaces <=> current \in StoredPlaces)
         /\ ~pushes_leaf /\ ~extends => cut = current /\ from = Len(current)
<1>1. RootInv /\ FlagsOfTrie /\ PendingFits /\ TypeOK /\ CallInProgress /\ LastEntryPending
      /\ EntriesFit
  BY DEF DbInv, RootInv, LegalInv, IInv
<1>2. /\ Below(Added, cut) = Below(Added, current)
      /\ cut \in Places(Added) /\ current \in Places(Added)
      /\ cut \in Seq(Nat) /\ Len(cut) = from /\ starts_with(current, cut)
      /\ from \in 0..Len(current)
      /\ ~build_extensions =>
           current = key_ /\ Below(Added, current) = {[key |-> key_, value |-> value_]}
  BY <1>1, WayFromBranch
<1>3. from < Len(current) <=> short_node_key # <<>>
  BY IterationFrom
<1>4. current \in Seq(Nat) /\ Len(current) \in Nat /\ key_ # <<>>
  BY <1>1, KeysAreSequences, LenProperties DEF Iterating, CallInProgress
<1>5. \A k \in InDb : \E e \in Added : e.key = k
  BY <1>1, InDbIs
<1>6. CASE pushes_leaf
  <2>1. ~build_extensions /\ value_.tag = "leaf"
    BY <1>6 DEF pushes_leaf
  <2>2. PICK e \in Added : e.key = key_ /\ e.value = value_ /\ Below(Added, cut) = {e}
    <3>1. [key |-> key_, value |-> value_] \in Added
      BY <1>1, <1>4, PendingEntry
    <3> QED
      BY <1>2, <2>1, <3>1
  <2>3. key_ \notin InDb
    BY <1>1, <1>4, <2>1, InDbIs
  <2>4. e.value.tag # "hash" /\ e.key \notin InDb
    BY <2>1, <2>2, <2>3
  <2>5. ~Hashed(Added, cut) /\ ~Stored(Added, InDb, cut)
    BY <1>2, <1>5, <2>2, <2>4, SingleEntry
  <2>6. ~extends
    BY <1>6 DEF extends
  <2> QED
    BY <1>6, <2>5, <2>6 DEF HashedPlaces, StoredPlaces
<1>7. CASE extends
  <2>1. ~pushes_leaf /\ from < Len(current) /\ cut # current
    BY <1>2, <1>3, <1>4, <1>7 DEF extends
  <2>2. ~Hashed(Added, cut) /\ (Stored(Added, InDb, cut) <=> Stored(Added, InDb, current))
    BY <1>2, <1>5, <2>1, OnTheWay
  <2> QED
    BY <1>2, <1>4, <1>7, <2>1, <2>2 DEF HashedPlaces, StoredPlaces
<1>8. CASE ~pushes_leaf /\ ~extends
  <2>1. from = Len(current)
    BY <1>2, <1>3, <1>4, <1>8 DEF extends
  <2>2. cut = current
    BY <1>4, <2>1, Zenon, FullCut
  <2> QED
    BY <1>8, <2>1, <2>2
<1> QED
  BY <1>6, <1>7, <1>8

\* What an iteration leaves in the masks flags exactly the hashed and the stored places one
\* digit below the branches that are open, that of its own node included.
LEMMA BuiltFlags ==
  ASSUME DbInv, Iterating, node_collector, has_parent, NEW depth \in Nat, HasTrie(Added, depth)
  PROVE  /\ Flags(hash_masks_built, current, GrownDigits, HashedPlaces)
         /\ Flags(tree_masks_built, current, GrownDigits, StoredPlaces)
<1>1. /\ from \in Nat \ {0} /\ current[from] \in Digit /\ from = len + 1
      /\ \A i \in Nat \ {0} :
           GrownDigits[i] = GroupDigits[i] \cup (IF i = from THEN {current[from]} ELSE {})
  BY GrownDigitsAre
<1>2. PICK cut : cut = SubSeq(current, 1, from)
  OBVIOUS
<1>3. PICK hash : hash = hash_masks_pushed
  OBVIOUS
<1>4. PICK tree : tree = tree_masks_pushed
  OBVIOUS
<1>5. /\ hash \in Seq(Mask) /\ Len(hash) \in Nat /\ tree \in Seq(Mask) /\ Len(tree) \in Nat
      /\ Len(hash) >= Len(current) /\ Len(tree) >= Len(current)
      /\ Len(current) \in Nat /\ from <= Len(current) /\ current \in Seq(Nat)
  <2>1. current \in Seq(Nat) /\ Len(current) \in Nat
    BY KeysAreSequences, LenProperties DEF Iterating
  <2>2. tree \in Seq(Mask) /\ hash \in Seq(Mask) /\ Len(tree) = Len(hash) /\ Len(tree) >= Len(current)
    BY <1>3, <1>4, IterationMasksPushed DEF Within
  <2>3. from <= Len(current)
    BY IterationFrom
  <2> QED
    BY <2>1, <2>2, <2>3, LenProperties
<1>6. from \in 1..Len(hash) /\ from \in 1..Len(tree) /\ from \in 1..Len(current)
  BY <1>1, <1>5
<1>7. Append(SubSeq(current, 1, from - 1), current[from]) = cut
  <2>1. len \in Nat /\ from - 1 = len /\ len < Len(current)
    BY <1>1, IterationLengths DEF Iterating
  <2>2. SubSeq(current, 1, len + 1) = Append(SubSeq(current, 1, len), current[len + 1])
    BY <1>5, <2>1, CutAppend
  <2> QED
    BY <1>1, <1>2, <2>1, <2>2
<1>8. /\ \A i \in 1..Len(hash) : i \in Nat \ {0}
      /\ \A i \in 1..Len(tree) : i \in Nat \ {0}
  BY <1>5
<1>9. ASSUME NEW i \in Nat
      PROVE  OpenDigits[i] = GroupDigits[i] \cup (IF i = Len(current) THEN {current[i]} ELSE {})
  BY DEF OpenDigits
<1>10. CASE pushes_leaf
  <2>1. hash_masks_built = hash /\ tree_masks_built = tree
    BY <1>3, <1>4, <1>10 DEF hash_masks_built, tree_masks_built, extends
  <2>2. cut \notin HashedPlaces /\ cut \notin StoredPlaces
    BY <1>2, <1>10, TopFlags
  <2>3. /\ Flags(hash, current, GroupDigits, HashedPlaces)
        /\ Flags(tree, current, GroupDigits, StoredPlaces)
    BY <1>3, <1>4, <1>10, PushedFlags
  <2>4. /\ \A i \in 1..Len(hash) :
             GrownDigits[i] = GroupDigits[i] \cup (IF i = from THEN {current[from]} ELSE {})
        /\ \A i \in 1..Len(tree) :
             GrownDigits[i] = GroupDigits[i] \cup (IF i = from THEN {current[from]} ELSE {})
    BY <1>1, <1>8
  <2>5. Flags(hash, current, GrownDigits, HashedPlaces)
    BY <1>1, <1>5, <1>6, <1>7, <2>2, <2>3, <2>4, FlagsSet
  <2>6. Flags(tree, current, GrownDigits, StoredPlaces)
    BY <1>1, <1>5, <1>6, <1>7, <2>2, <2>3, <2>4, FlagsSet
  <2> QED
    BY <2>1, <2>5, <2>6
<1>11. CASE ~pushes_leaf /\ ~extends
  <2>1. hash_masks_built = hash /\ tree_masks_built = tree
    BY <1>3, <1>4, <1>11 DEF hash_masks_built, tree_masks_built
  <2>2. from = Len(current)
    BY <1>2, <1>11, TopFlags
  <2>3. \A i \in Nat \ {0} : OpenDigits[i] = GrownDigits[i]
    BY <1>1, <1>9, <2>2
  <2>4. /\ Flags(hash, current, OpenDigits, HashedPlaces)
        /\ Flags(tree, current, OpenDigits, StoredPlaces)
    BY <1>3, <1>4, <1>11, PushedFlags
  <2>5. /\ \A i \in 1..Len(hash) : OpenDigits[i] = GrownDigits[i]
        /\ \A i \in 1..Len(tree) : OpenDigits[i] = GrownDigits[i]
    BY <1>8, <2>3
  <2> QED
    BY <2>1, <2>4, <2>5 DEF Flags
<1>12. CASE extends
  <2>1. ~pushes_leaf /\ cut \notin HashedPlaces /\ (cut \in StoredPlaces <=> current \in StoredPlaces)
    BY <1>2, <1>12, TopFlags DEF extends
  <2>2. from < Len(current)
    BY <1>12, IterationFrom DEF extends
  <2>3. /\ Flags(hash, current, OpenDigits, HashedPlaces)
        /\ Flags(tree, current, OpenDigits, StoredPlaces)
    BY <1>3, <1>4, <2>1, PushedFlags
  <2>4. ASSUME NEW i \in 1..from
        PROVE  GrownDigits[i] = OpenDigits[i] \cup (IF i = from THEN {current[from]} ELSE {})
    <3>1. i \in Nat \ {0} /\ i # Len(current)
      BY <1>1, <1>5, <2>2
    <3> QED
      BY <1>1, <1>9, <3>1
  <2> DEFINE more == [i \in Nat |-> OpenDigits[i] \cup (IF i = from THEN {current[from]} ELSE {})]
  <2>5. /\ \A i \in 1..from : more[i] = GrownDigits[i]
        /\ \A i \in Nat : more[i] = OpenDigits[i] \cup (IF i = from THEN {current[from]} ELSE {})
    BY <1>1, <2>4
  <2> HIDE DEF more
  <2>6. /\ \A i \in 1..Len(hash) :
             more[i] = OpenDigits[i] \cup (IF i = from THEN {current[from]} ELSE {})
        /\ \A i \in 1..Len(tree) :
             more[i] = OpenDigits[i] \cup (IF i = from THEN {current[from]} ELSE {})
    BY <1>8, <2>5
  <2>7. ASSUME NEW masks \in Seq(Mask), Len(masks) >= from, NEW places,
               Flags(masks, current, more, places)
        PROVE  Flags(resize(masks, from), current, GrownDigits, places)
    <3>1. Len(masks) \in Nat /\ from \in Nat
      BY <1>1, LenProperties
    <3>2. \A i \in 1..from : i > Len(masks) => more[i] = {}
      BY <2>7, <3>1
    <3>3. Flags(resize(masks, from), current, more, places)
      BY <2>7, <3>1, <3>2, FlagsResized
    <3>4. Len(resize(masks, from)) = from
      BY <3>1, ResizeProperties
    <3> QED
      BY <2>5, <3>3, <3>4 DEF Flags
  <2>8. Flags(hash_masks_built, current, GrownDigits, HashedPlaces)
    <3>1. PICK cleared : cleared = clear_digit(hash, from, current[from])
      OBVIOUS
    <3>2. cleared \in Seq(Mask) /\ Len(cleared) = Len(hash)
      BY <1>1, <1>5, <1>6, <3>1, ClearDigitProperties
    <3>3. Flags(cleared, current, OpenDigits, HashedPlaces)
      BY <1>1, <1>5, <1>6, <1>7, <2>1, <2>3, <3>1, FlagsCleared
    <3>4. Flags(cleared, current, more, HashedPlaces)
      BY <1>1, <1>6, <1>7, <2>1, <2>6, <3>2, <3>3, FlagsSet
    <3>5. hash_masks_built = resize(cleared, from)
      BY <1>1, <1>3, <1>12, <3>1 DEF hash_masks_built
    <3> QED
      BY <1>5, <1>6, <2>7, <3>2, <3>4, <3>5
  <2>9. tree[Len(current)] # {} <=> current \in StoredPlaces
    <3>1. Len(current) \in 1..Len(tree) /\ Len(current) \in Nat
      BY <1>5, <1>6
    <3>2. tree[Len(current)] =
            {d \in OpenDigits[Len(current)] :
               Append(SubSeq(current, 1, Len(current) - 1), d) \in StoredPlaces}
      BY <2>3, <3>1 DEF Flags
    <3>3. OpenDigits[Len(current)] = {current[Len(current)]}
      <4>1. Len(groups_) <= from /\ Len(groups_) \in Nat
        BY WayFromBranch, LenProperties DEF DbInv, Iterating, TypeOK
      <4>2. GroupDigits[Len(current)] = {}
        BY <1>1, <2>2, <3>1, <4>1 DEF GroupDigits
      <4> QED
        BY <1>9, <3>1, <4>2
    <3>4. Append(SubSeq(current, 1, Len(current) - 1), current[Len(current)]) = current
      <4>1. PICK m \in Nat : m = Len(current) - 1 /\ m < Len(current) /\ m + 1 = Len(current)
        <5>1. Len(current) \in Nat /\ Len(current) > 0
          BY IterationDigits
        <5>2. Len(current) - 1 \in Nat /\ Len(current) - 1 < Len(current)
              /\ (Len(current) - 1) + 1 = Len(current)
          BY <5>1
        <5> QED
          BY <5>2
      <4>2. SubSeq(current, 1, m + 1) = Append(SubSeq(current, 1, m), current[m + 1])
        BY <1>5, <4>1, CutAppend
      <4>3. SubSeq(current, 1, Len(current)) = current
        BY <1>5, FullCut
      <4> QED
        BY <4>1, <4>2, <4>3
    <3> QED
      BY <3>2, <3>3, <3>4
  <2>10. Flags(tree_masks_built, current, GrownDigits, StoredPlaces)
    <3>1. CASE current \in StoredPlaces
      <4>1. PICK set : set = set_digit(tree, from, current[from])
        OBVIOUS
      <4>2. set \in Seq(Mask) /\ Len(set) = Len(tree)
        <5>1. /\ set_digit(tree, from, current[from]) \in Seq(Mask)
              /\ Len(set_digit(tree, from, current[from])) = Len(tree)
          <6>1. tree \in Seq(Mask)
            BY <1>5
          <6>2. from \in 1..Len(tree)
            BY <1>6
          <6>3. current[from] \in Digit
            BY <1>1
          <6> QED
            BY <6>1, <6>2, <6>3, SetDigitProperties, Zenon
        <5> QED
          BY <4>1, <5>1
      <4>3. Flags(set, current, more, StoredPlaces)
        BY <1>1, <1>5, <1>6, <1>7, <2>1, <2>3, <2>6, <3>1, <4>1, FlagsSet
      <4>4. tree_masks_built = resize(set, from)
        BY <1>1, <1>4, <1>12, <2>9, <3>1, <4>1 DEF tree_masks_built
      <4> QED
        BY <1>5, <1>6, <2>7, <4>2, <4>3, <4>4
    <3>2. CASE current \notin StoredPlaces
      <4>1. Flags(tree, current, more, StoredPlaces)
        BY <1>1, <1>5, <1>6, <1>7, <2>1, <2>3, <2>6, <3>2, FlagsSet
      <4>2. tree_masks_built = resize(tree, from)
        BY <1>1, <1>4, <1>12, <2>9, <3>2 DEF tree_masks_built
      <4> QED
        BY <1>5, <1>6, <2>7, <4>1, <4>2
    <3> QED
      BY <3>1, <3>2
  <2> QED
    BY <2>8, <2>10
<1> QED
  BY <1>10, <1>11, <1>12

\* The branches along the key are those of the groups, and the one just closed.
LEMMA BranchesAlong ==
  ASSUME RootInv, Iterating, NEW depth \in Nat, HasTrie(Added, depth),
         NEW p \in Branches(Added), starts_with(current, p)
  PROVE  \/ has_parent /\ Len(p) <= len
         \/ build_extensions /\ p = current
<1>1. TypeOK /\ CallInProgress
  BY DEF RootInv, LegalInv, IInv
<1>2. p \in Places(Added) /\ Parted(Added, p) /\ p \in Seq(Nat) /\ Len(p) \in Nat
  BY BranchIs, PlaceIs, LenProperties
<1>3. /\ current \in Seq(Nat) /\ Len(current) \in Nat /\ Len(p) <= Len(current)
      /\ build_extensions \in BOOLEAN
  BY <1>1, KeysAreSequences, LenProperties DEF starts_with, TypeOK
<1>4. SubSeq(current, 1, Len(p)) = p
  <2>1. SubSeq(current, 1, Len(p)) = SubSeq(p, 1, Len(p))
    BY <1>2, <1>3, SameCut DEF starts_with
  <2>2. SubSeq(p, 1, Len(p)) = p
    BY <1>2, FullCut
  <2> QED
    BY <2>1, <2>2
<1>5. CASE Len(p) = Len(current)
  <2>1. p = current
    <3>1. SubSeq(current, 1, Len(current)) = current
      BY <1>3, FullCut
    <3> QED
      BY <1>4, <1>5, <3>1
  <2>2. ASSUME ~build_extensions
        PROVE  FALSE
    <3>1. Below(Added, current) = {[key |-> key_, value |-> value_]} /\ current = key_
      BY <2>2, WayFromBranch
    <3> QED
      BY <1>2, <2>1, <3>1 DEF Parted, DigitsAt
  <2> QED
    BY <1>3, <2>1, <2>2
<1>6. CASE Len(p) # Len(current)
  <2>1. PICK i \in 1..Len(current) : i - 1 = Len(p) /\ i = Len(p) + 1
    <3>1. Len(p) + 1 \in 1..Len(current) /\ (Len(p) + 1) - 1 = Len(p)
      BY <1>2, <1>3, <1>6
    <3> QED
      BY <3>1
  <2>2. DigitsAt(Added, p) = (IF i <= Len(groups_) THEN groups_[i] ELSE {}) \cup {current[i]}
    BY <1>4, <2>1, OpenIteration
  <2>3. i <= Len(groups_)
    BY <1>2, <2>2 DEF Parted
  <2>4. /\ from = IF has_parent THEN len + 1 ELSE 0
        /\ Len(groups_) <= from /\ from \in Nat /\ Len(groups_) \in Nat
        /\ len \in Nat
    <3>1. from = (IF has_parent THEN len + 1 ELSE 0) /\ from \in Nat
      BY IterationFrom
    <3>2. Len(groups_) \in Nat
      BY <1>1, LenProperties DEF TypeOK
    <3>3. len \in Nat
      BY <1>1, IterationLengths DEF Iterating
    <3>4. Len(groups_) <= from
      <4>1. PICK cut : cut = SubSeq(current, 1, from)
        OBVIOUS
      <4> QED
        BY <4>1, WayFromBranch
    <3> QED
      BY <3>1, <3>2, <3>3, <3>4
  <2> QED
    BY <1>2, <2>1, <2>3, <2>4
<1> QED
  BY <1>5, <1>6

\* The next entry's key is not below any place beyond the one where it leaves the key.
LEMMA SucceedingLeaves ==
  ASSUME RootInv, Iterating, keeps_group, NEW depth \in Nat, HasTrie(Added, depth),
         NEW p \in Places(Added), starts_with(succeeding, p)
  PROVE  Len(p) <= len /\ starts_with(current, p)
<1>1. /\ succeeding \in Seq(Nat) /\ len < Len(succeeding) /\ len \in Nat
      /\ \A i \in 1..len : succeeding[i] = current[i]
      /\ \A d \in groups_grown[len + 1] : d < succeeding[len + 1]
      /\ has_parent
  BY SucceedingParts
<1>2. p \in Seq(Nat) /\ Len(p) \in Nat /\ Below(Added, p) # {}
  BY PlaceIs, LenProperties
<1>3. current \in Seq(Nat) /\ Len(current) \in Nat /\ len < Len(current)
  BY KeysAreSequences, LenProperties DEF Iterating
<1>4. Len(p) <= Len(succeeding) /\ \A i \in 1..Len(p) : succeeding[i] = p[i]
  BY DEF starts_with
<1>5. ASSUME Len(p) > len
      PROVE  FALSE
  <2>1. PICK e \in Added : starts_with(e.key, p)
    BY <1>2 DEF Below
  <2>2. e.key \in Seq(Nat) /\ Len(e.key) \in Nat /\ Len(p) <= Len(e.key)
        /\ \A i \in 1..Len(p) : e.key[i] = p[i]
    BY <2>1, LenProperties DEF HasTrie, starts_with
  <2>3. PICK q : q = SubSeq(current, 1, len)
    OBVIOUS
  <2>4. q \in Seq(Nat) /\ Len(q) = len /\ \A i \in 1..len : q[i] = current[i]
    <3>1. len \in 0..Len(current)
      BY <1>1, <1>3
    <3> QED
      BY <1>3, <2>3, <3>1, CutIsPrefix
  <2>5. starts_with(e.key, q) /\ Len(e.key) > Len(q)
    <3>1. ASSUME NEW i \in 1..len
          PROVE  e.key[i] = q[i]
      <4>1. i \in 1..Len(p)
        BY <1>1, <1>2, <1>5
      <4> QED
        BY <1>1, <1>4, <2>2, <2>4, <4>1
    <3> QED
      BY <1>1, <1>2, <1>5, <2>2, <2>4, <3>1 DEF starts_with
  <2>6. e.key[len + 1] \in DigitsAt(Added, q)
    <3>1. e.key[Len(q) + 1] \in DigitsAt(Added, q)
      BY <2>1, <2>5, Zenon DEF DigitsAt, Below
    <3> QED
      BY <2>4, <3>1
  <2>7. DigitsAt(Added, q) = groups_grown[len + 1]
    BY <1>1, <2>3, GrownHolds
  <2>8. e.key[len + 1] = succeeding[len + 1] /\ succeeding[len + 1] \in Nat
    <3>1. len + 1 \in 1..Len(p) /\ len + 1 \in 1..Len(succeeding)
      BY <1>1, <1>2, <1>4, <1>5
    <3> QED
      BY <1>1, <1>4, <2>2, <3>1, ElementOfSeq
  <2> QED
    BY <1>1, <2>6, <2>7, <2>8
<1>6. Len(p) <= len
  BY <1>1, <1>2, <1>5
<1>7. Len(p) <= Len(current) /\ \A i \in 1..Len(p) : current[i] = p[i]
  BY <1>1, <1>2, <1>3, <1>4, <1>6
<1> QED
  BY <1>6, <1>7 DEF starts_with

\* The entries marked as in the DB, with one more.
LEMMA InDbGrows ==
  ASSUME RootInv, NEW c \in Calls, InOrder(c.key),
         entries' = Append(entries, [key |-> c.key, value |-> c.value, in_db |-> c.in_db])
  PROVE  /\ InDb' = InDb \cup (IF c.value.tag = "hash" /\ c.in_db THEN {c.key} ELSE {})
         /\ c.key \notin InDb
         /\ c.value.tag = "hash" <=> c.op = "add_branch_node"
         /\ c.key \in Seq(Nat)
<1>1. /\ entries \in Seq([key : Keys, value : Value, in_db : BOOLEAN])
      /\ DOMAIN entries = 1..Len(entries) /\ Len(entries) \in Nat
  BY LenProperties DEF RootInv, LegalInv, IInv, TypeOK
<1>2. c.key \in Keys /\ c.value \in Value /\ c.in_db \in BOOLEAN
  BY CallTypes DEF Calls, Value
<1>3. c.key \in Seq(Nat)
  BY <1>2, KeysAreSequences DEF RootInv, LegalInv, IInv
<1>4. c.value.tag = "hash" <=> c.op = "add_branch_node"
  BY DEF Calls
<1> DEFINE new == [key |-> c.key, value |-> c.value, in_db |-> c.in_db]
           n   == Len(entries)
<1>5. new \in [key : Keys, value : Value, in_db : BOOLEAN]
  BY <1>2
<1>6. new.key = c.key /\ new.value = c.value /\ new.in_db = c.in_db
  OBVIOUS
<1> HIDE DEF new
<1>7. /\ entries' \in Seq([key : Keys, value : Value, in_db : BOOLEAN])
      /\ Len(entries') = n + 1 /\ entries'[n + 1] = new
      /\ \A i \in 1..n : entries'[i] = entries[i]
  BY <1>1, <1>5, AppendProperties DEF new
<1>8. DOMAIN entries' = 1..(n + 1)
  BY <1>7, LenProperties
<1>9. 1..(n + 1) = 1..n \cup {n + 1}
  BY <1>1
<1>10. \A k : k \in InDb <=> \E i \in 1..n : /\ entries[i].value.tag = "hash" /\ entries[i].in_db
                                             /\ k = entries[i].key
  BY <1>1 DEF InDb
<1>11. \A k : k \in InDb' <=> \E i \in 1..(n + 1) : /\ entries'[i].value.tag = "hash"
                                                    /\ entries'[i].in_db /\ k = entries'[i].key
  BY <1>8 DEF InDb
<1> HIDE DEF n
<1>12. ASSUME NEW k
       PROVE  k \in InDb' <=> k \in InDb \/ (c.value.tag = "hash" /\ c.in_db /\ k = c.key)
  <2> DEFINE marked(i) == entries'[i].value.tag = "hash" /\ entries'[i].in_db /\ k = entries'[i].key
             was(i)    == entries[i].value.tag = "hash" /\ entries[i].in_db /\ k = entries[i].key
  <2>1. \A i : i \in 1..(n + 1) <=> i \in 1..n \/ i = n + 1
    BY <1>9
  <2>2. k \in InDb' <=> \E i \in 1..(n + 1) : marked(i)
    BY <1>11
  <2>3. k \in InDb <=> \E i \in 1..n : was(i)
    BY <1>10
  <2>4. ASSUME NEW i \in 1..n
        PROVE  marked(i) <=> was(i)
    <3>1. entries'[i] = entries[i]
      BY <1>7
    <3> QED
      BY <3>1
  <2>5. marked(n + 1) <=> c.value.tag = "hash" /\ c.in_db /\ k = c.key
    <3>1. entries'[n + 1] = new
      BY <1>7
    <3> QED
      BY <1>6, <3>1
  <2> HIDE DEF marked, was
  <2> QED
    BY <2>1, <2>2, <2>3, <2>4, <2>5, Zenon
<1>13. c.key \notin InDb
  <2>1. ASSUME NEW i \in 1..n, c.key = entries[i].key
        PROVE  FALSE
    <3>1. ~starts_with(c.key, c.key)
      BY <1>1, <2>1 DEF InOrder, n
    <3> QED
      BY <1>3, <3>1, LenProperties DEF starts_with
  <2> QED
    BY <1>10, <2>1
<1> QED
  BY <1>3, <1>4, <1>12, <1>13

\* The flag of the pending entry after a call that adds one.
LEMMA PendingReturned ==
  ASSUME RootInv, NEW c \in Calls, InOrder(c.key), NEW stack, Return(c, stack)
  PROVE  value_'.tag = "hash" => (is_in_db_trie_' <=> key_' \in InDb')
<1>1. /\ c.op # "root_hash" /\ c.in_db \in BOOLEAN
  BY DEF Calls
<1>2. /\ key_' = c.key /\ value_' = c.value
      /\ entries' = Append(entries, [key |-> c.key, value |-> c.value, in_db |-> c.in_db])
      /\ is_in_db_trie_' = IF c.op = "add_branch_node" THEN c.in_db ELSE is_in_db_trie_
  BY <1>1, ReturnOfEntry DEF Return
<1>3. /\ InDb' = InDb \cup (IF c.value.tag = "hash" /\ c.in_db THEN {c.key} ELSE {})
      /\ c.key \notin InDb
      /\ c.value.tag = "hash" <=> c.op = "add_branch_node"
  BY <1>2, InDbGrows
<1> QED
  BY <1>1, <1>2, <1>3

\* What the steps have to keep for the collector.
HasDbTrie == FlagsOfTrie /\ CollectedSoFar /\ PendingFits

\* When the next entry is added, nothing changes anywhere but along its key, and what is
\* closed stays closed.
LEMMA KeptElsewhere ==
  ASSUME DbInv, KeepGroup
  PROVE  /\ Iterating /\ has_parent /\ keeps_group
         /\ \E depth \in Nat : HasTrie(Added, depth) /\ HasTrie(Added', depth)
         /\ succeeding \in Seq(Nat) /\ current \in Seq(Nat)
         /\ \A p : ~starts_with(succeeding, p) =>
              /\ Below(Added, p) = Below(Added', p)
              /\ \A k : starts_with(k, p) => (k \in InDb <=> k \in InDb')
         /\ \A k \in InDb : k \in Seq(Nat)
         /\ \A k \in InDb' : k \in Seq(Nat)
         /\ value_'.tag = "hash" => (is_in_db_trie_' <=> key_' \in InDb')
         /\ key_' = succeeding /\ pc' = "idle" /\ build_extensions' = FALSE /\ root' = <<>>
<1>1. IInv /\ TypeOK /\ RootInv /\ pc = "gen_struct_step" /\ failing = "none" /\ keeps_group
  BY DEF DbInv, RootInv, LegalInv, IInv, KeepGroup
<1>2. Iterating /\ call \in Calls \cup {root_hash_call} /\ call.op # "root_hash"
  BY <1>1, IterationStarts DEF keeps_group
<1>3. call \in Calls /\ InOrder(call.key)
  <2>1. call \in Calls
    BY <1>2 DEF root_hash_call
  <2>2. Contract(call)
    BY <1>1, <1>2 DEF RootInv, EntriesFit
  <2> QED
    BY <2>1, <2>2 DEF Contract
<1>4. Return(call, stack_built)
  BY DEF KeepGroup
<1>5. /\ key_' = succeeding /\ pc' = "idle" /\ build_extensions' = FALSE /\ root' = <<>>
      /\ entries' = Append(entries, [key |-> call.key, value |-> call.value, in_db |-> call.in_db])
  BY <1>2, <1>4, ReturnOfEntry DEF succeeding
<1>6. PICK depth \in Nat : HasTrie(Added, depth) /\ HasTrie(Added', depth)
  BY <1>1, <1>3, <1>5, EntryAdded
<1>7. \A p : ~starts_with(succeeding, p) => Below(Added', p) = Below(Added, p)
  BY <1>1, <1>3, <1>5, EntryAdded DEF succeeding
<1>8. /\ InDb' = InDb \cup (IF call.value.tag = "hash" /\ call.in_db THEN {succeeding} ELSE {})
      /\ succeeding \in Seq(Nat)
  BY <1>1, <1>3, <1>5, InDbGrows DEF succeeding
<1>9. \A k : k # succeeding => (k \in InDb <=> k \in InDb')
  BY <1>8
<1>10. value_'.tag = "hash" => (is_in_db_trie_' <=> key_' \in InDb')
  BY <1>1, <1>3, <1>4, PendingReturned
<1>11. \A k \in InDb : k \in Seq(Nat)
  BY <1>1, <1>6, InDbIs DEF DbInv
<1>12. \A k \in InDb' : k \in Seq(Nat)
  BY <1>8, <1>11
<1>13. has_parent /\ current \in Seq(Nat)
  BY <1>1, KeysAreSequences DEF keeps_group, has_parent
<1>14. \A p, k : ~starts_with(succeeding, p) /\ starts_with(k, p) => (k \in InDb <=> k \in InDb')
  BY <1>9
<1> QED
  BY <1>1, <1>2, <1>5, <1>6, <1>7, <1>8, <1>10, <1>11, <1>12, <1>13, <1>14

\* The masks an iteration leaves are those of the groups along the next key.
LEMMA KeepGroupFlags ==
  ASSUME DbInv, KeepGroup
  PROVE  FlagsOfTrie'
<1> SUFFICES ASSUME node_collector'
             PROVE  /\ Len(groups_') <= Len(hash_masks_')
                    /\ \A i \in DOMAIN hash_masks_' :
                         /\ hash_masks_'[i] =
                              {d \in Complete(i)' :
                                 Hashed(Added', Append(SubSeq(along', 1, i - 1), d))}
                         /\ tree_masks_'[i] =
                              {d \in Complete(i)' :
                                 Stored(Added', InDb', Append(SubSeq(along', 1, i - 1), d))}
  <2>1. ~build_extensions'
    BY KeptElsewhere
  <2> QED
    BY <2>1, Zenon DEF FlagsOfTrie
<1>1. /\ Iterating /\ has_parent /\ keeps_group /\ succeeding \in Seq(Nat) /\ current \in Seq(Nat)
      /\ \A p : ~starts_with(succeeding, p) =>
           /\ Below(Added, p) = Below(Added', p)
           /\ \A k : starts_with(k, p) => (k \in InDb <=> k \in InDb')
      /\ pc' = "idle" /\ build_extensions' = FALSE /\ key_' = succeeding
  BY KeptElsewhere
<1>2. PICK depth \in Nat : HasTrie(Added, depth) /\ HasTrie(Added', depth)
  BY KeptElsewhere
<1>3. /\ groups_' = groups_grown /\ hash_masks_' = hash_masks_built
      /\ tree_masks_' = tree_masks_built /\ node_collector' = node_collector
      /\ along' = succeeding
  BY <1>1 DEF KeepGroup, Return, along
<1>4. RootInv
  BY DEF DbInv
<1>5. PICK hash : hash = hash_masks_built
  OBVIOUS
<1>6. PICK tree : tree = tree_masks_built
  OBVIOUS
<1>7. /\ Flags(hash, current, GrownDigits, HashedPlaces)
      /\ Flags(tree, current, GrownDigits, StoredPlaces)
  BY <1>1, <1>2, <1>3, <1>5, <1>6, BuiltFlags
<1>8. /\ hash \in Seq(Mask) /\ tree \in Seq(Mask) /\ Len(hash) = Len(tree) /\ Len(hash) >= len + 1
      /\ Len(hash) \in Nat /\ DOMAIN hash = 1..Len(hash)
  <2>1. hash \in Seq(Mask) /\ tree \in Seq(Mask) /\ Len(hash) = Len(tree) /\ Len(hash) >= len + 1
    BY <1>1, <1>5, <1>6, IterationMasks DEF Within
  <2> QED
    BY <2>1, LenProperties
<1>9. /\ len < Len(succeeding) /\ len \in Nat
      /\ \A i \in 1..len : succeeding[i] = current[i]
      /\ \A d \in groups_grown[len + 1] : d < succeeding[len + 1]
      /\ \A i \in 1..len : \A d \in groups_grown[i] : d < succeeding[i]
  BY <1>1, <1>2, <1>4, SucceedingParts
<1>10. groups_grown \in Seq(Mask) /\ Len(groups_grown) = len + 1 /\ len < Len(current)
  BY <1>1, IterationGroups DEF Iterating
<1>11. ASSUME NEW i \in 1..Len(hash)
       PROVE  Complete(i)' = GrownDigits[i]
  <2>1. i \in Nat
    BY <1>8
  <2> QED
    BY <1>1, <1>3, <1>10, <2>1 DEF Complete, GrownDigits
<1>12. ASSUME NEW i \in 1..Len(hash), NEW d \in GrownDigits[i]
       PROVE  /\ Append(SubSeq(current, 1, i - 1), d) \in HashedPlaces <=>
                   Hashed(Added', Append(SubSeq(succeeding, 1, i - 1), d))
              /\ Append(SubSeq(current, 1, i - 1), d) \in StoredPlaces <=>
                   Stored(Added', InDb', Append(SubSeq(succeeding, 1, i - 1), d))
  <2>1. PICK n \in Nat : i - 1 = n /\ i = n + 1
    BY <1>8
  <2>2. i <= len + 1 /\ d \in groups_grown[i]
    BY <1>8, <1>9, <2>1 DEF GrownDigits
  <2>3. n <= len /\ n < Len(succeeding) /\ n < Len(current) /\ i \in 1..Len(groups_grown)
    BY <1>1, <1>9, <1>10, <2>1, <2>2, LenProperties
  <2>4. d \in Nat
    <3>1. groups_grown[i] \in Mask
      BY <1>10, <2>3, ElementOfSeq
    <3> QED
      BY <2>2, <3>1 DEF Mask, Digit
  <2>5. d # succeeding[n + 1]
    <3>1. d < succeeding[n + 1]
      <4>1. CASE n = len
        BY <1>9, <2>1, <2>2, <4>1
      <4>2. CASE n # len
        <5>1. i \in 1..len
          BY <1>9, <2>1, <2>3, <4>2
        <5> QED
          BY <1>9, <2>1, <2>2, <5>1
      <4> QED
        BY <4>1, <4>2
    <3> QED
      BY <2>4, <3>1
  <2>6. PICK q : q = SubSeq(succeeding, 1, n) /\ q \in Seq(Nat) /\ Len(q) = n
    <3>1. n \in 0..Len(succeeding)
      BY <1>1, <2>3, LenProperties
    <3> QED
      BY <1>1, <3>1, CutIsPrefix
  <2>7. SubSeq(current, 1, n) = q
    BY <1>1, <1>9, <1>10, <2>3, <2>6, SameCut
  <2>8. PICK p : p = Append(q, d)
    OBVIOUS
  <2>9. p \in Seq(Nat) /\ ~starts_with(succeeding, p)
    <3>1. /\ Append(q, d) \in Seq(Nat)
          /\ starts_with(succeeding, Append(q, d)) <=>
               starts_with(succeeding, q) /\ Len(succeeding) > Len(q) /\ succeeding[Len(q) + 1] = d
      <4>1. q \in Seq(Nat)
        BY <2>6
      <4> QED
        BY <1>1, <2>4, <4>1, BeginsWithDigit, SMT
    <3>2. Len(q) + 1 = n + 1
      BY <2>6
    <3>3. succeeding[Len(q) + 1] # d
      BY <2>5, <3>2, Zenon
    <3> QED
      BY <2>8, <3>1, <3>3, Zenon
  <2>10. /\ Below(Added, p) = Below(Added', p)
         /\ \A k : starts_with(k, p) => (k \in InDb <=> k \in InDb')
    BY <1>1, <2>9
  <2>11. Hashed(Added, p) <=> Hashed(Added', p)
    BY <1>2, <2>9, <2>10, HashedIsLocal
  <2>12. Stored(Added, InDb, p) <=> Stored(Added', InDb', p)
    BY <1>2, <2>9, <2>10, StoredIsLocal
  <2> QED
    BY <2>1, <2>6, <2>7, <2>8, <2>9, <2>11, <2>12 DEF HashedPlaces, StoredPlaces
<1>13. ASSUME NEW i \in 1..Len(hash)
       PROVE  /\ hash[i] = {d \in Complete(i)' :
                              Hashed(Added', Append(SubSeq(succeeding, 1, i - 1), d))}
              /\ tree[i] = {d \in Complete(i)' :
                              Stored(Added', InDb', Append(SubSeq(succeeding, 1, i - 1), d))}
  <2>1. /\ hash[i] = {d \in GrownDigits[i] : Append(SubSeq(current, 1, i - 1), d) \in HashedPlaces}
        /\ tree[i] = {d \in GrownDigits[i] : Append(SubSeq(current, 1, i - 1), d) \in StoredPlaces}
    BY <1>7, <1>8 DEF Flags
  <2>2. PICK digits : digits = GrownDigits[i] /\ digits = Complete(i)'
    BY <1>11
  <2>3. /\ hash[i] = {d \in digits : Hashed(Added', Append(SubSeq(succeeding, 1, i - 1), d))}
        /\ tree[i] = {d \in digits : Stored(Added', InDb', Append(SubSeq(succeeding, 1, i - 1), d))}
    BY <1>12, <2>1, <2>2
  <2> QED
    BY <2>2, <2>3
<1> QED
  BY <1>3, <1>5, <1>6, <1>8, <1>10, <1>13

\* In an iteration a branch is closed unless the key goes on from it, and the branches the
\* next key goes on from are those.
LEMMA ClosedBehind ==
  ASSUME RootInv, Iterating, keeps_group, NEW depth \in Nat, HasTrie(Added, depth),
         NEW p \in Branches(Added)
  PROVE  Closed(p) <=> ~starts_with(succeeding, p)
<1>1. key_ # <<>> /\ along = current
  BY OpenIteration
<1>2. /\ succeeding \in Seq(Nat) /\ len < Len(succeeding) /\ len \in Nat
      /\ \A i \in 1..len : succeeding[i] = current[i]
  BY SucceedingParts
<1>3. len < Len(current) /\ Len(current) \in Nat
  BY LenProperties DEF Iterating
<1>4. p \in Places(Added) /\ p \in Seq(Nat) /\ Len(p) \in Nat
  BY PlaceIs, LenProperties DEF Branches
<1>5. ASSUME ~Closed(p)
      PROVE  starts_with(succeeding, p)
  <2>1. starts_with(current, p) /\ ~(build_extensions /\ p = current)
    BY <1>1, <1>5 DEF Closed
  <2>2. Len(p) <= len
    BY <2>1, BranchesAlong
  <2>3. \A i \in 1..Len(p) : current[i] = p[i] /\ i \in 1..len
    BY <1>2, <1>4, <2>1, <2>2 DEF starts_with
  <2>4. Len(p) <= Len(succeeding) /\ \A i \in 1..Len(p) : succeeding[i] = p[i]
    BY <1>2, <1>4, <2>2, <2>3, LenProperties
  <2> QED
    BY <2>4 DEF starts_with
<1>6. ASSUME starts_with(succeeding, p)
      PROVE  ~Closed(p)
  <2>1. Len(p) <= len /\ starts_with(current, p)
    BY <1>4, <1>6, SucceedingLeaves
  <2>2. p # current
    BY <1>2, <1>3, <1>4, <2>1
  <2> QED
    BY <1>1, <2>1, <2>2 DEF Closed
<1> QED
  BY <1>5, <1>6

\* The nodes of the DB trie that a key does not go on from.
NodesOff(E, in_db, key) ==
  {DbNode(E, in_db, p) : p \in {q \in DbPlaces(E, in_db) : ~starts_with(key, q)}}

\* Nodes behind the next key are the same once its entry is there.
LEMMA NodesBehind ==
  ASSUME NEW E, NEW G, NEW depth \in Nat, HasTrie(E, depth), HasTrie(G, depth),
         NEW old, NEW new, NEW key,
         \A k \in old : k \in Seq(Nat), \A k \in new : k \in Seq(Nat),
         \A p : ~starts_with(key, p) =>
              /\ Below(E, p) = Below(G, p)
              /\ \A k : starts_with(k, p) => (k \in old <=> k \in new)
  PROVE  NodesOff(E, old, key) = NodesOff(G, new, key)
<1>1. ASSUME NEW p \in DbPlaces(E, old), ~starts_with(key, p)
      PROVE  p \in DbPlaces(G, new) /\ DbNode(E, old, p) = DbNode(G, new, p)
  <2>1. p \in Branches(E)
    BY DEF DbPlaces
  <2>2. /\ Below(E, p) = Below(G, p)
        /\ \A k : starts_with(k, p) => (k \in old <=> k \in new)
    BY <1>1
  <2>3. (p \in DbPlaces(E, old) <=> p \in DbPlaces(G, new)) /\ DbNode(E, old, p) = DbNode(G, new, p)
    <3>1. p \in Branches(E) => p \in Seq(Nat)
      BY PlaceIs DEF Branches
    <3> QED
      BY <2>1, <2>2, <3>1, DbNodeIsLocal
  <2> QED
    BY <2>3
<1>2. ASSUME NEW p \in DbPlaces(G, new), ~starts_with(key, p)
      PROVE  p \in DbPlaces(E, old) /\ DbNode(E, old, p) = DbNode(G, new, p)
  <2>1. p \in Branches(G)
    BY DEF DbPlaces
  <2>2. /\ Below(G, p) = Below(E, p)
        /\ \A k : starts_with(k, p) => (k \in new <=> k \in old)
    BY <1>2
  <2>3. (p \in DbPlaces(G, new) <=> p \in DbPlaces(E, old)) /\ DbNode(G, new, p) = DbNode(E, old, p)
    <3>1. p \in Branches(G) => p \in Seq(Nat)
      BY PlaceIs DEF Branches
    <3> QED
      BY <2>1, <2>2, <3>1, DbNodeIsLocal
  <2> QED
    BY <2>3
<1> QED
  BY <1>1, <1>2 DEF NodesOff

\* The next entry is not below any branch that is closed, so the nodes of those stay what
\* they are.
LEMMA KeepGroupNodes ==
  ASSUME DbInv, KeepGroup
  PROVE  CollectedSoFar'
<1> SUFFICES ASSUME node_collector'
             PROVE  /\ ToSet(collected') =
                         {DbNode(Added', InDb', p) : p \in {q \in DbPlaces(Added', InDb') : Closed(q)'}}
                    /\ \A n \in ToSet(collected') : \A d \in n.hash_mask :
                         Reference(Added', Append(n.key, d)) = HashReference(n.hashes[d])
  BY Zenon DEF CollectedSoFar
<1>1. /\ Iterating /\ has_parent /\ keeps_group /\ succeeding \in Seq(Nat)
      /\ \A p : ~starts_with(succeeding, p) =>
           /\ Below(Added, p) = Below(Added', p)
           /\ \A k : starts_with(k, p) => (k \in InDb <=> k \in InDb')
      /\ \A k \in InDb : k \in Seq(Nat)
      /\ \A k \in InDb' : k \in Seq(Nat)
      /\ pc' = "idle" /\ build_extensions' = FALSE /\ key_' = succeeding
  BY KeptElsewhere
<1>2. PICK depth \in Nat : HasTrie(Added, depth) /\ HasTrie(Added', depth)
  BY KeptElsewhere
<1>3. collected' = collected /\ node_collector /\ pc # "aborted" /\ along' = succeeding
  BY <1>1 DEF KeepGroup, Return, along
<1>4. RootInv /\ CollectedSoFar
  BY DEF DbInv
<1>5. succeeding # <<>>
  BY <1>1 DEF keeps_group
<1>6. /\ ToSet(collected) =
           {DbNode(Added, InDb, p) : p \in {q \in DbPlaces(Added, InDb) : Closed(q)}}
      /\ \A n \in ToSet(collected) : \A d \in n.hash_mask :
           Reference(Added, Append(n.key, d)) = HashReference(n.hashes[d])
  BY <1>3, <1>4, Zenon DEF CollectedSoFar
<1>7. \A q \in DbPlaces(Added, InDb) : Closed(q) <=> ~starts_with(succeeding, q)
  BY <1>1, <1>2, <1>4, ClosedBehind DEF DbPlaces
<1>8. \A q : Closed(q)' <=> ~starts_with(succeeding, q)
  BY <1>1, <1>3, <1>5 DEF Closed
<1>9. NodesOff(Added, InDb, succeeding) = NodesOff(Added', InDb', succeeding)
  BY <1>1, <1>2, NodesBehind
<1>10. ToSet(collected) =
      {DbNode(Added, InDb, p) : p \in {q \in DbPlaces(Added, InDb) : ~starts_with(succeeding, q)}}
  <2>1. {q \in DbPlaces(Added, InDb) : Closed(q)} =
        {q \in DbPlaces(Added, InDb) : ~starts_with(succeeding, q)}
    BY <1>7
  <2> QED
    BY <1>6, <2>1, Zenon
<1>11. {q \in DbPlaces(Added', InDb') : ~starts_with(succeeding, q)} =
       {q \in DbPlaces(Added', InDb') : Closed(q)'}
  BY <1>8
<1>12. ASSUME NEW n \in ToSet(collected), NEW d \in n.hash_mask
       PROVE  Reference(Added', Append(n.key, d)) = HashReference(n.hashes[d])
  <2>1. PICK p \in DbPlaces(Added, InDb) :
          ~starts_with(succeeding, p) /\ n = DbNode(Added, InDb, p)
    BY <1>10
  <2>2. n.key = p /\ d \in DigitsAt(Added, p) /\ p \in Places(Added)
    BY <2>1 DEF DbNode, HashMask, DbPlaces, Branches
  <2>3. PICK q : q = Append(p, d)
    OBVIOUS
  <2>4. q \in Places(Added) /\ p \in Seq(Nat) /\ q \in Seq(Nat) /\ d \in Nat
    BY <1>2, <2>2, <2>3, PlaceOfDigit, PlaceIs
  <2>5. ~starts_with(succeeding, q)
    BY <1>1, <2>1, <2>3, <2>4, BeginsWithDigit
  <2>6. Reference(Added, q) = Reference(Added', q)
    BY <1>1, <1>2, <2>4, <2>5, ReferenceIsLocal
  <2> QED
    BY <1>6, <2>2, <2>3, <2>6
<1> QED
  BY <1>3, <1>9, <1>10, <1>11, <1>12, Zenon DEF NodesOff

\* An iteration that keeps its group.
LEMMA KeepGroupHasDbTrie ==
  ASSUME DbInv, KeepGroup
  PROVE  HasDbTrie'
<1>1. /\ keeps_group /\ key_' = succeeding /\ root' = <<>>
      /\ value_'.tag = "hash" => (is_in_db_trie_' <=> key_' \in InDb')
  BY KeptElsewhere
<1>2. key_' # <<>>
  BY <1>1 DEF keeps_group
<1>3. PendingFits'
  BY <1>1, <1>2 DEF PendingFits
<1> QED
  BY <1>3, KeepGroupFlags, KeepGroupNodes DEF HasDbTrie

\* A reference as long as a hash is one.
LEMMA ReferenceByHash ==
  ASSUME NEW E, NEW depth \in Nat, HasTrie(E, depth), NEW p \in Places(E),
         Reference(E, p).length = 33
  PROVE  /\ Reference(E, p) = HashReference(hash_of(Reference(E, p)))
         /\ Reference(E, p).item.hash = hash_of(Reference(E, p))
<1>1. PICK any : any = SomeEntry(Below(E, p))
  OBVIOUS
<1>2. PICK rlp : rlp = Composed(E, p, References(E))
  OBVIOUS
<1>3. PICK ref : ref = Reference(E, p) /\ ref.length = 33
  OBVIOUS
<1>4. ref = HashReference(any.value.data) \/ ref = OrHash(rlp)
  <2>1. ref = Referred(E, p, References(E))
    BY <1>3, ReferenceIs
  <2>2. CASE any.key = p /\ any.value.tag = "hash"
    <3>1. Referred(E, p, References(E)) = HashReference(any.value.data)
      BY <1>1, <2>2, ReferredCases
    <3> QED
      BY <2>1, <3>1
  <2>3. CASE ~(any.key = p /\ any.value.tag = "hash")
    <3>1. Referred(E, p, References(E)) = OrHash(Composed(E, p, References(E)))
      BY <1>1, <2>3, ReferredCases
    <3> QED
      BY <1>2, <2>1, <3>1
  <2> QED
    BY <2>2, <2>3
<1>5. PICK hash : ref = HashReference(hash)
  <2>1. CASE ref = HashReference(any.value.data)
    BY <2>1
  <2>2. CASE ref = OrHash(rlp)
    <3>1. (ref = rlp /\ rlp.length < 32) \/ ref = HashReference([keccak |-> rlp])
      BY <2>2 DEF OrHash
    <3>2. ~(ref = rlp /\ rlp.length < 32)
      BY <1>3
    <3> QED
      BY <3>1, <3>2
  <2> QED
    BY <1>4, <2>1, <2>2
<1>6. hash_of(ref) = hash /\ ref.item.hash = hash
  BY <1>5 DEF hash_of, HashReference, kHashLength
<1> QED
  BY <1>3, <1>5, <1>6

\* The branch that an iteration closes, and what it tells the collector of it.
LEMMA ClosedBranch ==
  ASSUME DbInv, Iterating, has_parent, ~keeps_group, failing = "none", node_collector,
         NEW depth \in Nat, HasTrie(Added, depth), NEW cut, cut = SubSeq(current, 1, len)
  PROVE  /\ cut \in Branches(Added) /\ cut \in Seq(Nat) /\ Len(cut) = len
         /\ starts_with(current, cut)
         /\ state_mask = DigitsAt(Added, cut)
         /\ hash_mask = HashMask(Added, cut) /\ tree_mask = TreeMask(Added, InDb, cut)
         /\ store_in_db_trie <=> cut \in DbPlaces(Added, InDb)
         /\ cut \in HashedPlaces /\ (store_in_db_trie <=> cut \in StoredPlaces)
<1>1. RootInv /\ PendingFits
  BY DEF DbInv
<1>2. Parted(Added, cut) /\ cut \in Places(Added)
  BY <1>1, BranchedHolds
<1>3. cut \in Branches(Added) /\ cut \in Seq(Nat)
  BY <1>2, PlaceIs DEF Branches
<1>4. len \in Nat /\ len < Len(current) /\ Len(current) \in Nat /\ current \in Seq(Nat)
  BY ClosingLengths, KeysAreSequences DEF Iterating
<1>5. Len(cut) = len /\ starts_with(current, cut)
  <2>1. len \in 0..Len(current)
    BY <1>4
  <2> QED
    BY <1>4, <2>1, CutIsPrefix
<1>6. PICK digits : digits = DigitsAt(Added, cut)
  OBVIOUS
<1>7. groups_grown[len + 1] = digits /\ GrownDigits[len + 1] = digits
  <2>1. groups_grown[len + 1] = digits
    BY <1>1, <1>6, GrownHolds
  <2>2. len + 1 \in Nat /\ len + 1 <= len + 1
    BY <1>4
  <2> QED
    BY <2>1, <2>2 DEF GrownDigits
<1>8. PICK hash : hash = hash_masks_built
  OBVIOUS
<1>9. PICK tree : tree = tree_masks_built
  OBVIOUS
<1>10. len + 1 \in 1..Len(hash) /\ len + 1 \in 1..Len(tree) /\ (len + 1) - 1 = len
  BY <1>4, <1>8, <1>9, IterationMasks, LenProperties DEF Within
<1>11. /\ Flags(hash, current, GrownDigits, HashedPlaces)
       /\ Flags(tree, current, GrownDigits, StoredPlaces)
  BY <1>8, <1>9, BuiltFlags
<1>12. /\ hash[len + 1] = {d \in digits : Append(cut, d) \in HashedPlaces}
       /\ tree[len + 1] = {d \in digits : Append(cut, d) \in StoredPlaces}
  <2>1. PICK n : n = len + 1 /\ n - 1 = len /\ n \in 1..Len(hash) /\ n \in 1..Len(tree)
                 /\ GrownDigits[n] = digits
    BY <1>7, <1>10
  <2>2. SubSeq(current, 1, n - 1) = cut
    BY <2>1
  <2>3. /\ hash[n] = {d \in digits : Append(cut, d) \in HashedPlaces}
        /\ tree[n] = {d \in digits : Append(cut, d) \in StoredPlaces}
    BY <1>11, <2>1, <2>2, Zenon DEF Flags
  <2> QED
    BY <2>1, <2>3, Zenon
<1>13. ASSUME NEW d \in digits
       PROVE  Append(cut, d) \in Seq(Nat)
  BY <1>2, <1>6, PlaceOfDigit, PlaceIs
<1>14. hash_mask = HashMask(Added, cut) /\ tree_mask = TreeMask(Added, InDb, cut)
  <2>1. \A d \in digits : Append(cut, d) \in HashedPlaces <=> Hashed(Added, Append(cut, d))
    BY <1>13, Zenon DEF HashedPlaces
  <2>2. \A d \in digits : Append(cut, d) \in StoredPlaces <=> Stored(Added, InDb, Append(cut, d))
    BY <1>13, Zenon DEF StoredPlaces
  <2>3. hash[len + 1] = {d \in digits : Hashed(Added, Append(cut, d))}
    BY <1>12, <2>1
  <2>4. tree[len + 1] = {d \in digits : Stored(Added, InDb, Append(cut, d))}
    BY <1>12, <2>2
  <2> QED
    BY <1>6, <1>8, <1>9, <2>3, <2>4, Zenon DEF hash_mask, tree_mask, HashMask, TreeMask
<1>15. store_in_db_trie <=> cut \in DbPlaces(Added, InDb)
  <2>1. store_in_db_trie <=> tree_mask \cup hash_mask # {}
    BY DEF store_in_db_trie, collects
  <2>2. cut \in DbPlaces(Added, InDb) <=> hash_mask \cup tree_mask # {}
    BY <1>3, <1>14, Zenon DEF DbPlaces
  <2> QED
    BY <2>1, <2>2
<1>16. cut \in HashedPlaces
  BY <1>3 DEF HashedPlaces, Hashed
<1>17. store_in_db_trie <=> cut \in StoredPlaces
  <2>1. \A k \in InDb : \E e \in Added : e.key = k
    BY <1>1, InDbIs
  <2>2. Stored(Added, InDb, cut) <=> HashMask(Added, cut) \cup TreeMask(Added, InDb, cut) # {}
    BY <1>3, <2>1, StoredAtBranch
  <2>3. cut \in DbPlaces(Added, InDb) <=> HashMask(Added, cut) \cup TreeMask(Added, InDb, cut) # {}
    BY <1>3, Zenon DEF DbPlaces
  <2> QED
    BY <1>3, <1>15, <2>2, <2>3 DEF StoredPlaces
<1> QED
  BY <1>3, <1>5, <1>6, <1>7, <1>14, <1>15, <1>16, <1>17 DEF state_mask

\* The node it gives to the collector is that of the DB trie.
LEMMA ClosedNode ==
  ASSUME DbInv, Iterating, has_parent, ~keeps_group, failing = "none", store_in_db_trie,
         NEW depth \in Nat, HasTrie(Added, depth), NEW cut, cut = SubSeq(current, 1, len)
  PROVE  /\ node = DbNode(Added, InDb, cut)
         /\ \A d \in HashMask(Added, cut) :
              Reference(Added, Append(cut, d)) = HashReference(node.hashes[d])
<1>1. RootInv /\ node_collector
  BY DEF DbInv, store_in_db_trie, collects
<1>2. /\ cut \in Branches(Added) /\ cut \in Seq(Nat) /\ Len(cut) = len
      /\ state_mask = DigitsAt(Added, cut)
      /\ hash_mask = HashMask(Added, cut) /\ tree_mask = TreeMask(Added, InDb, cut)
  BY <1>1, ClosedBranch
<1>3. /\ \A d \in DigitsAt(Added, cut) : child(d) = Reference(Added, Append(cut, d))
      /\ Len(stack_branched) = first_child_idx + 1
      /\ stack_branched[Len(stack_branched)] = Reference(Added, cut)
      /\ cut \in Places(Added)
  BY <1>1, BranchedHolds
<1>4. \A d \in hash_mask : child_hashes[d].length = 33 /\ child_hashes[d] = child(d)
  <2>1. \A d \in hash_mask : child_hashes[d].length = kHashLength + 1
    BY DEF failing
  <2> QED
    BY <2>1 DEF child_hashes, kHashLength
<1>5. ASSUME NEW d \in hash_mask
      PROVE  /\ child_hashes[d] = Reference(Added, Append(cut, d))
             /\ Reference(Added, Append(cut, d)) = HashReference(hash_of(child_hashes[d]))
             /\ Reference(Added, Append(cut, d)).item.hash = hash_of(child_hashes[d])
  <2>1. d \in DigitsAt(Added, cut)
    BY <1>2 DEF HashMask
  <2>2. PICK p : p = Append(cut, d) /\ p \in Places(Added)
    BY <1>3, <2>1, PlaceOfDigit
  <2>3. PICK ref : ref = Reference(Added, p)
    OBVIOUS
  <2>4. child_hashes[d] = ref /\ ref.length = 33
    BY <1>3, <1>4, <2>1, <2>2, <2>3, Zenon
  <2>5. ref = HashReference(hash_of(ref)) /\ ref.item.hash = hash_of(ref)
    <3>1. p \in Places(Added) /\ Reference(Added, p).length = 33
      BY <2>2, <2>3, <2>4, Zenon
    <3>2. /\ Reference(Added, p) = HashReference(hash_of(Reference(Added, p)))
          /\ Reference(Added, p).item.hash = hash_of(Reference(Added, p))
      BY <3>1, ReferenceByHash, Zenon
    <3> QED
      BY <2>3, <3>2, Zenon
  <2> QED
    BY <2>2, <2>3, <2>4, <2>5, Zenon
<1>6. [d \in hash_mask |-> hash_of(child_hashes[d])] =
      [d \in HashMask(Added, cut) |-> Reference(Added, Append(cut, d)).item.hash]
  BY <1>2, <1>5
<1>7. (IF len = 0 THEN <<hash_of(Last(stack_branched))>> ELSE <<>>) =
      (IF cut = <<>> THEN <<Root(Added)>> ELSE <<>>)
  <2>1. PICK n : n = len
    OBVIOUS
  <2>2. Len(cut) = n /\ cut \in Seq(Nat)
    BY <1>2, <2>1, Zenon
  <2>3. n = 0 <=> cut = <<>>
    BY <2>2, EmptySeq
  <2>4. ASSUME cut = <<>>
        PROVE  hash_of(Last(stack_branched)) = Root(Added)
    <3>1. Added # {}
      BY <1>3 DEF Places
    <3> QED
      BY <1>3, <2>4, <3>1, RootIs DEF Last
  <2> QED
    BY <2>1, <2>3, <2>4
<1>8. node = DbNode(Added, InDb, cut)
  BY <1>2, <1>6, <1>7, Zenon DEF node, node_at, DbNode
<1>9. \A d \in hash_mask : node.hashes[d] = hash_of(child_hashes[d])
  BY DEF node, node_at
<1> QED
  BY <1>2, <1>5, <1>8, <1>9, Zenon

\* The digit of the branch is flagged to its parent, unless it is the root.
LEMMA ClosedFlags ==
  ASSUME DbInv, Iterating, has_parent, ~keeps_group, failing = "none", node_collector, len > 0,
         NEW depth \in Nat, HasTrie(Added, depth)
  PROVE  /\ Flags(hash_masks_closed, current, ClosedDigits, HashedPlaces)
         /\ Flags(tree_masks_closed, current, ClosedDigits, StoredPlaces)
<1>1. PICK n \in Nat : n = len - 1 /\ len = n + 1 /\ n < Len(current) /\ len < Len(current)
                       /\ Len(current) \in Nat /\ len \in 1..Len(current) /\ len - 1 = n
  <2>1. len \in Nat /\ len < Len(current) /\ Len(current) \in Nat
    BY ClosingLengths
  <2>2. len - 1 \in Nat
    BY <2>1
  <2> QED
    BY <2>1, <2>2
<1>2. current \in Seq(Nat) /\ current \in Seq(Digit)
  BY KeysAreSequences DEF Iterating
<1>3. PICK cut : cut = SubSeq(current, 1, len)
  OBVIOUS
<1>4. cut \in HashedPlaces /\ (store_in_db_trie <=> cut \in StoredPlaces)
  BY <1>3, ClosedBranch
<1>5. Append(SubSeq(current, 1, len - 1), current[len]) = cut
  BY <1>1, <1>2, <1>3, CutAppend
<1>6. PICK digit : digit = current[len] /\ digit \in Digit
  BY <1>1, <1>2, ElementOfSeq
<1>7. PICK hash : hash = hash_masks_built
  OBVIOUS
<1>8. PICK tree : tree = tree_masks_built
  OBVIOUS
<1>9. /\ Flags(hash, current, GrownDigits, HashedPlaces)
      /\ Flags(tree, current, GrownDigits, StoredPlaces)
  BY <1>7, <1>8, BuiltFlags
<1>10. /\ hash \in Seq(Mask) /\ tree \in Seq(Mask) /\ Len(hash) \in Nat /\ Len(hash) = Len(tree)
       /\ Len(hash) >= len + 1
  BY <1>7, <1>8, IterationMasks, LenProperties DEF Within
<1>11. len \in 1..Len(hash) /\ len \in 1..Len(tree) /\ len \in Nat
  BY <1>1, <1>10
<1>12. \A i \in 1..Len(hash) :
         ClosedDigits[i] = GrownDigits[i] \cup (IF i = len THEN {digit} ELSE {})
  <2>1. \A i \in 1..Len(hash) : i \in Nat
    BY <1>10
  <2> QED
    BY <1>6, <2>1 DEF ClosedDigits
<1>13. Append(SubSeq(current, 1, len - 1), digit) = cut
  BY <1>5, <1>6
<1>14. PICK closed : closed = set_digit(hash, len, digit)
  OBVIOUS
<1>15. PICK stored : stored = IF store_in_db_trie THEN set_digit(tree, len, digit) ELSE tree
  OBVIOUS
<1>16. Flags(closed, current, ClosedDigits, HashedPlaces)
  BY <1>4, <1>6, <1>9, <1>10, <1>11, <1>12, <1>13, <1>14, FlagsSet
<1>17. Flags(stored, current, ClosedDigits, StoredPlaces)
  <2>1. \A i \in 1..Len(tree) :
          ClosedDigits[i] = GrownDigits[i] \cup (IF i = len THEN {digit} ELSE {})
    BY <1>10, <1>12
  <2>2. /\ cut \in StoredPlaces => Flags(set_digit(tree, len, digit), current, ClosedDigits, StoredPlaces)
        /\ cut \notin StoredPlaces => Flags(tree, current, ClosedDigits, StoredPlaces)
    BY <1>6, <1>9, <1>10, <1>11, <1>13, <2>1, FlagsSet
  <2> QED
    BY <1>4, <1>15, <2>2, Zenon
<1>18. closed \in Seq(Mask) /\ Len(closed) = Len(hash)
  BY <1>6, <1>10, <1>11, <1>14, SetDigitProperties
<1>19. stored \in Seq(Mask) /\ Len(stored) = Len(tree)
  <2>1. set_digit(tree, len, digit) \in Seq(Mask) /\ Len(set_digit(tree, len, digit)) = Len(tree)
    BY <1>6, <1>10, <1>11, SetDigitProperties
  <2> QED
    BY <1>10, <1>15, <2>1, Zenon
<1>20. Flags(resize(closed, len), current, ClosedDigits, HashedPlaces)
  <2>1. \A i \in 1..len : i > Len(closed) => ClosedDigits[i] = {}
    BY <1>10, <1>11, <1>18
  <2> QED
    BY <1>11, <1>16, <1>18, <2>1, FlagsResized
<1>21. Flags(resize(stored, len), current, ClosedDigits, StoredPlaces)
  <2>1. \A i \in 1..len : i > Len(stored) => ClosedDigits[i] = {}
    BY <1>10, <1>11, <1>19
  <2> QED
    BY <1>11, <1>17, <1>19, <2>1, FlagsResized
<1>22. hash_masks_closed = resize(closed, len) /\ tree_masks_closed = resize(stored, len)
  <2>1. hash_masks_closed = resize(closed, len)
    BY <1>6, <1>7, <1>14 DEF hash_masks_closed, collects
  <2>2. tree_masks_closed = resize(stored, len)
    BY <1>6, <1>8, <1>15 DEF tree_masks_closed
  <2> QED
    BY <2>1, <2>2
<1> QED
  BY <1>20, <1>21, <1>22

\* A node given to the collector is one more.
LEMMA OneMoreCollected ==
  ASSUME TypeOK, NEW n
  PROVE  ToSet(Append(collected, n)) = ToSet(collected) \cup {n}
<1>1. PICK s \in Seq(Range(collected)) : s = collected
  BY DEF TypeOK
<1>2. /\ Len(s) \in Nat /\ DOMAIN s = 1..Len(s)
  BY <1>1, LenProperties
<1>3. /\ DOMAIN Append(s, n) = 1..(Len(s) + 1)
      /\ \A i \in 1..Len(s) : Append(s, n)[i] = s[i]
      /\ Append(s, n)[Len(s) + 1] = n
  <2>1. s \in Seq(Range(collected) \cup {n}) /\ n \in Range(collected) \cup {n}
    BY <1>1
  <2>2. Append(s, n) \in Seq(Range(collected) \cup {n}) /\ Len(Append(s, n)) = Len(s) + 1
    BY <2>1, AppendProperties
  <2>3. DOMAIN Append(s, n) = 1..(Len(s) + 1)
    BY <2>2, LenProperties
  <2> QED
    BY <2>1, <2>3, AppendProperties
<1>4. PICK t : t = Append(s, n)
  OBVIOUS
<1>5. ASSUME NEW x \in ToSet(t)
      PROVE  x \in ToSet(s) \cup {n}
  <2>1. PICK i \in 1..(Len(s) + 1) : x = t[i]
    BY <1>3, <1>4, <1>5 DEF ToSet
  <2>2. i \in 1..Len(s) \/ i = Len(s) + 1
    BY <1>2
  <2> QED
    BY <1>2, <1>3, <1>4, <2>1, <2>2 DEF ToSet
<1>6. ASSUME NEW x \in ToSet(s) \cup {n}
      PROVE  x \in ToSet(t)
  <2>1. CASE x = n
    <3>1. Len(s) + 1 \in 1..(Len(s) + 1)
      BY <1>2
    <3> QED
      BY <1>3, <1>4, <2>1, <3>1 DEF ToSet
  <2>2. CASE x \in ToSet(s)
    <3>1. PICK i \in 1..Len(s) : x = s[i]
      BY <1>2, <2>2 DEF ToSet
    <3>2. i \in 1..(Len(s) + 1)
      BY <1>2
    <3> QED
      BY <1>3, <1>4, <3>1, <3>2 DEF ToSet
  <2> QED
    BY <2>1, <2>2
<1> QED
  BY <1>1, <1>4, <1>5, <1>6

\* A step closes one branch at most.
ClosesOnly(cut) ==
  \A p \in Branches(Added) : Closed(p)' <=> Closed(p) \/ (has_parent /\ p = cut)

\* Closing a branch closes no other, and its node is collected if the DB trie has it.
LEMMA ClosingNodes ==
  ASSUME DbInv, Iterating, ~keeps_group, failing = "none", NEW depth \in Nat, HasTrie(Added, depth),
         NEW cut, cut = SubSeq(current, 1, len),
         entries' = entries, node_collector' = node_collector,
         collected' = IF store_in_db_trie THEN Append(collected, node) ELSE collected,
         ClosesOnly(cut)
  PROVE  CollectedSoFar'
<1> SUFFICES ASSUME node_collector'
             PROVE  /\ ToSet(collected') =
                         {DbNode(Added', InDb', p) : p \in {q \in DbPlaces(Added', InDb') : Closed(q)'}}
                    /\ \A n \in ToSet(collected') : \A d \in n.hash_mask :
                         Reference(Added', Append(n.key, d)) = HashReference(n.hashes[d])
  BY Zenon DEF CollectedSoFar
<1>1. node_collector /\ pc # "aborted" /\ TypeOK /\ CollectedSoFar
  BY DEF DbInv, RootInv, LegalInv, IInv, Iterating
<1>2. Added' = Added /\ InDb' = InDb
  BY DEF Added, InDb
<1>3. /\ ToSet(collected) =
           {DbNode(Added, InDb, p) : p \in {q \in DbPlaces(Added, InDb) : Closed(q)}}
      /\ \A n \in ToSet(collected) : \A d \in n.hash_mask :
           Reference(Added, Append(n.key, d)) = HashReference(n.hashes[d])
  BY <1>1, Zenon DEF CollectedSoFar
<1>4. PICK places : places = DbPlaces(Added, InDb)
  OBVIOUS
<1>5. \A p \in places : Closed(p)' <=> Closed(p) \/ (has_parent /\ p = cut)
  BY <1>4, Zenon DEF DbPlaces, ClosesOnly
<1>6. CASE store_in_db_trie
  <2>1. has_parent
    BY <1>6 DEF store_in_db_trie, collects
  <2>2. cut \in places
    BY <1>1, <1>4, <1>6, <2>1, ClosedBranch
  <2>3. /\ node = DbNode(Added, InDb, cut)
        /\ \A d \in HashMask(Added, cut) :
             Reference(Added, Append(cut, d)) = HashReference(node.hashes[d])
    BY <1>6, <2>1, ClosedNode
  <2>4. ToSet(collected') = ToSet(collected) \cup {node}
    BY <1>1, <1>6, OneMoreCollected
  <2>5. {q \in places : Closed(q)'} = {q \in places : Closed(q)} \cup {cut}
    BY <1>5, <2>1, <2>2
  <2>6. PICK before : before = {q \in places : Closed(q)}
    OBVIOUS
  <2>7. ToSet(collected') = {DbNode(Added, InDb, p) : p \in before \cup {cut}}
    <3>1. ToSet(collected) = {DbNode(Added, InDb, p) : p \in before}
      BY <1>3, <1>4, <2>6, Zenon
    <3> QED
      BY <2>3, <2>4, <3>1
  <2>8. node.key = cut /\ node.hash_mask = HashMask(Added, cut)
    BY <2>3, Zenon DEF DbNode
  <2>9. \A n \in ToSet(collected') : \A d \in n.hash_mask :
          Reference(Added, Append(n.key, d)) = HashReference(n.hashes[d])
    BY <1>3, <2>3, <2>4, <2>8, Zenon
  <2> QED
    BY <1>2, <1>4, <2>5, <2>6, <2>7, <2>9, Zenon
<1>7. CASE ~store_in_db_trie
  <2>1. ~(has_parent /\ cut \in places)
    BY <1>1, <1>4, <1>7, ClosedBranch
  <2>2. {q \in places : Closed(q)'} = {q \in places : Closed(q)}
    BY <1>5, <2>1
  <2>3. collected' = collected
    BY <1>7
  <2> QED
    BY <1>2, <1>3, <1>4, <2>2, <2>3, Zenon
<1> QED
  BY <1>6, <1>7

\* What CloseGroup does to the variables the flags depend on.
LEMMA CloseGroupMoves ==
  ASSUME DbInv, CloseGroup
  PROVE  /\ Iterating /\ has_parent /\ ~keeps_group /\ failing = "none"
         /\ len \in Nat /\ len > 0 /\ len < Len(current) /\ Len(current) \in Nat
         /\ current \in Seq(Nat)
         /\ key_ # <<>> /\ key_' = key_ /\ pc' = pc /\ pc # "aborted" /\ along' = current'
         /\ current' = SubSeq(current, 1, len) /\ build_extensions' = TRUE
         /\ Added' = Added /\ InDb' = InDb /\ node_collector' = node_collector
         /\ groups_' = drop_empty_groups(resize(groups_grown, len))
         /\ entries' = entries /\ root' = root /\ value_' = value_
         /\ is_in_db_trie_' = is_in_db_trie_
<1>1. /\ IInv /\ TypeOK /\ CallInProgress /\ RootInv
      /\ pc = "gen_struct_step" /\ failing = "none" /\ ~keeps_group
      /\ preceding_len # 0
  BY DEF DbInv, RootInv, LegalInv, IInv, CloseGroup, ClosesGroup
<1>2. Iterating
  BY <1>1, IterationStarts
<1>3. /\ len = preceding_len /\ len \in Nat /\ len < Len(current) /\ Len(current) \in Nat
      /\ has_parent
  BY <1>1, <1>2, ClosingLengths
<1>4. key_ # <<>> /\ current \in Seq(Nat)
  BY <1>1, <1>2, OpenIteration, KeysAreSequences
<1>5. /\ key_' = key_ /\ pc' = pc /\ current' = SubSeq(current, 1, len)
      /\ build_extensions' = TRUE /\ node_collector' = node_collector
      /\ groups_' = drop_empty_groups(resize(groups_grown, len))
      /\ entries' = entries /\ root' = root /\ value_' = value_
      /\ is_in_db_trie_' = is_in_db_trie_
  BY <1>3 DEF CloseGroup
<1>6. Added' = Added /\ InDb' = InDb
  BY <1>5 DEF Added, InDb
<1>7. along' = current'
  BY <1>1, <1>5 DEF along
<1>8. len > 0
  BY <1>1, <1>3
<1> QED
  BY <1>1, <1>2, <1>3, <1>4, <1>5, <1>6, <1>7, <1>8

\* The masks that are left are those of the groups that are still open.
LEMMA CloseGroupFlags ==
  ASSUME DbInv, CloseGroup
  PROVE  FlagsOfTrie'
<1>1. /\ Iterating /\ has_parent /\ ~keeps_group /\ failing = "none"
      /\ len \in Nat /\ len > 0 /\ len < Len(current) /\ Len(current) \in Nat
      /\ current \in Seq(Nat)
      /\ along' = current' /\ current' = SubSeq(current, 1, len) /\ build_extensions' = TRUE
      /\ Added' = Added /\ InDb' = InDb /\ node_collector' = node_collector
      /\ groups_' = drop_empty_groups(resize(groups_grown, len))
  BY CloseGroupMoves
<1>2. hash_masks_' = hash_masks_closed /\ tree_masks_' = tree_masks_closed
  BY DEF CloseGroup, ClosesGroup
<1> SUFFICES ASSUME node_collector'
             PROVE  /\ Len(groups_') <= Len(hash_masks_')
                    /\ build_extensions' => Len(along') <= Len(hash_masks_')
                    /\ \A i \in DOMAIN hash_masks_' :
                         /\ hash_masks_'[i] =
                              {d \in Complete(i)' :
                                 Hashed(Added', Append(SubSeq(along', 1, i - 1), d))}
                         /\ tree_masks_'[i] =
                              {d \in Complete(i)' :
                                 Stored(Added', InDb', Append(SubSeq(along', 1, i - 1), d))}
  BY Zenon DEF FlagsOfTrie
<1>3. RootInv
  BY DEF DbInv
<1>4. PICK depth \in Nat : HasTrie(Added, depth)
  BY <1>3 DEF RootInv
<1>5. PICK hash : hash = hash_masks_closed
  OBVIOUS
<1>6. PICK tree : tree = tree_masks_closed
  OBVIOUS
<1>7. /\ Flags(hash, current, ClosedDigits, HashedPlaces)
      /\ Flags(tree, current, ClosedDigits, StoredPlaces)
  BY <1>1, <1>4, <1>5, <1>6, ClosedFlags
<1>8. hash \in Seq(Mask) /\ Len(hash) = len /\ Len(tree) = len /\ DOMAIN hash = 1..len
  <2>1. hash \in Seq(Mask) /\ Len(hash) = len /\ Len(tree) = len
    BY <1>1, <1>5, <1>6, ClosingMasks DEF Within
  <2> QED
    BY <2>1, LenProperties
<1>9. PICK cut : cut = SubSeq(current, 1, len)
  OBVIOUS
<1>10. cut \in Seq(Nat) /\ Len(cut) = len /\ \A i \in 1..len : cut[i] = current[i]
  <2>1. len \in 0..Len(current)
    BY <1>1
  <2> QED
    BY <1>1, <1>9, <2>1, CutIsPrefix
<1>11. PICK masks : masks = resize(groups_grown, len)
  OBVIOUS
<1>12. PICK less : less = drop_empty_groups(masks)
  OBVIOUS
<1>13. groups_grown \in Seq(Mask) /\ Len(groups_grown) = len + 1
  <2>1. TypeOK /\ CallInProgress /\ pc = "gen_struct_step" /\ len < Len(current)
    BY <1>1 DEF Iterating
  <2> QED
    BY <2>1, IterationGroups
<1>14. /\ masks \in Seq(Mask) /\ Len(masks) = len
       /\ \A i \in 1..len : masks[i] = groups_grown[i]
  <2>1. /\ resize(groups_grown, len) \in Seq(Mask) /\ Len(resize(groups_grown, len)) = len
        /\ \A i \in 1..len : resize(groups_grown, len)[i] =
                               IF i <= Len(groups_grown) THEN groups_grown[i] ELSE {}
    BY <1>1, <1>13, ResizeProperties
  <2>2. \A i \in 1..len : i <= Len(groups_grown)
    BY <1>1, <1>13
  <2> QED
    BY <1>11, <2>1, <2>2
<1>15. /\ less \in Seq(Mask) /\ Len(less) \in Nat /\ Len(less) <= len
       /\ \A i \in 1..Len(less) : less[i] = masks[i]
       /\ \A i \in 1..len : i > Len(less) => masks[i] = {}
  BY <1>12, <1>14, DropEmptyGroupsProperties, LenProperties
<1>16. ASSUME NEW i \in 1..len
       PROVE  Complete(i)' = ClosedDigits[i]
  <2>1. Complete(i)' = (IF i <= Len(less) THEN less[i] ELSE {})
                       \cup (IF i = len THEN {cut[i]} ELSE {})
    BY <1>1, <1>9, <1>10, <1>11, <1>12 DEF Complete
  <2>2. i \in Nat /\ i <= len + 1
    BY <1>1
  <2>3. ClosedDigits[i] = groups_grown[i] \cup (IF i = len THEN {current[i]} ELSE {})
    BY <2>2 DEF ClosedDigits, GrownDigits
  <2>4. (IF i <= Len(less) THEN less[i] ELSE {}) = groups_grown[i]
    <3>1. CASE i <= Len(less)
      BY <1>14, <1>15, <2>2, <3>1
    <3>2. CASE ~(i <= Len(less))
      <4>1. i > Len(less)
        BY <1>15, <2>2, <3>2
      <4> QED
        BY <1>14, <1>15, <3>2, <4>1
    <3> QED
      BY <3>1, <3>2
  <2> QED
    BY <1>10, <2>1, <2>3, <2>4
<1>17. ASSUME NEW i \in 1..len, NEW d \in ClosedDigits[i]
       PROVE  /\ Append(SubSeq(current, 1, i - 1), d) \in HashedPlaces <=>
                    Hashed(Added, Append(SubSeq(cut, 1, i - 1), d))
              /\ Append(SubSeq(current, 1, i - 1), d) \in StoredPlaces <=>
                    Stored(Added, InDb, Append(SubSeq(cut, 1, i - 1), d))
  <2>1. PICK n \in Nat : i - 1 = n /\ n < len
    BY <1>1
  <2>2. PICK q : q = SubSeq(cut, 1, n) /\ q \in Seq(Nat)
    <3>1. n \in 0..Len(cut)
      BY <1>10, <2>1
    <3> QED
      BY <1>10, <3>1, CutIsPrefix
  <2>3. SubSeq(current, 1, n) = q
    BY <1>1, <1>10, <2>1, <2>2, SameCut
  <2>4. d \in Nat
    <3>1. i \in 1..Len(groups_grown) /\ i \in Nat /\ i <= len + 1 /\ i \in 1..Len(current)
      BY <1>1, <1>13
    <3>2. groups_grown[i] \in Mask /\ current[i] \in Nat
      BY <1>1, <1>13, <3>1, ElementOfSeq
    <3>3. ClosedDigits[i] = groups_grown[i] \cup (IF i = len THEN {current[i]} ELSE {})
      BY <3>1 DEF ClosedDigits, GrownDigits
    <3> QED
      BY <3>2, <3>3 DEF Mask, Digit
  <2>5. PICK p : p = Append(q, d) /\ p \in Seq(Nat)
    BY <2>2, <2>4, AppendProperties
  <2> QED
    BY <2>1, <2>2, <2>3, <2>5 DEF HashedPlaces, StoredPlaces
<1>18. ASSUME NEW i \in 1..len
       PROVE  /\ hash[i] = {d \in Complete(i)' : Hashed(Added, Append(SubSeq(cut, 1, i - 1), d))}
              /\ tree[i] = {d \in Complete(i)' :
                              Stored(Added, InDb, Append(SubSeq(cut, 1, i - 1), d))}
  <2>1. /\ hash[i] = {d \in ClosedDigits[i] : Append(SubSeq(current, 1, i - 1), d) \in HashedPlaces}
        /\ tree[i] = {d \in ClosedDigits[i] : Append(SubSeq(current, 1, i - 1), d) \in StoredPlaces}
    BY <1>7, <1>8 DEF Flags
  <2>2. PICK digits : digits = ClosedDigits[i] /\ digits = Complete(i)'
    BY <1>16
  <2>3. /\ hash[i] = {d \in digits : Hashed(Added, Append(SubSeq(cut, 1, i - 1), d))}
        /\ tree[i] = {d \in digits : Stored(Added, InDb, Append(SubSeq(cut, 1, i - 1), d))}
    BY <1>17, <2>1, <2>2
  <2> QED
    BY <2>2, <2>3
<1>19. Len(groups_') <= Len(hash_masks_') /\ Len(along') <= Len(hash_masks_')
  BY <1>1, <1>2, <1>5, <1>8, <1>9, <1>10, <1>11, <1>12, <1>15
<1> QED
  <2>1. /\ hash_masks_' = hash /\ tree_masks_' = tree /\ along' = cut /\ DOMAIN hash_masks_' = 1..len
    BY <1>1, <1>2, <1>5, <1>6, <1>8, <1>9, Zenon
  <2> QED
    BY <1>1, <1>18, <1>19, <2>1, Zenon

\* Of the branches the key goes on from only that of the group is closed.
LEMMA CloseGroupNodes ==
  ASSUME DbInv, CloseGroup
  PROVE  CollectedSoFar'
<1>1. /\ Iterating /\ has_parent /\ ~keeps_group /\ failing = "none"
      /\ len \in Nat /\ len > 0 /\ len < Len(current) /\ Len(current) \in Nat
      /\ current \in Seq(Nat) /\ key_ # <<>> /\ key_' = key_
      /\ along' = current' /\ current' = SubSeq(current, 1, len) /\ build_extensions' = TRUE
      /\ entries' = entries /\ node_collector' = node_collector
  BY CloseGroupMoves
<1>2. RootInv
  BY DEF DbInv
<1>3. PICK depth \in Nat : HasTrie(Added, depth)
  BY <1>2 DEF RootInv
<1>4. along = current
  BY <1>1, <1>2, OpenIteration
<1>5. PICK cut : cut = SubSeq(current, 1, len)
  OBVIOUS
<1>6. cut \in Seq(Nat) /\ Len(cut) = len /\ starts_with(current, cut)
  <2>1. len \in 0..Len(current)
    BY <1>1
  <2> QED
    BY <1>1, <1>5, <2>1, CutIsPrefix
<1>7. ASSUME NEW p \in Branches(Added)
      PROVE  Closed(p)' <=> Closed(p) \/ (has_parent /\ p = cut)
  <2>1. Closed(p)' <=> ~starts_with(cut, p) \/ p = cut
    BY <1>1, <1>5 DEF Closed
  <2>2. Closed(p) <=> ~starts_with(current, p) \/ (build_extensions /\ p = current)
    BY <1>1, <1>4 DEF Closed
  <2>3. p \in Seq(Nat)
    BY <1>3, PlaceIs DEF Branches
  <2>4. starts_with(cut, p) => starts_with(current, p)
    BY <1>1, <1>6, <2>3, PrefixTransitive
  <2>5. p = current => ~starts_with(cut, p)
    BY <1>1, <1>6 DEF starts_with
  <2>6. starts_with(current, p) /\ ~starts_with(cut, p) => build_extensions /\ p = current
    <3>1. SUFFICES ASSUME starts_with(current, p), Len(p) <= len
                   PROVE  starts_with(cut, p)
      BY <1>1, <1>2, <1>3, BranchesAlong
    <3> QED
      BY <1>1, <1>6, <2>3, <3>1, PrefixesNest
  <2> QED
    BY <1>1, <2>1, <2>2, <2>4, <2>5, <2>6, Zenon
<1>8. collected' = IF store_in_db_trie THEN Append(collected, node) ELSE collected
  BY DEF CloseGroup, ClosesGroup
<1> QED
  <2>1. ClosesOnly(cut)
    BY <1>7 DEF ClosesOnly
  <2> QED
    BY <1>1, <1>3, <1>5, <1>8, <2>1, ClosingNodes

\* An iteration that closes a group and goes on.
LEMMA CloseGroupHasDbTrie ==
  ASSUME DbInv, CloseGroup
  PROVE  HasDbTrie'
<1>1. /\ key_ # <<>> /\ key_' = key_ /\ value_' = value_ /\ is_in_db_trie_' = is_in_db_trie_
      /\ root' = root /\ InDb' = InDb
  BY CloseGroupMoves
<1>2. PendingFits'
  BY <1>1 DEF PendingFits, DbInv
<1> QED
  BY <1>2, CloseGroupFlags, CloseGroupNodes DEF HasDbTrie

\* When the outermost group is closed there is no branch that is not.
LEMMA CloseLastGroupHasDbTrie ==
  ASSUME DbInv, CloseLastGroup
  PROVE  HasDbTrie'
<1>1. /\ IInv /\ TypeOK /\ CallInProgress /\ RootInv
      /\ pc = "gen_struct_step" /\ failing = "none" /\ ~keeps_group
      /\ preceding_len = 0
  BY DEF DbInv, RootInv, LegalInv, IInv, CloseLastGroup, ClosesGroup
<1>2. Iterating
  BY <1>1, IterationStarts
<1>3. len = 0 /\ succeeding = <<>>
  BY <1>1, <1>2, ClosingLengths
<1>4. call.op = "root_hash"
  BY <1>1, <1>3 DEF CallInProgress
<1>5. /\ key_' = <<>> /\ entries' = entries /\ node_collector' = node_collector
      /\ collected' = IF store_in_db_trie THEN Append(collected, node) ELSE collected
  BY <1>3, <1>4 DEF CloseLastGroup, ClosesGroup, Return, succeeding
<1>6. tree_masks_' = <<>> /\ hash_masks_' = <<>>
  <2>1. tree_masks_' = tree_masks_closed /\ hash_masks_' = hash_masks_closed
    BY DEF CloseLastGroup, ClosesGroup
  <2> QED
    BY <1>3, <2>1 DEF tree_masks_closed, hash_masks_closed, resize
<1>7. PICK depth \in Nat : HasTrie(Added, depth)
  BY <1>1 DEF RootInv
<1>8. PICK cut : cut = SubSeq(current, 1, len)
  OBVIOUS
<1>9. cut = <<>>
  <2>1. current \in Seq(Nat)
    BY <1>1, KeysAreSequences
  <2> QED
    BY <1>3, <1>8, <2>1
<1>10. ASSUME NEW p \in Branches(Added)
       PROVE  Closed(p)' <=> Closed(p) \/ (has_parent /\ p = cut)
  <2>1. Closed(p)'
    BY <1>5 DEF Closed
  <2>2. SUFFICES ASSUME ~Closed(p)
                 PROVE  has_parent /\ p = cut
    BY <2>1
  <2>3. along = current
    BY <1>1, <1>2, OpenIteration
  <2>4. starts_with(current, p) /\ ~(build_extensions /\ p = current)
    BY <2>2, <2>3 DEF Closed
  <2>5. has_parent /\ Len(p) <= 0
    BY <1>1, <1>2, <1>3, <1>7, <2>4, BranchesAlong
  <2>6. p \in Seq(Nat)
    BY <1>7, PlaceIs DEF Branches
  <2>7. p = <<>>
    BY <2>5, <2>6, EmptySeq
  <2> QED
    BY <1>9, <2>5, <2>7
<1>11. CollectedSoFar'
  <2>1. ClosesOnly(cut)
    BY <1>10 DEF ClosesOnly
  <2> QED
    BY <1>1, <1>2, <1>5, <1>7, <1>8, <2>1, ClosingNodes
<1>12. pc' = "idle"
  BY DEF CloseLastGroup, Return
<1>13. FlagsOfTrie' /\ PendingFits'
  BY <1>5, <1>6, <1>12 DEF FlagsOfTrie, PendingFits
<1> QED
  BY <1>11, <1>13 DEF HasDbTrie

\* A step that leaves the trie and what is collected of it alone.
LEMMA NothingCollects ==
  ASSUME DbInv,
         UNCHANGED <<key_, value_, is_in_db_trie_, groups_, tree_masks_, hash_masks_,
                     build_extensions, collected, root, entries, node_collector>>,
         pc' # "aborted" => pc # "aborted" /\ along' = along,
         pc' = "aborted" => root = <<>>
  PROVE  HasDbTrie'
<1>1. Added' = Added /\ InDb' = InDb
  BY DEF Added, InDb
<1>2. PendingFits'
  BY <1>1 DEF PendingFits, DbInv
<1>3. CASE pc' = "aborted"
  BY <1>2, <1>3 DEF HasDbTrie, FlagsOfTrie, CollectedSoFar
<1>4. CASE pc' # "aborted"
  <2>1. along' = along /\ pc # "aborted"
    BY <1>4
  <2>2. \A i : Complete(i)' = Complete(i)
    BY <2>1 DEF Complete
  <2>3. \A p : Closed(p)' <=> Closed(p)
    BY <2>1 DEF Closed
  <2>4. FlagsOfTrie'
    <3>1. SUFFICES ASSUME node_collector', key_' # <<>>
                   PROVE  /\ Len(groups_') <= Len(hash_masks_')
                          /\ build_extensions' => Len(along') <= Len(hash_masks_')
                          /\ \A i \in DOMAIN hash_masks_' :
                               /\ hash_masks_'[i] =
                                    {d \in Complete(i)' :
                                       Hashed(Added', Append(SubSeq(along', 1, i - 1), d))}
                               /\ tree_masks_'[i] =
                                    {d \in Complete(i)' :
                                       Stored(Added', InDb', Append(SubSeq(along', 1, i - 1), d))}
      BY Zenon DEF FlagsOfTrie
    <3>2. /\ Len(groups_) <= Len(hash_masks_)
          /\ build_extensions => Len(along) <= Len(hash_masks_)
          /\ \A i \in DOMAIN hash_masks_ :
               /\ hash_masks_[i] =
                    {d \in Complete(i) : Hashed(Added, Append(SubSeq(along, 1, i - 1), d))}
               /\ tree_masks_[i] =
                    {d \in Complete(i) : Stored(Added, InDb, Append(SubSeq(along, 1, i - 1), d))}
      <4>1. FlagsOfTrie /\ node_collector /\ key_ # <<>>
        BY <3>1 DEF DbInv
      <4> QED
        BY <2>1, <4>1, Zenon DEF FlagsOfTrie
    <3> QED
      BY <1>1, <2>1, <2>2, <3>2, Zenon
  <2>5. CollectedSoFar'
    <3>1. SUFFICES ASSUME node_collector'
                   PROVE  /\ ToSet(collected') =
                               {DbNode(Added', InDb', p) :
                                  p \in {q \in DbPlaces(Added', InDb') : Closed(q)'}}
                          /\ \A n \in ToSet(collected') : \A d \in n.hash_mask :
                               Reference(Added', Append(n.key, d)) = HashReference(n.hashes[d])
      BY Zenon DEF CollectedSoFar
    <3>2. /\ ToSet(collected) =
               {DbNode(Added, InDb, p) : p \in {q \in DbPlaces(Added, InDb) : Closed(q)}}
          /\ \A n \in ToSet(collected) : \A d \in n.hash_mask :
               Reference(Added, Append(n.key, d)) = HashReference(n.hashes[d])
      <4>1. CollectedSoFar /\ node_collector
        BY <3>1 DEF DbInv
      <4> QED
        BY <2>1, <4>1, Zenon DEF CollectedSoFar
    <3>3. {q \in DbPlaces(Added, InDb) : Closed(q)'} = {q \in DbPlaces(Added, InDb) : Closed(q)}
      BY <2>3
    <3> QED
      BY <1>1, <3>2, <3>3, Zenon
  <2> QED
    BY <1>2, <2>4, <2>5 DEF HasDbTrie
<1> QED
  BY <1>3, <1>4

\* A trie without branches has no nodes in the DB trie.
LEMMA NoBranches ==
  ASSUME NEW E, NEW in_db, \A e, g \in E : e = g
  PROVE  DbPlaces(E, in_db) = {}
<1>1. ASSUME NEW p \in Branches(E)
      PROVE  FALSE
  <2>1. PICK c \in DigitsAt(E, p), d \in DigitsAt(E, p) : c # d
    BY DEF Branches, Parted
  <2>2. PICK e \in E : c = e.key[Len(p) + 1]
    BY DEF DigitsAt, Below
  <2>3. PICK g \in E : d = g.key[Len(p) + 1]
    BY DEF DigitsAt, Below
  <2>4. e = g
    OBVIOUS
  <2> QED
    BY <2>1, <2>2, <2>3, <2>4, Zenon
<1> QED
  BY <1>1 DEF DbPlaces

\* Before the first entry.
NothingAdded ==
  /\ entries = <<>> /\ collected = <<>> /\ key_ = <<>> /\ pc = "idle"
  /\ tree_masks_ = <<>> /\ hash_masks_ = <<>>

\* Then the masks are empty, and so is the trie.
LEMMA NothingAddedYet == NothingAdded => HasDbTrie
<1> SUFFICES ASSUME NothingAdded
             PROVE  HasDbTrie
  OBVIOUS
<1>1. FlagsOfTrie /\ PendingFits
  BY DEF FlagsOfTrie, PendingFits, NothingAdded
<1>2. Added = {} /\ ToSet(collected) = {}
  BY DEF Added, NothingAdded, ToSet
<1>3. DbPlaces(Added, InDb) = {}
  BY <1>2, NoBranches
<1>4. CollectedSoFar
  BY <1>2, <1>3 DEF CollectedSoFar
<1> QED
  BY <1>1, <1>4 DEF HasDbTrie

\* The first entry makes no branch.
LEMMA FirstHasDbTrie ==
  ASSUME DbInv, pc = "idle", key_ = <<>>, NEW c \in Calls, Contract(c), NEW stack, Finish(c, stack)
  PROVE  HasDbTrie'
<1>1. /\ RootInv /\ LastEntryPending /\ TypeOK /\ CollectedClosed /\ FinishedTrie /\ PendingFits
  BY DEF DbInv, RootInv, CollectInv, LegalInv, IInv
<1>2. entries = <<>> /\ Len(entries) = 0 /\ collected = <<>>
  <2>1. Len(entries) = 0
    BY <1>1 DEF LastEntryPending, Contract
  <2>2. entries = <<>>
    BY <1>1, <2>1, EmptySeq DEF TypeOK
  <2> QED
    BY <1>1, <2>1, <2>2 DEF CollectedClosed
<1>3. groups_ = <<>> /\ hash_masks_ = <<>> /\ tree_masks_ = <<>>
  BY <1>1 DEF FinishedTrie, PendingFits
<1>4. c.op # "root_hash"
  BY DEF Calls
<1>5. InOrder(c.key)
  BY DEF Contract
<1>6. /\ key_' = c.key /\ pc' = "idle" /\ build_extensions' = FALSE /\ root' = <<>>
      /\ entries' = Append(entries, [key |-> c.key, value |-> c.value, in_db |-> c.in_db])
      /\ Return(c, stack)
  BY <1>4, ReturnOfEntry DEF Finish
<1>7. /\ groups_' = <<>> /\ hash_masks_' = <<>> /\ tree_masks_' = <<>> /\ collected' = <<>>
  BY <1>2, <1>3 DEF Finish
<1>8. value_'.tag = "hash" => (is_in_db_trie_' <=> key_' \in InDb')
  BY <1>1, <1>5, <1>6, PendingReturned
<1>9. PendingFits'
  BY <1>6, <1>7, <1>8 DEF PendingFits
<1>10. FlagsOfTrie'
  BY <1>6, <1>7 DEF FlagsOfTrie
<1>11. Added' = {[key |-> c.key, value |-> c.value]}
  <2>1. Added' = Added \cup {[key |-> c.key, value |-> c.value]}
    BY <1>1, <1>5, <1>6, EntryAdded
  <2>2. Added = {}
    BY <1>2 DEF Added
  <2> QED
    BY <2>1, <2>2
<1>12. DbPlaces(Added', InDb') = {}
  <2>1. \A e, g \in Added' : e = g
    BY <1>11
  <2> QED
    BY <2>1, NoBranches
<1>13. ToSet(collected') = {}
  BY <1>7 DEF ToSet
<1>14. CollectedSoFar'
  BY <1>12, <1>13 DEF CollectedSoFar
<1> QED
  BY <1>9, <1>10, <1>14 DEF HasDbTrie

\* A trie that is finished stays what it is when its root is asked for again.
LEMMA AskedAgain ==
  ASSUME DbInv, pc = "idle", key_ = <<>>, NEW stack, Finish(root_hash_call, stack)
  PROVE  HasDbTrie'
<1>1. CollectedSoFar /\ PendingFits
  BY DEF DbInv
<1>2. /\ key_' = <<>> /\ pc' = "idle" /\ entries' = entries /\ collected' = collected
      /\ hash_masks_' = hash_masks_ /\ tree_masks_' = tree_masks_
      /\ node_collector' = node_collector
  BY DEF Finish, Return, root_hash_call
<1>3. Added' = Added /\ InDb' = InDb
  BY <1>2 DEF Added, InDb
<1>4. FlagsOfTrie' /\ PendingFits'
  BY <1>1, <1>2 DEF FlagsOfTrie, PendingFits
<1>5. \A p : Closed(p)' /\ Closed(p)
  BY <1>2 DEF Closed
<1>6. CollectedSoFar'
  <2>1. SUFFICES ASSUME node_collector'
                 PROVE  /\ ToSet(collected') =
                             {DbNode(Added', InDb', p) :
                                p \in {q \in DbPlaces(Added', InDb') : Closed(q)'}}
                        /\ \A n \in ToSet(collected') : \A d \in n.hash_mask :
                             Reference(Added', Append(n.key, d)) = HashReference(n.hashes[d])
    BY Zenon DEF CollectedSoFar
  <2>2. /\ ToSet(collected) =
             {DbNode(Added, InDb, p) : p \in {q \in DbPlaces(Added, InDb) : Closed(q)}}
        /\ \A n \in ToSet(collected) : \A d \in n.hash_mask :
             Reference(Added, Append(n.key, d)) = HashReference(n.hashes[d])
    <3>1. node_collector /\ pc # "aborted"
      BY <1>2, <2>1
    <3> QED
      BY <1>1, <3>1, Zenon DEF CollectedSoFar
  <2>3. {q \in DbPlaces(Added, InDb) : Closed(q)'} = {q \in DbPlaces(Added, InDb) : Closed(q)}
    BY <1>5
  <2> QED
    BY <1>2, <1>3, <2>2, <2>3, Zenon
<1> QED
  BY <1>4, <1>6 DEF HasDbTrie

\* Every step of a client that respects the contract keeps what is known of the collector.
LEMMA LegalNextHasDbTrie ==
  ASSUME DbInv, [LegalNext]_vars
  PROVE  DbInv'
<1>1. RootInv'
  BY LegalNextServes DEF DbInv
<1>2. CollectInv'
  BY LegalNextCollects DEF DbInv
<1>3. /\ IInv /\ TypeOK /\ GroupsAlongKey /\ CallInProgress /\ LastEntryPending /\ PendingFits
      /\ CollectedClosed
  BY DEF DbInv, RootInv, CollectInv, LegalInv, IInv
<1>4. failed' # "order"
  BY <1>1 DEF RootInv, LegalInv, ContractNeverAborts
<1>5. ASSUME NEW c, Enter(c), pc = "idle"
      PROVE  HasDbTrie'
  <2>1. /\ UNCHANGED <<key_, value_, is_in_db_trie_, groups_, tree_masks_, hash_masks_,
                       collected, root, entries, node_collector>>
        /\ pc' = "gen_struct_step" /\ current' = key_ /\ build_extensions' = FALSE
    BY <1>5 DEF Enter, builder, observed
  <2>2. build_extensions = FALSE
    BY <1>3, <1>5 DEF GroupsAlongKey, TypeOK
  <2>3. along' = along
    BY <1>5, <2>1 DEF along
  <2> QED
    BY <1>5, <2>1, <2>2, <2>3, NothingCollects
<1>6. ASSUME NothingAdded'
      PROVE  HasDbTrie'
  BY <1>6, NothingAddedYet, PTL
<1>7. HasDbTrie'
  <2>1. ASSUME NEW c \in Calls, Contract(c), Add(c)
        PROVE  HasDbTrie'
    <3>1. pc = "idle" /\ ~Abort("order")
      <4>1. ~Abort("order")
        BY <1>4 DEF Abort
      <4>2. pc = "idle"
        BY <2>1 DEF Add, add_leaf, add_branch_node
      <4> QED
        BY <4>1, <4>2
    <3>2. Enter(c) \/ (key_ = <<>> /\ \E stack : Finish(c, stack))
      <4>1. CASE add_leaf(c)
        BY <3>1, <4>1 DEF add_leaf
      <4>2. CASE add_branch_node(c)
        <5>1. key_ # <<>> => c.key # <<>>
          BY <1>3, <2>1, <3>1, LegalCall DEF greater, starts_with, DbInv, RootInv
        <5> QED
          BY <3>1, <4>2, <5>1 DEF add_branch_node
      <4> QED
        BY <2>1, <4>1, <4>2 DEF Add
    <3> QED
      BY <1>5, <2>1, <3>1, <3>2, FirstHasDbTrie
  <2>2. CASE root_hash
    BY <1>5, <2>2, AskedAgain DEF root_hash
  <2>3. CASE reset
    <3>1. NothingAdded'
      BY <2>3 DEF reset, frame, NothingAdded
    <3> QED
      BY <1>6, <3>1
  <2>4. ASSUME NEW installed \in BOOLEAN, entries = <<>>, set_node_collector(installed)
        PROVE  HasDbTrie'
    <3>1. key_ = <<>>
      BY <1>3, <2>4 DEF LastEntryPending, TypeOK
    <3>2. collected = <<>> /\ pc = "idle"
      BY <1>3, <2>4 DEF CollectedClosed, set_node_collector
    <3>3. tree_masks_ = <<>> /\ hash_masks_ = <<>>
      BY <1>3, <3>1, <3>2 DEF PendingFits
    <3>4. NothingAdded'
      BY <2>4, <3>1, <3>2, <3>3 DEF set_node_collector, builder, frame, observed, NothingAdded
    <3> QED
      BY <1>6, <3>4
  <2>5. CASE KeepGroup
    BY <2>5, KeepGroupHasDbTrie
  <2>6. CASE CloseGroup
    BY <2>6, CloseGroupHasDbTrie
  <2>7. CASE CloseLastGroup
    BY <2>7, CloseLastGroupHasDbTrie
  <2>8. CASE FailAssertion
    <3>1. /\ UNCHANGED <<key_, value_, is_in_db_trie_, groups_, tree_masks_, hash_masks_,
                         build_extensions, collected, root, entries, node_collector>>
          /\ pc' = "aborted" /\ pc = "gen_struct_step"
      BY <2>8 DEF FailAssertion, Abort, builder, observed
    <3>2. root = <<>>
      BY <1>3, <3>1 DEF CallInProgress, PendingFits
    <3> QED
      BY <3>1, <3>2, NothingCollects
  <2>9. CASE UNCHANGED vars
    <3>1. /\ UNCHANGED <<key_, value_, is_in_db_trie_, groups_, tree_masks_, hash_masks_,
                         build_extensions, collected, root, entries, node_collector>>
          /\ pc' = pc /\ current' = current
      BY <2>9 DEF vars, builder, frame, observed
    <3>2. along' = along
      BY <3>1 DEF along
    <3>3. pc = "aborted" => root = <<>>
      BY <1>3 DEF PendingFits
    <3> QED
      BY <3>1, <3>2, <3>3, NothingCollects
  <2> QED
    BY <2>1, <2>2, <2>3, <2>4, <2>5, <2>6, <2>7, <2>8, <2>9 DEF LegalNext, gen_struct_step
<1> QED
  BY <1>1, <1>2, <1>7 DEF DbInv, HasDbTrie

\* A builder just made, or just reset.
LEMMA EmptyHasDbTrie == Empty => DbInv
<1> SUFFICES ASSUME Empty
             PROVE  DbInv
  OBVIOUS
<1>1. CollectInv
  BY EmptyCollects
<1>2. HasDbTrie
  BY NothingAddedYet DEF Empty, NothingAdded
<1>3. Added = {}
  BY DEF Empty, Added
<1>4. HasTrie(Added, 0)
  BY <1>3 DEF HasTrie
<1>5. OpenTrie /\ FinishedTrie /\ EntriesFit
  BY DEF Empty, OpenTrie, FinishedTrie, EntriesFit
<1> QED
  BY <1>1, <1>2, <1>4, <1>5 DEF DbInv, RootInv, CollectInv, HasDbTrie

\* The invariant of a builder whose collector may throw.
DbFailureInv == FailureInv /\ (IF thrown THEN root = <<>> ELSE DbInv)

\* It holds initially ...
LEMMA DbFailureInit == FInit => DbFailureInv
<1> SUFFICES ASSUME FInit
             PROVE  DbFailureInv
  OBVIOUS
<1>1. Empty
  <2>1. no_call \in Calling /\ <<>> \in Seq(Digit)
    BY DEF Calling
  <2>2. node_collector \in BOOLEAN
    BY DEF FInit, Init
  <2> QED
    BY <2>1, <2>2 DEF FInit, Init, Empty
<1> QED
  BY <1>1, EmptyHasDbTrie, FailureInitEstablishes DEF FInit, DbFailureInv

\* ... and every step keeps it: no answer is given before the next reset.
LEMMA DbFailureNext == DbFailureInv /\ [FNext]_failvars => DbFailureInv'
<1> SUFFICES ASSUME DbFailureInv, [FNext]_failvars
             PROVE  DbFailureInv'
  OBVIOUS
<1>1. FailureInv' /\ FailureInv
  BY FailureNextKeeps DEF DbFailureInv
<1>2. CASE ~thrown /\ LegalNext /\ UNCHANGED thrown
  <2>1. DbInv'
    BY <1>2, LegalNextHasDbTrie DEF DbFailureInv
  <2> QED
    BY <1>1, <1>2, <2>1 DEF DbFailureInv
<1>3. CASE CollectorThrows
  <2>1. pc = "gen_struct_step" /\ ~thrown
    BY <1>1, <1>3 DEF CollectorThrows, Collects, FailureInv, Abandoned
  <2>2. CallInProgress /\ PendingFits
    BY <2>1 DEF DbFailureInv, DbInv, RootInv, LegalInv, IInv
  <2>3. root = <<>>
    BY <2>1, <2>2 DEF CallInProgress, PendingFits
  <2>4. root' = <<>> /\ thrown' = TRUE
    BY <1>3, <2>3 DEF CollectorThrows, observed
  <2> QED
    BY <1>1, <2>4 DEF DbFailureInv
<1>4. CASE StartAgain
  <2>1. Abandoned /\ thrown' = FALSE
    BY <1>1, <1>4 DEF StartAgain, FailureInv
  <2>2. no_call \in Calling /\ <<>> \in Seq(Digit)
    BY DEF Calling
  <2>3. Empty'
    BY <1>4, <2>1, <2>2 DEF StartAgain, reset, frame, Abandoned, Empty
  <2>4. DbInv'
    BY <2>3, EmptyHasDbTrie, PTL
  <2> QED
    BY <1>1, <2>1, <2>4 DEF DbFailureInv
<1>5. CASE UNCHANGED failvars
  <2>1. UNCHANGED vars /\ thrown' = thrown /\ root' = root
    BY <1>5 DEF failvars, vars, observed
  <2>2. CASE thrown
    BY <1>1, <2>1, <2>2 DEF DbFailureInv
  <2>3. CASE ~thrown
    <3>1. DbInv'
      BY <2>1, <2>3, LegalNextHasDbTrie DEF DbFailureInv
    <3> QED
      BY <1>1, <2>1, <2>3, <3>1 DEF DbFailureInv
  <2> QED
    BY <2>2, <2>3
<1> QED
  BY <1>2, <1>3, <1>4, <1>5 DEF FNext

\* No node is collected twice.
LEMMA CollectedOnce ==
  ASSUME TypeOK, CollectedClosed, CollectedBottomUp
  PROVE  Cardinality(ToSet(collected)) = Len(collected)
<1>1. PICK s : s = collected
  OBVIOUS
<1>2. Len(s) \in Nat /\ DOMAIN s = 1..Len(s) /\ s \in Seq(Range(s))
  BY <1>1, LenProperties DEF TypeOK
<1>3. ToSet(s) = {s[i] : i \in 1..Len(s)}
  BY <1>2 DEF ToSet
<1>4. ASSUME NEW i \in 1..Len(s), NEW j \in 1..Len(s), i < j
      PROVE  s[i] # s[j]
  <2>1. ~starts_with(s[j].key, s[i].key)
    BY <1>1, <1>2, <1>4 DEF CollectedBottomUp
  <2>2. s[i].key \in Seq(Digit)
    BY <1>1, <1>2 DEF CollectedClosed
  <2>3. starts_with(s[i].key, s[i].key)
    BY <2>2, LenProperties DEF starts_with
  <2> QED
    BY <2>1, <2>3
<1>5. ASSUME NEW i \in 1..Len(s), NEW j \in 1..Len(s), s[i] = s[j]
      PROVE  i = j
  BY <1>2, <1>4, <1>5
<1> DEFINE f == [i \in 1..Len(s) |-> s[i]]
<1>6. f \in Bijection(1..Len(s), ToSet(s))
  <2>1. f \in [1..Len(s) -> ToSet(s)]
    BY <1>3
  <2>2. \A i, j \in 1..Len(s) : f[i] = f[j] => i = j
    BY <1>5
  <2>3. \A x \in ToSet(s) : \E i \in 1..Len(s) : f[i] = x
    BY <1>3
  <2> HIDE DEF f
  <2> QED
    BY <2>1, <2>2, <2>3 DEF Bijection, Injection, Surjection, IsInjective
<1>7. IsFiniteSet(1..Len(s)) /\ Cardinality(1..Len(s)) = Len(s)
  BY <1>2, FS_Interval
<1>8. Cardinality(ToSet(s)) = Cardinality(1..Len(s))
  BY <1>6, <1>7, FS_Bijection DEF ExistsBijection
<1> QED
  BY <1>1, <1>7, <1>8

\* For every set of entries, however often the root is asked for and even if the collector
\* threw before, the nodes the collector was given by the time root_hash returns are those
\* of the DB trie of the entries, with their masks and hashes, each once (gen_struct_step).
THEOREM CollectorGetsDbTrie == FailureSpec => []CollectedIsDbTrie
<1>1. DbFailureInv => CollectedIsDbTrie
  <2> SUFFICES ASSUME DbFailureInv, node_collector, root # <<>>
               PROVE  /\ ToSet(collected) = DbNodes(Added, InDb)
                      /\ Cardinality(ToSet(collected)) = Len(collected)
    BY DEF CollectedIsDbTrie
  <2>1. DbInv
    BY DEF DbFailureInv
  <2>2. key_ = <<>> /\ pc # "aborted"
    BY <2>1 DEF DbInv, PendingFits
  <2>3. ToSet(collected) =
          {DbNode(Added, InDb, p) : p \in {q \in DbPlaces(Added, InDb) : Closed(q)}}
    BY <2>1, <2>2, Zenon DEF DbInv, CollectedSoFar
  <2>4. {q \in DbPlaces(Added, InDb) : Closed(q)} = DbPlaces(Added, InDb)
    BY <2>2 DEF Closed
  <2>5. ToSet(collected) = DbNodes(Added, InDb)
    BY <2>3, <2>4, Zenon DEF DbNodes
  <2>6. TypeOK /\ CollectedClosed /\ CollectedBottomUp
    BY <2>1 DEF DbInv, CollectInv, LegalInv, IInv
  <2> QED
    BY <2>5, <2>6, CollectedOnce
<1>2. FInit => DbFailureInv
  BY DbFailureInit
<1>3. DbFailureInv /\ [FNext]_failvars => DbFailureInv'
  BY DbFailureNext
<1> QED
  BY <1>1, <1>2, <1>3, PTL DEF FailureSpec

-----------------------------------------------------------------------------
(* A trie with the hash of one child of a branch in the place of what is   *)
(* below it.                                                               *)

\* An entry that is known by its hash.
HashAt(p, h) == [key |-> p, value |-> [tag |-> "hash", data |-> h]]

\* The entries below a place, replaced by one.
Replaced(E, p, h) == Outside(E, p) \cup {HashAt(p, h)}

\* Where that is possible: at a hashed child of a branch.
Replaces(E, G, depth, b, p, h) ==
  /\ HasTrie(E, depth) /\ G = Replaced(E, p, h)
  /\ b \in Branches(E) /\ \E d \in HashMask(E, b) : p = Append(b, d)

\* What is not below the place.
Kept(r, p) == ~starts_with(r, p) \/ r = p

\* The entries are those outside, and the hash.
LEMMA EntriesReplaced ==
  ASSUME NEW E, NEW G, NEW depth \in Nat, NEW b, NEW p, NEW h,
         Replaces(E, G, depth, b, p, h), NEW e
  PROVE  e \in G <=> (e \in E /\ ~starts_with(e.key, p)) \/ e = HashAt(p, h)
BY DEF Replaces, Replaced, Outside

\* The place is one of both tries, and in the new one it is where the hash is.
LEMMA ReplacedIs ==
  ASSUME NEW E, NEW G, NEW depth \in Nat, NEW b, NEW p, NEW h,
         Replaces(E, G, depth, b, p, h)
  PROVE  /\ HasTrie(E, depth) /\ HasTrie(G, depth)
         /\ p \in Seq(Nat) /\ p \in Places(E) /\ p \in Places(G) /\ Hashed(E, p)
         /\ b \in Seq(Nat) /\ starts_with(p, b) /\ ~starts_with(b, p)
         /\ \A r \in Seq(Nat) : starts_with(p, r) => r = p \/ starts_with(b, r)
<1>1. HasTrie(E, depth) /\ b \in Places(E)
  BY DEF Replaces, Branches
<1>2. PICK d \in HashMask(E, b) : p = Append(b, d)
  BY DEF Replaces
<1>3. d \in DigitsAt(E, b) /\ Hashed(E, p)
  BY <1>2 DEF HashMask
<1>4. d \in Nat /\ p \in Places(E)
  BY <1>1, <1>2, <1>3, PlaceOfDigit
<1>5. b \in Seq(Nat) /\ p \in Seq(Nat) /\ Below(E, p) # {} /\ Len(p) \in 0..depth
  BY <1>1, <1>4, PlaceIs
<1>6. /\ Len(p) = Len(b) + 1 /\ starts_with(p, b) /\ Len(b) \in Nat
      /\ \A i \in 1..Len(b) : p[i] = b[i]
  BY <1>2, <1>4, <1>5, BeginsWithDigit, LenProperties DEF starts_with
<1>7. ~starts_with(b, p)
  BY <1>6 DEF starts_with
<1>8. ASSUME NEW r \in Seq(Nat), starts_with(p, r), r # p
      PROVE  starts_with(b, r)
  <2>1. Len(r) \in Nat /\ Len(r) <= Len(p) /\ \A i \in 1..Len(r) : p[i] = r[i]
    BY <1>8, LenProperties DEF starts_with
  <2>2. Len(r) # Len(p)
    BY <1>5, <1>8, <2>1, PrefixesNest, LenProperties DEF starts_with
  <2>3. Len(r) <= Len(b)
    BY <1>6, <2>1, <2>2
  <2> QED
    BY <1>6, <2>1, <2>3 DEF starts_with
<1>9. PICK ent : ent = HashAt(p, h)
  OBVIOUS
<1>10. ent.key = p
  BY <1>9 DEF HashAt
<1>12. \A e : e \in G <=> (e \in E /\ ~starts_with(e.key, p)) \/ e = ent
  BY <1>9, EntriesReplaced
<1>13. starts_with(p, p)
  BY <1>5, LenProperties DEF starts_with
<1>14. Below(G, p) = {ent}
  BY <1>10, <1>12, <1>13 DEF Below
<1>15. HasTrie(G, depth)
  <2>1. \A e \in E : e.key \in Seq(Nat) /\ Len(e.key) <= depth
    BY <1>1 DEF HasTrie
  <2>2. \A e \in G : e.key \in Seq(Nat) /\ Len(e.key) <= depth
    BY <1>5, <1>10, <1>12, <2>1
  <2>3. ASSUME NEW e \in E, ~starts_with(e.key, p), starts_with(p, e.key)
        PROVE  FALSE
    <3>1. PICK g \in E : starts_with(g.key, p)
      BY <1>5 DEF Below
    <3>2. starts_with(g.key, e.key)
      BY <1>5, <2>1, <2>3, <3>1, PrefixTransitive
    <3>3. g = e
      BY <1>1, <3>1, <3>2 DEF HasTrie
    <3> QED
      BY <2>3, <3>1, <3>3
  <2>4. \A e, g \in E : starts_with(e.key, g.key) => e = g
    BY <1>1 DEF HasTrie
  <2>5. \A e, g \in G : starts_with(e.key, g.key) => e = g
    BY <1>10, <1>12, <2>3, <2>4
  <2> QED
    BY <2>2, <2>5 DEF HasTrie
<1>16. p \in Places(G)
  BY <1>5, <1>14, <1>15, PlaceIs
<1> QED
  BY <1>1, <1>3, <1>4, <1>5, <1>6, <1>7, <1>8, <1>15, <1>16

\* A kept place is one of the trie before exactly if it is one after.
LEMMA SamePlaces ==
  ASSUME NEW E, NEW G, NEW depth \in Nat, NEW b, NEW p, NEW h,
         Replaces(E, G, depth, b, p, h), NEW r \in Seq(Nat), Kept(r, p)
  PROVE  /\ r \in Places(G) <=> r \in Places(E)
         /\ ~starts_with(p, r) => Below(G, r) = Below(E, r)
<1>1. PICK ent : ent = HashAt(p, h)
  OBVIOUS
<1>2. /\ HasTrie(E, depth) /\ HasTrie(G, depth) /\ p \in Seq(Nat)
      /\ p \in Places(E) /\ p \in Places(G) /\ ent.key = p
      /\ \A e : e \in G <=> (e \in E /\ ~starts_with(e.key, p)) \/ e = ent
  <2>1. ent.key = p
    BY <1>1 DEF HashAt
  <2>2. \A e : e \in G <=> (e \in E /\ ~starts_with(e.key, p)) \/ e = ent
    BY <1>1, EntriesReplaced
  <2>3. /\ HasTrie(E, depth) /\ HasTrie(G, depth) /\ p \in Seq(Nat)
        /\ p \in Places(E) /\ p \in Places(G)
    BY ReplacedIs
  <2> QED
    BY <2>1, <2>2, <2>3
<1>3. r \in Places(E) <=> \E e \in E : starts_with(e.key, r)
  BY <1>2, PlaceIs DEF Below
<1>31. r \in Places(G) <=> \E e \in G : starts_with(e.key, r)
  BY <1>2, PlaceIs DEF Below
<1>4. CASE starts_with(p, r)
  <2>1. PICK e \in E : starts_with(e.key, p)
    BY <1>2, PlaceIs DEF Below
  <2>2. e.key \in Seq(Nat)
    BY <1>2 DEF HasTrie
  <2>3. starts_with(e.key, r)
    BY <1>2, <1>4, <2>1, <2>2, PrefixTransitive
  <2>4. ent \in G /\ starts_with(ent.key, r)
    BY <1>2, <1>4
  <2> QED
    BY <1>3, <1>31, <1>4, <2>3, <2>4
<1>5. CASE ~starts_with(p, r)
  <2>1. starts_with(p, p)
    BY <1>2, LenProperties DEF starts_with
  <2>2. ~starts_with(r, p)
    BY <1>5, <2>1 DEF Kept
  <2>3. ASSUME NEW e \in E, starts_with(e.key, r), starts_with(e.key, p)
        PROVE  FALSE
    <3>1. e.key \in Seq(Nat) /\ Len(r) \in Nat /\ Len(p) \in Nat
      BY <1>2, LenProperties DEF HasTrie
    <3> QED
      BY <1>2, <1>5, <2>2, <2>3, <3>1, PrefixesNest
  <2>4. Below(G, r) = Below(E, r)
    BY <1>2, <1>5, <2>3 DEF Below
  <2> QED
    BY <1>2, <2>4, PlaceIs
<1> QED
  BY <1>4, <1>5

\* At a place that is not below the hash, what goes on from it is kept.
LEMMA KeptOnward ==
  ASSUME NEW E, NEW G, NEW depth \in Nat, NEW b, NEW p, NEW h,
         Replaces(E, G, depth, b, p, h), NEW r \in Seq(Nat), ~starts_with(r, p), NEW d \in Nat
  PROVE  Append(r, d) \in Seq(Nat) /\ Kept(Append(r, d), p)
<1>1. p \in Seq(Nat)
  BY ReplacedIs
<1>2. PICK s : s = Append(r, d)
  OBVIOUS
<1>3. s \in Seq(Nat) /\ Len(s) = Len(r) + 1 /\ starts_with(s, r) /\ Len(r) \in Nat
  BY <1>2, BeginsWithDigit, LenProperties
<1>4. CASE starts_with(s, p) /\ Len(p) <= Len(r)
  BY <1>1, <1>3, <1>4, PrefixesNest
<1>5. CASE starts_with(s, p) /\ ~(Len(p) <= Len(r))
  <2>1. Len(p) \in Nat /\ Len(p) <= Len(s)
    BY <1>1, <1>5, LenProperties DEF starts_with
  <2>2. Len(p) = Len(s) /\ starts_with(s, s)
    BY <1>3, <1>5, <2>1 DEF starts_with
  <2>3. p = s
    BY <1>1, <1>3, <1>5, <2>1, <2>2, PrefixesNest
  <2> QED
    BY <1>2, <1>3, <2>3 DEF Kept
<1> QED
  BY <1>2, <1>3, <1>4, <1>5 DEF Kept

\* The digits of keys are numbers.
LEMMA DigitsAreNumbers ==
  ASSUME NEW E, NEW depth \in Nat, HasTrie(E, depth), NEW r \in Seq(Nat), NEW d \in DigitsAt(E, r)
  PROVE  d \in Nat
<1>1. PICK e \in E : Len(e.key) > Len(r) /\ d = e.key[Len(r) + 1]
  BY DEF DigitsAt, Below
<1>2. e.key \in Seq(Nat) /\ Len(r) \in Nat
  BY LenProperties DEF HasTrie
<1> QED
  BY <1>1, <1>2

\* So it has the same digits ...
LEMMA SameDigits ==
  ASSUME NEW E, NEW G, NEW depth \in Nat, NEW b, NEW p, NEW h,
         Replaces(E, G, depth, b, p, h), NEW r \in Seq(Nat), ~starts_with(r, p)
  PROVE  DigitsAt(G, r) = DigitsAt(E, r)
<1>1. HasTrie(E, depth) /\ HasTrie(G, depth)
  BY ReplacedIs
<1>2. Kept(r, p)
  BY DEF Kept
<1>3. r \in Places(G) <=> r \in Places(E)
  BY <1>2, SamePlaces
<1>4. \A d \in Nat : Append(r, d) \in Seq(Nat) /\ Kept(Append(r, d), p)
  BY KeptOnward
<1>5. \A d \in Nat : Append(r, d) \in Places(G) <=> Append(r, d) \in Places(E)
  BY <1>4, SamePlaces
<1>6. \A X : HasTrie(X, depth) =>
        /\ r \notin Places(X) => DigitsAt(X, r) = {}
        /\ r \in Places(X) =>
             /\ DigitsAt(X, r) \subseteq Nat
             /\ \A d \in Nat : d \in DigitsAt(X, r) <=> Append(r, d) \in Places(X)
  <2> SUFFICES ASSUME NEW X, HasTrie(X, depth)
               PROVE  /\ r \notin Places(X) => DigitsAt(X, r) = {}
                      /\ r \in Places(X) =>
                           /\ DigitsAt(X, r) \subseteq Nat
                           /\ \A d \in Nat : d \in DigitsAt(X, r) <=> Append(r, d) \in Places(X)
    OBVIOUS
  <2>1. r \notin Places(X) => Below(X, r) = {}
    BY PlaceIs
  <2>2. ASSUME r \in Places(X), NEW d \in Nat
        PROVE  d \in DigitsAt(X, r) <=> Append(r, d) \in Places(X)
    BY <1>4, <2>2, PlaceIs, PlaceOfDigit
  <2>3. r \in Places(X) => DigitsAt(X, r) \subseteq Nat
    BY PlaceOfDigit
  <2> QED
    BY <2>1, <2>2, <2>3 DEF DigitsAt
<1> QED
  BY <1>1, <1>3, <1>5, <1>6

\* ... and is a branch if it was.
LEMMA SameBranches ==
  ASSUME NEW E, NEW G, NEW depth \in Nat, NEW b, NEW p, NEW h,
         Replaces(E, G, depth, b, p, h), NEW r \in Seq(Nat), ~starts_with(r, p)
  PROVE  (Parted(G, r) <=> Parted(E, r)) /\ (r \in Branches(G) <=> r \in Branches(E))
<1>1. Kept(r, p)
  BY DEF Kept
<1>2. r \in Places(G) <=> r \in Places(E)
  BY <1>1, SamePlaces
<1>3. DigitsAt(G, r) = DigitsAt(E, r)
  BY SameDigits
<1> QED
  BY <1>2, <1>3 DEF Branches, Parted

\* Kept places are hashed or not as they were; the one of the hash was and is.
LEMMA SameHashed ==
  ASSUME NEW E, NEW G, NEW depth \in Nat, NEW b, NEW p, NEW h,
         Replaces(E, G, depth, b, p, h), NEW r \in Seq(Nat), Kept(r, p)
  PROVE  Hashed(G, r) <=> Hashed(E, r)
<1>1. PICK ent : ent = HashAt(p, h)
  OBVIOUS
<1>2. /\ ent.key = p /\ ent.value.tag = "hash" /\ Hashed(E, p) /\ p \in Seq(Nat)
      /\ \A e : e \in G <=> (e \in E /\ ~starts_with(e.key, p)) \/ e = ent
  <2>1. Hashed(E, p) /\ p \in Seq(Nat)
    BY ReplacedIs
  <2>2. ent.key = p /\ ent.value.tag = "hash"
    BY <1>1 DEF HashAt
  <2>3. \A e : e \in G <=> (e \in E /\ ~starts_with(e.key, p)) \/ e = ent
    BY <1>1, EntriesReplaced
  <2> QED
    BY <2>1, <2>2, <2>3
<1>3. CASE r = p
  BY <1>2, <1>3 DEF Hashed
<1>4. CASE r # p
  <2>1. ~starts_with(r, p)
    BY <1>4 DEF Kept
  <2>2. r \in Branches(G) <=> r \in Branches(E)
    BY <2>1, SameBranches
  <2>3. \A e : e.key = r => (e \in G <=> e \in E)
    BY <1>2, <1>4, <2>1
  <2> QED
    BY <2>2, <2>3 DEF Hashed
<1> QED
  BY <1>3, <1>4

\* So the hash masks are what they were.
LEMMA SameHashMask ==
  ASSUME NEW E, NEW G, NEW depth \in Nat, NEW b, NEW p, NEW h,
         Replaces(E, G, depth, b, p, h), NEW r \in Seq(Nat), ~starts_with(r, p)
  PROVE  HashMask(G, r) = HashMask(E, r)
<1>1. DigitsAt(G, r) = DigitsAt(E, r)
  BY SameDigits
<1>2. ASSUME NEW d \in DigitsAt(E, r)
      PROVE  Hashed(G, Append(r, d)) <=> Hashed(E, Append(r, d))
  <2>1. d \in Nat
    BY ReplacedIs, DigitsAreNumbers
  <2>2. Append(r, d) \in Seq(Nat) /\ Kept(Append(r, d), p)
    BY <2>1, KeptOnward
  <2> QED
    BY <2>2, SameHashed
<1> QED
  <2>1. {d \in DigitsAt(E, r) : Hashed(G, Append(r, d))} =
           {d \in DigitsAt(E, r) : Hashed(E, Append(r, d))}
    BY <1>2
  <2> QED
    BY <1>1, <2>1, Zenon DEF HashMask

\* The keys of the entries that stand for stored subtries, after the replacement.
ReplacedInDb(E, old, p) ==
  {k \in old : ~starts_with(k, p)} \cup (IF Stored(E, old, p) THEN {p} ELSE {})

\* What begins with the place and with one that is kept, has the kept one on the way.
LEMMA KeptOnTheWay ==
  ASSUME NEW k \in Seq(Nat), NEW p \in Seq(Nat), NEW r \in Seq(Nat),
         starts_with(k, p), starts_with(k, r), Kept(r, p)
  PROVE  starts_with(p, r)
<1>1. Len(p) \in Nat /\ Len(r) \in Nat
  BY LenProperties
<1>2. CASE Len(r) <= Len(p)
  BY <1>2, PrefixesNest
<1>3. CASE Len(p) <= Len(r)
  <2>1. starts_with(r, p)
    BY <1>3, PrefixesNest
  <2>2. r = p
    BY <2>1 DEF Kept
  <2> QED
    BY <2>1, <2>2
<1> QED
  BY <1>1, <1>2, <1>3

\* No entries part below the hash.
LEMMA NoBranchesBelow ==
  ASSUME NEW E, NEW G, NEW depth \in Nat, NEW b, NEW p, NEW h,
         Replaces(E, G, depth, b, p, h), NEW q \in Branches(G)
  PROVE  ~starts_with(q, p)
<1>1. HasTrie(G, depth) /\ p \in Seq(Nat)
  BY ReplacedIs
<1>2. q \in Places(G) /\ Parted(G, q) /\ q \in Seq(Nat)
  BY <1>1, PlaceIs DEF Branches
<1>3. PICK e \in Below(G, q) : Len(e.key) > Len(q)
  BY <1>2 DEF Parted, DigitsAt
<1>4. e \in G /\ starts_with(e.key, q) /\ e.key \in Seq(Nat)
  BY <1>1 DEF Below, HasTrie
<1>5. CASE e = HashAt(p, h)
  <2>1. e.key = p /\ Len(p) \in Nat /\ Len(q) \in Nat
    BY <1>1, <1>2, <1>5, LenProperties DEF HashAt
  <2> QED
    BY <1>3, <2>1 DEF starts_with
<1>6. CASE ~starts_with(e.key, p)
  BY <1>1, <1>2, <1>4, <1>6, PrefixTransitive
<1> QED
  BY <1>4, <1>5, <1>6, EntriesReplaced

\* Below a kept place there is a stored node exactly if there was.
LEMMA SameStored ==
  ASSUME NEW E, NEW G, NEW depth \in Nat, NEW b, NEW p, NEW h,
         Replaces(E, G, depth, b, p, h), NEW r \in Seq(Nat), Kept(r, p),
         NEW old, \A k \in old : k \in Seq(Nat)
  PROVE  Stored(G, ReplacedInDb(E, old, p), r) <=> Stored(E, old, r)
<1>1. HasTrie(E, depth) /\ HasTrie(G, depth) /\ p \in Seq(Nat)
  BY ReplacedIs
<1> DEFINE new == ReplacedInDb(E, old, p)
<1>2. \A k : k \in new <=> (k \in old /\ ~starts_with(k, p)) \/ (k = p /\ Stored(E, old, p))
  BY DEF ReplacedInDb
<1>3. /\ \A q \in Branches(E) : q \in Seq(Nat)
      /\ \A q \in Branches(G) : q \in Seq(Nat)
  BY <1>1, PlaceIs DEF Branches
<1>4. ASSUME NEW q \in Seq(Nat), ~starts_with(q, p)
      PROVE  /\ q \in Branches(G) <=> q \in Branches(E)
             /\ HashMask(G, q) = HashMask(E, q)
  BY <1>4, SameBranches, SameHashMask
<1>5. \A q \in Branches(G) : ~starts_with(q, p)
  BY <1>3, NoBranchesBelow
<1> HIDE DEF new
<1>6. ASSUME Stored(E, old, r)
      PROVE  Stored(G, new, r)
  <2>1. CASE \E k \in old : starts_with(k, r)
    <3>1. PICK k \in old : starts_with(k, r)
      BY <2>1
    <3>2. CASE ~starts_with(k, p)
      BY <1>2, <3>1, <3>2 DEF Stored
    <3>3. CASE starts_with(k, p)
      <4>1. starts_with(p, r)
        BY <1>1, <3>1, <3>3, KeptOnTheWay
      <4>2. Stored(E, old, p)
        BY <3>3 DEF Stored
      <4>3. p \in new
        BY <1>2, <4>2
      <4> QED
        BY <4>1, <4>3 DEF Stored
    <3> QED
      BY <3>2, <3>3
  <2>2. CASE \E q \in Branches(E) : starts_with(q, r) /\ HashMask(E, q) # {}
    <3>1. PICK q \in Branches(E) : starts_with(q, r) /\ HashMask(E, q) # {}
      BY <2>2
    <3>2. CASE ~starts_with(q, p)
      <4>1. q \in Branches(G) /\ HashMask(G, q) = HashMask(E, q)
        BY <1>3, <1>4, <3>2
      <4> QED
        BY <3>1, <4>1 DEF Stored
    <3>3. CASE starts_with(q, p)
      <4>1. starts_with(p, r)
        BY <1>1, <1>3, <3>1, <3>3, KeptOnTheWay
      <4>2. Stored(E, old, p)
        BY <3>1, <3>3 DEF Stored
      <4>3. p \in new
        BY <1>2, <4>2
      <4> QED
        BY <4>1, <4>3 DEF Stored
    <3> QED
      BY <3>2, <3>3
  <2> QED
    BY <1>6, <2>1, <2>2 DEF Stored
<1>7. ASSUME Stored(G, new, r)
      PROVE  Stored(E, old, r)
  <2>1. CASE \E k \in new : starts_with(k, r)
    <3>1. PICK k \in new : starts_with(k, r)
      BY <2>1
    <3>2. CASE k \in old
      BY <3>1, <3>2 DEF Stored
    <3>3. CASE k = p /\ Stored(E, old, p)
      <4>1. CASE \E m \in old : starts_with(m, p)
        <5>1. PICK m \in old : starts_with(m, p)
          BY <4>1
        <5>2. starts_with(m, r)
          BY <1>1, <3>1, <3>3, <5>1, PrefixTransitive
        <5> QED
          BY <5>2 DEF Stored
      <4>2. CASE \E q \in Branches(E) : starts_with(q, p) /\ HashMask(E, q) # {}
        <5>1. PICK q \in Branches(E) : starts_with(q, p) /\ HashMask(E, q) # {}
          BY <4>2
        <5>2. starts_with(q, r)
          BY <1>1, <1>3, <3>1, <3>3, <5>1, PrefixTransitive
        <5> QED
          BY <5>1, <5>2 DEF Stored
      <4> QED
        BY <3>3, <4>1, <4>2 DEF Stored
    <3> QED
      BY <1>2, <3>2, <3>3
  <2>2. CASE \E q \in Branches(G) : starts_with(q, r) /\ HashMask(G, q) # {}
    <3>1. PICK q \in Branches(G) : starts_with(q, r) /\ HashMask(G, q) # {}
      BY <2>2
    <3>2. q \in Branches(E) /\ HashMask(E, q) # {}
      <4>1. q \in Seq(Nat) /\ ~starts_with(q, p)
        BY <1>3, <1>5
      <4> QED
        BY <1>4, <3>1, <4>1
    <3> QED
      BY <3>1, <3>2 DEF Stored
  <2> QED
    BY <1>7, <2>1, <2>2 DEF Stored
<1> QED
  BY <1>6, <1>7 DEF new

\* So the tree masks are what they were ...
LEMMA SameTreeMask ==
  ASSUME NEW E, NEW G, NEW depth \in Nat, NEW b, NEW p, NEW h,
         Replaces(E, G, depth, b, p, h), NEW r \in Seq(Nat), ~starts_with(r, p),
         NEW old, \A k \in old : k \in Seq(Nat)
  PROVE  TreeMask(G, ReplacedInDb(E, old, p), r) = TreeMask(E, old, r)
<1>1. DigitsAt(G, r) = DigitsAt(E, r)
  BY SameDigits
<1>2. PICK new : new = ReplacedInDb(E, old, p)
  OBVIOUS
<1>3. ASSUME NEW d \in DigitsAt(E, r)
      PROVE  Stored(G, new, Append(r, d)) <=> Stored(E, old, Append(r, d))
  <2>1. d \in Nat
    BY ReplacedIs, DigitsAreNumbers
  <2>2. Append(r, d) \in Seq(Nat) /\ Kept(Append(r, d), p)
    BY <2>1, KeptOnward
  <2> QED
    BY <1>2, <2>2, SameStored
<1> QED
  <2>1. {d \in DigitsAt(E, r) : Stored(G, new, Append(r, d))} =
           {d \in DigitsAt(E, r) : Stored(E, old, Append(r, d))}
    BY <1>3
  <2> QED
    BY <1>1, <1>2, <2>1, Zenon DEF TreeMask

\* ... and the places of the nodes are those that are not below the hash.
LEMMA SameDbPlaces ==
  ASSUME NEW E, NEW G, NEW depth \in Nat, NEW b, NEW p, NEW h,
         Replaces(E, G, depth, b, p, h), NEW old, \A k \in old : k \in Seq(Nat)
  PROVE  DbPlaces(G, ReplacedInDb(E, old, p)) = {r \in DbPlaces(E, old) : ~starts_with(r, p)}
<1>1. HasTrie(E, depth) /\ HasTrie(G, depth)
  BY ReplacedIs
<1>2. /\ \A q \in Branches(E) : q \in Seq(Nat)
      /\ \A q \in Branches(G) : q \in Seq(Nat)
  BY <1>1, PlaceIs DEF Branches
<1>3. \A q \in Branches(G) : ~starts_with(q, p)
  BY NoBranchesBelow
<1>4. PICK new : new = ReplacedInDb(E, old, p)
  OBVIOUS
<1>5. ASSUME NEW r \in Seq(Nat), ~starts_with(r, p)
      PROVE  r \in DbPlaces(G, new) <=> r \in DbPlaces(E, old)
  <2>1. r \in Branches(G) <=> r \in Branches(E)
    BY <1>5, SameBranches
  <2>2. HashMask(G, r) = HashMask(E, r)
    BY <1>5, SameHashMask
  <2>3. TreeMask(G, new, r) = TreeMask(E, old, r)
    BY <1>4, <1>5, SameTreeMask
  <2> QED
    BY <2>1, <2>2, <2>3, Zenon DEF DbPlaces
<1>6. /\ \A r \in DbPlaces(G, new) : r \in Branches(G)
      /\ \A r \in DbPlaces(E, old) : r \in Branches(E)
  BY Zenon DEF DbPlaces
<1>7. DbPlaces(G, new) = {r \in DbPlaces(E, old) : ~starts_with(r, p)}
  BY <1>2, <1>3, <1>5, <1>6
<1> QED
  BY <1>4, <1>7

-----------------------------------------------------------------------------
(* The references along the way to the hash.                               *)

\* From a place on the way to a branch, the first branch there is.
LEMMA NextBranch ==
  ASSUME NEW E, NEW depth \in Nat, HasTrie(E, depth), NEW b \in Branches(E),
         NEW q \in Seq(Nat), starts_with(b, q)
  PROVE  \E r \in Branches(E) :
           /\ r \in Seq(Nat) /\ starts_with(b, r) /\ starts_with(r, q)
           /\ \A n \in Len(q)..(Len(r) - 1) : ~Parted(E, SubSeq(r, 1, n))
<1>1. b \in Seq(Nat) /\ Len(b) \in Nat /\ Len(q) \in Nat /\ Len(q) <= Len(b)
  BY PlaceIs, LenProperties DEF Branches, starts_with
<1> DEFINE Ends == {n \in Len(q)..Len(b) : Parted(E, SubSeq(b, 1, n))}
<1>2. Len(b) \in Ends
  <2>1. SubSeq(b, 1, Len(b)) = b
    BY <1>1, FullCut
  <2>2. Parted(E, SubSeq(b, 1, Len(b)))
    BY <2>1, Zenon DEF Branches
  <2> QED
    BY <1>1, <2>2
<1>3. PICK m \in Ends : \A n \in Ends : m <= n
  <2>1. Ends \subseteq Nat /\ Ends # {}
    BY <1>1, <1>2
  <2> HIDE DEF Ends
  <2> QED
    BY <2>1, LeastNatural
<1>4. m \in Len(q)..Len(b) /\ m \in 0..Len(b) /\ m \in Nat /\ Parted(E, SubSeq(b, 1, m))
  BY <1>1, <1>3
<1>5. \A n \in Len(q)..(m - 1) : ~Parted(E, SubSeq(b, 1, n))
  BY <1>1, <1>3, <1>4
<1> HIDE DEF Ends
<1>6. PICK r : r = SubSeq(b, 1, m)
  OBVIOUS
<1>7. /\ r \in Seq(Nat) /\ Len(r) = m /\ starts_with(b, r) /\ \A i \in 1..m : r[i] = b[i]
  BY <1>1, <1>4, <1>6, CutIsPrefix
<1>8. starts_with(r, q)
  BY <1>1, <1>4, <1>7, PrefixesNest
<1>9. \A n \in Len(q)..(m - 1) : SubSeq(r, 1, n) = SubSeq(b, 1, n)
  BY <1>1, <1>4, <1>7, SameCut
<1>10. r \in Branches(E)
  <2>1. PICK e \in E : starts_with(e.key, b)
    BY PlaceIs DEF Branches, Below
  <2>2. e.key \in Seq(Nat)
    BY DEF HasTrie
  <2>3. starts_with(e.key, r)
    BY <1>1, <1>7, <2>1, <2>2, PrefixTransitive
  <2>4. r \in Places(E)
    BY <1>7, <2>3, PlaceIs DEF Below
  <2> QED
    BY <1>4, <1>6, <2>4 DEF Branches
<1>11. \A n \in Len(q)..(Len(r) - 1) : ~Parted(E, SubSeq(r, 1, n))
  BY <1>5, <1>7, <1>9
<1> QED
  BY <1>7, <1>8, <1>10, <1>11

\* Up to there all entries go one way.
LEMMA OneWayToBranch ==
  ASSUME NEW E, NEW depth \in Nat, HasTrie(E, depth), NEW r \in Places(E),
         NEW q \in Seq(Nat), starts_with(r, q),
         \A n \in Len(q)..(Len(r) - 1) : ~Parted(E, SubSeq(r, 1, n))
  PROVE  q \in Places(E) /\ Below(E, q) = Below(E, r)
<1>1. /\ r \in Seq(Nat) /\ Len(r) \in Nat /\ Len(q) \in Nat /\ Len(q) <= Len(r)
      /\ \A i \in 1..Len(q) : r[i] = q[i]
  BY PlaceIs, LenProperties DEF starts_with
<1>2. PICK e \in E : starts_with(e.key, r)
  BY PlaceIs DEF Below
<1>3. e.key \in Seq(Nat)
  BY DEF HasTrie
<1>4. ASSUME NEW i \in (Len(q) + 1)..Len(r)
      PROVE  DigitsAt(E, SubSeq(r, 1, i - 1)) \subseteq {r[i]}
  <2>1. i - 1 \in Len(q)..(Len(r) - 1) /\ i - 1 \in 0..Len(r) /\ i \in 1..Len(r) /\ (i - 1) + 1 = i
    BY <1>1
  <2>2. PICK s : s = SubSeq(r, 1, i - 1)
    OBVIOUS
  <2>3. s \in Seq(Nat) /\ Len(s) = i - 1 /\ starts_with(r, s)
    BY <1>1, <2>1, <2>2, CutIsPrefix
  <2>4. ~Parted(E, s)
    BY <2>1, <2>2
  <2>5. r[i] \in DigitsAt(E, s)
    <3>1. starts_with(e.key, s)
      BY <1>1, <1>2, <1>3, <2>3, PrefixTransitive
    <3>2. Len(e.key) >= Len(r) /\ e.key[i] = r[i] /\ Len(e.key) \in Nat
      BY <1>2, <1>3, <2>1, LenProperties DEF starts_with
    <3>3. Len(e.key) > Len(s) /\ e.key[Len(s) + 1] = r[i]
      BY <1>1, <2>1, <2>3, <3>2
    <3> QED
      BY <3>1, <3>3 DEF DigitsAt, Below
  <2> QED
    BY <2>2, <2>4, <2>5 DEF Parted
<1>5. SubSeq(r, 1, Len(q)) = q
  <2>1. SubSeq(q, 1, Len(q)) = q
    BY FullCut
  <2>2. SubSeq(r, 1, Len(q)) = SubSeq(q, 1, Len(q))
    BY <1>1, SameCut
  <2> QED
    BY <2>1, <2>2
<1>6. Len(q) \in 0..Len(r)
  BY <1>1
<1>7. /\ Below(E, SubSeq(r, 1, Len(q))) = Below(E, r)
      /\ SubSeq(r, 1, Len(q)) \in Places(E)
  BY <1>1, <1>2, <1>4, <1>6, OneWay
<1> QED
  BY <1>5, <1>7

\* What is not below the hash keeps its reference, and the hash is the one it had.
LEMMA SameReference ==
  ASSUME NEW E, NEW G, NEW depth \in Nat, NEW b, NEW p, NEW h,
         Replaces(E, G, depth, b, p, h), Reference(E, p) = HashReference(h),
         NEW r \in Places(E), Kept(r, p)
  PROVE  Reference(G, r) = Reference(E, r)
<1>1. /\ HasTrie(E, depth) /\ HasTrie(G, depth) /\ p \in Seq(Nat) /\ p \in Places(E)
      /\ b \in Seq(Nat) /\ ~starts_with(b, p) /\ b \in Branches(E)
  <2>1. b \in Branches(E)
    BY DEF Replaces
  <2> QED
    BY <2>1, ReplacedIs
<1>2. \A q \in Places(E) : q \in Seq(Nat) /\ Len(q) \in 0..depth
  BY <1>1, PlaceIs
<1> DEFINE Same(k) == \A q \in Places(E) :
              Len(q) > depth - k /\ Kept(q, p) => Reference(G, q) = Reference(E, q)
           Good == {k \in 0..(depth + 1) : Same(k)}
<1>3. 0 \in Good
  BY <1>2
<1>4. ASSUME NEW k \in 0..depth, Same(k)
      PROVE  Same(k + 1)
  <2> SUFFICES ASSUME NEW q \in Places(E), Len(q) > depth - (k + 1), Kept(q, p)
               PROVE  Reference(G, q) = Reference(E, q)
    OBVIOUS
  <2>1. q \in Seq(Nat) /\ Len(q) \in 0..depth /\ q \in Places(G)
    BY <1>2, SamePlaces
  <2>2. CASE q = p
    <3>1. PICK ent : ent = HashAt(p, h)
      OBVIOUS
    <3>2. ent.key = p /\ ent.value.tag = "hash" /\ ent.value.data = h
      BY <3>1 DEF HashAt
    <3>3. ent \in G
      BY <3>1, EntriesReplaced
    <3>4. Reference(G, ent.key) = wrap_hash(ent.value.data)
      BY <1>1, <3>2, <3>3, ReferenceOfHash
    <3>5. HashReference(h) = wrap_hash(h)
      BY ReferencesAgree
    <3> QED
      BY <2>2, <3>2, <3>4, <3>5
  <2>3. CASE ~starts_with(p, q)
    <3>1. Below(E, q) = Below(G, q)
      BY <2>1, <2>3, SamePlaces
    <3> QED
      BY <1>1, <3>1, ReferenceIsLocal
  <2>4. CASE q # p /\ starts_with(p, q)
    <3>1. ~starts_with(q, p)
      BY <2>4 DEF Kept
    <3>2. starts_with(b, q)
      BY <2>1, <2>4, ReplacedIs
    <3>3. CASE Parted(E, q)
      <4>1. Parted(G, q) /\ DigitsAt(G, q) = DigitsAt(E, q)
        BY <2>1, <3>1, <3>3, SameBranches, SameDigits
      <4>2. ASSUME NEW d \in DigitsAt(E, q)
            PROVE  Reference(G, Append(q, d)) = Reference(E, Append(q, d))
        <5>1. d \in Nat
          BY <1>1, <2>1, DigitsAreNumbers
        <5>2. Append(q, d) \in Places(E) /\ Len(Append(q, d)) > Len(q)
          BY <1>1, PlaceOfDigit
        <5>3. Kept(Append(q, d), p)
          BY <2>1, <3>1, <5>1, KeptOnward
        <5>4. PICK s : s = Append(q, d)
          OBVIOUS
        <5>5. Len(s) \in 0..depth /\ Len(s) > Len(q)
          BY <1>2, <5>2, <5>4
        <5>6. Len(s) > depth - k
          BY <2>1, <5>5
        <5> QED
          BY <1>4, <5>2, <5>3, <5>4, <5>6
      <4>3. Reference(E, q) =
              node_ref(branch_node_rlp([d \in DigitsAt(E, q) |-> Reference(E, Append(q, d))]))
        BY <1>1, <3>3, ReferenceOfBranch
      <4>4. Reference(G, q) =
              node_ref(branch_node_rlp([d \in DigitsAt(G, q) |-> Reference(G, Append(q, d))]))
        BY <1>1, <2>1, <4>1, ReferenceOfBranch
      <4>5. [d \in DigitsAt(G, q) |-> Reference(G, Append(q, d))] =
              [d \in DigitsAt(E, q) |-> Reference(E, Append(q, d))]
        BY <4>1, <4>2
      <4> QED
        BY <4>3, <4>4, <4>5, Zenon
    <3>4. CASE ~Parted(E, q)
      <4>1. PICK s \in Branches(E) :
              /\ s \in Seq(Nat) /\ starts_with(b, s) /\ starts_with(s, q)
              /\ \A n \in Len(q)..(Len(s) - 1) : ~Parted(E, SubSeq(s, 1, n))
        BY <1>1, <2>1, <3>2, NextBranch
      <4>2. s \in Places(E) /\ Parted(E, s) /\ s # q /\ Len(s) \in Nat /\ Len(q) \in Nat
        BY <2>1, <3>4, <4>1, LenProperties DEF Branches
      <4>3. ~starts_with(s, p)
        BY <1>1, <4>1, PrefixTransitive
      <4>4. s \in Places(G) /\ Parted(G, s)
        <5>1. Kept(s, p)
          BY <4>3 DEF Kept
        <5>2. s \in Places(G)
          BY <4>1, <4>2, <5>1, SamePlaces
        <5>3. Parted(G, s)
          BY <4>1, <4>2, <4>3, SameBranches
        <5> QED
          BY <5>2, <5>3
      <4>5. \A n \in Len(q)..(Len(s) - 1) : ~Parted(G, SubSeq(s, 1, n))
        <5> SUFFICES ASSUME NEW n \in Len(q)..(Len(s) - 1)
                     PROVE  ~Parted(G, SubSeq(s, 1, n))
          OBVIOUS
        <5>1. PICK t : t = SubSeq(s, 1, n)
          OBVIOUS
        <5>2. n \in 0..Len(s)
          BY <4>2
        <5>3. t \in Seq(Nat) /\ starts_with(s, t)
          BY <4>1, <5>1, <5>2, CutIsPrefix
        <5>4. ~starts_with(t, p)
          BY <1>1, <4>1, <4>3, <5>3, PrefixTransitive
        <5>5. Parted(G, t) <=> Parted(E, t)
          BY <5>3, <5>4, SameBranches
        <5> QED
          BY <4>1, <5>1, <5>5
      <4>6. Below(E, q) = Below(E, s)
        BY <1>1, <2>1, <4>1, <4>2, OneWayToBranch
      <4>7. Below(G, q) = Below(G, s)
        BY <1>1, <2>1, <4>1, <4>4, <4>5, OneWayToBranch
      <4>8. Reference(E, q) =
              node_ref(extension_node_rlp(SubSeq(s, Len(q) + 1, Len(s)), Reference(E, s)))
        BY <1>1, <4>1, <4>2, <4>6, ReferenceOfExtension
      <4>9. Reference(G, q) =
              node_ref(extension_node_rlp(SubSeq(s, Len(q) + 1, Len(s)), Reference(G, s)))
        BY <1>1, <2>1, <4>1, <4>2, <4>4, <4>7, ReferenceOfExtension
      <4>10. Len(s) > Len(q)
        <5>1. Len(q) <= Len(s)
          BY <4>1 DEF starts_with
        <5>2. Len(q) # Len(s)
          <6>1. starts_with(s, s)
            BY <4>1, <4>2 DEF starts_with
          <6> QED
            BY <2>1, <4>1, <4>2, <6>1, PrefixesNest
        <5> QED
          BY <4>2, <5>1, <5>2
      <4>11. Reference(G, s) = Reference(E, s)
        <5>1. Len(s) > depth - k /\ Kept(s, p)
          BY <2>1, <4>2, <4>3, <4>10 DEF Kept
        <5> QED
          BY <1>4, <4>2, <5>1
      <4> QED
        BY <4>8, <4>9, <4>11, Zenon
    <3> QED
      BY <3>3, <3>4
  <2> QED
    BY <2>2, <2>3, <2>4
<1>5. depth + 1 \in Good
  <2>1. \A k \in 0..((depth + 1) - 1) : k \in Good => k + 1 \in Good
    <3> SUFFICES ASSUME NEW k \in 0..((depth + 1) - 1), k \in Good
                 PROVE  k + 1 \in Good
      OBVIOUS
    <3>1. k \in 0..depth /\ k + 1 \in 0..(depth + 1)
      OBVIOUS
    <3>2. Same(k)
      OBVIOUS
    <3>3. Same(k + 1)
      BY <1>4, <3>1, <3>2
    <3> HIDE DEF Same
    <3> QED
      BY <3>1, <3>3
  <2>2. depth + 1 \in Nat /\ depth + 1 \in 0..(depth + 1)
    OBVIOUS
  <2> HIDE DEF Good
  <2> QED
    BY <1>3, <2>1, <2>2, IntervalInduction
<1>6. Len(r) > depth - (depth + 1)
  BY <1>2
<1> QED
  BY <1>5, <1>6

\* The root hash, too, is what it was.
LEMMA SameRoot ==
  ASSUME NEW E, NEW G, NEW depth \in Nat, NEW b, NEW p, NEW h,
         Replaces(E, G, depth, b, p, h), Reference(E, p) = HashReference(h)
  PROVE  Root(G) = Root(E)
<1>1. /\ HasTrie(E, depth) /\ HasTrie(G, depth) /\ p \in Seq(Nat) /\ b \in Seq(Nat)
      /\ starts_with(p, b) /\ ~starts_with(b, p) /\ p \in Places(E) /\ p \in Places(G)
  BY ReplacedIs
<1>2. <<>> \in Seq(Nat) /\ ~starts_with(<<>>, p) /\ <<>> \in Places(E)
  <2>1. <<>> \in Seq(Nat) /\ Len(<<>>) = 0
    OBVIOUS
  <2>2. p # <<>>
    <3>1. Len(b) \in Nat
      BY <1>1, LenProperties
    <3> QED
      BY <1>1, <2>1, <3>1 DEF starts_with
  <2>3. ~starts_with(<<>>, p)
    <3>1. Len(p) \in Nat /\ Len(p) # 0
      BY <1>1, <2>2, LenProperties, EmptySeq
    <3> QED
      BY <2>1, <3>1 DEF starts_with
  <2>4. PICK e \in E : starts_with(e.key, p)
    BY <1>1, PlaceIs DEF Below
  <2>5. starts_with(e.key, <<>>)
    BY <1>1, <2>1, LenProperties DEF HasTrie, starts_with
  <2>6. <<>> \in Places(E)
    BY <1>1, <2>1, <2>5, PlaceIs DEF Below
  <2> QED
    BY <2>1, <2>3, <2>6
<1>3. Reference(G, <<>>) = Reference(E, <<>>)
  BY <1>2, SameReference DEF Kept
<1>4. E # {} /\ G # {}
  BY <1>1, PlaceIs DEF Below
<1>5. Root(E) = hash_of(Reference(E, <<>>)) /\ Root(G) = hash_of(Reference(G, <<>>))
  BY <1>4, RootIs
<1> QED
  BY <1>3, <1>5

\* And so are the nodes that are not below the hash.
LEMMA SameDbNode ==
  ASSUME NEW E, NEW G, NEW depth \in Nat, NEW b, NEW p, NEW h,
         Replaces(E, G, depth, b, p, h), Reference(E, p) = HashReference(h),
         NEW r \in Branches(E), ~starts_with(r, p), NEW old, \A k \in old : k \in Seq(Nat)
  PROVE  DbNode(G, ReplacedInDb(E, old, p), r) = DbNode(E, old, r)
<1>1. HasTrie(E, depth) /\ r \in Places(E) /\ r \in Seq(Nat)
  BY ReplacedIs, PlaceIs DEF Branches
<1>2. PICK new : new = ReplacedInDb(E, old, p)
  OBVIOUS
<1>3. DigitsAt(G, r) = DigitsAt(E, r)
  BY <1>1, SameDigits
<1>4. HashMask(G, r) = HashMask(E, r)
  BY <1>1, SameHashMask
<1>5. TreeMask(G, new, r) = TreeMask(E, old, r)
  BY <1>1, <1>2, SameTreeMask
<1>6. ASSUME NEW d \in HashMask(E, r)
      PROVE  Reference(G, Append(r, d)).item.hash = Reference(E, Append(r, d)).item.hash
  <2>1. d \in DigitsAt(E, r)
    BY DEF HashMask
  <2>2. d \in Nat /\ Append(r, d) \in Places(E)
    BY <1>1, <2>1, DigitsAreNumbers, PlaceOfDigit
  <2>3. Kept(Append(r, d), p)
    BY <1>1, <2>2, KeptOnward
  <2>4. Reference(G, Append(r, d)) = Reference(E, Append(r, d))
    BY <2>2, <2>3, SameReference
  <2> QED
    BY <2>4
<1>7. [d \in HashMask(G, r) |-> Reference(G, Append(r, d)).item.hash] =
        [d \in HashMask(E, r) |-> Reference(E, Append(r, d)).item.hash]
  BY <1>4, <1>6
<1>8. Root(G) = Root(E)
  BY SameRoot
<1>9. DbNode(G, new, r) = DbNode(E, old, r)
  BY <1>3, <1>4, <1>5, <1>7, <1>8, Zenon DEF DbNode
<1> QED
  BY <1>2, <1>9

\* So one may replace what is below any hashed child of a branch by its hash: the root
\* and the other nodes stay what they are.
THEOREM HashStandsForSubtrie ==
  ASSUME NEW E, NEW depth \in Nat, HasTrie(E, depth), NEW b \in Branches(E),
         NEW d \in HashMask(E, b), NEW h, Reference(E, Append(b, d)) = HashReference(h),
         NEW old, \A k \in old : k \in Seq(Nat)
  PROVE  LET p == Append(b, d)
             G == Replaced(E, p, h)
         IN  /\ Root(G) = Root(E)
             /\ DbNodes(G, ReplacedInDb(E, old, p)) =
                  {n \in DbNodes(E, old) : ~starts_with(n.key, p)}
<1>1. PICK p : p = Append(b, d)
  OBVIOUS
<1>2. PICK G : G = Replaced(E, p, h)
  OBVIOUS
<1>3. Replaces(E, G, depth, b, p, h) /\ Reference(E, p) = HashReference(h)
  BY <1>1, <1>2 DEF Replaces
<1>4. Root(G) = Root(E)
  BY <1>3, SameRoot
<1>5. PICK new : new = ReplacedInDb(E, old, p)
  OBVIOUS
<1>6. DbPlaces(G, new) = {r \in DbPlaces(E, old) : ~starts_with(r, p)}
  BY <1>3, <1>5, SameDbPlaces
<1>7. ASSUME NEW r \in DbPlaces(E, old), ~starts_with(r, p)
      PROVE  DbNode(G, new, r) = DbNode(E, old, r)
  <2>1. r \in Branches(E)
    BY Zenon DEF DbPlaces
  <2> QED
    BY <1>3, <1>5, <1>7, <2>1, SameDbNode
<1>8. \A X, in_db, r : DbNode(X, in_db, r).key = r
  BY DEF DbNode
<1>9. {DbNode(G, new, r) : r \in DbPlaces(G, new)} =
        {n \in {DbNode(E, old, r) : r \in DbPlaces(E, old)} : ~starts_with(n.key, p)}
  BY <1>6, <1>7, <1>8
<1>10. DbNodes(G, new) = {n \in DbNodes(E, old) : ~starts_with(n.key, p)}
  BY <1>9, Zenon DEF DbNodes
<1> QED
  BY <1>1, <1>2, <1>4, <1>5, <1>10

\* What is known of the answer, and of a builder without a collector.
AnswerFits == AnswerIsRoot /\ (node_collector \/ collected = <<>>)

\* Every step of a client that respects the contract keeps it.
LEMMA LegalNextFits ==
  ASSUME DbInv, AnswerFits, [LegalNext]_vars
  PROVE  AnswerFits'
<1>1. AnswerIsRoot'
  <2>1. Serves
    BY LegalNextServes DEF DbInv
  <2>2. CASE root' = <<>>
    BY <2>2 DEF AnswerIsRoot
  <2>3. CASE Client!AskRoot
    BY <2>3 DEF AnswerIsRoot, Client!AskRoot
  <2>4. CASE UNCHANGED <<Added, root>>
    BY <2>4 DEF AnswerIsRoot, AnswerFits
  <2> QED
    BY <2>1, <2>2, <2>3, <2>4 DEF Serves, Client!Put, Client!Clear
<1>2. node_collector \/ collected = <<>>
  BY DEF AnswerFits
<1>3. entries = <<>> => collected = <<>>
  BY DEF DbInv, CollectInv, CollectedClosed
<1>4. CASE node_collector' = node_collector /\ (collected' = collected \/ collected' = <<>>)
  BY <1>1, <1>2, <1>4 DEF AnswerFits
<1>5. ASSUME NEW c, Enter(c) \/ \E stack : Finish(c, stack)
      PROVE  AnswerFits'
  BY <1>4, <1>5 DEF Enter, Finish, Return, observed
<1>6. ASSUME NEW c \in Calls, Contract(c), Add(c)
      PROVE  AnswerFits'
  <2>1. \/ Enter(c) \/ \E stack : Finish(c, stack)
        \/ Abort("order")
    BY <1>6 DEF Add, add_leaf, add_branch_node
  <2> QED
    BY <1>4, <1>5, <2>1 DEF Abort, builder, observed
<1>7. CASE root_hash
  BY <1>5, <1>7 DEF root_hash
<1>8. CASE reset
  BY <1>4, <1>8 DEF reset
<1>9. ASSUME NEW installed \in BOOLEAN, entries = <<>>, set_node_collector(installed)
      PROVE  AnswerFits'
  <2>1. collected' = <<>>
    BY <1>3, <1>9 DEF set_node_collector, observed
  <2> QED
    BY <1>1, <2>1 DEF AnswerFits
<1>10. CASE KeepGroup
  BY <1>4, <1>10 DEF KeepGroup, Return
<1>11. CASE ClosesGroup /\ node_collector' = node_collector
  <2>1. CASE node_collector
    BY <1>1, <1>11, <2>1 DEF AnswerFits
  <2>2. CASE ~node_collector
    <3>1. collected' = collected
      BY <1>11, <2>2 DEF ClosesGroup, store_in_db_trie, collects
    <3> QED
      BY <1>4, <1>11, <3>1
  <2> QED
    BY <2>1, <2>2
<1>12. CASE CloseGroup \/ CloseLastGroup
  BY <1>11, <1>12 DEF CloseGroup, CloseLastGroup, Return
<1>13. CASE FailAssertion
  BY <1>4, <1>13 DEF FailAssertion, Abort, builder, observed
<1>14. CASE UNCHANGED vars
  BY <1>4, <1>14 DEF vars, builder, observed
<1> QED
  BY <1>6, <1>7, <1>8, <1>9, <1>10, <1>12, <1>13, <1>14 DEF LegalNext, gen_struct_step

\* So does every step of a builder whose collector may throw.
LEMMA FailureFits ==
  ASSUME DbFailureInv, AnswerFits, [FNext]_failvars
  PROVE  AnswerFits'
<1>1. CASE thrown = FALSE /\ [LegalNext]_vars
  BY <1>1, LegalNextFits DEF DbFailureInv
<1>2. CASE UNCHANGED <<node_collector, collected, root, entries>>
  BY <1>2 DEF AnswerFits, AnswerIsRoot, Added
<1>3. CASE StartAgain
  BY <1>3 DEF StartAgain, reset, AnswerFits, AnswerIsRoot
<1>4. CASE CollectorThrows
  BY <1>2, <1>4 DEF CollectorThrows, observed
<1>5. CASE UNCHANGED failvars
  BY <1>2, <1>5 DEF failvars, vars, builder, observed
<1>6. CASE ~thrown /\ LegalNext
  <2>1. thrown = FALSE
    BY <1>6 DEF DbFailureInv, FailureInv
  <2> QED
    BY <1>1, <1>6, <2>1
<1> QED
  BY <1>3, <1>4, <1>5, <1>6 DEF FNext

\* What root_hash returns and what was collected, in terms of the entries.
LEMMA AnsweredIs ==
  ASSUME DbFailureInv, AnswerFits, root # <<>>, collected # <<>>
  PROVE  /\ root[1] = Root(Added) /\ ToSet(collected) = DbNodes(Added, InDb)
         /\ \A n \in ToSet(collected) : \A d \in n.hash_mask :
              Reference(Added, Append(n.key, d)) = HashReference(n.hashes[d])
         /\ \A k \in InDb : k \in Seq(Nat)
         /\ \E depth \in Nat : HasTrie(Added, depth)
<1>1. DbInv
  BY DEF DbFailureInv
<1>2. key_ = <<>> /\ pc # "aborted" /\ node_collector
  BY <1>1 DEF DbInv, PendingFits, AnswerFits
<1>3. root[1] = Root(Added)
  BY DEF AnswerFits, AnswerIsRoot
<1>4. /\ ToSet(collected) =
           {DbNode(Added, InDb, p) : p \in {q \in DbPlaces(Added, InDb) : Closed(q)}}
      /\ \A n \in ToSet(collected) : \A d \in n.hash_mask :
           Reference(Added, Append(n.key, d)) = HashReference(n.hashes[d])
  BY <1>1, <1>2, Zenon DEF DbInv, CollectedSoFar
<1>5. {q \in DbPlaces(Added, InDb) : Closed(q)} = DbPlaces(Added, InDb)
  BY <1>2 DEF Closed
<1>6. ToSet(collected) = DbNodes(Added, InDb)
  BY <1>4, <1>5, Zenon DEF DbNodes
<1>7. \A k \in InDb : k \in Seq(Nat)
  <2>1. TypeOK
    BY <1>1 DEF DbInv, RootInv, LegalInv, IInv
  <2>2. \A e \in Added : e.key \in Seq(Nat)
    BY <2>1, AddedIs
  <2> SUFFICES ASSUME NEW k \in InDb
               PROVE  k \in Seq(Nat)
    OBVIOUS
  <2>3. PICK i \in DOMAIN entries : k = entries[i].key
    BY DEF InDb
  <2>4. PICK e : e = [key |-> entries[i].key, value |-> entries[i].value]
    OBVIOUS
  <2>5. e \in Added /\ e.key = k
    BY <2>3, <2>4 DEF Added
  <2> QED
    BY <2>2, <2>5
<1>8. \E depth \in Nat : HasTrie(Added, depth)
  BY <1>1 DEF DbInv, RootInv
<1> QED
  BY <1>3, <1>4, <1>6, <1>7, <1>8

\* What is collected is what a rebuild needs: for every set of entries, each hashed child
\* of a collected node can stand for all entries below it (the masks and hashes of
\* hash_builder.cpp:223-238), and marked as its tree mask says, for their nodes.
THEOREM CollectedRebuilds == FailureSpec => []RebuildsFromCollected
<1>1. DbFailureInv /\ AnswerFits => RebuildsFromCollected
  <2> SUFFICES ASSUME DbFailureInv, AnswerFits, root # <<>>,
                      NEW i \in DOMAIN collected, NEW d \in collected[i].hash_mask
               PROVE  LET p       == Append(collected[i].key, d)
                          rebuilt == Substituted(p, collected[i].hashes[d])
                          stored  == SubstitutedInDb(p, d \in collected[i].tree_mask)
                      IN  /\ Root(rebuilt) = root[1]
                          /\ DbNodes(rebuilt, stored) =
                               {n \in ToSet(collected) : ~starts_with(n.key, p)}
    BY Zenon DEF RebuildsFromCollected
  <2>1. PICK n : n = collected[i]
    OBVIOUS
  <2>2. n \in ToSet(collected) /\ collected # <<>>
    BY <2>1 DEF ToSet
  <2>3. /\ root[1] = Root(Added) /\ ToSet(collected) = DbNodes(Added, InDb)
        /\ \A k \in InDb : k \in Seq(Nat)
    BY <2>2, AnsweredIs
  <2>4. PICK b \in DbPlaces(Added, InDb) : n = DbNode(Added, InDb, b)
    BY <2>2, <2>3, Zenon DEF DbNodes
  <2>5. PICK depth \in Nat : HasTrie(Added, depth)
    BY <2>2, AnsweredIs
  <2>6. n.key = b /\ n.hash_mask = HashMask(Added, b) /\ n.tree_mask = TreeMask(Added, InDb, b)
    BY <2>4 DEF DbNode
  <2>7. b \in Branches(Added) /\ d \in HashMask(Added, b)
    BY <2>1, <2>6, Zenon DEF DbPlaces
  <2>8. PICK h : h = n.hashes[d]
    OBVIOUS
  <2>9. Reference(Added, Append(b, d)) = HashReference(h)
    <3>1. d \in n.hash_mask
      BY <2>1
    <3>2. Reference(Added, Append(n.key, d)) = HashReference(n.hashes[d])
      BY <2>2, <3>1, AnsweredIs
    <3> QED
      BY <2>6, <2>8, <3>2
  <2>10. PICK p : p = Append(b, d)
    OBVIOUS
  <2>11. /\ Root(Replaced(Added, p, h)) = Root(Added)
         /\ DbNodes(Replaced(Added, p, h), ReplacedInDb(Added, InDb, p)) =
              {m \in DbNodes(Added, InDb) : ~starts_with(m.key, p)}
    BY <2>3, <2>5, <2>7, <2>9, <2>10, HashStandsForSubtrie
  <2>12. Substituted(p, h) = Replaced(Added, p, h)
    BY DEF Substituted, Replaced, HashAt
  <2>13. SubstitutedInDb(p, d \in n.tree_mask) = ReplacedInDb(Added, InDb, p)
    <3>1. d \in n.tree_mask <=> Stored(Added, InDb, p)
      <4>1. d \in DigitsAt(Added, b)
        BY <2>7 DEF HashMask
      <4> QED
        BY <2>6, <2>10, <4>1 DEF TreeMask
    <3> QED
      BY <3>1 DEF SubstitutedInDb, ReplacedInDb
  <2>14. /\ Root(Substituted(p, h)) = root[1]
         /\ DbNodes(Substituted(p, h), SubstitutedInDb(p, d \in n.tree_mask)) =
              {m \in ToSet(collected) : ~starts_with(m.key, p)}
    BY <2>3, <2>11, <2>12, <2>13
  <2> QED
    BY <2>1, <2>6, <2>8, <2>10, <2>14
<1>2. FInit => DbFailureInv /\ AnswerFits
  BY DbFailureInit DEF FInit, Init, AnswerFits, AnswerIsRoot
<1>3. DbFailureInv /\ AnswerFits /\ [FNext]_failvars => (DbFailureInv /\ AnswerFits)'
  BY DbFailureNext, FailureFits
<1> QED
  BY <1>1, <1>2, <1>3, PTL DEF FailureSpec
=============================================================================
