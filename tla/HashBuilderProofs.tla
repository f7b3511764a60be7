-------------------------- MODULE HashBuilderProofs --------------------------
(***************************************************************************)
(* Proofs about HashBuilder for every set of keys, values and hashes and   *)
(* any number of entries.  First, what one iteration of gen_struct_step    *)
(* computes from a state that satisfies the invariant.  Then IInv is shown *)
(* to be inductive, one step at a time; the properties of any client       *)
(* follow from it, with OrderInv those about the order of a branch's       *)
(* children.  Those of a client that respects the contract follow from     *)
(* LegalInv, which adds what the contract says about the call in progress. *)
(***************************************************************************)
EXTENDS HashBuilder, ByteStringLemmas, FiniteSetTheorems

-----------------------------------------------------------------------------
(* The operators on vectors of masks.                                      *)

\* resize yields a vector of masks of the size asked for.
LEMMA ResizeProperties ==
  ASSUME NEW masks \in Seq(Mask), NEW n \in Nat
  PROVE  /\ resize(masks, n) \in Seq(Mask)
         /\ Len(resize(masks, n)) = n
         /\ \A i \in 1..n : resize(masks, n)[i] = IF i <= Len(masks) THEN masks[i] ELSE {}
<1>1. \A i \in 1..n : (IF i <= Len(masks) THEN masks[i] ELSE {}) \in Mask
  BY DEF Mask
<1>2. resize(masks, n) \in [1..n -> Mask]
  BY <1>1 DEF resize
<1> QED
  BY <1>2 DEF resize

\* masks[n] |= 1 << digit changes that one mask.
LEMMA SetDigitProperties ==
  ASSUME NEW masks \in Seq(Mask), NEW n \in 1..Len(masks), NEW digit \in Digit
  PROVE  /\ set_digit(masks, n, digit) \in Seq(Mask)
         /\ Len(set_digit(masks, n, digit)) = Len(masks)
         /\ \A i \in 1..Len(masks) :
              set_digit(masks, n, digit)[i] = IF i = n THEN masks[i] \cup {digit} ELSE masks[i]
<1>1. masks[n] \cup {digit} \in Mask
  BY DEF Mask
<1>2. masks \in [1..Len(masks) -> Mask] /\ Len(masks) \in Nat
  BY LenProperties
<1>3. set_digit(masks, n, digit) \in [1..Len(masks) -> Mask]
  BY <1>1, <1>2 DEF set_digit
<1>4. set_digit(masks, n, digit) \in Seq(Mask) /\ Len(set_digit(masks, n, digit)) = Len(masks)
  BY <1>2, <1>3
<1> QED
  BY <1>2, <1>4 DEF set_digit

\* masks[n] &= ~(1 << digit) changes that one mask.
LEMMA ClearDigitProperties ==
  ASSUME NEW masks \in Seq(Mask), NEW n \in 1..Len(masks), NEW digit \in Digit
  PROVE  /\ clear_digit(masks, n, digit) \in Seq(Mask)
         /\ Len(clear_digit(masks, n, digit)) = Len(masks)
         /\ \A i \in 1..Len(masks) :
              clear_digit(masks, n, digit)[i] = IF i = n THEN masks[i] \ {digit} ELSE masks[i]
<1>1. masks[n] \ {digit} \in Mask
  BY DEF Mask
<1>2. masks \in [1..Len(masks) -> Mask] /\ Len(masks) \in Nat
  BY LenProperties
<1>3. clear_digit(masks, n, digit) \in [1..Len(masks) -> Mask]
  BY <1>1, <1>2 DEF clear_digit
<1>4. clear_digit(masks, n, digit) \in Seq(Mask) /\ Len(clear_digit(masks, n, digit)) = Len(masks)
  BY <1>2, <1>3
<1> QED
  BY <1>2, <1>4 DEF clear_digit

\* The loop over groups_.back() drops the empty groups at the end and nothing else, and
\* leaves none at the end.
LEMMA DropEmptyGroupsProperties ==
  ASSUME NEW masks \in Seq(Mask)
  PROVE  /\ drop_empty_groups(masks) \in Seq(Mask)
         /\ Len(drop_empty_groups(masks)) <= Len(masks)
         /\ \A i \in 1..Len(drop_empty_groups(masks)) : drop_empty_groups(masks)[i] = masks[i]
         /\ \A i \in 1..Len(masks) : i > Len(drop_empty_groups(masks)) => masks[i] = {}
         /\ drop_empty_groups(masks) # <<>> =>
              drop_empty_groups(masks)[Len(drop_empty_groups(masks))] # {}
<1> DEFINE Fits(n) == \A i \in (n + 1)..Len(masks) : masks[i] = {}
           Sizes   == {n \in 0..Len(masks) : Fits(n)}
           size    == CHOOSE n \in 0..Len(masks) : Fits(n) /\ (n > 0 => masks[n] # {})
<1>1. PICK n \in Sizes : \A m \in Sizes : n <= m
  <2>1. Len(masks) \in Sizes /\ Sizes \subseteq Nat
    OBVIOUS
  <2> QED
    BY <2>1, LeastNatural
<1>2. ASSUME n > 0
      PROVE  masks[n] # {}
  <2>4. n \in 0..Len(masks) /\ n - 1 \in 0..Len(masks) /\ n - 1 < n /\ n - 1 \in Nat
    BY <1>1, <1>2
  <2>5. n - 1 \notin Sizes
    <3> HIDE DEF Sizes
    <3> QED
      BY <1>1, <2>4
  <2>1. n - 1 \notin Sizes /\ n - 1 \in 0..Len(masks)
    BY <2>4, <2>5
  <2>2. PICK i \in n..Len(masks) : masks[i] # {}
    BY <2>1
  <2>3. i = n
    BY <1>1, <2>2
  <2> QED
    BY <2>2, <2>3
<1>3. size \in 0..Len(masks) /\ Fits(size) /\ (size > 0 => masks[size] # {})
  <2>1. \E k \in 0..Len(masks) : Fits(k) /\ (k > 0 => masks[k] # {})
    BY <1>1, <1>2
  <2> QED
    BY <2>1, Zenon
<1>4. drop_empty_groups(masks) = SubSeq(masks, 1, size)
  BY DEF drop_empty_groups
<1> HIDE DEF size
<1>5. drop_empty_groups(masks) # <<>> =>
        drop_empty_groups(masks)[Len(drop_empty_groups(masks))] # {}
  BY <1>3, <1>4
<1> QED
  BY <1>3, <1>4, <1>5
-----------------------------------------------------------------------------
(* Sequences whose elements have no type of their own.                     *)

\* push_back.
LEMMA AppendOfRange ==
  ASSUME NEW s, s \in Seq(Range(s)), NEW e
  PROVE  /\ Append(s, e) \in Seq(Range(Append(s, e)))
         /\ Len(Append(s, e)) = Len(s) + 1
<1> DEFINE S == Range(s) \cup {e}
<1>1. s \in Seq(S)
  BY SeqMonotonic
<1>2. Append(s, e) \in Seq(S) /\ Len(Append(s, e)) = Len(s) + 1
  BY <1>1, AppendProperties
<1> QED
  BY <1>2, SeqOfRange

-----------------------------------------------------------------------------
(* One iteration of gen_struct_step: its lengths.                          *)

\* All the keys at hand are sequences of digits, hence of numbers.
LEMMA KeysAreSequences ==
  ASSUME TypeOK
  PROVE  /\ succeeding \in Seq(Digit) /\ succeeding \in Seq(Nat)
         /\ current \in Seq(Digit) /\ current \in Seq(Nat)
         /\ key_ \in Seq(Digit) /\ key_ \in Seq(Nat)
         /\ Keys \subseteq Seq(Digit) /\ Keys \subseteq Seq(Nat)
<1>1. Digit \subseteq Nat
  BY DEF Digit
<1>2. succeeding \in Keys \cup {<<>>}
  <2>1. CASE call \in Calls
    BY <2>1 DEF Calls, succeeding
  <2>2. CASE call \in {root_hash_call, no_call}
    BY <2>2 DEF root_hash_call, no_call, succeeding
  <2> QED
    BY <2>1, <2>2 DEF TypeOK, Calling
<1>3. Keys \subseteq Seq(Digit) /\ <<>> \in Seq(Digit)
  BY KeysAssumption
<1>4. \A s \in Seq(Digit) : s \in Seq(Nat)
  BY <1>1, SeqMonotonic
<1> QED
  BY <1>2, <1>3, <1>4 DEF TypeOK

\* preceding_len, common_prefix_len and len are within current.
LEMMA IterationLengths ==
  ASSUME TypeOK, CallInProgress, pc = "gen_struct_step"
  PROVE  /\ preceding_len \in Nat /\ preceding_len < Len(current)
         /\ preceding_exists => Len(groups_) = preceding_len + 1
         /\ ~preceding_exists => preceding_len = 0 /\ Len(groups_) = 0
         /\ common_prefix_len \in 0..Len(current)
         /\ succeeding = <<>> => common_prefix_len = 0
         /\ len \in Nat /\ len >= preceding_len /\ len >= common_prefix_len
         /\ len = preceding_len \/ len = common_prefix_len
         /\ build_extensions => len < Len(current)
<1>1. /\ Len(current) \in Nat \ {0} /\ Len(groups_) \in Nat
      /\ Len(groups_) <= Len(current)
  BY KeysAreSequences, EmptySeq DEF CallInProgress, TypeOK
<1>2. /\ preceding_len \in Nat /\ preceding_len < Len(current)
      /\ preceding_exists => Len(groups_) = preceding_len + 1
      /\ ~preceding_exists => preceding_len = 0 /\ Len(groups_) = 0
  BY <1>1 DEF preceding_len, preceding_exists, TypeOK
<1>3. common_prefix_len \in 0..Len(succeeding) /\ common_prefix_len <= Len(current)
  BY KeysAreSequences, PrefixLength DEF common_prefix_len
<1>4. build_extensions => common_prefix_len < Len(current)
  BY DEF CallInProgress
<1>5. Len(succeeding) \in Nat /\ (succeeding = <<>> => Len(succeeding) = 0)
  BY KeysAreSequences, LenProperties
<1> QED
  BY <1>1, <1>2, <1>3, <1>4, <1>5 DEF len

\* Masks grown to n + 1 of them, with a digit in the last one.
GrownBy(grown, masks, n, digit) ==
  /\ grown \in Seq(Mask) /\ Len(grown) = n + 1
  /\ \A i \in 1..n : grown[i] = IF i <= Len(masks) THEN masks[i] ELSE {}
  /\ grown[n + 1] = (IF n + 1 <= Len(masks) THEN masks[n + 1] ELSE {}) \cup {digit}

\* groups_.resize(n + 1); groups_[n] |= 1 << digit, of at most n + 1 groups.
LEMMA GrowProperties ==
  ASSUME NEW masks \in Seq(Mask), NEW n \in Nat, Len(masks) <= n + 1, NEW digit \in Digit,
         NEW grown,
         grown = set_digit(resize(masks, IF Len(masks) > n THEN Len(masks) ELSE n + 1),
                           n + 1, digit)
  PROVE  GrownBy(grown, masks, n, digit)
<1> DEFINE sized == resize(masks, n + 1)
<1>1. (IF Len(masks) > n THEN Len(masks) ELSE n + 1) = n + 1 /\ n + 1 \in Nat
  OBVIOUS
<1>2. /\ sized \in Seq(Mask) /\ Len(sized) = n + 1
      /\ \A i \in 1..(n + 1) : sized[i] = IF i <= Len(masks) THEN masks[i] ELSE {}
  BY <1>1, ResizeProperties
<1>3. n + 1 \in 1..Len(sized)
  BY <1>2
<1>9. sized \in Seq(Mask)
  BY <1>2
<1>8. grown = set_digit(sized, n + 1, digit)
  BY <1>1
<1> HIDE DEF sized
<1>4. /\ grown \in Seq(Mask) /\ Len(grown) = Len(sized)
      /\ \A i \in 1..Len(sized) :
           grown[i] = IF i = n + 1 THEN sized[i] \cup {digit} ELSE sized[i]
  <2> DEFINE set == set_digit(sized, n + 1, digit)
  <2>1. /\ set \in Seq(Mask) /\ Len(set) = Len(sized)
        /\ \A i \in 1..Len(sized) :
             set[i] = IF i = n + 1 THEN sized[i] \cup {digit} ELSE sized[i]
    BY <1>3, <1>9, SetDigitProperties
  <2> QED
    BY <1>8, <2>1, Zenon
<1>5. grown \in Seq(Mask) /\ Len(grown) = n + 1
  BY <1>2, <1>4
<1>6. \A i \in 1..n : grown[i] = IF i <= Len(masks) THEN masks[i] ELSE {}
  <2>1. \A i \in 1..n : i \in 1..(n + 1) /\ i \in 1..Len(sized) /\ i # n + 1
    BY <1>2
  <2> QED
    BY <1>2, <1>4, <2>1
<1>7. grown[n + 1] = (IF n + 1 <= Len(masks) THEN masks[n + 1] ELSE {}) \cup {digit}
  <2>1. n + 1 \in 1..(n + 1)
    OBVIOUS
  <2> QED
    BY <1>2, <1>3, <1>4, <2>1
<1> QED
  BY <1>5, <1>6, <1>7 DEF GrownBy

\* After this iteration's digit there are exactly len + 1 groups.
LEMMA IterationGroups ==
  ASSUME TypeOK, CallInProgress, pc = "gen_struct_step", len < Len(current)
  PROVE  /\ extra_digit \in Digit
         /\ groups_grown \in Seq(Mask) /\ Len(groups_grown) = len + 1
         /\ \A i \in 1..len : groups_grown[i] = IF i <= Len(groups_) THEN groups_[i] ELSE {}
         /\ groups_grown[len + 1] =
              (IF len + 1 <= Len(groups_) THEN groups_[len + 1] ELSE {}) \cup {extra_digit}
<1>1. groups_ \in Seq(Mask) /\ len \in Nat /\ Len(groups_) <= len + 1
  BY IterationLengths DEF TypeOK
<1>2. extra_digit \in Digit
  <2>1. len + 1 \in 1..Len(current)
    BY IterationLengths
  <2> QED
    BY <2>1, KeysAreSequences, ElementOfSeq DEF extra_digit
<1>3. groups_grown = set_digit(resize(groups_, IF Len(groups_) > len THEN Len(groups_) ELSE len + 1),
                               len + 1, extra_digit)
  BY DEF groups_grown
<1>4. GrownBy(groups_grown, groups_, len, extra_digit)
  BY <1>1, <1>2, <1>3, GrowProperties
<1> QED
  BY <1>2, <1>4 DEF GrownBy

-----------------------------------------------------------------------------
(* One iteration of gen_struct_step: the masks.                            *)

\* A vector of masks within the digits that "digits" allows at each place.
Within(masks, digits) ==
  masks \in Seq(Mask) /\ \A i \in 1..Len(masks) : masks[i] \subseteq digits[i]

\* Resizing stays within any digits.
LEMMA WithinResized ==
  ASSUME NEW masks, NEW digits, NEW n \in Nat, Within(masks, digits)
  PROVE  Within(resize(masks, n), digits) /\ Len(resize(masks, n)) = n
<1>1. /\ masks \in Seq(Mask) /\ resize(masks, n) \in Seq(Mask) /\ Len(resize(masks, n)) = n
      /\ \A i \in 1..n : resize(masks, n)[i] = IF i <= Len(masks) THEN masks[i] ELSE {}
  BY ResizeProperties DEF Within
<1>2. \A i \in 1..n : resize(masks, n)[i] \subseteq digits[i]
  <2> TAKE i \in 1..n
  <2>1. CASE i <= Len(masks)
    <3>1. i \in 1..Len(masks)
      BY <1>1, <2>1
    <3> QED
      BY <1>1, <2>1, <3>1 DEF Within
  <2>2. CASE ~(i <= Len(masks))
    BY <1>1, <2>2
  <2> QED
    BY <2>1, <2>2
<1> QED
  BY <1>1, <1>2 DEF Within

\* Setting a digit that is allowed stays within the digits.
LEMMA WithinSet ==
  ASSUME NEW masks, NEW digits, NEW n \in 1..Len(masks), NEW digit \in Digit,
         Within(masks, digits), digit \in digits[n]
  PROVE  Within(set_digit(masks, n, digit), digits)
         /\ Len(set_digit(masks, n, digit)) = Len(masks)
<1>3. masks \in Seq(Mask)
  BY DEF Within
<1>1. /\ set_digit(masks, n, digit) \in Seq(Mask)
      /\ Len(set_digit(masks, n, digit)) = Len(masks)
      /\ \A i \in 1..Len(masks) :
           set_digit(masks, n, digit)[i] = IF i = n THEN masks[i] \cup {digit} ELSE masks[i]
  BY <1>3, SetDigitProperties, Zenon
<1>2. \A i \in 1..Len(masks) : set_digit(masks, n, digit)[i] \subseteq digits[i]
  BY <1>1 DEF Within
<1> QED
  BY <1>1, <1>2, <1>3 DEF Within

\* Clearing a digit stays within the digits.
LEMMA WithinCleared ==
  ASSUME NEW masks, NEW digits, NEW n \in 1..Len(masks), NEW digit \in Digit,
         Within(masks, digits)
  PROVE  Within(clear_digit(masks, n, digit), digits)
         /\ Len(clear_digit(masks, n, digit)) = Len(masks)
<1>3. masks \in Seq(Mask)
  BY DEF Within
<1>1. /\ clear_digit(masks, n, digit) \in Seq(Mask)
      /\ Len(clear_digit(masks, n, digit)) = Len(masks)
      /\ \A i \in 1..Len(masks) :
           clear_digit(masks, n, digit)[i] = IF i = n THEN masks[i] \ {digit} ELSE masks[i]
  <2>1. clear_digit(masks, n, digit) \in Seq(Mask)
    BY <1>3, ClearDigitProperties
  <2>2. Len(clear_digit(masks, n, digit)) = Len(masks)
    BY <1>3, ClearDigitProperties
  <2>3. \A i \in 1..Len(masks) :
          clear_digit(masks, n, digit)[i] = IF i = n THEN masks[i] \ {digit} ELSE masks[i]
    <3>1. masks \in [1..Len(masks) -> Mask]
      BY <1>3, LenProperties
    <3> QED
      BY <3>1 DEF clear_digit
  <2> QED
    BY <2>1, <2>2, <2>3
<1>2. \A i \in 1..Len(masks) : clear_digit(masks, n, digit)[i] \subseteq digits[i]
  BY <1>1 DEF Within
<1> QED
  BY <1>1, <1>2, <1>3 DEF Within

\* What is within some digits is within more digits.
LEMMA WithinMonotone ==
  ASSUME NEW masks, NEW digits, NEW more, Within(masks, digits),
         \A i \in 1..Len(masks) : digits[i] \subseteq more[i]
  PROVE  Within(masks, more)
BY DEF Within

\* What an iteration that gets past its first assertion starts from.
Iterating ==
  /\ TypeOK /\ CallInProgress /\ MasksWithinGroups /\ StackCoversGroups
  /\ pc = "gen_struct_step" /\ len < Len(current)

\* The digits of the groups, before and after this iteration's digit has been set, and
\* those of a branch being closed.
GroupDigits == [i \in Nat |-> IF i <= Len(groups_) THEN groups_[i] ELSE {}]
GrownDigits == [i \in Nat |-> IF i <= len + 1 THEN groups_grown[i] ELSE {}]
OpenDigits  == [i \in Nat |-> GroupDigits[i]
                              \cup (IF i = Len(current) THEN {current[i]} ELSE {})]

\* How these relate: an iteration adds extra_digit to the groups, nothing else.
LEMMA IterationDigits ==
  ASSUME Iterating
  PROVE  /\ Len(current) \in Nat /\ Len(current) > 0
         /\ current[Len(current)] \in Digit
         /\ \A i \in Nat \ {0} : GroupDigits[i] \subseteq GrownDigits[i]
         /\ \A i \in Nat \ {0} : i # Len(current) => OpenDigits[i] = GroupDigits[i]
         /\ current[Len(current)] \in OpenDigits[Len(current)]
         /\ extra_digit \in GrownDigits[len + 1]
         /\ \A i \in Nat : GroupDigits[i] \subseteq OpenDigits[i]
<1>1. /\ len \in Nat /\ Len(current) \in Nat /\ Len(current) > 0 /\ Len(groups_) \in Nat
      /\ Len(groups_) <= len + 1
  <2>1. len \in Nat /\ Len(groups_) <= len + 1 /\ len < Len(current)
    BY IterationLengths DEF Iterating
  <2>2. Len(current) \in Nat
    BY KeysAreSequences, LenProperties DEF Iterating
  <2>3. Len(groups_) \in Nat
    BY LenProperties DEF Iterating, TypeOK
  <2> QED
    BY <2>1, <2>2, <2>3
<1>2. /\ \A i \in 1..len : groups_grown[i] = IF i <= Len(groups_) THEN groups_[i] ELSE {}
      /\ groups_grown[len + 1] =
           (IF len + 1 <= Len(groups_) THEN groups_[len + 1] ELSE {}) \cup {extra_digit}
  BY IterationGroups DEF Iterating
<1>3. current[Len(current)] \in Digit
  <2>1. Len(current) \in 1..Len(current)
    BY <1>1
  <2> QED
    BY <2>1, KeysAreSequences, ElementOfSeq DEF Iterating
<1>4. ASSUME NEW i \in Nat \ {0}
      PROVE  GroupDigits[i] \subseteq GrownDigits[i]
  <2>1. GroupDigits[i] = IF i <= Len(groups_) THEN groups_[i] ELSE {}
    BY DEF GroupDigits
  <2>2. GrownDigits[i] = IF i <= len + 1 THEN groups_grown[i] ELSE {}
    BY DEF GrownDigits
  <2>3. CASE i \in 1..len
    BY <1>1, <1>2, <2>1, <2>2, <2>3
  <2>4. CASE i = len + 1
    BY <1>1, <1>2, <2>1, <2>2, <2>4
  <2>5. CASE i > len + 1
    BY <1>1, <2>1, <2>5
  <2> QED
    BY <1>1, <2>3, <2>4, <2>5
<1>5. /\ \A i \in Nat \ {0} : i # Len(current) => OpenDigits[i] = GroupDigits[i]
      /\ \A i \in Nat : GroupDigits[i] \subseteq OpenDigits[i]
      /\ current[Len(current)] \in OpenDigits[Len(current)]
  BY <1>1 DEF OpenDigits
<1>6. extra_digit \in GrownDigits[len + 1]
  BY <1>1, <1>2 DEF GrownDigits
<1> QED
  BY <1>1, <1>3, <1>4, <1>5, <1>6

\* A vector of masks after the pending entry was pushed: as long as current, within the
\* digits of the groups and that of the entry; a leaf adds no digit.
LEMMA IterationMasksPushed ==
  ASSUME Iterating
  PROVE  /\ Within(tree_masks_pushed, OpenDigits) /\ Within(hash_masks_pushed, OpenDigits)
         /\ pushes_leaf => /\ Within(tree_masks_pushed, GroupDigits)
                           /\ Within(hash_masks_pushed, GroupDigits)
         /\ Len(tree_masks_pushed) = Len(hash_masks_pushed)
         /\ Len(tree_masks_pushed) >= Len(current)
<1> DEFINE tree == masks_grown(tree_masks_)
           hash == masks_grown(hash_masks_)
<1>1. /\ tree_masks_ \in Seq(Mask) /\ hash_masks_ \in Seq(Mask)
      /\ Len(tree_masks_) \in Nat /\ Len(hash_masks_) = Len(tree_masks_)
  BY LenProperties DEF Iterating, TypeOK
<1>2. Within(tree_masks_, OpenDigits) /\ Within(hash_masks_, OpenDigits)
  <2>1. \A i \in 1..Len(tree_masks_) :
          tree_masks_[i] \cup hash_masks_[i] \subseteq OpenDigits[i]
    BY <1>1 DEF Iterating, MasksWithinGroups, OpenDigits, GroupDigits
  <2> QED
    BY <1>1, <2>1 DEF Within
<1>3. ~build_extensions => Within(tree_masks_, GroupDigits) /\ Within(hash_masks_, GroupDigits)
  <2>1. ~build_extensions => \A i \in 1..Len(tree_masks_) :
          tree_masks_[i] \cup hash_masks_[i] \subseteq GroupDigits[i]
    BY <1>1 DEF Iterating, MasksWithinGroups, GroupDigits
  <2> QED
    BY <1>1, <2>1 DEF Within
<1>4. Len(current) \in Nat /\ Len(current) > 0 /\ current[Len(current)] \in Digit
      /\ current[Len(current)] \in OpenDigits[Len(current)]
  BY IterationDigits
<1>5. /\ Len(tree) = Len(hash) /\ Len(tree) >= Len(current) /\ Len(tree) \in Nat
      /\ Within(tree, OpenDigits) /\ Within(hash, OpenDigits)
  BY <1>1, <1>2, <1>4, WithinResized DEF masks_grown
<1>6. ~build_extensions => Within(tree, GroupDigits) /\ Within(hash, GroupDigits)
  BY <1>1, <1>3, <1>4, WithinResized DEF masks_grown
<1>7. /\ Within(own_digit_in(tree_masks_), OpenDigits)
      /\ Len(own_digit_in(tree_masks_)) = Len(tree)
      /\ Within(own_digit_in(hash_masks_), OpenDigits)
      /\ Len(own_digit_in(hash_masks_)) = Len(hash)
  <2>1. Len(current) \in 1..Len(tree) /\ Len(current) \in 1..Len(hash)
    BY <1>4, <1>5
  <2> HIDE DEF tree, hash
  <2>2. /\ Within(set_digit(tree, Len(current), current[Len(current)]), OpenDigits)
        /\ Len(set_digit(tree, Len(current), current[Len(current)])) = Len(tree)
    BY <1>4, <1>5, <2>1, WithinSet
  <2>3. /\ Within(set_digit(hash, Len(current), current[Len(current)]), OpenDigits)
        /\ Len(set_digit(hash, Len(current), current[Len(current)])) = Len(hash)
    BY <1>4, <1>5, <2>1, WithinSet
  <2> QED
    BY <2>2, <2>3 DEF own_digit_in, tree, hash
<1> HIDE DEF tree, hash
<1>8. /\ Within(tree_masks_pushed, OpenDigits) /\ Len(tree_masks_pushed) = Len(tree)
      /\ Within(hash_masks_pushed, OpenDigits) /\ Len(hash_masks_pushed) = Len(hash)
  <2>1. tree_masks_pushed \in {own_digit_in(tree_masks_), tree}
    BY DEF tree_masks_pushed, tree
  <2>2. hash_masks_pushed \in {own_digit_in(hash_masks_), hash}
    BY DEF hash_masks_pushed, hash
  <2> QED
    BY <1>5, <1>7, <2>1, <2>2
<1>9. pushes_leaf => tree_masks_pushed = tree /\ hash_masks_pushed = hash /\ ~build_extensions
  BY DEF tree_masks_pushed, hash_masks_pushed, tree, hash, pushes_leaf, pushes_hash
<1> QED
  BY <1>5, <1>6, <1>8, <1>9

\* The path of this iteration's node: it starts after the parent's digit, if any.
LEMMA IterationFrom ==
  ASSUME Iterating
  PROVE  /\ from = IF has_parent THEN len + 1 ELSE 0
         /\ from \in Nat /\ from <= Len(current)
         /\ from < Len(current) <=> short_node_key # <<>>
         /\ ~has_parent => succeeding = <<>> /\ Len(groups_) = 0 /\ len = 0
         /\ has_parent => current[from] = extra_digit
<1>1. /\ len \in Nat /\ Len(current) \in Nat /\ len < Len(current)
      /\ ~preceding_exists => preceding_len = 0 /\ Len(groups_) = 0
      /\ succeeding = <<>> => common_prefix_len = 0
      /\ len = preceding_len \/ len = common_prefix_len
  BY IterationLengths, KeysAreSequences, LenProperties DEF Iterating
<1>2. ~has_parent => succeeding = <<>> /\ Len(groups_) = 0 /\ len = 0
  BY <1>1 DEF has_parent
<1>3. from = (IF has_parent THEN len + 1 ELSE 0) /\ from \in Nat /\ from <= Len(current)
  BY <1>1, <1>2 DEF from
<1>4. from < Len(current) <=> short_node_key # <<>>
  <2>1. current \in Seq(Digit)
    BY KeysAreSequences DEF Iterating
  <2>2. from < Len(current) => Len(SubSeq(current, from + 1, Len(current))) > 0
    BY <1>1, <1>3, <2>1
  <2>3. from = Len(current) => SubSeq(current, from + 1, Len(current)) = <<>>
    BY <1>1, <1>3, <2>1
  <2> QED
    BY <1>1, <1>3, <2>1, <2>2, <2>3 DEF short_node_key
<1> QED
  BY <1>1, <1>2, <1>3, <1>4 DEF extra_digit

\* What this iteration leaves in the masks is within the groups it leaves, and reaches
\* as far as the branch it may close.
LEMMA IterationMasks ==
  ASSUME Iterating
  PROVE  /\ Within(tree_masks_built, GrownDigits) /\ Within(hash_masks_built, GrownDigits)
         /\ Len(tree_masks_built) = Len(hash_masks_built)
         /\ has_parent => Len(tree_masks_built) >= len + 1
<1>1. /\ len \in Nat /\ Len(current) \in Nat /\ len < Len(current)
  BY IterationLengths, KeysAreSequences, LenProperties DEF Iterating
<1>2. /\ Len(tree_masks_pushed) \in Nat /\ Len(tree_masks_pushed) >= Len(current)
      /\ Len(tree_masks_pushed) = Len(hash_masks_pushed)
  BY IterationMasksPushed, LenProperties DEF Within
<1>3. CASE pushes_leaf
  <2>1. /\ Within(tree_masks_built, GroupDigits) /\ Within(hash_masks_built, GroupDigits)
        /\ Len(tree_masks_built) = Len(hash_masks_built)
        /\ Len(tree_masks_built) >= Len(current)
    BY <1>3, <1>2, IterationMasksPushed DEF tree_masks_built, hash_masks_built, extends
  <2>2. /\ Len(tree_masks_built) \in Nat
        /\ \A i \in 1..Len(tree_masks_built) : i \in Nat \ {0}
    BY <2>1, LenProperties DEF Within
  <2> QED
    BY <1>1, <2>1, <2>2, IterationDigits, WithinMonotone
<1>4. CASE ~pushes_leaf /\ short_node_key = <<>>
  <2>1. tree_masks_built = tree_masks_pushed /\ hash_masks_built = hash_masks_pushed
    BY <1>4 DEF tree_masks_built, hash_masks_built, extends
  <2>2. Len(current) = len + 1 /\ current[Len(current)] = extra_digit
    BY <1>1, <1>4, IterationFrom
  <2>3. ASSUME NEW i \in 1..Len(tree_masks_pushed)
        PROVE  OpenDigits[i] \subseteq GrownDigits[i]
    <3>1. i \in Nat \ {0}
      BY <1>2
    <3>2. CASE i # Len(current)
      BY <3>1, <3>2, IterationDigits
    <3>3. CASE i = Len(current)
      <4>1. OpenDigits[i] = GroupDigits[i] \cup {current[i]}
        BY <3>1, <3>3 DEF OpenDigits
      <4> QED
        BY <2>2, <3>1, <3>3, <4>1, IterationDigits
    <3> QED
      BY <3>2, <3>3
  <2> QED
    BY <1>1, <1>2, <2>1, <2>3, IterationMasksPushed, WithinMonotone
<1>5. CASE extends
  <2> DEFINE digits == [i \in Nat |-> OpenDigits[i] \cup GrownDigits[i]]
             tree == IF node_collector /\ from > 0 /\ tree_masks_pushed[Len(current)] # {}
                     THEN set_digit(tree_masks_pushed, from, current[from])
                     ELSE tree_masks_pushed
             hash == IF node_collector /\ from > 0
                     THEN clear_digit(hash_masks_pushed, from, current[from])
                     ELSE hash_masks_pushed
  <2>1. short_node_key # <<>> /\ from < Len(current) /\ from \in Nat
    BY <1>5, IterationFrom DEF extends
  <2>2. Within(tree_masks_pushed, digits) /\ Within(hash_masks_pushed, digits)
    <3>1. \A i \in 1..Len(tree_masks_pushed) : OpenDigits[i] \subseteq digits[i]
      BY <1>2
    <3> QED
      BY <1>2, <3>1, IterationMasksPushed, WithinMonotone
  <2>3. from > 0 => /\ from \in 1..Len(tree_masks_pushed) /\ from \in 1..Len(hash_masks_pushed)
                    /\ current[from] \in Digit /\ current[from] \in digits[from]
    <3>1. from > 0 => from = len + 1 /\ current[from] = extra_digit
      BY IterationFrom
    <3>2. extra_digit \in Digit /\ extra_digit \in GrownDigits[len + 1]
      BY IterationGroups, IterationDigits DEF Iterating
    <3> QED
      BY <1>1, <1>2, <2>1, <3>1, <3>2
  <2> HIDE DEF digits
  <2>4. Within(tree, digits) /\ Within(hash, digits)
    BY <2>2, <2>3, WithinSet, WithinCleared
  <2> HIDE DEF tree, hash
  <2>5. /\ Within(resize(tree, from), digits) /\ Len(resize(tree, from)) = from
        /\ Within(resize(hash, from), digits) /\ Len(resize(hash, from)) = from
    BY <2>1, <2>4, WithinResized
  <2>6. ASSUME NEW i \in 1..from
        PROVE  digits[i] \subseteq GrownDigits[i]
    <3>1. i \in Nat \ {0} /\ i # Len(current)
      BY <1>1, <2>1
    <3> QED
      BY <3>1, IterationDigits DEF digits
  <2>7. tree_masks_built = resize(tree, from) /\ hash_masks_built = resize(hash, from)
    BY <1>5 DEF tree_masks_built, hash_masks_built, tree, hash
  <2>8. Within(resize(tree, from), GrownDigits) /\ Within(resize(hash, from), GrownDigits)
    BY <2>5, <2>6, WithinMonotone
  <2>9. has_parent => from = len + 1
    BY IterationFrom
  <2> QED
    BY <1>1, <2>5, <2>7, <2>8, <2>9
<1> QED
  BY <1>3, <1>4, <1>5 DEF extends

-----------------------------------------------------------------------------
(* One iteration of gen_struct_step: the stack.                            *)

\* A mask has finitely many digits; setting one adds at most one.
LEMMA MaskCardinality ==
  ASSUME NEW mask \in Mask, NEW digit
  PROVE  /\ IsFiniteSet(mask) /\ Cardinality(mask) \in Nat
         /\ Cardinality(mask \cup {digit}) \in Nat
         /\ Cardinality(mask \cup {digit}) <= Cardinality(mask) + 1
         /\ Cardinality({}) = 0
<1>1. IsFiniteSet(Digit)
  <2>1. Digit \in SUBSET Nat /\ 15 \in Nat /\ \A s \in Digit : s <= 15
    BY DEF Digit
  <2> QED
    BY <2>1, FS_BoundedSetOfNaturals
<1>2. IsFiniteSet(mask)
  BY <1>1, FS_Subset DEF Mask
<1>3. Cardinality(mask) \in Nat
  BY <1>2, FS_CardinalityType
<1>4. /\ IsFiniteSet(mask \cup {digit})
      /\ \/ Cardinality(mask \cup {digit}) = Cardinality(mask)
         \/ Cardinality(mask \cup {digit}) = Cardinality(mask) + 1
  BY <1>2, FS_AddElement
<1> QED
  BY <1>2, <1>3, <1>4, FS_EmptySet

\* Assigning an element of a vector.
LEMMA ReplaceOfRange ==
  ASSUME NEW s, s \in Seq(Range(s)), NEW n, NEW e
  PROVE  /\ [s EXCEPT ![n] = e] \in Seq(Range([s EXCEPT ![n] = e]))
         /\ Len([s EXCEPT ![n] = e]) = Len(s)
<1> DEFINE S == Range(s) \cup {e}
<1>1. s \in [1..Len(s) -> S] /\ Len(s) \in Nat
  BY LenProperties, SeqMonotonic
<1>2. [s EXCEPT ![n] = e] \in [1..Len(s) -> S]
  BY <1>1
<1> HIDE DEF S
<1>3. [s EXCEPT ![n] = e] \in Seq(S) /\ Len([s EXCEPT ![n] = e]) = Len(s)
  BY <1>1, <1>2
<1> QED
  BY <1>3, SeqOfRange

\* Cutting a vector off.
LEMMA CutOfRange ==
  ASSUME NEW s, s \in Seq(Range(s)), NEW n \in 0..Len(s)
  PROVE  /\ SubSeq(s, 1, n) \in Seq(Range(SubSeq(s, 1, n)))
         /\ Len(SubSeq(s, 1, n)) = n
<1>1. SubSeq(s, 1, n) \in Seq(Range(s)) /\ Len(SubSeq(s, 1, n)) = n
  BY SubSeqProperties
<1> QED
  BY <1>1, SeqOfRange

\* The first iteration puts the pending entry on the stack.
LEMMA IterationPush ==
  ASSUME Iterating
  PROVE  /\ stack_built \in Seq(Range(stack_built))
         /\ Len(stack_built) = Len(stack_) + (IF build_extensions THEN 0 ELSE 1)
<1>1. stack_ \in Seq(Range(stack_)) /\ Len(stack_) \in Nat
  BY LenProperties DEF Iterating, TypeOK
<1>2. value_.tag \in {"leaf", "hash"} /\ build_extensions \in BOOLEAN
  BY DEF Iterating, TypeOK, Value
<1>3. /\ stack_pushed \in Seq(Range(stack_pushed))
      /\ Len(stack_pushed) = Len(stack_) + (IF build_extensions THEN 0 ELSE 1)
  <2>1. CASE build_extensions
    BY <1>1, <2>1 DEF stack_pushed, pushes_leaf, pushes_hash
  <2>2. CASE pushes_leaf
    <3>1. ~build_extensions /\ ~pushes_hash
      BY <2>2 DEF pushes_leaf, pushes_hash
    <3>2. stack_pushed = Append(stack_, node_ref(leaf_node_rlp(short_node_key, value_.data)))
      BY <2>2, <3>1 DEF stack_pushed
    <3> QED
      BY <1>1, <3>1, <3>2, AppendOfRange
  <2>3. CASE pushes_hash
    <3>1. ~build_extensions /\ stack_pushed = Append(stack_, wrap_hash(value_.data))
      BY <2>3 DEF stack_pushed, pushes_leaf, pushes_hash
    <3> QED
      BY <1>1, <3>1, AppendOfRange
  <2> QED
    BY <1>2, <2>1, <2>2, <2>3 DEF pushes_leaf, pushes_hash
<1>4. stack_built \in Seq(Range(stack_built)) /\ Len(stack_built) = Len(stack_pushed)
  <2>1. CASE extends
    BY <1>3, <2>1, ReplaceOfRange DEF stack_built
  <2>2. CASE ~extends
    BY <1>3, <2>2 DEF stack_built
  <2> QED
    BY <2>1, <2>2
<1> QED
  BY <1>3, <1>4

\* When a digit is set in the last of n + 1 groups, their segments still fit below "top",
\* the reference of that digit included.
LEMMA SegmentsGrow ==
  ASSUME NEW groups \in Seq(Mask), NEW n \in Nat, Len(groups) <= n + 1,
         NEW grown, NEW digit,
         \A i \in 1..n : grown[i] = IF i <= Len(groups) THEN groups[i] ELSE {},
         grown[n + 1] = (IF n + 1 <= Len(groups) THEN groups[n + 1] ELSE {}) \cup {digit},
         NEW top \in Nat, NEW base \in [0..Len(groups) -> 0..top],
         \A i \in 1..Len(groups) : base[i] = base[i - 1] + Cardinality(groups[i]),
         base[Len(groups)] < top
  PROVE  \E segment \in [0..(n + 1) -> 0..top] :
           \A i \in 1..(n + 1) : segment[i] = segment[i - 1] + Cardinality(grown[i])
<1> DEFINE size     == Len(groups)
           below(i) == IF i <= size THEN base[i] ELSE base[size]
           last     == below(n) + Cardinality(grown[n + 1])
           segment  == [i \in 0..(n + 1) |-> IF i <= n THEN below(i) ELSE last]
<1>1. size \in Nat /\ size \in 0..size /\ base[size] \in Nat
  BY LenProperties
<1>2. last \in 0..top
  <2>1. CASE size = n + 1
    <3>7. size \in 1..size /\ size - 1 = n /\ n \in 0..size
      BY <1>1, <2>1
    <3>8. groups[size] \in Mask
      BY <3>7, ElementOfSeq
    <3>1. groups[size] \in Mask /\ size \in 1..size /\ size - 1 = n /\ n \in 0..size
      BY <3>7, <3>8
    <3>2. /\ Cardinality(groups[size]) \in Nat
          /\ Cardinality(groups[size] \cup {digit}) \in Nat
          /\ Cardinality(groups[size] \cup {digit}) <= Cardinality(groups[size]) + 1
      BY <3>1, MaskCardinality
    <3>3. grown[n + 1] = groups[size] \cup {digit}
      BY <1>1, <2>1
    <3>4. /\ below(n) = base[n] /\ base[n] \in Nat
          /\ base[size] = base[n] + Cardinality(groups[size])
      BY <1>1, <2>1, <3>1
    <3>5. last = base[n] + Cardinality(groups[size] \cup {digit})
      BY <3>3, <3>4
    <3> HIDE DEF last
    <3> DEFINE c == Cardinality(groups[size])
               d == Cardinality(groups[size] \cup {digit})
    <3>6. c \in Nat /\ d \in Nat /\ d <= c + 1 /\ base[size] = base[n] + c /\ last = base[n] + d
      BY <3>2, <3>4, <3>5
    <3>9. base[size] \in 0..top /\ base[size] < top /\ base[n] \in Nat
      BY <1>1, <3>4
    <3> HIDE DEF c, d, size
    <3> QED
      BY <3>6, <3>9
  <2>2. CASE size <= n
    <3>1. Cardinality({digit}) = 1
      BY FS_Singleton
    <3>2. grown[n + 1] = {digit}
      BY <1>1, <2>2
    <3>3. below(n) = base[size]
      BY <1>1, <2>2
    <3>4. last = base[size] + Cardinality({digit})
      BY <3>2, <3>3
    <3> HIDE DEF last
    <3> QED
      BY <1>1, <3>1, <3>4
  <2> QED
    BY <1>1, <2>1, <2>2
<1>3. ASSUME NEW i \in 0..n
      PROVE  below(i) \in 0..top
  <2>1. i <= size => i \in 0..size
    BY <1>1
  <2> QED
    BY <1>1, <2>1
<1> HIDE DEF last
<1>4. segment \in [0..(n + 1) -> 0..top]
  BY <1>2, <1>3
<1>5. ASSUME NEW i \in 1..(n + 1)
      PROVE  segment[i] = segment[i - 1] + Cardinality(grown[i])
  <2>1. i - 1 \in 0..n /\ i \in 0..(n + 1) /\ i - 1 \in 0..(n + 1)
    OBVIOUS
  <2>2. CASE i = n + 1
    <3>1. segment[i - 1] = below(n) /\ segment[i] = last
      BY <2>1, <2>2
    <3> QED
      BY <2>2, <3>1 DEF last
  <2>3. CASE i \in 1..n /\ i <= size
    <3>1. segment[i] = base[i] /\ segment[i - 1] = base[i - 1] /\ grown[i] = groups[i]
      BY <1>1, <2>1, <2>3
    <3>2. i \in 1..size
      BY <2>3
    <3> QED
      BY <3>1, <3>2
  <2>4. CASE i \in 1..n /\ i > size
    <3>1. grown[i] = {} /\ Cardinality({}) = 0
      BY <1>1, <2>4, FS_EmptySet
    <3>2. segment[i] = base[size] /\ segment[i - 1] = base[size]
      BY <1>1, <2>1, <2>4
    <3> QED
      BY <1>1, <3>1, <3>2
  <2> QED
    BY <1>1, <2>2, <2>3, <2>4
<1> QED
  BY <1>4, <1>5

\* The segments of the groups still cover the stack when this iteration's digit has been
\* set: the one reference above them is its child.
LEMMA IterationSegments ==
  ASSUME Iterating
  PROVE  \E segment \in [0..(len + 1) -> 0..Len(stack_built)] :
           \A i \in 1..(len + 1) : segment[i] = segment[i - 1] + Cardinality(groups_grown[i])
<1>1. /\ len \in Nat /\ Len(groups_) <= len + 1
      /\ Len(stack_) \in Nat /\ groups_ \in Seq(Mask) /\ Len(groups_) \in Nat
      /\ build_extensions \in BOOLEAN
  BY IterationLengths, LenProperties DEF Iterating, TypeOK
<1>2. /\ \A i \in 1..len : groups_grown[i] = IF i <= Len(groups_) THEN groups_[i] ELSE {}
      /\ groups_grown[len + 1] =
           (IF len + 1 <= Len(groups_) THEN groups_[len + 1] ELSE {}) \cup {extra_digit}
  BY IterationGroups DEF Iterating
<1>3. PICK base \in [0..Len(groups_) -> 0..Len(stack_)] :
        /\ \A i \in 1..Len(groups_) : base[i] = base[i - 1] + Cardinality(groups_[i])
        /\ build_extensions => base[Len(groups_)] < Len(stack_)
  BY DEF Iterating, StackCoversGroups
<1>4. /\ Len(stack_built) \in Nat
      /\ base \in [0..Len(groups_) -> 0..Len(stack_built)]
      /\ base[Len(groups_)] < Len(stack_built)
  <2>1. base[Len(groups_)] \in 0..Len(stack_)
    BY <1>1
  <2>2. Len(stack_built) = Len(stack_) + (IF build_extensions THEN 0 ELSE 1)
    BY IterationPush
  <2>3. Len(stack_built) \in Nat /\ base[Len(groups_)] < Len(stack_built)
    BY <1>1, <1>3, <2>1, <2>2
  <2>4. 0..Len(stack_) \subseteq 0..Len(stack_built)
    BY <1>1, <2>2
  <2> QED
    BY <2>3, <2>4
<1> QED
  BY <1>1, <1>2, <1>3, <1>4, SegmentsGrow

\* Segments lie one above the other.
LEMMA SegmentsRise ==
  ASSUME NEW n \in Nat, NEW segment \in [0..n -> Nat], NEW masks,
         \A i \in 1..n : /\ segment[i] = segment[i - 1] + Cardinality(masks[i])
                         /\ Cardinality(masks[i]) \in Nat,
         NEW i \in 0..n
  PROVE  segment[i] <= segment[n]
<1> DEFINE Below == {k \in i..n : segment[k] < segment[i]}
<1>1. SUFFICES ASSUME segment[n] < segment[i]
               PROVE  FALSE
  BY n \in 0..n
<1>2. n \in Below /\ Below \subseteq Nat
  BY <1>1
<1>3. PICK m \in Below : \A k \in Below : m <= k
  BY <1>2, LeastNatural
<1>4. m \in i..n /\ segment[m] < segment[i] /\ m \in 0..n /\ segment[i] \in Nat
  BY <1>3
<1>5. m # i
  BY <1>4
<1>6. m - 1 \in i..n /\ m \in 1..n /\ m - 1 \in 0..n
  BY <1>4, <1>5
<1>7. ~(segment[m - 1] < segment[i])
  BY <1>3, <1>6
<1>8. segment[m - 1] \in Nat /\ segment[m] = segment[m - 1] + Cardinality(masks[m])
      /\ Cardinality(masks[m]) \in Nat
  BY <1>6
<1> QED
  BY <1>4, <1>7, <1>8

\* The children that branch_ref takes off the stack are there, and below them is what
\* the enclosing groups cover.
LEMMA IterationChildren ==
  ASSUME Iterating
  PROVE  /\ first_child_idx \in 0..Len(stack_built)
         /\ \E segment \in [0..len -> 0..first_child_idx] :
              \A i \in 1..len : segment[i] = segment[i - 1] + Cardinality(groups_grown[i])
<1>1. PICK segment \in [0..(len + 1) -> 0..Len(stack_built)] :
        \A i \in 1..(len + 1) : segment[i] = segment[i - 1] + Cardinality(groups_grown[i])
  BY IterationSegments
<1>2. /\ len \in Nat /\ Len(stack_built) \in Nat
      /\ groups_grown \in Seq(Mask) /\ Len(groups_grown) = len + 1
  BY IterationLengths, IterationGroups, IterationPush, LenProperties DEF Iterating
<1>3. \A i \in 1..(len + 1) : Cardinality(groups_grown[i]) \in Nat
  <2>1. \A i \in 1..(len + 1) : groups_grown[i] \in Mask
    BY <1>2, ElementOfSeq
  <2> QED
    BY <2>1, MaskCardinality
<1>4. len + 1 \in 1..(len + 1) /\ len + 1 \in 0..(len + 1) /\ len \in 0..(len + 1)
      /\ (len + 1) - 1 = len
  BY <1>2
<1>5. /\ segment[len + 1] = segment[len] + Cardinality(groups_grown[len + 1])
      /\ segment[len + 1] \in 0..Len(stack_built) /\ segment[len] \in 0..Len(stack_built)
      /\ Cardinality(groups_grown[len + 1]) \in Nat
  BY <1>1, <1>3, <1>4
<1>6. first_child_idx = Len(stack_built) - Cardinality(groups_grown[len + 1])
  BY DEF first_child_idx, state_mask
<1>7. first_child_idx \in 0..Len(stack_built) /\ segment[len] <= first_child_idx
  BY <1>2, <1>5, <1>6
<1> DEFINE lower == [i \in 0..len |-> segment[i]]
<1>8. lower \in [0..len -> Nat]
  <2>1. \A i \in 0..len : i \in 0..(len + 1)
    BY <1>2
  <2> QED
    BY <1>2, <2>1
<1>9. ASSUME NEW i \in 1..len
      PROVE  lower[i] = lower[i - 1] + Cardinality(groups_grown[i])
             /\ Cardinality(groups_grown[i]) \in Nat
  <2>1. i \in 1..(len + 1) /\ i \in 0..len /\ i - 1 \in 0..len
    BY <1>2
  <2> QED
    BY <1>1, <1>3, <2>1
<1>10. lower[len] = segment[len]
  BY <1>2
<1> HIDE DEF lower
<1>11. \A i \in 0..len : lower[i] <= lower[len]
  BY <1>2, <1>8, <1>9, SegmentsRise
<1>12. lower \in [0..len -> 0..first_child_idx]
  <2>1. \A i \in 0..len : lower[i] \in 0..first_child_idx
    BY <1>2, <1>5, <1>7, <1>8, <1>10, <1>11
  <2> QED
    BY <1>8, <2>1
<1> QED
  BY <1>7, <1>9, <1>12

\* Of the assertions of an iteration only that on the size of child hashes can fail.
LEMMA IterationAborts ==
  ASSUME Iterating
  PROVE  failing \in {"none", "hash_size"}
<1>1. /\ len \in Nat /\ Len(current) \in Nat /\ len < Len(current)
  BY IterationLengths, KeysAreSequences, LenProperties DEF Iterating
<1>2. ASSUME has_parent
      PROVE  tree_mask \subseteq state_mask /\ hash_mask \subseteq state_mask
  <2>1. len + 1 \in 1..Len(tree_masks_built) /\ len + 1 \in 1..Len(hash_masks_built)
    BY <1>1, <1>2, IterationMasks, LenProperties DEF Within
  <2>2. GrownDigits[len + 1] = groups_grown[len + 1]
    BY <1>1 DEF GrownDigits
  <2> QED
    BY <2>1, <2>2, IterationMasks DEF Within, tree_mask, hash_mask, state_mask
<1>3. ~(first_child_idx < 0)
  BY IterationChildren, IterationPush, LenProperties
<1>4. ~(len >= Len(current))
  BY <1>1
<1> QED
  BY <1>2, <1>3, <1>4 DEF failing

-----------------------------------------------------------------------------
(* The steps keep the inductive invariant.                                 *)

\* TypeOK in two parts: what gen_struct_step alone writes, and the rest.
MasksTypeOK ==
  /\ groups_ \in Seq(Mask) /\ tree_masks_ \in Seq(Mask) /\ hash_masks_ \in Seq(Mask)
  /\ Len(tree_masks_) = Len(hash_masks_)
  /\ collected \in Seq(Range(collected))

RestTypeOK ==
  /\ key_ \in Seq(Digit) /\ value_ \in Value /\ is_in_db_trie_ \in BOOLEAN
  /\ stack_ \in Seq(Range(stack_))
  /\ node_collector \in BOOLEAN
  /\ pc \in {"idle", "gen_struct_step", "aborted"}
  /\ call \in Calling
  /\ current \in Seq(Digit) /\ build_extensions \in BOOLEAN
  /\ root \in Seq(Range(root))
  /\ entries \in Seq([key : Keys, value : Value, in_db : BOOLEAN])
  /\ sealed \in 0..Len(entries)
  /\ failed \in Assertions /\ (failed # "none" <=> pc = "aborted")

\* They make up TypeOK, before and after a step.
LEMMA TypeOKParts ==
  /\ TypeOK <=> MasksTypeOK /\ RestTypeOK
  /\ TypeOK' <=> MasksTypeOK' /\ RestTypeOK'
BY DEF TypeOK, MasksTypeOK, RestTypeOK

\* The types of the arguments of a call.
LEMMA CallTypes ==
  ASSUME NEW c \in Calls \cup {root_hash_call}
  PROVE  /\ c \in Calling /\ c.key \in Seq(Digit) /\ c.key \in Seq(Nat) /\ c.value \in Value
         /\ c.op = "add_branch_node" => c.in_db \in BOOLEAN
         /\ c.op = "root_hash" => c.key = <<>>
         /\ c.op # "root_hash" => c.key \in Keys /\ c.in_db \in BOOLEAN
<1>1. Digit \subseteq Nat /\ <<>> \in Seq(Digit)
  BY DEF Digit
<1>2. CASE c \in Calls
  <2>1. c.key \in Keys /\ c.value \in Value /\ c.in_db \in BOOLEAN /\ c.op # "root_hash"
    BY <1>2 DEF Calls, Value
  <2> QED
    BY <1>1, <1>2, <2>1, KeysAssumption, SeqMonotonic DEF Calling
<1>3. CASE c = root_hash_call
  <2>1. NoValue \in Value
    BY EmptyBytesAssumption DEF NoValue, Value
  <2> QED
    BY <1>1, <1>3, <2>1, SeqMonotonic DEF Calling, root_hash_call
<1> QED
  BY <1>2, <1>3

\* Vectors of no and of one element.
LEMMA SingletonOfRange ==
  ASSUME NEW e
  PROVE  <<e>> \in Seq(Range(<<e>>)) /\ <<>> \in Seq(Range(<<>>))
<1>1. <<e>> \in Seq({e}) /\ <<>> \in Seq({})
  OBVIOUS
<1> QED
  BY <1>1, SeqOfRange

\* The end of a call, for the variables it writes.  The new entry is in order with all
\* those of the trie under construction because it is in order with the pending one.
LEMMA ReturnKeeps ==
  ASSUME TypeOK, LastEntryPending, ContractEnforced, pc # "aborted",
         NEW c \in Calls \cup {root_hash_call}, NEW stack, stack \in Seq(Range(stack)),
         key_ # <<>> /\ c.key # <<>> => greater(c.key, key_) /\ ~starts_with(c.key, key_),
         Return(c, stack)
  PROVE  /\ RestTypeOK' /\ LastEntryPending' /\ ContractEnforced'
         /\ failed' = "none" /\ pc' = "idle"
<1> DEFINE entry == [key |-> c.key, value |-> c.value, in_db |-> c.in_db]
           Entry == [key : Keys, value : Value, in_db : BOOLEAN]
<1>1. entries \in Seq(Entry) /\ Len(entries) \in Nat /\ sealed \in 0..Len(entries)
  BY LenProperties DEF TypeOK
<1>2. /\ key_' = c.key /\ value_' = c.value /\ stack_' = stack
      /\ is_in_db_trie_' = IF c.op = "add_branch_node" THEN c.in_db ELSE is_in_db_trie_
      /\ pc' = "idle" /\ call' = no_call /\ current' = <<>> /\ build_extensions' = FALSE
      /\ UNCHANGED <<node_collector, failed>>
      /\ sealed' = IF c.key = <<>> THEN Len(entries') ELSE sealed
  BY DEF Return
<1>3. root' \in Seq(Range(root'))
  <2>1. \/ root' = <<>>
        \/ \E hash : root' = <<hash>>
    BY DEF Return
  <2> QED
    BY <2>1, SingletonOfRange
<1>4. key_' \in Seq(Digit) /\ value_' \in Value /\ current' \in Seq(Digit)
  BY <1>2, CallTypes
<1>5. is_in_db_trie_' \in BOOLEAN /\ node_collector' \in BOOLEAN /\ build_extensions' \in BOOLEAN
  <2>1. is_in_db_trie_ \in BOOLEAN /\ node_collector \in BOOLEAN
    BY DEF TypeOK
  <2>2. node_collector' = node_collector /\ build_extensions' = FALSE
    BY <1>2
  <2>3. is_in_db_trie_' \in BOOLEAN
    <3>1. CASE c.op = "add_branch_node"
      <4>1. is_in_db_trie_' = c.in_db /\ c.in_db \in BOOLEAN
        BY <1>2, <3>1, CallTypes
      <4> QED
        BY <4>1
    <3>2. CASE c.op # "add_branch_node"
      BY <1>2, <2>1, <3>2
    <3> QED
      BY <3>1, <3>2
  <2> QED
    BY <2>1, <2>2, <2>3
<1>6. /\ stack_' \in Seq(Range(stack_')) /\ call' \in Calling
      /\ pc' \in {"idle", "gen_struct_step", "aborted"}
  BY <1>2 DEF Calling
<1>7. failed' = "none" /\ failed' \in Assertions /\ (failed' # "none" <=> pc' = "aborted")
  BY <1>2 DEF TypeOK, Assertions
<1>8. CASE c.op = "root_hash"
  <2>1. entries' = entries /\ c.key = <<>> /\ sealed' = Len(entries)
    BY <1>2, <1>8, CallTypes DEF Return
  <2>2. RestTypeOK'
    <3>1. /\ entries' \in Seq([key : Keys, value : Value, in_db : BOOLEAN])
          /\ sealed' \in 0..Len(entries')
      BY <1>1, <2>1
    <3> QED
      BY <1>3, <1>4, <1>5, <1>6, <1>7, <3>1 DEF RestTypeOK
  <2>3. LastEntryPending'
    BY <1>2, <2>1 DEF LastEntryPending
  <2>4. ContractEnforced'
    BY <1>1, <2>1 DEF ContractEnforced
  <2> QED
    BY <1>2, <1>7, <2>2, <2>3, <2>4
<1>9. CASE c.op # "root_hash"
  <2>1. entry \in Entry /\ c.key \in Seq(Nat)
    BY <1>9, CallTypes
  <2>2. entries' = Append(entries, entry)
    BY <1>9 DEF Return
  <2>3. /\ entries' \in Seq(Entry) /\ Len(entries') = Len(entries) + 1
        /\ \A i \in 1..Len(entries) : entries'[i] = entries[i]
        /\ entries'[Len(entries) + 1] = entry
    BY <1>1, <2>1, <2>2, AppendProperties
  <2>4. sealed' \in 0..Len(entries') /\ (c.key # <<>> => sealed' = sealed /\ sealed' < Len(entries'))
        /\ (c.key = <<>> => sealed' = Len(entries'))
    BY <1>1, <1>2, <2>3
  <2>5. RestTypeOK'
    <3>1. /\ entries' \in Seq([key : Keys, value : Value, in_db : BOOLEAN])
          /\ sealed' \in 0..Len(entries')
      BY <2>3, <2>4
    <3> QED
      BY <1>3, <1>4, <1>5, <1>6, <1>7, <3>1 DEF RestTypeOK
  <2>6. LastEntryPending'
    BY <1>2, <2>3, <2>4 DEF LastEntryPending
  <2>7. ContractEnforced'
    <3>1. SUFFICES ASSUME NEW j \in (sealed' + 1)..Len(entries'),
                          NEW i \in (sealed' + 1)..(j - 1)
                   PROVE  /\ greater(entries'[j].key, entries'[i].key)
                          /\ ~starts_with(entries'[j].key, entries'[i].key)
      BY DEF ContractEnforced
    <3>2. c.key # <<>> /\ sealed' = sealed /\ i \in (sealed + 1)..Len(entries)
          /\ i \in 1..Len(entries) /\ j \in 1..(Len(entries) + 1)
      BY <1>1, <2>3, <2>4
    <3>3. CASE j <= Len(entries)
      <4>1. j \in (sealed + 1)..Len(entries) /\ i \in (sealed + 1)..(j - 1)
            /\ j \in 1..Len(entries)
        BY <1>1, <3>2, <3>3
      <4> QED
        BY <2>3, <3>2, <4>1 DEF ContractEnforced
    <3>4. CASE j = Len(entries) + 1
      <4> DEFINE last == Len(entries)
      <4>1. key_ # <<>> /\ entries[last].key = key_
        BY <1>1, <3>2 DEF LastEntryPending
      <4>2. greater(c.key, key_) /\ ~starts_with(c.key, key_)
        BY <3>2, <4>1
      <4>3. entries'[j].key = c.key /\ entries'[i] = entries[i]
        BY <2>3, <3>2, <3>4
      <4>4. CASE i = last
        BY <4>1, <4>2, <4>3, <4>4
      <4>5. CASE i < last
        <5>1. last \in (sealed + 1)..Len(entries) /\ i \in (sealed + 1)..(last - 1)
          BY <1>1, <3>2, <4>5
        <5>2. greater(key_, entries[i].key) /\ ~starts_with(key_, entries[i].key)
          BY <4>1, <5>1 DEF ContractEnforced
        <5>3. key_ \in Seq(Nat) /\ entries[i].key \in Seq(Nat)
          <6>1. entries[i] \in Entry
            BY <1>1, <3>2, ElementOfSeq
          <6> QED
            BY <6>1, KeysAreSequences
        <5>4. greater(c.key, entries[i].key)
          BY <2>1, <4>2, <5>2, <5>3, GreaterTransitive
        <5>5. ~starts_with(c.key, entries[i].key)
          BY <2>1, <4>2, <5>2, <5>3, BetweenExtension
        <5> QED
          BY <4>3, <5>4, <5>5
      <4> QED
        BY <1>1, <3>2, <4>4, <4>5
    <3> QED
      BY <1>1, <3>2, <3>3, <3>4
  <2> QED
    BY <1>2, <1>7, <2>5, <2>6, <2>7
<1> QED
  BY <1>8, <1>9

\* Past its first assertion an iteration finds the succeeding key apart from the pending
\* one: the only way for it not to be is caught there.
LEMMA IterationStarts ==
  ASSUME IInv, pc = "gen_struct_step", failing # "length"
  PROVE  /\ Iterating
         /\ call \in Calls \cup {root_hash_call}
         /\ succeeding # <<>> => call.op # "root_hash"
         /\ key_ # <<>> /\ succeeding # <<>> =>
              greater(succeeding, key_) /\ ~starts_with(succeeding, key_)
<1>1. TypeOK /\ CallInProgress /\ MasksWithinGroups /\ StackCoversGroups
  BY DEF IInv
<1>2. len < Len(current)
  <2>1. ~(len >= Len(current))
    BY DEF failing
  <2>2. len \in Nat /\ Len(current) \in Nat
    BY <1>1, IterationLengths, KeysAreSequences, LenProperties
  <2> QED
    BY <2>1, <2>2
<1>3. call \in Calls \cup {root_hash_call}
  BY <1>1 DEF CallInProgress
<1>4. succeeding # <<>> => call.op # "root_hash"
  BY <1>3, CallTypes DEF succeeding
<1>5. ~starts_with(succeeding, key_)
  <2>1. CASE build_extensions
    BY <1>1, <2>1 DEF CallInProgress
  <2>2. CASE ~build_extensions
    <3>1. current = key_ /\ common_prefix_len <= len
      BY <1>1, <2>2, IterationLengths DEF CallInProgress
    <3>2. common_prefix_len \in Nat /\ len \in Nat /\ Len(key_) \in Nat
      BY <1>1, IterationLengths, KeysAreSequences, LenProperties
    <3>3. prefix_length(succeeding, key_) < Len(key_)
      BY <1>2, <3>1, <3>2 DEF common_prefix_len
    <3> QED
      BY <1>1, <3>3, KeysAreSequences, PartedNotPrefix
  <2> QED
    BY <2>1, <2>2
<1> QED
  BY <1>1, <1>2, <1>3, <1>4, <1>5 DEF Iterating, CallInProgress

\* The iteration that leaves the group open: the entry is in the trie, the next one pending.
LEMMA KeepGroupKeeps ==
  ASSUME IInv, KeepGroup
  PROVE  IInv'
<1>1. /\ pc = "gen_struct_step" /\ failing = "none" /\ keeps_group
      /\ groups_' = groups_grown
      /\ tree_masks_' = tree_masks_built /\ hash_masks_' = hash_masks_built
      /\ Return(call, stack_built)
      /\ collected' = collected
  BY DEF KeepGroup
<1>2. /\ TypeOK /\ CallInProgress /\ LastEntryPending /\ ContractEnforced /\ pc # "aborted"
  BY <1>1 DEF IInv
<1>3. /\ Iterating
      /\ call \in Calls \cup {root_hash_call}
      /\ succeeding # <<>> => call.op # "root_hash"
      /\ key_ # <<>> /\ succeeding # <<>> =>
           greater(succeeding, key_) /\ ~starts_with(succeeding, key_)
  BY <1>1, IterationStarts
<1>4. /\ succeeding # <<>> /\ len = common_prefix_len /\ len \in Nat
      /\ Len(succeeding) \in Nat /\ len < Len(succeeding) /\ has_parent
  <2>1. succeeding # <<>> /\ preceding_len <= common_prefix_len
    BY <1>1 DEF keeps_group
  <2>2. /\ preceding_len \in Nat /\ common_prefix_len \in Nat /\ len \in Nat
        /\ len >= common_prefix_len /\ (len = preceding_len \/ len = common_prefix_len)
    BY <1>1, <1>2, IterationLengths
  <2>3. Len(succeeding) \in Nat
    BY <1>2, KeysAreSequences, LenProperties
  <2>4. common_prefix_len < Len(succeeding)
    BY <1>1, <1>2, <2>1 DEF CallInProgress
  <2> QED
    BY <2>1, <2>2, <2>3, <2>4 DEF has_parent
<1>5. stack_built \in Seq(Range(stack_built))
  BY <1>3, IterationPush
<1>6. /\ RestTypeOK' /\ LastEntryPending' /\ ContractEnforced'
      /\ failed' = "none" /\ pc' = "idle"
  BY <1>1, <1>2, <1>3, <1>5, ReturnKeeps DEF succeeding
<1>7. key_' = succeeding /\ stack_' = stack_built /\ build_extensions' = FALSE
  BY <1>1 DEF Return, succeeding
<1>8. groups_grown \in Seq(Mask) /\ Len(groups_grown) = len + 1
  BY <1>1, <1>3, IterationGroups DEF Iterating
<1>9. /\ Within(tree_masks_built, GrownDigits) /\ Within(hash_masks_built, GrownDigits)
      /\ Len(tree_masks_built) = Len(hash_masks_built)
      /\ Len(tree_masks_built) \in Nat
  BY <1>3, IterationMasks, LenProperties DEF Within
<1>10. TypeOK'
  <2>1. collected' \in Seq(Range(collected'))
    BY <1>1, <1>2 DEF TypeOK
  <2> QED
    BY <1>1, <1>6, <1>8, <1>9, <2>1, TypeOKParts DEF MasksTypeOK, Within
<1>11. GroupsAlongKey' /\ CallInProgress' /\ OnlyClientErrorsAbort'
  BY <1>1, <1>4, <1>6, <1>7, <1>8 DEF GroupsAlongKey, CallInProgress, OnlyClientErrorsAbort
<1>12. MasksWithinGroups'
  <2>1. SUFFICES ASSUME NEW i \in 1..Len(tree_masks_built)
                 PROVE  tree_masks_built[i] \cup hash_masks_built[i] \subseteq
                          (IF i <= len + 1 THEN groups_grown[i] ELSE {})
    <3>1. DOMAIN tree_masks_' = 1..Len(tree_masks_built)
      BY <1>1, <1>9, LenProperties DEF Within
    <3> QED
      BY <1>1, <1>7, <1>8, <3>1 DEF MasksWithinGroups
  <2>2. GrownDigits[i] = IF i <= len + 1 THEN groups_grown[i] ELSE {}
    BY <1>9 DEF GrownDigits
  <2>3. tree_masks_built[i] \subseteq GrownDigits[i] /\ hash_masks_built[i] \subseteq GrownDigits[i]
    BY <1>9 DEF Within
  <2> QED
    BY <2>2, <2>3
<1>13. StackCoversGroups'
  <2>1. PICK segment \in [0..(len + 1) -> 0..Len(stack_built)] :
          \A i \in 1..(len + 1) : segment[i] = segment[i - 1] + Cardinality(groups_grown[i])
    BY <1>3, IterationSegments
  <2>2. /\ segment \in [0..Len(groups_') -> 0..Len(stack_')]
        /\ \A i \in 1..Len(groups_') : segment[i] = segment[i - 1] + Cardinality(groups_'[i])
    BY <1>1, <1>7, <1>8, <2>1
  <2> QED
    BY <1>7, <2>2 DEF StackCoversGroups
<1> QED
  BY <1>6, <1>10, <1>11, <1>12, <1>13 DEF IInv

\* A group that is closed is the innermost open one, and lies beyond the common prefix.
LEMMA ClosingLengths ==
  ASSUME Iterating, ~keeps_group
  PROVE  /\ len = preceding_len /\ len \in Nat /\ len < Len(current) /\ Len(current) \in Nat
         /\ preceding_len # 0 => common_prefix_len < len /\ has_parent
         /\ preceding_len = 0 => succeeding = <<>>
<1>1. /\ preceding_len \in Nat /\ common_prefix_len \in Nat /\ len \in Nat
      /\ Len(current) \in Nat /\ len < Len(current)
      /\ len >= preceding_len /\ len >= common_prefix_len
      /\ len = preceding_len \/ len = common_prefix_len
      /\ succeeding = <<>> => common_prefix_len = 0
      /\ ~preceding_exists => preceding_len = 0
  BY IterationLengths, KeysAreSequences, LenProperties DEF Iterating
<1>2. preceding_len > common_prefix_len \/ succeeding = <<>>
  BY <1>1 DEF keeps_group
<1> QED
  BY <1>1, <1>2 DEF has_parent

\* The digits left when the group is closed: its own digit is flagged to its parent.
ClosedDigits ==
  [i \in Nat |-> GrownDigits[i] \cup (IF i = len THEN {current[i]} ELSE {})]

\* Closing a group leaves the masks of the enclosing groups, flagged with its digit.
LEMMA ClosingMasks ==
  ASSUME Iterating
  PROVE  /\ Within(tree_masks_closed, ClosedDigits) /\ Len(tree_masks_closed) = len
         /\ Within(hash_masks_closed, ClosedDigits) /\ Len(hash_masks_closed) = len
<1> DEFINE tree == IF store_in_db_trie /\ len > 0
                   THEN set_digit(tree_masks_built, len, current[len]) ELSE tree_masks_built
           hash == IF collects /\ len > 0
                   THEN set_digit(hash_masks_built, len, current[len]) ELSE hash_masks_built
<1>1. len \in Nat /\ Len(current) \in Nat /\ len < Len(current)
  BY IterationLengths, KeysAreSequences, LenProperties DEF Iterating
<1>2. /\ Len(tree_masks_built) \in Nat /\ Len(hash_masks_built) = Len(tree_masks_built)
      /\ has_parent => Len(tree_masks_built) >= len + 1
  BY IterationMasks, LenProperties DEF Within
<1>3. Within(tree_masks_built, ClosedDigits) /\ Within(hash_masks_built, ClosedDigits)
  <2>1. \A i \in 1..Len(tree_masks_built) : GrownDigits[i] \subseteq ClosedDigits[i]
    BY <1>2 DEF ClosedDigits
  <2> QED
    BY <1>2, <2>1, IterationMasks, WithinMonotone
<1>4. has_parent /\ len > 0 =>
        /\ len \in 1..Len(tree_masks_built) /\ len \in 1..Len(hash_masks_built)
        /\ current[len] \in Digit /\ current[len] \in ClosedDigits[len]
  <2>1. len > 0 => current[len] \in Digit
    <3>1. len > 0 => len \in 1..Len(current)
      BY <1>1
    <3> QED
      BY <3>1, KeysAreSequences, ElementOfSeq DEF Iterating
  <2>2. current[len] \in ClosedDigits[len]
    BY <1>1 DEF ClosedDigits
  <2> QED
    BY <1>1, <1>2, <2>1, <2>2
<1>5. Within(tree, ClosedDigits) /\ Within(hash, ClosedDigits)
  <2>1. (store_in_db_trie => has_parent) /\ (collects => has_parent)
    BY DEF store_in_db_trie, collects
  <2> QED
    BY <1>3, <1>4, <2>1, WithinSet
<1> HIDE DEF tree, hash
<1>6. /\ Within(resize(tree, len), ClosedDigits) /\ Len(resize(tree, len)) = len
      /\ Within(resize(hash, len), ClosedDigits) /\ Len(resize(hash, len)) = len
  BY <1>1, <1>5, WithinResized
<1> QED
  BY <1>6 DEF tree_masks_closed, hash_masks_closed, tree, hash

\* branch_ref leaves one reference in place of the children.
LEMMA ClosingStack ==
  ASSUME Iterating
  PROVE  /\ stack_branched \in Seq(Range(stack_branched))
         /\ has_parent => Len(stack_branched) = first_child_idx + 1
<1>1. CASE has_parent
  <2>1. /\ SubSeq(stack_built, 1, first_child_idx)
             \in Seq(Range(SubSeq(stack_built, 1, first_child_idx)))
        /\ Len(SubSeq(stack_built, 1, first_child_idx)) = first_child_idx
    BY IterationPush, IterationChildren, CutOfRange
  <2> QED
    BY <1>1, <2>1, AppendOfRange DEF stack_branched
<1>2. CASE ~has_parent
  BY <1>2, IterationPush DEF stack_branched
<1> QED
  BY <1>1, <1>2

\* What every closing step does to the types of the masks and of the collected nodes.
LEMMA ClosingTypes ==
  ASSUME IInv, ClosesGroup
  PROVE  /\ Iterating /\ ~keeps_group
         /\ tree_masks_' = tree_masks_closed /\ hash_masks_' = hash_masks_closed
         /\ tree_masks_' \in Seq(Mask) /\ hash_masks_' \in Seq(Mask)
         /\ Len(tree_masks_') = len /\ Len(hash_masks_') = len
         /\ collected' \in Seq(Range(collected'))
         /\ groups_grown \in Seq(Mask) /\ Len(groups_grown) = len + 1
<1>1. /\ pc = "gen_struct_step" /\ failing = "none" /\ ~keeps_group
      /\ tree_masks_' = tree_masks_closed /\ hash_masks_' = hash_masks_closed
      /\ collected' = IF store_in_db_trie THEN Append(collected, node) ELSE collected
  BY DEF ClosesGroup
<1>2. Iterating
  BY <1>1, IterationStarts
<1>3. collected' \in Seq(Range(collected'))
  <2>1. collected \in Seq(Range(collected))
    BY <1>2 DEF Iterating, TypeOK
  <2>2. CASE store_in_db_trie
    BY <1>1, <2>1, <2>2, AppendOfRange
  <2>3. CASE ~store_in_db_trie
    BY <1>1, <2>1, <2>3
  <2> QED
    BY <2>2, <2>3
<1>4. /\ tree_masks_' \in Seq(Mask) /\ hash_masks_' \in Seq(Mask)
      /\ Len(tree_masks_') = len /\ Len(hash_masks_') = len
  BY <1>1, <1>2, ClosingMasks DEF Within
<1> QED
  BY <1>1, <1>2, <1>3, <1>4, IterationGroups DEF Iterating

\* The iteration that closes the outermost group ends a root_hash: no group, no mask is left.
LEMMA CloseLastGroupKeeps ==
  ASSUME IInv, CloseLastGroup
  PROVE  IInv'
<1>1. /\ ClosesGroup /\ preceding_len = 0 /\ pc = "gen_struct_step"
      /\ groups_' = resize(groups_grown, len)
      /\ Return(call, stack_branched)
  BY DEF CloseLastGroup, ClosesGroup
<1>2. /\ Iterating /\ ~keeps_group
      /\ tree_masks_' \in Seq(Mask) /\ hash_masks_' \in Seq(Mask)
      /\ Len(tree_masks_') = len /\ Len(hash_masks_') = len
      /\ collected' \in Seq(Range(collected'))
      /\ groups_grown \in Seq(Mask)
  BY <1>1, ClosingTypes
<1>3. len = 0 /\ succeeding = <<>>
  BY <1>1, <1>2, ClosingLengths
<1>4. /\ TypeOK /\ LastEntryPending /\ ContractEnforced /\ pc # "aborted"
      /\ call \in Calls \cup {root_hash_call}
  BY <1>1 DEF IInv, CallInProgress
<1>5. /\ RestTypeOK' /\ LastEntryPending' /\ ContractEnforced'
      /\ failed' = "none" /\ pc' = "idle"
  BY <1>1, <1>2, <1>3, <1>4, ClosingStack, ReturnKeeps DEF succeeding
<1>6. key_' = <<>> /\ stack_' = stack_branched /\ build_extensions' = FALSE
  BY <1>1, <1>3 DEF Return, succeeding
<1>7. groups_' \in Seq(Mask) /\ Len(groups_') = 0
  BY <1>1, <1>2, <1>3, ResizeProperties
<1>8. TypeOK'
  BY <1>2, <1>5, <1>7, TypeOKParts DEF MasksTypeOK
<1>9. GroupsAlongKey' /\ CallInProgress' /\ OnlyClientErrorsAbort'
  BY <1>5, <1>6, <1>7 DEF GroupsAlongKey, CallInProgress, OnlyClientErrorsAbort
<1>10. MasksWithinGroups'
  <2>1. DOMAIN tree_masks_' = {}
    BY <1>2, <1>3, LenProperties
  <2> QED
    BY <2>1 DEF MasksWithinGroups
<1>11. StackCoversGroups'
  <2> DEFINE base == [i \in 0..0 |-> 0]
  <2>1. Len(stack_') \in Nat
    BY <1>2, <1>6, ClosingStack, LenProperties
  <2>2. base \in [0..Len(groups_') -> 0..Len(stack_')]
    BY <1>7, <2>1
  <2>3. \A i \in 1..Len(groups_') : base[i] = base[i - 1] + Cardinality(groups_'[i])
    BY <1>7
  <2> QED
    BY <1>6, <2>2, <2>3 DEF StackCoversGroups
<1> QED
  BY <1>5, <1>8, <1>9, <1>10, <1>11 DEF IInv

\* The iteration that closes a group and goes on: the current key gets shorter, what is left
\* of the groups is along it, and the branch is on top of the stack.
LEMMA CloseGroupKeeps ==
  ASSUME IInv, CloseGroup
  PROVE  IInv' /\ Len(current') < Len(current)
<1>1. /\ ClosesGroup /\ preceding_len # 0 /\ pc = "gen_struct_step"
      /\ groups_' = drop_empty_groups(resize(groups_grown, len))
      /\ stack_' = stack_branched
      /\ current' = SubSeq(current, 1, preceding_len)
      /\ build_extensions' = TRUE
      /\ UNCHANGED <<key_, value_, is_in_db_trie_, node_collector, pc, call, root, entries,
                     sealed, failed>>
  BY DEF CloseGroup, ClosesGroup
<1>2. /\ Iterating /\ ~keeps_group
      /\ tree_masks_' = tree_masks_closed /\ hash_masks_' = hash_masks_closed
      /\ tree_masks_' \in Seq(Mask) /\ hash_masks_' \in Seq(Mask)
      /\ Len(tree_masks_') = len /\ Len(hash_masks_') = len
      /\ collected' \in Seq(Range(collected'))
      /\ groups_grown \in Seq(Mask) /\ Len(groups_grown) = len + 1
  BY <1>1, ClosingTypes
<1>3. /\ len = preceding_len /\ len \in Nat /\ len > 0 /\ len < Len(current)
      /\ Len(current) \in Nat /\ common_prefix_len < len /\ has_parent
  BY <1>1, <1>2, ClosingLengths
<1>4. /\ TypeOK /\ CallInProgress /\ LastEntryPending /\ ContractEnforced
      /\ OnlyClientErrorsAbort
  BY DEF IInv
<1>5. /\ current' \in Seq(Digit) /\ Len(current') = len /\ \A i \in 1..len : current'[i] = current[i]
  <2>1. current \in Seq(Digit) /\ len \in 0..Len(current)
    BY <1>3, <1>4, KeysAreSequences
  <2> QED
    BY <1>1, <1>3, <2>1
<1> DEFINE kept == resize(groups_grown, len)
<1>6. /\ kept \in Seq(Mask) /\ Len(kept) = len /\ \A i \in 1..len : kept[i] = groups_grown[i]
  <2>1. /\ kept \in Seq(Mask) /\ Len(kept) = len
        /\ \A i \in 1..len : kept[i] = IF i <= Len(groups_grown) THEN groups_grown[i] ELSE {}
    BY <1>2, <1>3, ResizeProperties
  <2> QED
    BY <1>2, <1>3, <2>1
<1> HIDE DEF kept
<1>7. /\ groups_' \in Seq(Mask) /\ Len(groups_') \in Nat /\ Len(groups_') <= len
      /\ \A i \in 1..Len(groups_') : groups_'[i] = groups_grown[i]
      /\ \A i \in 1..len : i > Len(groups_') => groups_grown[i] = {}
  <2>1. groups_' = drop_empty_groups(kept)
    BY <1>1 DEF kept
  <2>2. /\ drop_empty_groups(kept) \in Seq(Mask)
        /\ Len(drop_empty_groups(kept)) <= Len(kept)
        /\ \A i \in 1..Len(drop_empty_groups(kept)) : drop_empty_groups(kept)[i] = kept[i]
        /\ \A i \in 1..Len(kept) : i > Len(drop_empty_groups(kept)) => kept[i] = {}
    BY <1>6, DropEmptyGroupsProperties
  <2>3. Len(drop_empty_groups(kept)) \in Nat
    BY <2>2, LenProperties
  <2>4. \A i \in 1..Len(drop_empty_groups(kept)) : i \in 1..len
    BY <1>3, <1>6, <2>2, <2>3
  <2>5. /\ \A i \in 1..Len(drop_empty_groups(kept)) :
             drop_empty_groups(kept)[i] = groups_grown[i]
        /\ \A i \in 1..len : i > Len(drop_empty_groups(kept)) => groups_grown[i] = {}
    BY <1>6, <2>2, <2>4
  <2> QED
    BY <1>6, <2>1, <2>2, <2>3, <2>5
<1>8. stack_' \in Seq(Range(stack_')) /\ Len(stack_') = first_child_idx + 1
  BY <1>1, <1>2, <1>3, ClosingStack
<1>9. TypeOK'
  <2>1. MasksTypeOK'
    BY <1>2, <1>7 DEF MasksTypeOK
  <2>2. build_extensions' \in BOOLEAN
    BY <1>1
  <2>3. RestTypeOK'
    BY <1>1, <1>4, <1>5, <1>8, <2>2 DEF RestTypeOK, TypeOK
  <2> QED
    BY <2>1, <2>3, TypeOKParts
<1>10. LastEntryPending' /\ ContractEnforced' /\ OnlyClientErrorsAbort' /\ GroupsAlongKey'
  BY <1>1, <1>4 DEF LastEntryPending, ContractEnforced, OnlyClientErrorsAbort, GroupsAlongKey
<1>11. CallInProgress'
  <2>1. succeeding' = succeeding
    BY <1>1 DEF succeeding
  <2>2. common_prefix_len' = common_prefix_len
    <3>1. prefix_length(succeeding, SubSeq(current, 1, preceding_len))
            = prefix_length(succeeding, current)
      <4>1. preceding_len \in 0..Len(current) /\ prefix_length(succeeding, current) < preceding_len
        BY <1>3 DEF common_prefix_len
      <4> QED
        BY <1>4, <4>1, KeysAreSequences, PrefixLengthOfCut
    <3> QED
      BY <1>1, <2>1, <3>1 DEF common_prefix_len
  <2>3. ~starts_with(succeeding, key_)
    <3>1. failing # "length"
      BY <1>1 DEF ClosesGroup
    <3>2. key_ # <<>> /\ (key_ # <<>> /\ succeeding # <<>> => ~starts_with(succeeding, key_))
      BY <1>1, <1>4, <3>1, IterationStarts DEF CallInProgress
    <3>3. CASE succeeding = <<>>
      BY <1>4, <3>2, <3>3, KeysAreSequences DEF starts_with
    <3> QED
      BY <3>2, <3>3
  <2>4. current' # <<>>
    BY <1>3, <1>5
  <2>5. /\ call \in Calls \cup {root_hash_call} /\ key_ # <<>>
        /\ call.op # "root_hash" => greater(succeeding, key_) /\ succeeding # <<>>
        /\ succeeding # <<>> => common_prefix_len < Len(succeeding)
    BY <1>1, <1>4 DEF CallInProgress
  <2> QED
    BY <1>1, <1>3, <1>5, <1>7, <2>1, <2>2, <2>3, <2>4, <2>5 DEF CallInProgress
<1>12. MasksWithinGroups'
  <2>1. SUFFICES ASSUME NEW i \in 1..len
                 PROVE  tree_masks_closed[i] \cup hash_masks_closed[i] \subseteq
                          (IF i <= Len(groups_') THEN groups_'[i] ELSE {})
                          \cup (IF i = len THEN {current[i]} ELSE {})
    <3>1. DOMAIN tree_masks_' = 1..len
      BY <1>2, LenProperties
    <3>2. \A i \in 1..len : current'[i] = current[i]
      BY <1>5
    <3> QED
      BY <1>1, <1>2, <1>5, <3>1, <3>2 DEF MasksWithinGroups
  <2>2. tree_masks_closed[i] \subseteq ClosedDigits[i] /\ hash_masks_closed[i] \subseteq ClosedDigits[i]
    BY <1>2, ClosingMasks DEF Within
  <2>3. ClosedDigits[i] = groups_grown[i] \cup (IF i = len THEN {current[i]} ELSE {})
    BY <1>3 DEF ClosedDigits, GrownDigits
  <2>4. groups_grown[i] = IF i <= Len(groups_') THEN groups_'[i] ELSE {}
    <3>1. CASE i <= Len(groups_')
      <4>1. i \in 1..Len(groups_')
        BY <1>3, <1>7, <3>1
      <4> QED
        BY <1>7, <3>1, <4>1
    <3>2. CASE ~(i <= Len(groups_'))
      BY <1>3, <1>7, <3>2
    <3> QED
      BY <3>1, <3>2
  <2> QED
    BY <2>2, <2>3, <2>4
<1>13. StackCoversGroups'
  <2>1. PICK segment \in [0..len -> 0..first_child_idx] :
          \A i \in 1..len : segment[i] = segment[i - 1] + Cardinality(groups_grown[i])
    BY <1>2, IterationChildren
  <2>2. first_child_idx \in Nat
    BY <1>2, IterationChildren, IterationPush, LenProperties
  <2> DEFINE base == [i \in 0..Len(groups_') |-> segment[i]]
  <2>3. \A i \in 0..Len(groups_') : i \in 0..len /\ segment[i] \in 0..first_child_idx
    BY <1>3, <1>7, <2>1
  <2>4. base \in [0..Len(groups_') -> 0..Len(stack_')]
    BY <1>8, <2>2, <2>3
  <2>5. \A i \in 1..Len(groups_') : base[i] = base[i - 1] + Cardinality(groups_'[i])
    <3> TAKE i \in 1..Len(groups_')
    <3>1. i \in 1..len /\ i \in 0..Len(groups_') /\ i - 1 \in 0..Len(groups_')
      BY <1>3, <1>7
    <3>2. base[i] = segment[i] /\ base[i - 1] = segment[i - 1]
      BY <3>1
    <3>3. groups_'[i] = groups_grown[i]
      BY <1>7
    <3> QED
      BY <2>1, <3>1, <3>2, <3>3
  <2>6. base[Len(groups_')] < Len(stack_')
    <3>1. Len(groups_') \in 0..Len(groups_') /\ base[Len(groups_')] = segment[Len(groups_')]
      BY <1>7
    <3> QED
      BY <1>8, <2>2, <2>3, <3>1
  <2> QED
    BY <2>4, <2>5, <2>6 DEF StackCoversGroups
<1> QED
  BY <1>3, <1>5, <1>9, <1>10, <1>11, <1>12, <1>13 DEF IInv

\* An abort leaves the builder as it was.
LEMMA AbortKeeps ==
  ASSUME IInv, pc # "aborted", NEW assertion \in {"order", "length", "hash_size"},
         Abort(assertion)
  PROVE  IInv' /\ pc' = "aborted" /\ failed' = assertion
<1>1. /\ pc' = "aborted" /\ failed' = assertion
      /\ UNCHANGED <<key_, value_, is_in_db_trie_, groups_, tree_masks_, hash_masks_, stack_,
                     node_collector, call, current, build_extensions,
                     collected, root, entries, sealed>>
  BY DEF Abort, builder, observed
<1>2. TypeOK'
  BY <1>1 DEF IInv, TypeOK, Assertions
<1>3. LastEntryPending' /\ GroupsAlongKey' /\ CallInProgress' /\ OnlyClientErrorsAbort'
  BY <1>1 DEF IInv, LastEntryPending, GroupsAlongKey, CallInProgress, OnlyClientErrorsAbort
<1>4. ContractEnforced' /\ MasksWithinGroups' /\ StackCoversGroups'
  BY <1>1 DEF IInv, ContractEnforced, MasksWithinGroups, StackCoversGroups
<1> QED
  BY <1>1, <1>2, <1>3, <1>4 DEF IInv

\* An iteration that fails an assertion fails one of two.
LEMMA FailAssertionKeeps ==
  ASSUME IInv, FailAssertion
  PROVE  IInv' /\ pc' = "aborted" /\ failed' = failing
<1>1. pc = "gen_struct_step" /\ failing # "none" /\ Abort(failing)
  BY DEF FailAssertion
<1>2. failing \in {"length", "hash_size"}
  <2>1. CASE failing = "length"
    BY <2>1
  <2>2. CASE failing # "length"
    BY <1>1, <2>2, IterationStarts, IterationAborts
  <2> QED
    BY <2>1, <2>2
<1> QED
  BY <1>1, <1>2, AbortKeeps

\* A call that starts gen_struct_step.
LEMMA EnterKeeps ==
  ASSUME IInv, pc = "idle", key_ # <<>>, NEW c \in Calls \cup {root_hash_call},
         c.op # "root_hash" => greater(c.key, key_), Enter(c)
  PROVE  IInv'
<1>1. /\ pc' = "gen_struct_step" /\ call' = c /\ current' = key_ /\ build_extensions' = FALSE
      /\ UNCHANGED <<key_, value_, is_in_db_trie_, groups_, tree_masks_, hash_masks_, stack_,
                     node_collector, collected, root, entries, sealed, failed>>
  BY DEF Enter, builder, observed
<1>2. TypeOK /\ GroupsAlongKey /\ ~build_extensions /\ Len(groups_) <= Len(key_)
  BY DEF IInv, GroupsAlongKey
<1>3. TypeOK'
  <2>1. c \in Calling
    BY CallTypes
  <2>2. build_extensions' \in BOOLEAN
    BY <1>1
  <2> QED
    BY <1>1, <1>2, <2>1, <2>2 DEF TypeOK
<1>4. LastEntryPending' /\ GroupsAlongKey' /\ OnlyClientErrorsAbort' /\ ContractEnforced'
  BY <1>1 DEF IInv, LastEntryPending, GroupsAlongKey, OnlyClientErrorsAbort, ContractEnforced
<1>5. CallInProgress'
  <2>1. c.key \in Seq(Nat) /\ key_ \in Seq(Nat) /\ (c.op = "root_hash" => c.key = <<>>)
    BY <1>2, CallTypes, KeysAreSequences
  <2>2. c.op # "root_hash" => c.key # <<>>
    BY <2>1, GreaterNotPrefix
  <2>3. c.key # <<>> => prefix_length(c.key, key_) < Len(c.key)
    BY <2>1, GreaterLeavesPrefix
  <2> QED
    BY <1>1, <1>2, <2>2, <2>3 DEF CallInProgress, succeeding, common_prefix_len
<1>6. MasksWithinGroups' /\ StackCoversGroups'
  BY <1>1, <1>2 DEF IInv, MasksWithinGroups, StackCoversGroups
<1> QED
  BY <1>3, <1>4, <1>5, <1>6 DEF IInv

\* A call on an empty builder.
LEMMA FinishKeeps ==
  ASSUME IInv, pc = "idle", key_ = <<>>, NEW c \in Calls \cup {root_hash_call},
         NEW stack, stack \in Seq(Range(stack)), Finish(c, stack)
  PROVE  IInv'
<1>1. Return(c, stack) /\ UNCHANGED <<groups_, tree_masks_, hash_masks_, collected>>
  BY DEF Finish
<1>2. /\ TypeOK /\ LastEntryPending /\ ContractEnforced
      /\ ~build_extensions /\ Len(groups_) <= Len(key_)
  BY DEF IInv, GroupsAlongKey
<1>3. /\ RestTypeOK' /\ LastEntryPending' /\ ContractEnforced'
      /\ failed' = "none" /\ pc' = "idle"
  BY <1>1, <1>2, ReturnKeeps
<1>4. key_' = c.key /\ stack_' = stack /\ build_extensions' = FALSE
  BY <1>1 DEF Return
<1>5. TypeOK'
  <2>1. MasksTypeOK'
    BY <1>1, <1>2 DEF TypeOK, MasksTypeOK
  <2> QED
    BY <1>3, <2>1, TypeOKParts
<1>6. Len(groups_') = 0
  <2>1. Len(groups_) \in Nat /\ Len(<<>>) = 0
    BY <1>2, LenProperties DEF TypeOK
  <2> QED
    BY <1>1, <1>2, <2>1
<1>7. GroupsAlongKey' /\ CallInProgress' /\ OnlyClientErrorsAbort'
  <2>1. Len(key_') \in Nat
    BY <1>4, CallTypes, LenProperties
  <2> QED
    BY <1>3, <1>4, <1>6, <2>1 DEF GroupsAlongKey, CallInProgress, OnlyClientErrorsAbort
<1>8. MasksWithinGroups'
  BY <1>1, <1>2, <1>4 DEF IInv, MasksWithinGroups
<1>9. StackCoversGroups'
  <2> DEFINE base == [i \in 0..0 |-> 0]
  <2>1. Len(stack_') \in Nat
    BY <1>4, LenProperties
  <2>2. base \in [0..Len(groups_') -> 0..Len(stack_')]
    BY <1>6, <2>1
  <2>3. \A i \in 1..Len(groups_') : base[i] = base[i - 1] + Cardinality(groups_'[i])
    BY <1>6
  <2> QED
    BY <1>4, <2>2, <2>3 DEF StackCoversGroups
<1> QED
  BY <1>3, <1>5, <1>7, <1>8, <1>9 DEF IInv

\* A builder just made, or just reset.
Empty ==
  /\ key_ = <<>> /\ value_ = NoValue /\ is_in_db_trie_ = FALSE
  /\ groups_ = <<>> /\ tree_masks_ = <<>> /\ hash_masks_ = <<>> /\ stack_ = <<>>
  /\ node_collector \in BOOLEAN
  /\ pc = "idle" /\ call \in Calling /\ current \in Seq(Digit) /\ build_extensions = FALSE
  /\ collected = <<>> /\ root = <<>> /\ entries = <<>> /\ sealed = 0
  /\ failed = "none"

\* It satisfies the invariant.
LEMMA EmptyBuilder == Empty => IInv
<1> SUFFICES ASSUME Empty
             PROVE  IInv
  OBVIOUS
<1> USE DEF Empty
<1>1. TypeOK
  <2>1. NoValue \in Value /\ "none" \in Assertions
    BY EmptyBytesAssumption DEF NoValue, Value, Calling, Assertions
  <2>2. build_extensions \in BOOLEAN /\ is_in_db_trie_ \in BOOLEAN
    OBVIOUS
  <2>3. stack_ \in Seq(Range(stack_)) /\ collected \in Seq(Range(collected))
        /\ root \in Seq(Range(root))
    BY SingletonOfRange
  <2> QED
    BY <2>1, <2>2, <2>3 DEF TypeOK
<1>2. StackCoversGroups
  <2> DEFINE base == [i \in 0..0 |-> 0]
  <2>1. base \in [0..Len(groups_) -> 0..Len(stack_)]
    OBVIOUS
  <2>2. \A i \in 1..Len(groups_) : base[i] = base[i - 1] + Cardinality(groups_[i])
    OBVIOUS
  <2> QED
    BY <2>1, <2>2 DEF StackCoversGroups
<1>3. /\ LastEntryPending /\ GroupsAlongKey /\ CallInProgress
      /\ OnlyClientErrorsAbort /\ ContractEnforced /\ MasksWithinGroups
  BY DEF LastEntryPending, GroupsAlongKey, CallInProgress, OnlyClientErrorsAbort,
         ContractEnforced, MasksWithinGroups
<1> QED
  BY <1>1, <1>2, <1>3 DEF IInv

\* reset, between calls.
LEMMA ResetKeeps ==
  ASSUME IInv, reset
  PROVE  IInv'
<1>1. Empty'
  <2>1. /\ key_' = <<>> /\ value_' = NoValue /\ is_in_db_trie_' = FALSE
        /\ groups_' = <<>> /\ tree_masks_' = <<>> /\ hash_masks_' = <<>> /\ stack_' = <<>>
        /\ collected' = <<>> /\ root' = <<>> /\ entries' = <<>> /\ sealed' = 0
        /\ pc = "idle"
        /\ UNCHANGED <<node_collector, pc, call, current, build_extensions, failed>>
    BY DEF reset, frame
  <2>2. /\ node_collector \in BOOLEAN /\ failed = "none" /\ build_extensions = FALSE
        /\ call \in Calling /\ current \in Seq(Digit)
    BY <2>1 DEF IInv, TypeOK, GroupsAlongKey
  <2> QED
    BY <2>1, <2>2 DEF Empty
<1> QED
  BY <1>1, EmptyBuilder, PTL

\* Assigning node_collector, between calls: even in the middle of a trie.
LEMMA SetNodeCollectorKeeps ==
  ASSUME IInv, NEW installed \in BOOLEAN, set_node_collector(installed)
  PROVE  IInv'
<1>1. /\ node_collector' = installed
      /\ UNCHANGED <<key_, value_, is_in_db_trie_, groups_, tree_masks_, hash_masks_, stack_,
                     pc, call, current, build_extensions, collected, root, entries, sealed,
                     failed>>
  BY DEF set_node_collector, builder, frame, observed
<1>2. TypeOK'
  BY <1>1 DEF IInv, TypeOK
<1>3. LastEntryPending' /\ GroupsAlongKey' /\ CallInProgress' /\ OnlyClientErrorsAbort'
  BY <1>1 DEF IInv, LastEntryPending, GroupsAlongKey, CallInProgress, OnlyClientErrorsAbort,
              succeeding, common_prefix_len
<1>4. ContractEnforced' /\ MasksWithinGroups' /\ StackCoversGroups'
  BY <1>1 DEF IInv, ContractEnforced, MasksWithinGroups, StackCoversGroups
<1> QED
  BY <1>2, <1>3, <1>4 DEF IInv

\* add_leaf and add_branch_node.
LEMMA AddKeeps ==
  ASSUME IInv, NEW c \in Calls, add_leaf(c) \/ add_branch_node(c)
  PROVE  IInv'
<1>1. /\ pc = "idle" /\ c \in Calls \cup {root_hash_call}
      /\ stack_ \in Seq(Range(stack_))
      /\ Append(stack_, wrap_hash(c.value.data)) \in Seq(Range(Append(stack_, wrap_hash(c.value.data))))
      /\ key_ \in Seq(Nat) /\ c.key \in Seq(Nat) /\ c.op # "root_hash"
  <2>1. stack_ \in Seq(Range(stack_)) /\ TypeOK
    BY DEF IInv, TypeOK
  <2>2. c.op # "root_hash"
    BY DEF Calls
  <2> QED
    BY <2>1, <2>2, AppendOfRange, CallTypes, KeysAreSequences DEF add_leaf, add_branch_node
<1>2. CASE Abort("order")
  BY <1>1, <1>2, AbortKeeps
<1>3. CASE greater(c.key, key_) /\ key_ # <<>> /\ Enter(c)
  BY <1>1, <1>3, EnterKeeps
<1>4. CASE key_ = <<>> /\ Finish(c, stack_)
  BY <1>1, <1>4, FinishKeeps
<1>5. CASE key_ = <<>> /\ Finish(c, Append(stack_, wrap_hash(c.value.data)))
  BY <1>1, <1>5, FinishKeeps
<1>6. ~(greater(<<>>, key_))
  BY DEF greater
<1> QED
  BY <1>2, <1>3, <1>4, <1>5, <1>6 DEF add_leaf, add_branch_node

\* root_hash.
LEMMA RootHashKeeps ==
  ASSUME IInv, root_hash
  PROVE  IInv'
<1>1. root_hash_call \in Calls \cup {root_hash_call} /\ root_hash_call.op = "root_hash"
  BY DEF root_hash_call
<1>2. stack_ \in Seq(Range(stack_)) /\ pc = "idle"
  BY DEF IInv, TypeOK, root_hash
<1>3. CASE key_ # <<>> /\ Enter(root_hash_call)
  BY <1>1, <1>2, <1>3, EnterKeeps
<1>4. CASE key_ = <<>> /\ Finish(root_hash_call, stack_)
  BY <1>1, <1>2, <1>4, FinishKeeps
<1> QED
  BY <1>3, <1>4 DEF root_hash

\* gen_struct_step, which makes progress as well.
LEMMA GenStructStepKeeps ==
  ASSUME IInv, gen_struct_step
  PROVE  IInv' /\ (pc' = "gen_struct_step" => Len(current') < Len(current))
<1>1. CASE KeepGroup
  BY <1>1, KeepGroupKeeps DEF KeepGroup, Return
<1>2. CASE CloseGroup
  BY <1>2, CloseGroupKeeps
<1>3. CASE CloseLastGroup
  BY <1>3, CloseLastGroupKeeps DEF CloseLastGroup, Return
<1>4. CASE FailAssertion
  BY <1>4, FailAssertionKeeps
<1> QED
  BY <1>1, <1>2, <1>3, <1>4 DEF gen_struct_step

\* Nothing happens.
LEMMA StutterKeeps ==
  ASSUME IInv, UNCHANGED vars
  PROVE  IInv'
<1>1. UNCHANGED <<key_, value_, is_in_db_trie_, groups_, tree_masks_, hash_masks_, stack_,
                  node_collector, pc, call, current, build_extensions, collected, root,
                  entries, sealed, failed>>
  BY DEF vars, builder, frame, observed
<1>2. TypeOK'
  BY <1>1 DEF IInv, TypeOK
<1>3. LastEntryPending' /\ GroupsAlongKey' /\ CallInProgress' /\ OnlyClientErrorsAbort'
  BY <1>1 DEF IInv, LastEntryPending, GroupsAlongKey, CallInProgress, OnlyClientErrorsAbort,
              succeeding, common_prefix_len
<1>4. ContractEnforced' /\ MasksWithinGroups' /\ StackCoversGroups'
  BY <1>1 DEF IInv, ContractEnforced, MasksWithinGroups, StackCoversGroups
<1> QED
  BY <1>2, <1>3, <1>4 DEF IInv

-----------------------------------------------------------------------------
(* The theorems about any client.                                          *)

\* IInv holds initially and every step of the specification keeps it.
LEMMA InitEstablishes == Init => IInv
<1> SUFFICES ASSUME Init
             PROVE  IInv
  OBVIOUS
<1>1. no_call \in Calling /\ <<>> \in Seq(Digit)
  BY DEF Calling
<1>2. node_collector \in BOOLEAN
  BY DEF Init
<1>3. Empty
  BY <1>1, <1>2 DEF Init, Empty
<1> QED
  BY <1>3, EmptyBuilder

\* Every step keeps it.
LEMMA NextKeeps == IInv /\ [Next]_vars => IInv'
<1> SUFFICES ASSUME IInv, [Next]_vars
             PROVE  IInv'
  OBVIOUS
<1>1. CASE \E c \in Calls : Add(c)
  BY <1>1, AddKeeps DEF Add
<1>2. CASE root_hash
  BY <1>2, RootHashKeeps
<1>3. CASE reset
  BY <1>3, ResetKeeps
<1>4. CASE \E installed \in BOOLEAN : set_node_collector(installed)
  BY <1>4, SetNodeCollectorKeeps
<1>5. CASE gen_struct_step
  BY <1>5, GenStructStepKeeps
<1>6. CASE UNCHANGED vars
  BY <1>6, StutterKeeps
<1> QED
  BY <1>1, <1>2, <1>3, <1>4, <1>5, <1>6 DEF Next

\* The inductive invariant holds for every client: whatever keys and values are added, in
\* whatever order, with root_hash, reset and the collector coming in between.
THEOREM Invariance == Spec => []IInv
<1>1. Init => IInv
  BY InitEstablishes
<1>2. IInv /\ [Next]_vars => IInv'
  BY NextKeeps
<1> QED
  BY <1>1, <1>2, PTL DEF Spec

\* The members keep their types: unpacked keys, sets of digits, masks of one size.
THEOREM TypeCorrect == Spec => []TypeOK
<1>1. IInv => TypeOK
  BY DEF IInv
<1> QED
  BY <1>1, Invariance, PTL

\* No client gets the builder to fail an assertion that is not about its keys or the size
\* of a child's hash: those of branch_ref and of the Node constructor always hold.
THEOREM OnlyClientErrors == Spec => []OnlyClientErrorsAbort
<1>1. IInv => OnlyClientErrorsAbort
  BY DEF IInv
<1> QED
  BY <1>1, Invariance, PTL

\* The local checks on keys suffice: the entries of a trie under construction are in
\* order and no key extends another.
THEOREM ContractIsEnforced == Spec => []ContractEnforced
<1>1. IInv => ContractEnforced
  BY DEF IInv
<1> QED
  BY <1>1, Invariance, PTL

\* tree_masks_ and hash_masks_ flag only children that the groups have.
THEOREM MasksStayWithinGroups == Spec => []MasksWithinGroups
<1>1. IInv => MasksWithinGroups
  BY DEF IInv
<1> QED
  BY <1>1, Invariance, PTL

\* The stack always holds the references that branch_ref takes off it unchecked.
THEOREM StackNeverUnderflows == Spec => []StackCoversGroups
<1>1. IInv => StackCoversGroups
  BY DEF IInv
<1> QED
  BY <1>1, Invariance, PTL

\* The loop of gen_struct_step ends after at most as many iterations as the pending key
\* has digits.
THEOREM LoopEnds == Spec => LoopShrinks
<1>1. ASSUME IInv, [Next]_vars
      PROVE  [pc = "gen_struct_step" /\ pc' = "gen_struct_step"
                => Len(current') < Len(current)]_vars
  <2>1. CASE \E c \in Calls : Add(c)
    BY <2>1 DEF Add, add_leaf, add_branch_node
  <2>2. CASE root_hash
    BY <2>2 DEF root_hash
  <2>3. CASE reset
    BY <2>3 DEF reset
  <2>4. CASE \E installed \in BOOLEAN : set_node_collector(installed)
    BY <2>4 DEF set_node_collector
  <2>5. CASE gen_struct_step
    BY <1>1, <2>5, GenStructStepKeeps
  <2>6. CASE UNCHANGED vars
    BY <2>6
  <2> QED
    BY <1>1, <2>1, <2>2, <2>3, <2>4, <2>5, <2>6 DEF Next
<1> QED
  BY <1>1, Invariance, PTL DEF Spec, LoopShrinks

-----------------------------------------------------------------------------
(* The theorems about a client that respects the contract.                 *)

\* What the contract adds: a legal call finds its key apart from the pending one.
LEMMA LegalCall ==
  ASSUME IInv, NEW c \in Calls, Contract(c)
  PROVE  /\ key_ # <<>> => greater(c.key, key_) /\ ~starts_with(c.key, key_)
         /\ key_ = <<>> /\ c.key # <<>> => greater(c.key, key_)
         /\ c.op = "add_leaf" => c.key # <<>>
<1>1. TypeOK /\ LastEntryPending
  BY DEF IInv
<1>2. ASSUME key_ # <<>>
      PROVE  greater(c.key, key_) /\ ~starts_with(c.key, key_)
  <2>1. Len(entries) \in Nat /\ sealed < Len(entries) /\ sealed \in Nat
        /\ entries[Len(entries)].key = key_
    BY <1>1, <1>2, LenProperties DEF LastEntryPending, TypeOK
  <2>2. Len(entries) \in DOMAIN entries
    BY <1>1, <2>1, LenProperties DEF TypeOK
  <2> QED
    BY <2>1, <2>2 DEF Contract, InOrder
<1>3. ASSUME key_ = <<>>, c.key # <<>>
      PROVE  greater(c.key, key_)
  <2>1. c.key \in Seq(Nat)
    BY CallTypes
  <2>2. Len(c.key) \in Nat /\ 0 < Len(c.key) /\ Len(<<>>) = 0
    BY <1>3, <2>1, EmptySeq
  <2> QED
    BY <1>3, <2>2 DEF greater
<1> QED
  BY <1>2, <1>3 DEF Contract

\* An iteration of such a call does not fail the assertion on the lengths.
LEMMA LegalIteration ==
  ASSUME LegalInv, pc = "gen_struct_step"
  PROVE  failing \in {"none", "hash_size"}
<1>1. TypeOK /\ CallInProgress /\ ~starts_with(succeeding, key_)
  BY DEF LegalInv, IInv
<1>2. common_prefix_len < Len(current)
  <2>1. CASE build_extensions
    BY <1>1, <2>1 DEF CallInProgress
  <2>2. CASE ~build_extensions
    <3>1. current = key_
      BY <1>1, <2>2 DEF CallInProgress
    <3>2. prefix_length(succeeding, key_) < Len(key_)
      BY <1>1, KeysAreSequences, ApartLeavesPrefix
    <3> QED
      BY <3>1, <3>2 DEF common_prefix_len
  <2> QED
    BY <2>1, <2>2
<1>3. len < Len(current) /\ len \in Nat /\ Len(current) \in Nat
  BY <1>1, <1>2, IterationLengths, KeysAreSequences, LenProperties
<1>4. ~(len >= Len(current))
  BY <1>3
<1>5. failing # "length"
  BY <1>4 DEF failing
<1> QED
  BY <1>5, IterationStarts, IterationAborts DEF LegalInv

\* LegalInv holds initially.
LEMMA LegalInitEstablishes == Init => LegalInv
<1>1. Init => IInv
  BY InitEstablishes
<1>2. Init => pc = "idle" /\ failed = "none"
  BY DEF Init
<1> QED
  BY <1>1, <1>2 DEF LegalInv, ContractNeverAborts

\* Every step of a legal client keeps it.
LEMMA LegalNextKeeps == LegalInv /\ [LegalNext]_vars => LegalInv'
<1> SUFFICES ASSUME LegalInv, [LegalNext]_vars
             PROVE  LegalInv'
  OBVIOUS
<1> DEFINE Apart == pc = "gen_struct_step" => ~starts_with(succeeding, key_)
<1>1. IInv /\ Apart /\ ContractNeverAborts
  BY DEF LegalInv
<1>2. IInv'
  <2>1. [Next]_vars
    BY DEF LegalNext, Next
  <2> QED
    BY <1>1, <2>1, NextKeeps
<1>3. key_ \in Seq(Nat)
  BY <1>1, KeysAreSequences DEF IInv
<1> SUFFICES Apart' /\ ContractNeverAborts'
  BY <1>2 DEF LegalInv
<1>4. ASSUME NEW c \in Calls, Contract(c), add_leaf(c) \/ add_branch_node(c)
      PROVE  Apart' /\ ContractNeverAborts'
  <2>1. /\ key_ # <<>> => greater(c.key, key_) /\ ~starts_with(c.key, key_)
        /\ key_ = <<>> /\ c.key # <<>> => greater(c.key, key_)
        /\ c.op = "add_leaf" => c.key # <<>>
    BY <1>1, <1>4, LegalCall
  <2>2. \/ key_ # <<>> /\ Enter(c)
        \/ Finish(c, stack_)
        \/ Finish(c, Append(stack_, wrap_hash(c.value.data)))
    BY <1>4, <2>1 DEF add_leaf, add_branch_node
  <2>3. CASE key_ # <<>> /\ Enter(c)
    <3>1. call' = c /\ key_' = key_ /\ failed' = failed
      BY <2>3 DEF Enter, builder
    <3> QED
      BY <1>1, <2>1, <2>3, <3>1 DEF succeeding, ContractNeverAborts
  <2>4. ASSUME NEW stack, Finish(c, stack)
        PROVE  Apart' /\ ContractNeverAborts'
    <3>1. pc' = "idle" /\ failed' = failed
      BY <2>4 DEF Finish, Return
    <3> QED
      BY <1>1, <3>1 DEF ContractNeverAborts
  <2> QED
    BY <2>2, <2>3, <2>4
<1>5. CASE root_hash
  <2>1. CASE key_ # <<>> /\ Enter(root_hash_call)
    <3>1. succeeding' = <<>> /\ key_' = key_ /\ failed' = failed
      BY <2>1 DEF Enter, builder, succeeding, root_hash_call
    <3>2. ~starts_with(<<>>, key_)
      <4>1. Len(key_) \in Nat /\ Len(key_) > 0 /\ Len(<<>>) = 0
        BY <1>3, <2>1, EmptySeq
      <4> QED
        BY <4>1 DEF starts_with
    <3> QED
      BY <1>1, <3>1, <3>2 DEF ContractNeverAborts
  <2>2. CASE Finish(root_hash_call, stack_)
    <3>1. pc' = "idle" /\ failed' = failed
      BY <2>2 DEF Finish, Return
    <3> QED
      BY <1>1, <3>1 DEF ContractNeverAborts
  <2> QED
    BY <1>5, <2>1, <2>2 DEF root_hash
<1>6. CASE reset \/ \E installed \in BOOLEAN : set_node_collector(installed)
  <2>1. pc' = "idle" /\ failed' = failed
    BY <1>6 DEF reset, set_node_collector, frame
  <2> QED
    BY <1>1, <2>1 DEF ContractNeverAborts
<1>7. CASE KeepGroup \/ CloseLastGroup
  <2>1. pc' = "idle" /\ failed' = failed
    BY <1>7 DEF KeepGroup, CloseLastGroup, Return
  <2> QED
    BY <1>1, <2>1 DEF ContractNeverAborts
<1>8. CASE CloseGroup
  <2>1. /\ succeeding' = succeeding /\ key_' = key_ /\ failed' = failed
        /\ pc = "gen_struct_step"
    BY <1>8 DEF CloseGroup, ClosesGroup, succeeding
  <2> QED
    BY <1>1, <2>1 DEF ContractNeverAborts
<1>9. CASE FailAssertion
  <2>1. pc' = "aborted" /\ failed' = failing /\ pc = "gen_struct_step"
    BY <1>1, <1>9, FailAssertionKeeps DEF FailAssertion
  <2> QED
    BY <2>1, LegalIteration DEF ContractNeverAborts
<1>10. CASE UNCHANGED vars
  <2>1. UNCHANGED <<pc, call, key_, failed>>
    BY <1>10 DEF vars, builder, frame
  <2> QED
    BY <1>1, <2>1 DEF succeeding, ContractNeverAborts
<1> QED
  BY <1>4, <1>5, <1>6, <1>7, <1>8, <1>9, <1>10 DEF LegalNext, Add, gen_struct_step

\* A client that keeps its keys in order and apart, as hash_builder.hpp asks, never gets
\* the builder to abort, except on a hashed child whose reference is not a hash.
THEOREM LegalClientsAreSafe == LegalSpec => []ContractNeverAborts
<1>1. Init => LegalInv
  BY LegalInitEstablishes
<1>2. LegalInv /\ [LegalNext]_vars => LegalInv'
  BY LegalNextKeeps
<1>3. LegalInv => ContractNeverAborts
  BY DEF LegalInv
<1> QED
  BY <1>1, <1>2, <1>3, PTL DEF LegalSpec

-----------------------------------------------------------------------------
(* Where keys part.                                                        *)

\* A string and what is cut off it.
LEMMA CutIsPrefix ==
  ASSUME NEW a \in Seq(Nat), NEW n \in 0..Len(a)
  PROVE  /\ SubSeq(a, 1, n) \in Seq(Nat) /\ Len(SubSeq(a, 1, n)) = n
         /\ \A i \in 1..n : SubSeq(a, 1, n)[i] = a[i]
         /\ starts_with(a, SubSeq(a, 1, n))
<1>1. /\ SubSeq(a, 1, n) \in Seq(Nat) /\ Len(SubSeq(a, 1, n)) = n
      /\ \A i \in 1..n : SubSeq(a, 1, n)[i] = a[i]
  OBVIOUS
<1> QED
  BY <1>1 DEF starts_with

\* A prefix of a prefix is one.
LEMMA PrefixTransitive ==
  ASSUME NEW a \in Seq(Nat), NEW b \in Seq(Nat), NEW c \in Seq(Nat),
         starts_with(a, b), starts_with(b, c)
  PROVE  starts_with(a, c)
<1>1. Len(c) <= Len(b) /\ Len(b) <= Len(a) /\ Len(a) \in Nat /\ Len(b) \in Nat /\ Len(c) \in Nat
  BY LenProperties DEF starts_with
<1>2. ASSUME NEW i \in 1..Len(c)
      PROVE  a[i] = c[i]
  <2>1. i \in 1..Len(b)
    BY <1>1
  <2> QED
    BY <2>1 DEF starts_with
<1> QED
  BY <1>1, <1>2 DEF starts_with

\* A string greater than an extension of another one is the greater of the two at the
\* place where they part.
LEMMA PartsAbove ==
  ASSUME NEW s \in Seq(Nat), NEW k \in Seq(Nat), NEW c \in Seq(Nat),
         starts_with(k, c), greater(s, k),
         prefix_length(s, c) < Len(s), prefix_length(s, c) < Len(c)
  PROVE  LET n == prefix_length(s, c)
         IN  /\ n \in Nat /\ s[n + 1] > c[n + 1]
             /\ \A i \in 1..n : s[i] = c[i]
<1> DEFINE n == prefix_length(s, c)
<1>1. /\ n \in 0..Len(s) /\ \A i \in 1..n : s[i] = c[i]
      /\ s[n + 1] # c[n + 1]
  BY PrefixLength
<1>2. /\ Len(s) \in Nat /\ Len(k) \in Nat /\ Len(c) \in Nat /\ Len(c) <= Len(k)
      /\ \A i \in 1..Len(c) : k[i] = c[i]
  BY LenProperties DEF starts_with
<1>3. PICK m \in 0..Len(k) : /\ m < Len(s)
                             /\ \A i \in 1..m : s[i] = k[i]
                             /\ m < Len(k) => s[m + 1] > k[m + 1]
  BY DEF greater
<1>4. n \in Nat /\ n < Len(s) /\ n < Len(c) /\ m \in Nat
  BY <1>1, <1>2, <1>3
<1> HIDE DEF n
<1>5. CASE m < n
  <2>1. m + 1 \in 1..n /\ m + 1 \in 1..Len(c) /\ m < Len(k)
    BY <1>2, <1>4, <1>5
  <2>2. s[m + 1] = c[m + 1] /\ k[m + 1] = c[m + 1] /\ s[m + 1] > k[m + 1]
    BY <1>1, <1>2, <1>3, <2>1
  <2>3. m + 1 \in 1..Len(s)
    BY <1>4, <1>5
  <2>4. s[m + 1] \in Nat
    BY <2>3, ElementOfSeq
  <2> QED
    BY <2>2, <2>4
<1>6. CASE m > n
  <2>1. n + 1 \in 1..m /\ n + 1 \in 1..Len(c)
    BY <1>4, <1>6
  <2> QED
    BY <1>1, <1>2, <1>3, <2>1
<1>7. CASE m = n
  <2>1. n < Len(k) /\ n + 1 \in 1..Len(c)
    BY <1>2, <1>4
  <2> QED
    BY <1>1, <1>2, <1>3, <1>4, <1>7, <2>1 DEF n
<1> QED
  BY <1>4, <1>5, <1>6, <1>7

\* A string greater than an extension of c that parts with c before n is behind all
\* extensions of the first n elements of c.
LEMMA PartsBehind ==
  ASSUME NEW s \in Seq(Nat), NEW k \in Seq(Nat), NEW c \in Seq(Nat), NEW n \in 0..Len(c),
         starts_with(k, c), greater(s, k), prefix_length(s, c) < n
  PROVE  greater(s, SubSeq(c, 1, n)) /\ ~starts_with(s, SubSeq(c, 1, n))
<1> DEFINE p == SubSeq(c, 1, n)
<1>1. p \in Seq(Nat) /\ Len(p) = n /\ starts_with(c, p)
  BY CutIsPrefix
<1>2. prefix_length(s, p) < Len(p)
  BY <1>1, PrefixLengthOfCut
<1> HIDE DEF p
<1>3. ~starts_with(s, p)
  BY <1>1, <1>2, PartedNotPrefix
<1>4. s # p
  <2>1. Len(p) \in Nat /\ \A i \in 1..Len(p) : p[i] = p[i]
    BY <1>1, LenProperties
  <2> QED
    BY <1>3, <2>1 DEF starts_with
<1>5. ~greater(p, k)
  <2>1. starts_with(k, p)
    BY <1>1, PrefixTransitive
  <2> QED
    BY <1>1, <2>1, ExtensionNotSmaller
<1>6. ~greater(p, s)
  BY <1>1, <1>5, GreaterTransitive
<1>7. greater(s, p)
  BY <1>1, <1>4, <1>6, GreaterTotal
<1> QED
  BY <1>3, <1>7 DEF p

-----------------------------------------------------------------------------
(* The children of a branch, under any client.                             *)

\* A call begins, or fails on entry, or comes to its end without gen_struct_step, or
\* the builder is reset or given another collector: what groups_ says of the pending
\* key stays, or there is neither.
LEMMA BetweenIterationsOrder ==
  ASSUME OrderInv,
         \/ \E c \in Calls : add_leaf(c) \/ add_branch_node(c)
         \/ root_hash
         \/ reset
         \/ \E installed \in BOOLEAN : set_node_collector(installed)
  PROVE  CurrentAlongKey' /\ DigitsRise'
<1>1. pc = "idle" /\ TypeOK /\ GroupsAlongKey /\ DigitsRise
  BY DEF OrderInv, IInv, add_leaf, add_branch_node, root_hash, reset, set_node_collector
<1>2. groups_ \in Seq(Mask) /\ Len(groups_) \in Nat /\ Len(groups_) <= Len(key_) /\ key_ \in Seq(Nat)
  BY <1>1, LenProperties, KeysAreSequences DEF TypeOK, GroupsAlongKey
<1>3. ASSUME NEW c, Enter(c)
      PROVE  CurrentAlongKey' /\ DigitsRise'
  <2>1. pc' = "gen_struct_step" /\ key_' = key_ /\ current' = key_ /\ groups_' = groups_
    BY <1>3 DEF Enter, builder
  <2>2. starts_with(key_, key_)
    BY <1>2, LenProperties DEF starts_with
  <2> QED
    BY <1>1, <2>1, <2>2 DEF CurrentAlongKey, DigitsRise
<1>4. ASSUME NEW assertion, Abort(assertion)
      PROVE  CurrentAlongKey' /\ DigitsRise'
  <2>1. pc' = "aborted" /\ groups_' = groups_
    BY <1>4 DEF Abort, builder
  <2> QED
    BY <1>1, <2>1 DEF CurrentAlongKey, DigitsRise
<1>5. ASSUME NEW c, NEW stack, key_ = <<>>, Finish(c, stack)
      PROVE  CurrentAlongKey' /\ DigitsRise'
  <2>1. pc' = "idle" /\ groups_' = groups_
    BY <1>5 DEF Finish, Return
  <2>2. groups_ = <<>>
    BY <1>2, <1>5, EmptySeq
  <2> QED
    BY <2>1, <2>2 DEF CurrentAlongKey, DigitsRise
<1>6. CASE \E c \in Calls : add_leaf(c) \/ add_branch_node(c)
  <2>1. ~greater(<<>>, key_)
    BY DEF greater
  <2>2. PICK c \in Calls : add_leaf(c) \/ add_branch_node(c)
    BY <1>6
  <2>3. \/ Enter(c)
        \/ Abort("order")
        \/ key_ = <<>> /\ \E stack : Finish(c, stack)
    BY <2>1, <2>2 DEF add_leaf, add_branch_node
  <2> QED
    BY <1>3, <1>4, <1>5, <2>3
<1>7. CASE root_hash
  BY <1>3, <1>5, <1>7 DEF root_hash
<1>8. CASE reset
  <2>1. groups_' = <<>> /\ pc' = "idle"
    BY <1>1, <1>8 DEF reset, frame
  <2> QED
    BY <2>1 DEF CurrentAlongKey, DigitsRise
<1>9. CASE \E installed \in BOOLEAN : set_node_collector(installed)
  <2>1. groups_' = groups_ /\ key_' = key_ /\ pc' = pc
    BY <1>9 DEF set_node_collector, builder, frame
  <2> QED
    BY <1>1, <2>1 DEF CurrentAlongKey, DigitsRise
<1> QED
  BY <1>6, <1>7, <1>8, <1>9

\* The digits of the grown groups are below current's, but for the one just added.
LEMMA GrownRise ==
  ASSUME OrderInv, Iterating
  PROVE  /\ \A i \in 1..len : \A d \in groups_grown[i] : d < current[i]
         /\ \A d \in groups_grown[len + 1] : d < current[len + 1] \/ d = current[len + 1]
         /\ groups_grown[len + 1] # {} /\ Len(groups_grown) = len + 1
         /\ groups_grown \in Seq(Mask) /\ len \in Nat
<1>1. /\ groups_grown \in Seq(Mask) /\ Len(groups_grown) = len + 1
      /\ \A i \in 1..len : groups_grown[i] = IF i <= Len(groups_) THEN groups_[i] ELSE {}
      /\ groups_grown[len + 1] =
           (IF len + 1 <= Len(groups_) THEN groups_[len + 1] ELSE {}) \cup {extra_digit}
  BY IterationGroups DEF Iterating
<1>2. \A i \in 1..Len(groups_) : \A d \in groups_[i] : d < current[i]
  BY DEF OrderInv, DigitsRise, Iterating, TypeOK
<1>3. len \in Nat /\ Len(groups_) \in Nat
  BY IterationLengths, LenProperties DEF Iterating, TypeOK
<1>4. ASSUME NEW i \in 1..len, NEW d \in groups_grown[i]
      PROVE  d < current[i]
  <2>1. i <= Len(groups_) /\ d \in groups_[i]
    BY <1>1, <1>4
  <2> QED
    BY <1>2, <1>3, <2>1
<1>5. ASSUME NEW d \in groups_grown[len + 1]
      PROVE  d < current[len + 1] \/ d = current[len + 1]
  <2>1. d = current[len + 1] \/ (len + 1 <= Len(groups_) /\ d \in groups_[len + 1])
    BY <1>1, <1>5 DEF extra_digit
  <2> QED
    BY <1>2, <1>3, <2>1
<1> QED
  BY <1>1, <1>3, <1>4, <1>5

\* The iteration that leaves the group open: the succeeding key goes on above the digits
\* of its groups.
LEMMA KeepGroupOrder ==
  ASSUME OrderInv, KeepGroup
  PROVE  CurrentAlongKey' /\ DigitsRise'
<1>1. /\ pc = "gen_struct_step" /\ failing = "none" /\ keeps_group
      /\ groups_' = groups_grown /\ key_' = succeeding /\ pc' = "idle"
  BY DEF KeepGroup, Return, succeeding
<1>2. TypeOK /\ CallInProgress /\ IInv
  BY DEF OrderInv, IInv
<1>3. Iterating /\ succeeding # <<>> /\ greater(succeeding, key_)
  BY <1>1, <1>2, IterationStarts DEF keeps_group, CallInProgress
<1>4. /\ len = common_prefix_len /\ len < Len(succeeding) /\ len < Len(current)
  <2>1. preceding_len <= common_prefix_len
    BY <1>1 DEF keeps_group
  <2> QED
    BY <1>1, <1>2, <1>3, <2>1, IterationLengths DEF CallInProgress, Iterating
<1>5. /\ succeeding[len + 1] > current[len + 1]
      /\ \A i \in 1..len : succeeding[i] = current[i]
  <2>1. starts_with(key_, current)
    BY <1>1 DEF OrderInv, CurrentAlongKey
  <2>2. /\ succeeding \in Seq(Nat) /\ key_ \in Seq(Nat) /\ current \in Seq(Nat)
        /\ len = prefix_length(succeeding, current)
    BY <1>2, <1>4, KeysAreSequences DEF common_prefix_len
  <2> QED
    BY <1>3, <1>4, <2>1, <2>2, PartsAbove
<1>6. /\ \A i \in 1..len : \A d \in groups_grown[i] : d < current[i]
      /\ \A d \in groups_grown[len + 1] : d < current[len + 1] \/ d = current[len + 1]
      /\ groups_grown[len + 1] # {} /\ Len(groups_grown) = len + 1
      /\ groups_grown \in Seq(Mask) /\ len \in Nat
  BY <1>3, GrownRise
<1>7. ASSUME NEW i \in 1..(len + 1), NEW d \in groups_grown[i]
      PROVE  d < succeeding[i]
  <2>1. CASE i = len + 1
    <3>1. d \in Nat /\ succeeding[len + 1] \in Nat /\ current[len + 1] \in Nat
      <4>1. groups_grown[len + 1] \subseteq Digit /\ Digit \subseteq Nat
        <5>1. len + 1 \in 1..Len(groups_grown)
          BY <1>6
        <5>2. groups_grown[len + 1] \in Mask
          BY <1>6, <5>1, ElementOfSeq
        <5> QED
          BY <5>2 DEF Mask, Digit
      <4>2. /\ succeeding \in Seq(Nat) /\ current \in Seq(Nat)
            /\ len + 1 \in 1..Len(succeeding) /\ len + 1 \in 1..Len(current)
        BY <1>2, <1>4, <1>6, KeysAreSequences, LenProperties
      <4> QED
        BY <1>7, <2>1, <4>1, <4>2, ElementOfSeq
    <3> QED
      BY <1>5, <1>6, <1>7, <2>1, <3>1
  <2>2. CASE i # len + 1
    <3>1. i \in 1..len
      BY <1>6, <2>2
    <3> QED
      BY <1>5, <1>6, <1>7, <3>1
  <2> QED
    BY <2>1, <2>2
<1>8. DOMAIN groups_' = 1..(len + 1) /\ groups_'[Len(groups_')] # {}
  BY <1>1, <1>6, LenProperties
<1>9. DigitsRise'
  BY <1>1, <1>7, <1>8 DEF DigitsRise
<1> QED
  BY <1>1, <1>9 DEF CurrentAlongKey

\* The iterations that close a group.
LEMMA CloseGroupOrder ==
  ASSUME OrderInv, CloseGroup \/ CloseLastGroup
  PROVE  CurrentAlongKey' /\ DigitsRise'
<1>1. /\ pc = "gen_struct_step" /\ failing = "none" /\ ~keeps_group
  BY DEF CloseGroup, CloseLastGroup, ClosesGroup
<1>2. IInv /\ TypeOK
  BY DEF OrderInv, IInv
<1>3. Iterating
  BY <1>1, <1>2, IterationStarts
<1>4. /\ len = preceding_len /\ len \in Nat /\ len < Len(current) /\ Len(current) \in Nat
  BY <1>1, <1>3, ClosingLengths
<1>5. /\ \A i \in 1..len : \A d \in groups_grown[i] : d < current[i]
      /\ groups_grown \in Seq(Mask) /\ Len(groups_grown) = len + 1
  BY <1>3, GrownRise
<1>6. /\ resize(groups_grown, len) \in Seq(Mask)
      /\ Len(resize(groups_grown, len)) = len
      /\ \A i \in 1..len : resize(groups_grown, len)[i] = groups_grown[i]
  <2>1. /\ resize(groups_grown, len) \in Seq(Mask)
        /\ Len(resize(groups_grown, len)) = len
        /\ \A i \in 1..len : resize(groups_grown, len)[i]
             = IF i <= Len(groups_grown) THEN groups_grown[i] ELSE {}
    BY <1>4, <1>5, ResizeProperties
  <2> QED
    BY <1>4, <1>5, <2>1
<1>7. CASE CloseGroup
  <2> DEFINE kept == resize(groups_grown, len)
  <2>1. /\ groups_' = drop_empty_groups(kept) /\ key_' = key_
        /\ current' = SubSeq(current, 1, len) /\ pc' = "gen_struct_step"
    BY <1>1, <1>4, <1>7 DEF CloseGroup
  <2>2. /\ kept \in Seq(Mask) /\ Len(kept) = len
        /\ \A i \in 1..len : kept[i] = groups_grown[i]
    BY <1>6
  <2> HIDE DEF kept
  <2>3. /\ drop_empty_groups(kept) \in Seq(Mask)
        /\ Len(drop_empty_groups(kept)) <= Len(kept)
        /\ \A i \in 1..Len(drop_empty_groups(kept)) : drop_empty_groups(kept)[i] = kept[i]
        /\ drop_empty_groups(kept) # <<>> =>
             drop_empty_groups(kept)[Len(drop_empty_groups(kept))] # {}
    BY <2>2, DropEmptyGroupsProperties
  <2>4. /\ current \in Seq(Nat) /\ key_ \in Seq(Nat) /\ starts_with(key_, current)
    BY <1>1, <1>2, KeysAreSequences DEF OrderInv, CurrentAlongKey
  <2>5. /\ current' \in Seq(Nat) /\ starts_with(current, current')
        /\ \A i \in 1..len : current'[i] = current[i]
    BY <1>4, <2>1, <2>4, CutIsPrefix
  <2>6. CurrentAlongKey'
    BY <2>1, <2>4, <2>5, PrefixTransitive DEF CurrentAlongKey
  <2>7. /\ groups_' \in Seq(Mask) /\ Len(groups_') \in Nat /\ Len(groups_') <= len
        /\ \A i \in 1..Len(groups_') : groups_'[i] = kept[i]
        /\ groups_' # <<>> => groups_'[Len(groups_')] # {}
    BY <2>1, <2>2, <2>3, LenProperties
  <2>8. ASSUME NEW i \in 1..Len(groups_'), NEW d \in groups_'[i]
        PROVE  d < current'[i]
    <3>1. i \in 1..len
      BY <1>4, <2>7
    <3> QED
      BY <1>5, <2>2, <2>5, <2>7, <2>8, <3>1
  <2>9. DOMAIN groups_' = 1..Len(groups_')
    BY <2>7, LenProperties
  <2>10. DigitsRise'
    BY <2>1, <2>7, <2>8, <2>9 DEF DigitsRise
  <2> QED
    BY <2>6, <2>10
<1>8. CASE CloseLastGroup
  <2>1. groups_' = resize(groups_grown, len) /\ pc' = "idle" /\ len = 0
    BY <1>4, <1>8 DEF CloseLastGroup, Return
  <2>2. groups_' = <<>>
    BY <1>6, <2>1, EmptySeq
  <2> QED
    BY <2>1, <2>2 DEF CurrentAlongKey, DigitsRise
<1> QED
  BY <1>7, <1>8

\* A failed assertion leaves everything as it is.
LEMMA FailureOrder ==
  ASSUME OrderInv, FailAssertion
  PROVE  CurrentAlongKey' /\ DigitsRise'
<1>1. pc' = "aborted" /\ groups_' = groups_
  BY DEF FailAssertion, Abort, builder
<1> QED
  BY <1>1 DEF OrderInv, CurrentAlongKey, DigitsRise

\* Every step keeps the order.
LEMMA NextOrder == OrderInv /\ [Next]_vars => OrderInv'
<1> SUFFICES ASSUME OrderInv, [Next]_vars
             PROVE  OrderInv'
  OBVIOUS
<1>1. IInv'
  BY NextKeeps DEF OrderInv
<1>2. CASE UNCHANGED vars
  <2>1. groups_' = groups_ /\ key_' = key_ /\ pc' = pc /\ current' = current
    BY <1>2 DEF vars, builder, frame
  <2>2. CurrentAlongKey' /\ DigitsRise'
    BY <2>1 DEF OrderInv, CurrentAlongKey, DigitsRise
  <2> QED
    BY <1>1, <2>2 DEF OrderInv
<1>3. CASE gen_struct_step
  <2>1. CurrentAlongKey' /\ DigitsRise'
    BY <1>3, KeepGroupOrder, CloseGroupOrder, FailureOrder DEF gen_struct_step
  <2> QED
    BY <1>1, <2>1 DEF OrderInv
<1>4. CASE Next /\ ~gen_struct_step
  <2>1. \/ \E c \in Calls : add_leaf(c) \/ add_branch_node(c)
        \/ root_hash
        \/ reset
        \/ \E installed \in BOOLEAN : set_node_collector(installed)
    BY <1>4 DEF Next, Add
  <2>2. CurrentAlongKey' /\ DigitsRise'
    BY <2>1, BetweenIterationsOrder
  <2> QED
    BY <1>1, <2>2 DEF OrderInv
<1> QED
  BY <1>2, <1>3, <1>4

\* A group that is about to be closed is the innermost one of groups_.
LEMMA OrderOfBranch == OrderInv => BranchesInOrder
<1> SUFFICES ASSUME OrderInv, pc = "gen_struct_step", failing = "none", ~keeps_group, has_parent
             PROVE  /\ len + 1 \in DOMAIN groups_ /\ groups_[len + 1] # {}
                    /\ \A d \in groups_[len + 1] : d < extra_digit
  BY DEF BranchesInOrder
<1>1. IInv /\ TypeOK /\ DigitsRise
  BY DEF OrderInv, IInv
<1>2. Iterating
  BY <1>1, IterationStarts
<1>3. /\ len = preceding_len /\ len \in Nat
      /\ preceding_len = 0 => succeeding = <<>>
  BY <1>2, ClosingLengths
<1>4. /\ preceding_exists => Len(groups_) = preceding_len + 1
      /\ ~preceding_exists => preceding_len = 0
  BY <1>2, IterationLengths DEF Iterating
<1>5. preceding_exists
  BY <1>3, <1>4 DEF has_parent
<1>6. groups_ # <<>> /\ Len(groups_) = len + 1 /\ DOMAIN groups_ = 1..(len + 1)
  BY <1>1, <1>3, <1>4, <1>5, LenProperties DEF preceding_exists, TypeOK
<1>7. len + 1 \in DOMAIN groups_
  BY <1>3, <1>6
<1> QED
  BY <1>1, <1>6, <1>7 DEF DigitsRise, extra_digit

\* Whatever a client does, a branch that is closed has at least two children, and its
\* references are on the stack in the order of its digits.
THEOREM BranchesHaveChildrenInOrder == Spec => []BranchesInOrder
<1>1. Init => OrderInv
  <2>1. Init => IInv
    BY InitEstablishes
  <2>2. Init => CurrentAlongKey /\ DigitsRise
    BY DEF Init, CurrentAlongKey, DigitsRise
  <2> QED
    BY <2>1, <2>2 DEF OrderInv
<1>2. OrderInv /\ [Next]_vars => OrderInv'
  BY NextOrder
<1>3. OrderInv => BranchesInOrder
  BY OrderOfBranch
<1> QED
  BY <1>1, <1>2, <1>3, PTL DEF Spec
=============================================================================
