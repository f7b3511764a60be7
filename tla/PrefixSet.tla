------------------------------ MODULE PrefixSet ------------------------------
(***************************************************************************)
(* PrefixSet (trie/prefix_set.hpp, trie/prefix_set.cpp): keys are appended *)
(* as they come, sorted and freed of duplicates when a query needs it, and *)
(* searched from where the last query ended.  The cursor index_ survives   *)
(* insertions, and so may point at another key, anywhere, when the next    *)
(* query has sorted the keys again.                                        *)
(*                                                                         *)
(* Variables with a trailing underscore are the members; index_ counts     *)
(* from 0, as in the code.  A call is one step.                            *)
(***************************************************************************)
EXTENDS ByteStrings, SequencesExt

CONSTANTS
  Keys,      \* nibbled keys clients insert
  Queries,  \* prefixes they ask for
  MaxKeys    \* bound: length of keys_

Nibble == 0..15

ASSUME KeysAssumption == Keys \subseteq Seq(Nibble)
ASSUME QueriesAssumption == Queries \subseteq Seq(Nibble)
ASSUME MaxKeysAssumption == MaxKeys \in Nat

VARIABLES
  keys_,    \* sequence of keys with their markers
  index_,   \* the key the last query ended at
  sorted_,  \* is keys_ sorted, without duplicates?
  reply     \* what the last call returned

vars == <<keys_, index_, sorted_, reply>>

Item == [key : Keys, marker : BOOLEAN]

Reply(op, prefix, invariant_len, found, next_created) ==
  [op |-> op, prefix |-> prefix, invariant_len |-> invariant_len,
   found |-> found, next_created |-> next_created]
no_reply == Reply("none", <<>>, 0, FALSE, <<>>)

Init == keys_ = <<>> /\ index_ = 0 /\ sorted_ = FALSE /\ reply = no_reply

-----------------------------------------------------------------------------
(* ensure_sorted.                                                          *)

\* operator< of a pair of a key and its marker.
precedes(a, b) ==
  greater(b.key, a.key) \/ (a.key = b.key /\ ~a.marker /\ b.marker)

\* std::sort and std::unique: the n-th item is the one that n items precede.
rank(item, items) == Cardinality({other \in items : precedes(other, item)})
sort_unique(keys) ==
  [n \in 1..Cardinality(ToSet(keys)) |->
     CHOOSE item \in ToSet(keys) : rank(item, ToSet(keys)) = n - 1]

ensured == IF sorted_ THEN keys_ ELSE sort_unique(keys_)

-----------------------------------------------------------------------------
(* The two loops of contains, over sorted keys.                            *)

key(keys, i) == keys[i + 1].key

\* Wrong: the cursor only moves forward.
start_at_cursor(keys, prefix) == index_

\* Back while the key under the cursor is greater than the prefix.
start(keys, prefix) ==
  CHOOSE i \in 0..index_ :
    /\ i > 0 => ~greater(key(keys, i), prefix)
    /\ \A j \in (i + 1)..index_ : greater(key(keys, j), prefix)

\* Forth to a key that starts with the prefix or is greater, or to the last one.
stops(keys, prefix, i) ==
  starts_with(key(keys, i), prefix) \/ greater(key(keys, i), prefix) \/ i = Len(keys) - 1

stop(keys, prefix) ==
  CHOOSE i \in start(keys, prefix)..(Len(keys) - 1) :
    /\ stops(keys, prefix, i)
    /\ \A j \in start(keys, prefix)..(i - 1) : ~stops(keys, prefix, j)

-----------------------------------------------------------------------------
(* The search for the next marked key.                                     *)

\* memcmp of the invariant part, n bytes.  A key may be shorter: the byte after it
\* is the terminating zero of the string, what follows is not defined.
Differs(k, prefix, n) ==
  \E j \in 1..n : j <= Len(k) + 1 /\ prefix[j] # (IF j <= Len(k) THEN k[j] ELSE 0)
ReadsBeyond(k, prefix, n) == n > Len(k) + 1 /\ ~Differs(k, prefix, n)

\* Wrong: an item is taken before its invariant part is compared.
next_marked_unchecked(keys, first, differing) ==
  LET ends == {i \in first..(Len(keys) - 1) : keys[i + 1].marker}
  IN  IF ends = {} THEN <<>> ELSE key(keys, Min(ends))

\* The first marked key from "first" on, unless a key that differs comes before it.
next_marked(keys, first, differing) ==
  LET ends == {i \in first..(Len(keys) - 1) : i \in differing \/ keys[i + 1].marker}
  IN  IF ends = {} \/ Min(ends) \in differing THEN <<>> ELSE key(keys, Min(ends))

-----------------------------------------------------------------------------
(* The calls of the interface.                                             *)

\* Wrong: keys appended to sorted keys count as sorted.
insert_sorted(item) ==
  /\ Len(keys_) < MaxKeys
  /\ keys_' = Append(keys_, item)
  /\ reply' = no_reply
  /\ UNCHANGED <<index_, sorted_>>

insert(item) ==
  /\ Len(keys_) < MaxKeys
  /\ keys_' = Append(keys_, item)
  /\ sorted_' = FALSE
  /\ reply' = no_reply
  /\ UNCHANGED index_

\* contains without its result: nothing happens to an empty set.
Search(prefix) ==
  \/ keys_ = <<>> /\ UNCHANGED <<keys_, index_, sorted_>>
  \/ /\ keys_ # <<>>
     /\ keys_' = ensured
     /\ sorted_' = TRUE
     /\ index_' = stop(ensured, prefix)

found(prefix) == keys_ # <<>> /\ starts_with(key(ensured, stop(ensured, prefix)), prefix)

contains(prefix) ==
  /\ Search(prefix)
  /\ reply' = Reply("contains", prefix, 0, found(prefix), <<>>)

\* Wrong: the caller's length is taken as it is.
compared_unbounded(prefix, invariant_prefix_len) == invariant_prefix_len

\* How many bytes the next marked key has to share.
compared(prefix, invariant_prefix_len) ==
  IF invariant_prefix_len < Len(prefix) THEN invariant_prefix_len ELSE Len(prefix)

contains_and_next_marked(prefix, invariant_prefix_len) ==
  LET n         == compared(prefix, invariant_prefix_len)
      all       == 0..(Len(keys_') - 1)
      undefined == {i \in all : ReadsBeyond(key(keys_', i), prefix, n)}
  IN  /\ Search(prefix)
      /\ \E differing \in SUBSET undefined :
           reply' = Reply("contains_and_next_marked", prefix, n, found(prefix),
                          next_marked(keys_', index_',
                            differing \cup {i \in all : Differs(key(keys_', i), prefix, n)}))

\* Wrong: the cursor stays.
clear_keys_only ==
  /\ keys_' = <<>> /\ sorted_' = FALSE /\ reply' = no_reply
  /\ UNCHANGED index_

clear == keys_' = <<>> /\ index_' = 0 /\ sorted_' = FALSE /\ reply' = no_reply

Next ==
  \/ \E item \in Item : insert(item)
  \/ \E prefix \in Queries : contains(prefix)
  \/ \E prefix \in Queries : \E n \in 0..(Len(prefix) + 1) : contains_and_next_marked(prefix, n)
  \/ clear

Spec == Init /\ [][Next]_vars

-----------------------------------------------------------------------------
(* Properties.                                                             *)

\* Type invariant; the part of the prefix that is compared is within the prefix.
TypeOK ==
  /\ keys_ \in Seq(Item)
  /\ index_ \in Nat
  /\ sorted_ \in BOOLEAN
  /\ reply \in [op : {"none", "contains", "contains_and_next_marked"},
                prefix : Queries \cup {<<>>}, invariant_len : Nat,
                found : BOOLEAN, next_created : Keys \cup {<<>>}]
  /\ reply.invariant_len <= Len(reply.prefix)

\* The cursor is within the keys when a query starts to use it, unchecked, whatever
\* was inserted since the last query and however many duplicates sorting removes.
CursorInRange == index_ = 0 \/ index_ < Cardinality(ToSet(keys_))

\* Keys marked as sorted are sorted, and there are no duplicates among them.
SortedIsSorted == sorted_ => \A i, j \in DOMAIN keys_ : i < j => precedes(keys_[i], keys_[j])

IInv == TypeOK /\ CursorInRange /\ SortedIsSorted

\* Lazy sorting and the cursor cannot be told from outside: the answers of contains
\* are those of the prefix-closed set the class stands for, wherever earlier queries
\* left the cursor, and a query changes neither the keys nor their markers.
P == INSTANCE PrefixClosedSet WITH
       items  <- ToSet(keys_),
       answer <- IF reply.op = "none" THEN <<>> ELSE <<reply.prefix, reply.found>>,
       Query  <- Queries

ImplementsPrefixClosedSet == P!PrefixClosed

\* As long as some key is not smaller than the prefix, the next marked key is the
\* least marked one from the prefix on, and it is returned exactly if it begins with
\* the invariant part: the cursor neither skips a marked key nor is too early, and
\* the comparison of the invariant part never decides on bytes outside a key.
NotBefore(prefix) == {item \in ToSet(keys_) : ~greater(prefix, item.key)}

NextMarkedIsFirst ==
  LET marked == {item.key : item \in {item \in NotBefore(reply.prefix) : item.marker}}
      least  == CHOOSE k \in marked : \A other \in marked : ~greater(k, other)
      part   == SubSeq(reply.prefix, 1, reply.invariant_len)
  IN  reply.op = "contains_and_next_marked" /\ NotBefore(reply.prefix) # {} =>
        reply.next_created =
          (IF marked # {} /\ starts_with(least, part) THEN least ELSE <<>>)

\* prefix_set.hpp:37: contains_and_next_marked "Returns the next key with
\* marker==true in the list", so never one before the prefix.
NextMarkedIsNext ==
  reply.next_created # <<>> => ~greater(reply.prefix, reply.next_created)
=============================================================================
