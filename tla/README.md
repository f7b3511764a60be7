# TLA+ verification of merkle-patricia-tree

The library computes Merkle Patricia trie roots the way Ethereum clients do: it is
Silkworm's `trie`, `rlp` and `common` code, with a C interface around it. This
directory holds TLA+ modules translated from it, the TLC configurations that check
them on small instances, and theorems proved with TLAPS. Line numbers are of the
files at this commit; `PROJECT.json` maps each definition to its lines.

## Inventory

There are no messages, files or timeouts in the library, and no threads of its own; what threads
share is the code of `to_big_compact`, whose buffer is thread-local. An assertion that fails aborts
the process (`SILKWORM_ASSERT` stays on in release builds). What is hard is mostly sequential: long call
sequences on objects whose vectors must stay in step, loops whose bounds are implicit, a callback in
the middle of a loop that may throw, views into buffers, allocations that fail, and partial results on
errors.

| Component | State | Operations | Talks to | What makes it correct |
|---|---|---|---|---|
| `HashBuilder` (`trie/hash_builder`) | last entry `key_`, `value_`, `is_in_db_trie_`; `groups_`, `tree_masks_`, `hash_masks_` of the open branches; `stack_` of node references; `node_collector` | `add_leaf`, `add_branch_node`, `root_hash` (finalises), `reset`, assigning the collector | RLP, Keccak, `prefix_length`; calls the collector from inside `gen_struct_step` | root hash = Yellow Paper's root of the entries; collected nodes = the DB trie's nodes; vectors consistent for any call sequence; the order contract is enforced; calls return |
| `PrefixSet` (`trie/prefix_set`) | `keys_` with markers, cursor `index_`, `sorted_` | `insert`, `contains`, `contains_and_next_marked`, `clear` | used by trie walkers | the cursor stays in range and never changes an answer |
| `Node` (`trie/node`) | three masks, hashes, optional root hash | constructor, `set_root_hash`, storage codec | made by `HashBuilder`, stored through C byte buffers | masks are subsets, one hash per bit; decoding inverts encoding and refuses the rest |
| C byte buffers (`common/bytes`) | data, length, capacity | create, resize, append, destroy | all C wrappers | length never exceeds capacity, contents survive growth and failure |
| RLP (`rlp/`) | none; a cursor (`ByteView&`) that decoding moves | `encode`, `length`, `decode_header`, `decode` of strings, integers, vectors, item lists | big-endian conversions | length agrees with encode; decoding inverts encoding, accepts canonical input only, and leaves the cursor where its interface says |
| Endian (`common/endian`) | thread-local buffers | load, store, compact forms | RLP | compact forms are minimal, views are used before the next call |
| Vector root (`trie/vector_root`) | none | `adjust_index_for_rlp`, `root_hash` | feeds `HashBuilder` | the permutation visits each index once, in the order of its RLP; the root is that of the vector |
| Nibbles (`trie/nibbles`) | none | pack, unpack | keys of `HashBuilder` | packing inverts unpacking |
| bytes32 (`types/evmc_bytes32`) | none | padding, RLP | RLP | as RLP |
| Utilities (`common/util`) | none | `prefix_length`, hexadecimal text, sizes, decimal and scientific notation | everything | each conversion does what its comment says |
| Other C wrappers, constants | none | forwards and copies | - | - |

The hazards of each, with the line where they bite and the property that covers them,
are in `PROJECT.json`.

## Modules

    ByteStrings     prefix_length, starts_with, operator>
    RlpLengths      how long the header of an encoding is
    NodeRef         RLP of nodes, references to them               EXTENDS RlpLengths
    HashBuilder     the builder, its clients, its properties       EXTENDS NodeRef, ByteStrings
    MerkleTrie      reference: root and DB nodes of a set          EXTENDS NodeRef, ByteStrings
    TrieService     what a builder promises its client             EXTENDS ByteStrings
    HashBuilderRoot the builder as a TrieService of what was added EXTENDS HashBuilder, MerkleTrie,
                                                                   INSTANCE TrieService
    HashBuilderDb   what it collects, against the DB trie          EXTENDS HashBuilderRoot
    HashBuilderTrie the TrieService of what its stack holds        EXTENDS HashBuilderDb,
                                                                   INSTANCE TrieService
    HashBuilderFailure  the builder with a collector that throws   EXTENDS HashBuilder
    PrefixSet       the set, its properties                        EXTENDS ByteStrings, INSTANCE PrefixClosedSet
    PrefixClosedSet reference: the set of strings it stands for    EXTENDS ByteStrings
    CBytes          silkworm_Bytes
    NodeStorage     a node, its storage format, its C interface    EXTENDS CBytes
    Endian          numbers as bytes, the compact form
    Rlp             RLP of strings, numbers, arrays                EXTENDS Endian, RlpLengths
    RlpVector       RLP of lists                                   EXTENDS Rlp
    RlpWriters      threads that encode at the same time           EXTENDS Rlp
    Hex             bytes as text                                  EXTENDS Endian
    TextReader      a client that reads bytes from text            EXTENDS Hex
    RlpItems        reference: what RLP means                      EXTENDS community modules
    ItemStream      reference: a stream of items with readers      EXTENDS RlpItems
    RlpStream       threads that encode, a reader that decodes     EXTENDS RlpWriters, TextReader, RlpVector,
                                                                   RlpItems, INSTANCE ItemStream
    Nibbles         pack_nibbles, unpack_nibbles
    VectorIndex     the order of indices, their keys               EXTENDS Rlp, Nibbles
    VectorRoot      root_hash of a vector                          EXTENDS HashBuilder, VectorIndex
    VectorRootTrie  its result against the reference               EXTENDS VectorRoot, MerkleTrie
    MC*             constants of the instances
    ByteStringLemmas, HashBuilderProofs, HashBuilderRootProofs, HashBuilderFailureProofs,
    PrefixSetProofs, NodeStorageProofs, VectorRootProofs, RlpProofs    proofs

### HashBuilder

*State.* The variables with a trailing underscore are the members. `pc`, `call`,
`current` and `build_extensions` are the frame of a call that is inside
`gen_struct_step`. `collected`, `root`, `entries`, `sealed` record what the client saw
and did; no action reads them to decide anything except the bound `MaxEntries`.
`Vector<uint16_t>` of masks are sequences of sets of digits, so `groups_[len]` of the
code is `groups_[len + 1]` here; lengths are those of the code.

*Steps.* A call on an empty builder is one step. Otherwise the assertion on the key and
the entry into `gen_struct_step` are one step and each iteration of its `for (;;)` is
one: `KeepGroup` (the return at line 207), `CloseGroup` (the loop goes on), and
`CloseLastGroup` (the return at 246), or `FailAssertion`. `Return` is the remainder of the
call and belongs to the iteration that leaves the loop: storing the new last entry, or
finalising and taking the hash off the stack. Each iteration is written as the sequence
of values its locals and members take: `groups_grown`, then `stack_pushed` /
`tree_masks_pushed` / `hash_masks_pushed` for the pending entry, then `..._built` after
the extension node, then `..._branched` / `..._closed` after the branch. `failing` lists the assertions in
the order the code meets them, including the two of `branch_ref` and `Node`; an access
past the bottom of the stack (line 263, unchecked in the code) counts as one of them so
that it cannot go unnoticed. After an abort nothing happens: the process is gone.

*Data.* Encodings are records of an exact length and a term for the contents
(`NodeRef`): the length decides whether a node is embedded or hashed, the term lets two
encodings be compared. Keccak is the term itself, hence injective. `rlp_buffer_` is scratch.

*Clients.* `Spec` lets a client call anything: keys in any order, equal, empty,
extending one another, hashes at any key, the collector set and cleared between any
two calls. `LegalSpec` is a client that keeps to the header's contract and to what it
takes for granted.

### MerkleTrie, TrieService, HashBuilderRoot, HashBuilderDb and HashBuilderTrie

`MerkleTrie` defines the root from the set of all entries downwards, as Appendix D of
the Yellow Paper does, with its own hex-prefix, and a function of the places of the trie (the
prefixes of the keys) instead of a stack. Which nodes the DB trie has it defines from the prefixes of keys alone:
the branches with a hashed child, and those above a stored node, new (`Stored`) or in the DB already (`in_db`). The lengths of encodings are those of `NodeRef`. `TrieService` is the abstract machine: a set of
entries that only grows, in the order of keys, and is asked for its root.

The builder is shown to implement it twice. From outside, in `HashBuilderRoot`, the set is what the client
added (`ServesMerkleTrie`). From inside, in `HashBuilderTrie`, it is what the builder still
*has*: the mapping decodes the stack, the entries below a reference being found by walking the terms,
at the position that `groups_` gives it. So `ImplementsMerkleTrie` does not only compare results at the
end: in the middle of every loop, no entry may be lost, duplicated under another key, or out of
place. `OpenTrie` says why both hold: `groups_` are the digits the entries have along the
pending key, and `stack_` holds, from the root down and digit by digit, the references to exactly the
subtries under them.

`HashBuilderDb` says what the collector is for: it gets exactly the DB trie of the entries (`CollectedIsDbTrie`), and
that is enough to rebuild the trie with a hash in the place of any hashed child (`RebuildsFromCollected`).
`FlagsOfTrie`, `CollectedSoFar` and `PendingFits` say why, in the middle of every loop: what the bits of the two
vectors of masks mean, digit by digit, and that the nodes given away so far are those of the part of the trie that is closed.

### HashBuilderFailure

An exception of `node_collector` (line 236) leaves the call between two iterations. `CollectorThrows` is
that state: what the iteration has done up to line 236 stays, the rest does not happen, and the entry of the
call was not accepted. `StartAgain` is `reset`, the only thing a client can do with such a builder
that has a meaning; `collected` is history of the attempt that succeeds. The question is
whether `reset` clears enough, and whether an exception that leaves after the branch went on the
stack can be mistaken for progress (the mutant catches it inside the loop).

### PrefixSet and PrefixClosedSet

`keys_`, `index_` and `sorted_` are the members, and a call is one step; `reply` is what
the last one returned. `ensured` is what `ensure_sorted` makes of the keys. `std::sort`
and `std::unique` are stated by rank, the item that n others precede comes n-th, which
is no recursion and can be proved about. `start` and `stop` are where the two loops of `contains`
leave the cursor. `next_marked` compares like `memcmp`: a key shorter than the compared part is
followed by the zero that ends a string, and whether bytes behind that differ is a free choice
(`ReadsBeyond`), so that a property holds only if they never matter.

`PrefixClosedSet` is the class comment: the strings that some inserted string starts with. It
has no order, no duplicates and no cursor. Its `answer` names the question, or else an answer to another
one would do.

### CBytes and NodeStorage

A client of the C interface has one node and one buffer, and calls anything on them: it constructs nodes that satisfy the
assertions or not, sets root hashes, encodes, decodes the buffer or any other bytes, resizes and appends.
A byte is the set of its bits, so that masks, the six bytes they are stored in, and subsets need no
arithmetic and can be proved about. An allocation may fail; fresh memory holds any byte of
`Uninitialised`; `SizeModulus` is 2^64 in the code and 256 in the instance, so that the doubled capacity
wraps within reach. `failed` and `stored` are history: that the last masks came from a decode that
failed, and which node the buffer is the encoding of. What a client may not do (read a buffer whose
length is beyond its memory, ask for sizes of half of all memory and append on top) is a guard.

### Endian, Rlp, RlpVector, RlpWriters, Hex, TextReader, RlpStream

The pure functions are operators over bytes as numbers. An encoder is the sequence of *chunks* it
appends, each of bytes and possibly a number in compact form: that is where the code holds a view of the
thread-local buffer. `RlpWriters` lets threads interleave there (`ToBigCompact`, `AppendChunk`), with
any chunks to append. `TextReader` is a client that reads bytes from hexadecimal text. A text is what is in memory from the
first character of a view on: `from_hex` looks at the view, `is_valid_hash` and `is_valid_address` take the length of the view but match the
characters up to the first terminator (`s.data()` at `util.hpp:62`), which may be in the view or behind it. `VerdictOnCString` says
what follows from that, in both directions. `RlpStream` puts them together: the
threads encode messages, then a reader decodes what one of them wrote, or bytes from text, with any request (type,
leftover mode, interface). Its steps that change the variables of `RlpWriters` and `TextReader` are their actions
(`Encode` is `Begin` with the chunks of a message), so that what is proved of them holds in it. A decoder returns an error or a value, and the place its view is at in either case; C++ callers
get that place, those of the C interface only on success, and `evmc_rlp_decode` never moves the caller's
pointer (`AdvancesView`). `silkworm_from_hex` returns freed memory: any byte of `Garbage`.

`RlpItems` is Appendix B of the Yellow Paper: items, their one encoding, and which items a C++
type stands for. `ItemStream` is the promise of the interface: a writer appends items, a reader gets the
value of the next one if it fits what it asks for, and otherwise an error, after which it still has its
place (C) or not (C++). After place or trust is lost nothing is promised but what `AcceptedIsCanonical` says
of all bytes: what is accepted is the one encoding of what is returned.

### VectorIndex, VectorRoot, VectorRootTrie

`VectorRoot` composes `root_hash(v, encoder)` with `HashBuilder`: the loop body is a call of `add_leaf`, and the
loop waits while the builder is in `gen_struct_step`. `j` is the number of entries the builder
accepted. `api` says whether values are encoded by `rlp::encode` or through the callback of
`silkworm_trie_root_hash`, of which only the length arrives. `VectorRootTrie` states the result
with `MerkleTrie`: keys from `index_key`, values from the vector, no order and no loop.

## Runs

| Run | Specification, instance | Shows |
|---|---|---|
| `any_client` | `Spec`; 10 keys that are equal, nested or part at the 1st, 2nd or 3rd nibble; 3 entries; collector on and off at will | no call sequence makes masks or stack inconsistent; only assertions on input fail; accepted entries satisfy the contract; branches have two children or more, in order; the loop shrinks |
| `contract` | `LegalSpec`; 7 keys; leaves of 1 and 30 bytes of RLP, the latter 32 bytes as a leaf on an empty path; 4 entries | the builder implements `TrieService`, for what was added and for what the stack holds; the stack is that of the open trie; no assertion fails except the one of `child_hash` |
| `collector` | `FailureSpec`: `LegalSpec` and collectors that throw; 11 keys; values of 33 bytes; leaves and known hashes, stored or not; 4 entries | what is collected is the DB trie, children first; each hash in it can replace its subtrie; also on the attempt after an exception |
| `root_after_add` | `Spec` | finding: the root hash is not that of all added entries |
| `child_hash` | `LegalSpec` | finding: a branch shorter than 32 bytes aborts a builder with a collector |
| `prefix_set` | 5 keys with and without marker, nested or apart; 9 queries below, between, above and beyond them, with every length of the invariant part and one too many; 3 keys at a time | `PrefixSet` implements `PrefixClosedSet`; the cursor stays in range; keys flagged as sorted are; the next marked key is the first from the prefix on |
| `next_marked` | the same | finding: when all keys are smaller than the prefix, a marked key before it is returned as the next |
| `c_storage` | masks 0 and 0x0101, no or two hashes, root hash or not; 7 byte strings from outside that are well formed, too short, too long by a byte or a hash, with too few or too many hashes, or with masks that are not subsets; sizes 0 and one beyond half of memory | buffers stay within memory, only failed decodes make ill-formed nodes, encoded nodes are read, one reading per byte string, appends are all or nothing |
| `failed_decode` | the same | finding: a failed decode leaves a node that breaks the invariants of its header |
| `rlp` | 2 threads, 2 messages out of 16 on both sides of every boundary of lengths, 64 texts that spoil encodings, are spoilt, or have a terminator inside, 27 requests (types, modes, interfaces), 2 reads in a row | concurrent encoders do not disturb each other, chunk by chunk and in the result; lengths agree; readers get their items back; what is accepted is canonical; text is read; a hash or an address is judged by the C string its view points at |
| `vector_root` | `FairVSpec`; vectors of 0, 1, 2, 3, 17, 127, 128, 129 and 130 elements, one in five long enough to be hashed; both interfaces | the root is that of the vector; no assertion fails; the whole loop ends |
| `c_root_hash` | `VSpec`, the same | finding: through the C interface the values are zero bytes |

*Why the bounds are enough.* For `HashBuilder`, one iteration looks at the last group, the pending key and the
succeeding key; two entries make a branch, three make one below or beside another, four
make a branch with a branch and siblings on both sides. Keys go up to five nibbles so that extensions
of zero to three nibbles occur above leaves, hashes and branches, and digits 0 and 15
are the ends of a mask. Which digits and values they are makes no difference
to the control, and the theorems below hold for all of them. `MaxEntries` bounds the
entries between two resets; calls without entries (`root_hash`, `reset`, the collector) are not bounded.
`CHECK_DEADLOCK FALSE` where the process can abort; in `collector` it cannot
(values are long), and the absence of deadlock is checked. For `PrefixSet`, three keys let the
cursor stand before, on and behind the key a query is about when another key is inserted or a duplicate
removed, and go back over two keys; the theorems hold for any number.

For `NodeStorage`, the code looks at masks only through
subset and popcount, and at lengths only through `(n - 6) / 32` against popcount; the instance has each
outcome of both, and the theorems hold for every mask, hash and memory size. For `rlp`, branches depend on the first byte's
class, on 55 and 56, on a leading zero and on what is left over: messages and
texts are on either side of each; two threads suffice for one to overwrite a shared buffer between
the two steps of the other, and two reads for one to start where another left the view. For `vector_root`, the
lengths are those around which `adjust_index_for_rlp` changes, and the theorems cover the lengths between.

*Fairness.* `FairVSpec` has weak fairness of the next step of `root_hash(v)`: the thread that called it runs.
The caller adds all elements in one loop, so nothing else has to happen for `RootIsReturned`,
which includes that every call of the builder ends and none aborts. A client of the bare builder is not obliged to call anything, and no fairness is assumed of it:
that its calls end is `LoopShrinks`, proved for any keys. Safety needs no fairness.

Every property of a passing run has a mutant in `PROJECT.json`: a `Wrong:` operator just before
the definition it replaces, a bug one could make in that code, which violates the property.

## Proofs

`HashBuilderProofs` proves, for every set of keys over the digits, every set of values,
lengths and hashes, and every bound, from the named assumptions (`RlpLengthAssumption`,
`EmptyBytesAssumption`, `KeysAssumption`, `MaxEntriesAssumption`):

| Theorem | Statement |
|---|---|
| `Invariance` | `Spec => []IInv` |
| `TypeCorrect`, `OnlyClientErrors`, `ContractIsEnforced`, `MasksStayWithinGroups`, `StackNeverUnderflows` | the invariants of `any_client` |
| `LoopEnds` | `Spec => LoopShrinks` |
| `LegalClientsAreSafe` | `LegalSpec => []ContractNeverAborts` |

None of the invariants is inductive by itself. `IInv` adds three facts: `LastEntryPending`
(the key in `key_` is the last entry, so the assertion on it says something about
`entries`), `GroupsAlongKey` (between calls, there are no more groups than nibbles in the
key, so that indices into it exist), and `CallInProgress` (inside the loop, `current` is a
prefix of the pending key that covers the groups, and from the second iteration on goes
beyond the common prefix with the succeeding key, so that `len < current.length()` and the
extra digit is the child just closed). `StackCoversGroups` then counts: an iteration pushes one
reference and adds one digit, or takes `|group|` references off and puts one back, and the
witness for the segments is cut or extended accordingly. `MasksWithinGroups` needs the exception
for the digit of the branch being closed, which enters its parent's masks one iteration before
its group. `ContractEnforced` for *all* pairs follows from the last key only because a
key between an extension and its prefix extends the prefix too (`BetweenExtension`);
that the last key is not extended is what the assertion at line 148 decides. `LegalInv` adds that
the succeeding key does not extend the pending one, under which that assertion holds.

`BranchesHaveChildrenInOrder` (`Spec => []BranchesInOrder`, any client) needs that `current` stays on the
pending key (`CurrentAlongKey`) and that the digits of an open group are those of earlier entries that
lead to it, hence below the pending entry's digit there (`DigitsRise`; together `OrderInv`).

`HashBuilderRootProofs` proves that the root is right, from the same assumptions and, as `KeysAssumption` is about
digits only, for keys of any length:

| Theorem | Statement |
|---|---|
| `RootInvariance` | `LegalSpec => []RootInv` |
| `TrieStaysOpen` | `LegalSpec => []OpenTrie` |
| `RootIsOfMerkleTrie` | `LegalSpec => ServesMerkleTrie`, the refinement of `TrieService` |
| `AnswersAreRoots` | `LegalSpec => []AnswerIsRoot`: what `root_hash` returned last is the root of the entries |
| `ReferenceIsLocal` | the reference to a node depends on the entries below it only |
| `EncodePathIsHexPrefix` | `encode_path` is the hex-prefix encoding, for any path |

That the answer is the root is a fact about the last step of `root_hash`; the invariant has to say what the
stack means before. `OpenTrie` does, for every iteration: the groups along the pending key are the digits
of the entries without the pending one, the top of the stack holds the references to the children of the open branches,
and between `CloseGroup` and the next iteration the reference to the branch just closed. It is inductive
with `LegalInv` and `OrderInv` (which give the shape of the groups and the order of their digits, and hence the place
of each reference on the stack), `FinishedTrie` (after `root_hash` the one reference is to the root) and `EntriesFit` (the pending value is the
last entry's; the entry of the call in progress fits). Each way out of an iteration has a lemma: `KeepGroupAdds` and
`CloseGroupHolds` show that the reference pushed is the one `Composed` defines of a leaf, an extension or
a branch at that place, and `CloseLastGroupAnswers` that at the outermost branch it is the root. Adding an entry
(`EntryAdded`) changes the set the references are of; they stay the right ones by `ReferenceIsLocal`,
since the new key is behind all of them. The reference itself is a function defined by recursion on the places; that
it exists (`ReferencesExist`) is shown by an increasing chain of functions, from the longest places up, since induction
over data is not available. `ServesMerkleTrie` follows step by step.

`PrefixSetProofs` proves, from `KeysAssumption` and `QueriesAssumption`, all invariants of `prefix_set`
(`PrefixSetTypeCorrect`, `CursorStaysInRange`, `KeysStaySorted`, `NextMarkedIsTheFirst`) and the refinement
`IsPrefixClosedSet`, for all keys, queries and numbers of insertions. `CursorInRange` compares the
cursor with the number of *different* keys, because that is what sorting leaves; it is inductive only
with `SortedIsSorted`, which says that flagged keys have no duplicates (`IInv`). `SortUnique` shows that the
ranks of a finite set of items are a bijection onto `0..n-1`. `Cursor` says where a search ends: behind
all smaller keys, unless the last key is smaller too, and at most on the second of two items with the
prefix as key, whose first is unmarked. From it follow `ContainsIsMembership`, by which one comparison
decides for all keys, and, with `ComparisonWithinKey`, that from the cursor on `memcmp` decides within
the key.

`HashBuilderFailureProofs` is about the collector, under `FailureSpec`, in which it may throw:

| Theorem | Statement |
|---|---|
| `CollectorSeesChildrenFirst` | `FailureSpec => []CollectedBottomUp` |
| `CollectorGetsDbTrie` | `FailureSpec => []CollectedIsDbTrie` |
| `CollectedRebuilds` | `FailureSpec => []RebuildsFromCollected` |
| `HashStandsForSubtrie` | what `RebuildsFromCollected` says, of any trie and any hashed child of a branch |
| `ResetRecovers` | `reset` brings the whole invariant back after an exception |

That the collector gets
children before parents needs, besides `OrderInv`, that what was collected is *closed*: the next entry is behind all extensions of a
collected key (`CollectedClosed`), which only the documented order of entries gives (`CollectInv`, with `LegalInv`). After an exception
nothing of that holds but `CollectedBottomUp` itself; `FailureInv` says so until `reset`, which establishes `CollectInv` anew.

What it gets is proved with `DbInv`: `RootInv` and `CollectInv`, and three invariants of `HashBuilderDb`. `FlagsOfTrie`:
at each position along the key, of the digits whose subtrie is complete, `hash_masks_` has those that are hashed and
`tree_masks_` those with a stored node. The branch just closed is complete before its group has its digit (`Complete`); this
is the state in which flags of a closed branch could be mistaken for those of its parent, or be lost on the way up an
extension, which has no hash of its own but hands on a stored node (`OnTheWay`). `CollectedSoFar`: the collected nodes are those of the
closed branches (`Closed`) whose node is stored, and the hashes in them are what their parents refer to. `PendingFits`: the flag of the pending
hash is that of its entry, and no flags are left when no entry is pending. Whether a place is hashed or stored, and the node there, depend on the
entries below it only (`HashedIsLocal`, `StoredIsLocal`, `DbNodeIsLocal`), so that the next entry changes nothing but along its key
(`KeepGroupNodes`); `ClosingNodes` shows that an iteration that closes a branch closes no other. That
no node is collected twice follows from the order (`CollectedOnce`). `DbFailureInv` is the inductive invariant with exceptions.

`CollectedRebuilds` needs in addition that the answer is the root (`AnswerFits`) and the theorem about tries. That theorem goes from the longest
places up (`SameReference`): at the hash the reference is the one that was there, beside it nothing
changes (`ReferenceIsLocal`), and on the way to it each branch and each extension has the children it had, with the same references.

TLC finds no state that breaks `OrderInv` in the instance of `any_client`, or `FailureInv` and `DbInv`'s parts in that of `collector`.

`NodeStorageProofs` proves, for every size of memory, set of masks, hashes, byte strings and sizes within
`NodeAssumption`, all six properties of `c_storage`. The lemma under them is `EncodedNodeIsDecoded`: the
masks come back from their two bytes each, `hashes_of` undoes `hashes_data` (division and remainder by 32),
and the number of hashes beyond the popcount is 1 exactly if there was a root hash. `StoredNodeIsRead` is
inductive because of a fact about buffers only: what is encoded is the length in use, and whatever changes
that resets `stored`. `AcceptedBytesAreCanonical` is the converse lemma, by cases on the position of
a byte. `LengthWithinCapacity` needs the restriction to less than half of memory, and no more: below it,
twice the size does not wrap.

`VectorRootProofs` proves of `adjust_index_for_rlp` that it permutes `0..len-1` for every `len`
(`EveryIndexOnce`), and that along it the keys strictly increase and none is a prefix of another
(`KeysIncrease`), for lengths of up to 64 bits: the encoding of an index is 0x80, a byte below it, or a byte that tells how many
follow and the compact form, and compact forms are in the order of the numbers (`CompactOrder`). Then it carries that
through `HashBuilder`: `LoopInv` says which entries were added and that the call in progress adds the next, so every `add_leaf`
is one `LegalSpec` allows (`RootHashIsALegalClient`); with `LegalInv` and no collector installed none of the assertions
fails (`VectorsNeverAbort`). When the loop is done every element is an entry and every entry an element, by `EveryIndexOnce`
(`AllAdded`), so that with `RootInv` the root is that of the vector (`RootOfAnyVector`). These assume that `MaxEntries` is a number of 64 bits, as `size_t` is.

`RlpProofs` is about all strings, numbers and texts:

| Theorem | Statement |
|---|---|
| `ThreadsDoNotInterfere` | `WritersSpec => ChunksAppendedWhole`, for any threads and chunks |
| `StringIsRead`, `ArrayIsRead`, `UintIsRead`, `BoolIsRead` | decoding what was encoded, followed by anything, gives the value and leaves what follows, or the one error the mode or the type calls for |
| `StringIsCanonical`, `ArrayIsCanonical`, `UintIsCanonical`, `BoolIsCanonical` | whatever bytes a decoder accepts are the encoding of what it returns, followed by what it leaves |
| `HeaderLength`, `StringLength`, `UintLength` | `length` counts the bytes `encode` appends |
| `TextsAreRead`, `VerdictsAreOnCStrings` | `TextSpec => []TextIsRead`, `TextSpec => []VerdictOnCString` |
| `HexIsRead` | `from_hex` undoes `to_hex` |

`WritersInv` is what makes the first inductive: the view a thread holds is that of its next chunk's number, and its own buffer has
that number's bytes. The codec rests on `CompactForm`, `CompactIsRead` and `ReadIsCompact` of `ByteStringLemmas`: the
compact form of a number of 64 bits has no leading zero and is read as that number, and every string without one is the compact form of
what it is read as. The text theorems rest on `DigitsAreRead` and `DigitsAreWritten`, two digits to a byte, and on the two
tables of digits undoing each other; `VerdictsAreOnCStrings` besides on the terminator not being a digit (`MatchedUpToTerminator`).

`HashBuilderProofs` begins with the lemmas about one iteration (what each intermediate value is, for
each way it can end); `ByteStringLemmas` has those on prefixes, the order, and numbers as bytes. The loops over bytes are recursive
functions (`shifted`, `load_big`, `Written`), and what they compute is proved by induction over a *set* of indices
(`IntervalInduction`, `IterationExists`), which needs no operator as a parameter.

Only model-checked:

- liveness (`RootIsReturned`): out of the prover's reach;
- `ImplementsMerkleTrie`, which reads the stack back with a recursive operator; what it implies for the client, `ServesMerkleTrie`, is
  proved without it;
- `EncodedIsRlp`, `LengthsAgree`, `AcceptedIsCanonical` and `ImplementsItemStream` as they are stated, over nested items and lists: recursive
  operators on the type. What they say of strings, numbers, booleans, arrays and headers is in the theorems above; what is
  added for lists is not. `TypeOK` of `RlpStream` shares its module; `WritersInv` and `TextInv` cover its parts without a list.

## Disagreements with the documentation

Four of the findings in `PROJECT.json` are of the C++ classes and one of the C interface, each the
counterexample of a run that expects it: `root_after_add`, `child_hash`, `next_marked`, `failed_decode`,
`c_root_hash`.

## Not modelled

- `silkworm_rlp_encode_header` (encode.cpp:67-89): it passes the buffer's length and capacity to a
  constructor that reads its argument up to a zero byte, and returns a pointer into a local string. There is
  no outcome to state a property of.
- `silkworm_rlp_decode_bytes` allocates with `new[]` what C callers have only `free` for (decode.cpp:124).
- `evmc_rlp_encode`, `evmc_to_hex`, the getters of `Node`, the C functions of `HashBuilder`
  and `PrefixSet` and those of `Nibbles`: forwards and copies.
- `parse_size` and `from_string_sci` (regular expressions and decimal text), `human_size`, `to_float`, `abridge`,
  `to_hex` of numbers, `iequals`: stateless conversions of text nothing else in the library uses.
- The unrolled loop of `from_hex` (util.cpp:148-166), which does eight digits at a time what the loop after it does two at a time: `from_hex`
  of the model is the result of both, so a mistake in the unrolling alone would not show. A text in memory without a terminator, which
  `is_valid_hex` would read beyond.
- Little-endian loads and stores, unused in the library, and `uint256` in RLP beyond 64 bits. TLC's integers end at 2^31, so that
  its runs have zeros in the upper four of eight bytes; the theorems have all numbers of 64 bits.
- The bytes a view returned by `contains_and_next_marked` refers to after the next insertion: the model returns the key itself.
- Calls of the builder from inside its collector; none in the repository makes any.
- `HashBuilder`'s documentation is about keys of one nibble per byte; a byte above 15 as a digit
  is outside its contract (`1u << digit`, line 155) and not modelled.
- A root that is a leaf or an extension is never collected. `tests/trie/hash_builder_test.cpp:123-128`
  knows ("apparently"), so `CollectedIsDbTrie` says *branch* nodes.
