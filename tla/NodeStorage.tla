---------------------------- MODULE NodeStorage ----------------------------
(***************************************************************************)
(* A trie node of the intermediate-hash tables and its storage format, as  *)
(* a client of the C interface uses them: one silkworm_Node, one           *)
(* silkworm_Bytes to encode it into and decode it from, and bytes read     *)
(* from elsewhere, which may be anything.                                  *)
(***************************************************************************)
EXTENDS CBytes, FiniteSets

CONSTANTS
    Masks,             \* the masks a client creates nodes with
    HashLists,         \* the lists of hashes it creates nodes with
    RootHashes,        \* the root hashes it sets, NoHash among them
    Raws,              \* the byte strings it decodes, and those it has as strings
    Appended,          \* the byte strings it appends
    Sizes,             \* the capacities and sizes it asks for
    NoNode             \* no node: nullptr

kHashLength == 32

Digit == 0..15
Hash == [1..kHashLength -> Byte]
NoHash == << >>

Node == [state_mask : SUBSET Digit, tree_mask : SUBSET Digit,
         hash_mask : SUBSET Digit, hashes : Seq(Hash), root_hash : Hash \cup {NoHash}]

ASSUME NodeAssumption ==
    /\ Masks \subseteq SUBSET Digit
    /\ HashLists \subseteq Seq(Hash)
    /\ RootHashes \subseteq Hash \cup {NoHash}
    /\ Raws \subseteq Seq(Byte) /\ Appended \subseteq Seq(Byte)
    /\ Sizes \subseteq 0..(SizeModulus - 1) \ {HalfOfMemory}
    /\ NoNode \notin Node

VARIABLES
    node,              \* the node, or NoNode
    buffer,            \* the silkworm_Bytes
    aborted,           \* an assertion has stopped the program
    failed,            \* the last node value comes from a decode that failed
    stored             \* the well-formed node buffer is the encoding of, or NoNode

vars == <<node, buffer, aborted, failed, stored>>

-----------------------------------------------------------------------------
(* The node and its storage format.                                        *)

is_subset(sub, sup) == sub \subseteq sup

popcount(mask) == Cardinality(mask)

store_big_u16(mask) == <<{d - 8 : d \in mask \cap 8..15}, mask \cap 0..7>>

load_big_u16(high, low) == {b + 8 : b \in high} \cup low

\* The bytes of a vector of hashes, one after the other.
hashes_data(hashes) ==
    [i \in 1..kHashLength * Len(hashes) |->
        hashes[((i - 1) \div kHashLength) + 1][((i - 1) % kHashLength) + 1]]

\* The vector of hashes that has these bytes.
hashes_of(data) ==
    [j \in 1..Len(data) \div kHashLength |->
        SubSeq(data, kHashLength * (j - 1) + 1, kHashLength * j)]

DefaultNode == [state_mask |-> {}, tree_mask |-> {}, hash_mask |-> {},
                hashes |-> << >>, root_hash |-> NoHash]

\* What the constructor of Node asserts.
Asserted(n) ==
    /\ is_subset(n.tree_mask, n.state_mask)
    /\ is_subset(n.hash_mask, n.state_mask)
    /\ popcount(n.hash_mask) = Len(n.hashes)

\* Wrong: the root hash is written after the hashes.
encode_for_storage_wrong(n) ==
    store_big_u16(n.state_mask) \o store_big_u16(n.tree_mask) \o
    store_big_u16(n.hash_mask) \o hashes_data(n.hashes) \o n.root_hash

encode_for_storage(n) ==
    store_big_u16(n.state_mask) \o store_big_u16(n.tree_mask) \o
    store_big_u16(n.hash_mask) \o n.root_hash \o hashes_data(n.hashes)

\* The node with the masks that the bytes begin with, and these hashes.
Loaded(raw, root_hash, hashes) ==
    [state_mask |-> load_big_u16(raw[1], raw[2]),
     tree_mask  |-> load_big_u16(raw[3], raw[4]),
     hash_mask  |-> load_big_u16(raw[5], raw[6]),
     hashes |-> hashes, root_hash |-> root_hash]

\* Wrong: bytes after the last whole hash are let through.
HasNodeLength_wrong(raw) == Len(raw) >= 6

\* The bytes may be the encoding of a node, as far as their length tells.
HasNodeLength(raw) == Len(raw) >= 6 /\ (Len(raw) - 6) % kHashLength = 0

\* One hash more than the mask announces: the root hash, which comes first.
delta(raw, n) == (Len(raw) - 6) \div kHashLength - popcount(n.hash_mask)

\* Wrong: all the hashes beyond the expected ones are taken for the root hash.
ValidMasks_wrong(raw, n) ==
    /\ is_subset(n.tree_mask, n.state_mask)
    /\ is_subset(n.hash_mask, n.state_mask)
    /\ delta(raw, n) >= 0

\* Wrong: that tree_mask is within state_mask is not checked.
ValidMasks_unchecked(raw, n) ==
    /\ is_subset(n.hash_mask, n.state_mask)
    /\ delta(raw, n) \in {0, 1}

ValidMasks(raw, n) ==
    /\ is_subset(n.tree_mask, n.state_mask)
    /\ is_subset(n.hash_mask, n.state_mask)
    /\ delta(raw, n) \in {0, 1}

\* Masks and hashes are overwritten before they are validated.
decode_from_storage(raw, n) ==
    LET masked == Loaded(raw, NoHash, << >>)
        root == kHashLength * delta(raw, masked)
    IN  CASE ~HasNodeLength(raw) -> [ok |-> FALSE, node |-> n]
          [] HasNodeLength(raw) /\ ~ValidMasks(raw, masked) -> [ok |-> FALSE, node |-> masked]
          [] HasNodeLength(raw) /\ ValidMasks(raw, masked) ->
                [ok |-> TRUE,
                 node |-> Loaded(raw, SubSeq(raw, 7, 6 + root),
                                 hashes_of(SubSeq(raw, 7 + root, Len(raw))))]
-----------------------------------------------------------------------------
(* The client's calls.                                                     *)

Init ==
    /\ node = NoNode
    /\ buffer = NullBytes
    /\ aborted = FALSE
    /\ failed = FALSE
    /\ stored = NoNode

silkworm_Node_create ==
    /\ node = NoNode
    /\ node' = DefaultNode
    /\ UNCHANGED <<buffer, aborted, failed, stored>>

silkworm_Node_create_with_params(n) ==
    /\ node = NoNode
    /\ IF Asserted(n)
       THEN node' = n /\ aborted' = FALSE
       ELSE node' = NoNode /\ aborted' = TRUE
    /\ UNCHANGED <<buffer, failed, stored>>

silkworm_Node_destroy ==
    /\ node' = NoNode
    /\ failed' = FALSE
    /\ UNCHANGED <<buffer, aborted, stored>>

silkworm_Node_set_root_hash(root_hash) ==
    /\ node # NoNode
    /\ node' = [node EXCEPT !.root_hash = root_hash]
    /\ UNCHANGED <<buffer, aborted, failed, stored>>

\* The caller owns the buffer it gets.  That append failed is not looked at.
silkworm_Node_encode_for_storage ==
    LET encoded == encode_for_storage(node)
    IN  /\ node # NoNode
        /\ buffer = NullBytes
        /\ Len(encoded) < HalfOfMemory
        /\ \E created \in silkworm_Bytes_create(Len(encoded)) :
           \E appended \in silkworm_Bytes_append(created, encoded) :
              /\ buffer' = appended.bytes
              /\ stored' = IF appended.ok /\ Asserted(node) THEN node ELSE NoNode
        /\ UNCHANGED <<node, aborted, failed>>

silkworm_Node_decode_from_storage(raw) ==
    LET result == decode_from_storage(raw, node)
    IN  /\ node # NoNode
        /\ node' = result.node
        /\ failed' = IF result.ok THEN FALSE
                     ELSE IF HasNodeLength(raw) THEN TRUE ELSE failed
        /\ UNCHANGED <<buffer, aborted, stored>>

BytesCreate(initial_capacity) ==
    /\ buffer = NullBytes
    /\ buffer' \in silkworm_Bytes_create(initial_capacity)
    /\ UNCHANGED <<node, aborted, failed, stored>>

StringToBytes(string) ==
    /\ buffer = NullBytes
    /\ Len(string) < HalfOfMemory
    /\ buffer' \in silkworm_string_to_bytes(string)
    /\ UNCHANGED <<node, aborted, failed, stored>>

BytesDestroy ==
    /\ buffer' = silkworm_Bytes_destroy(buffer)
    /\ stored' = NoNode
    /\ UNCHANGED <<node, aborted, failed>>

BytesResize(new_size) ==
    /\ \E resized \in silkworm_Bytes_resize(buffer, new_size) :
          /\ buffer' = resized.bytes
          /\ stored' = IF resized.ok THEN NoNode ELSE stored
    /\ UNCHANGED <<node, aborted, failed>>

\* Two byte strings in memory are together smaller than half of it.
BytesAppend(data) ==
    /\ Valid(buffer)
    /\ buffer.length + Len(data) < HalfOfMemory
    /\ \E appended \in silkworm_Bytes_append(buffer, data) :
          /\ buffer' = appended.bytes
          /\ stored' = IF appended.ok THEN NoNode ELSE stored
    /\ UNCHANGED <<node, aborted, failed>>

\* Views of C memory that a client decodes: the buffer's, and other bytes.
Views == Raws \cup {silkworm_ByteView_create(b) : b \in {c \in {buffer} : Valid(c)}}

Next ==
    /\ ~aborted
    /\ \/ silkworm_Node_create
       \/ \E n \in [state_mask : Masks, tree_mask : Masks, hash_mask : Masks,
                    hashes : HashLists, root_hash : RootHashes] :
             silkworm_Node_create_with_params(n)
       \/ silkworm_Node_destroy
       \/ \E root_hash \in RootHashes : silkworm_Node_set_root_hash(root_hash)
       \/ silkworm_Node_encode_for_storage
       \/ \E raw \in Views : silkworm_Node_decode_from_storage(raw)
       \/ \E size \in Sizes : BytesCreate(size)
       \/ \E string \in Raws : StringToBytes(string)
       \/ BytesDestroy
       \/ \E size \in Sizes : BytesResize(size)
       \/ \E data \in Appended : BytesAppend(data)

Spec == Init /\ [][Next]_vars
-----------------------------------------------------------------------------
(* Properties.                                                             *)

TypeOK ==
    /\ node \in Node \cup {NoNode}
    /\ buffer \in silkworm_Bytes
    /\ aborted \in BOOLEAN
    /\ failed \in BOOLEAN
    /\ stored \in Node \cup {NoNode}

\* The presumed invariants of node.hpp: both masks within state_mask, and as
\* many hashes as hash_mask has bits.
PresumedInvariants == node # NoNode => Asserted(node)

\* A node is as node.hpp presumes unless the last call that gave it its masks
\* is a decode that failed, whatever was decoded, assigned or constructed
\* before: only decode_from_storage, on failure, lets an ill-formed node out.
IllFormedOnlyAfterFailedDecode == failed \/ PresumedInvariants

\* A buffer's length stays within the memory behind it, as long as nobody asks
\* for half of all memory, through every sequence of allocations that succeed
\* and fail in silkworm_Bytes_create, _resize and _append.
LengthWithinCapacity == buffer.length < HalfOfMemory => Valid(buffer)

\* The bytes of a node that was well formed when it was encoded decode to that
\* node, whatever became of the node and whatever node they are decoded into;
\* in particular an encoding that ran out of memory never passes for a node.
StoredNodeIsRead ==
    stored # NoNode =>
        /\ Valid(buffer)
        /\ ~silkworm_ByteView_is_null(buffer)
        /\ \A n \in {node, DefaultNode} :
              decode_from_storage(silkworm_ByteView_create(buffer), n)
                  = [ok |-> TRUE, node |-> stored]

\* A byte string has one reading: what decode_from_storage accepts is, byte for
\* byte, what encode_for_storage writes for the node it was read into.
AcceptedBytesAreCanonical ==
    [][\A raw \in Views :
          silkworm_Node_decode_from_storage(raw) /\ decode_from_storage(raw, node).ok
              => encode_for_storage(node') = raw]_vars

\* silkworm_Bytes_append keeps what the buffer holds and adds all of the data,
\* or leaves the buffer as it is.
AppendIsAllOrNothing ==
    [][\A data \in Appended :
          BytesAppend(data) =>
              \/ buffer' = buffer
              \/ silkworm_ByteView_create(buffer')
                     = silkworm_ByteView_create(buffer) \o data]_vars
=============================================================================
