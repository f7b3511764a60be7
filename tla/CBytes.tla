------------------------------- MODULE CBytes -------------------------------
(***************************************************************************)
(* The byte buffer of the C interface, silkworm_Bytes: memory from malloc  *)
(* and realloc, of which the first `length' bytes are in use.  A byte is   *)
(* the set of its bits that are 1.  The memory itself is a sequence, so    *)
(* `capacity' is its length; `null' tells the NULL pointer from the zero   *)
(* bytes that malloc(0) may return.  An operation that allocates may fail, *)
(* and what it allocates holds anything: it is the set of its outcomes.    *)
(***************************************************************************)
EXTENDS Integers, Sequences

CONSTANTS
    Uninitialised,     \* the bytes that fresh memory may hold
    SizeModulus        \* a size_t is a number below SizeModulus

ByteBit == 0..7
Byte == SUBSET ByteBit

ASSUME UninitialisedAssumption == Uninitialised \subseteq Byte /\ Uninitialised # {}
ASSUME SizeModulusAssumption == SizeModulus \in Nat /\ SizeModulus % 2 = 0

silkworm_Bytes == [null : BOOLEAN, data : Seq(Byte), length : Nat]

NullBytes == [null |-> TRUE, data |-> << >>, length |-> 0]

capacity(bytes) == Len(bytes.data)

\* No object is larger than half of what a size_t counts.
HalfOfMemory == SizeModulus \div 2

\* The bytes in use are bytes of the memory.
Valid(bytes) == bytes.length <= capacity(bytes)

\* silkworm_ByteView_create(bytes.data, bytes.length), what C callers pass on.
silkworm_ByteView_create(bytes) == SubSeq(bytes.data, 1, bytes.length)

silkworm_ByteView_is_null(bytes) == bytes.null

silkworm_Bytes_create(initial_capacity) ==
    {NullBytes} \cup {[null |-> FALSE,
                       data |-> [i \in 1..initial_capacity |-> byte],
                       length |-> 0] : byte \in Uninitialised}

\* The bytes before the smaller of the two sizes stay.
realloc(data, size) ==
    {[i \in 1..size |-> IF i <= Len(data) THEN data[i] ELSE byte] :
        byte \in Uninitialised}

\* Wrong: the new capacity is half of what is needed.
silkworm_Bytes_resize_wrong(bytes, new_size) ==
    IF new_size > capacity(bytes)
    THEN {[ok |-> FALSE, bytes |-> bytes]} \cup
         {[ok |-> TRUE, bytes |-> [null |-> FALSE, data |-> new_data, length |-> new_size]] :
             new_data \in realloc(bytes.data, new_size \div 2)}
    ELSE {[ok |-> TRUE, bytes |-> [bytes EXCEPT !.length = new_size]]}

\* The doubled capacity wraps: from half of memory on it is less than new_size.
silkworm_Bytes_resize(bytes, new_size) ==
    IF new_size > capacity(bytes)
    THEN {[ok |-> FALSE, bytes |-> bytes]} \cup
         {[ok |-> TRUE, bytes |-> [null |-> FALSE, data |-> new_data, length |-> new_size]] :
             new_data \in realloc(bytes.data, (2 * new_size) % SizeModulus)}
    ELSE {[ok |-> TRUE, bytes |-> [bytes EXCEPT !.length = new_size]]}

\* Bytes from position `at' on replaced by `data'.
memcpy(memory, at, data) ==
    [i \in 1..Len(memory) |-> IF i \in (at + 1)..(at + Len(data))
                              THEN data[i - at] ELSE memory[i]]

\* Wrong: what is appended is written at the start of the buffer.
silkworm_Bytes_append_wrong(bytes, data) ==
    {IF resized.ok
     THEN [resized EXCEPT !.bytes.data = memcpy(@, 0, data)]
     ELSE resized : resized \in silkworm_Bytes_resize(bytes, bytes.length + Len(data))}

silkworm_Bytes_append(bytes, data) ==
    {IF resized.ok
     THEN [resized EXCEPT !.bytes.data = memcpy(@, resized.bytes.length - Len(data), data)]
     ELSE resized : resized \in silkworm_Bytes_resize(bytes, bytes.length + Len(data))}

silkworm_string_to_bytes(string) ==
    UNION {{IF resized.ok
            THEN [resized.bytes EXCEPT !.data = memcpy(@, 0, string)]
            ELSE resized.bytes : resized \in silkworm_Bytes_resize(created, Len(string))} :
               created \in silkworm_Bytes_create(Len(string))}

\* A buffer without memory is left as it is, whatever its length.
silkworm_Bytes_destroy(bytes) == IF bytes.null THEN bytes ELSE NullBytes
=============================================================================
