----------------------------- MODULE RlpWriters ------------------------------
(***************************************************************************)
(* Threads that encode at the same time, each into a buffer of its own.    *)
(*                                                                         *)
(* A thread's encoder is interrupted where it holds a view of the buffer   *)
(* that to_big_compact filled and has yet to append it (endian.cpp:10,     *)
(* encode.cpp:26-29, encode.hpp:35-37).  Nothing here is recursive, so     *)
(* that proofs can use the module.                                         *)
(***************************************************************************)
EXTENDS Rlp

CONSTANTS Threads

VARIABLES
  to,          \* the buffer of each thread
  pending,     \* what is left to append of the value it encodes: chunks
  buffer,      \* the static buffer of to_big_compact, one per thread
  view         \* the length of the view it returned, while that is held

writers == <<to, pending, buffer, view>>

\* What encoders append: bytes, then a number.
Chunks == [bytes : Seq(Byte), number : Uint64]

InitWriters ==
  /\ to = [t \in Threads |-> <<>>] /\ pending = [t \in Threads |-> <<>>]
  /\ buffer = [t \in Threads |-> full_be(0)] /\ view = [t \in Threads |-> 0]

\* A thread has something to append.
Begin(t, chunks) ==
  /\ pending[t] = <<>>
  /\ pending' = [pending EXCEPT ![t] = chunks]
  /\ UNCHANGED <<to, buffer, view>>

\* Wrong: one buffer for all threads, as when SILKWORM_THREAD_LOCAL is "static".
ToBigCompact_static(t) ==
  /\ pending[t] # <<>> /\ view[t] = 0
  /\ LET number == Head(pending[t]).number
     IN  /\ number # 0
         /\ buffer' = [u \in Threads |-> full_be(number)]
         /\ view' = [view EXCEPT ![t] = Len(to_big_compact(number))]
  /\ UNCHANGED <<to, pending>>

\* The number of the next chunk is stored in the thread's buffer.
ToBigCompact(t) ==
  /\ pending[t] # <<>> /\ view[t] = 0
  /\ LET number == Head(pending[t]).number
     IN  /\ number # 0
         /\ buffer' = [buffer EXCEPT ![t] = full_be(number)]
         /\ view' = [view EXCEPT ![t] = Len(to_big_compact(number))]
  /\ UNCHANGED <<to, pending>>

\* The next chunk is appended, with the view if it has a number.
AppendChunk(t) ==
  /\ pending[t] # <<>> /\ (Head(pending[t]).number # 0 => view[t] # 0)
  /\ to' = [to EXCEPT ![t] = @ \o Head(pending[t]).bytes
                               \o SubSeq(buffer[t], Len(buffer[t]) - view[t] + 1, Len(buffer[t]))]
  /\ pending' = [pending EXCEPT ![t] = Tail(@)]
  /\ view' = [view EXCEPT ![t] = 0]
  /\ UNCHANGED buffer

\* The threads alone, whatever they append.
WritersNext ==
  \E t \in Threads :
    (\E chunks \in Seq(Chunks) : Begin(t, chunks)) \/ ToBigCompact(t) \/ AppendChunk(t)

WritersSpec == InitWriters /\ [][WritersNext]_writers

-----------------------------------------------------------------------------

\* A thread appends what it had to append next, all of it, whatever the other threads
\* store in the meantime.
ChunksAppendedWhole ==
  [][\A t \in Threads :
       to'[t] # to[t] =>
         /\ pending'[t] = Tail(pending[t])
         /\ to'[t] = to[t] \o BytesOf(Head(pending[t]))]_writers
=============================================================================
