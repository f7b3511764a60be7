--------------------------------- MODULE Rlp ---------------------------------
(***************************************************************************)
(* rlp/encode.hpp, rlp/encode.cpp, rlp/decode.hpp, rlp/decode.cpp: the RLP *)
(* of byte strings, numbers, booleans and fixed arrays.                    *)
(*                                                                         *)
(* What an encoder appends to its output is a sequence of chunks: bytes,   *)
(* then the compact form of a number, which the code leaves in the buffer  *)
(* of the thread before it appends (no number, and no use of the buffer,   *)
(* when it is 0).  A decoder returns an error or a value, and the view it  *)
(* leaves the caller with, which it advances before it validates what      *)
(* follows; what a failed decoder leaves in its out argument nobody reads. *)
(***************************************************************************)
EXTENDS Endian, RlpLengths

kEmptyStringCode == 128
kEmptyListCode   == 192

Chunk(bytes) == [bytes |-> bytes, number |-> 0]

\* The bytes of a chunk, and of chunks, whose numbers nobody disturbs.
BytesOf(chunk) == chunk.bytes \o to_big_compact(chunk.number)
Written(chunks) ==
  LET to[i \in 0..Len(chunks)] == IF i = 0 THEN <<>> ELSE to[i - 1] \o BytesOf(chunks[i])
  IN  to[Len(chunks)]

-----------------------------------------------------------------------------
(* Encoding.                                                               *)

encode_header(list, payload_length) ==
  IF payload_length < 56
  THEN <<Chunk(<<(IF list THEN kEmptyListCode ELSE kEmptyStringCode) + payload_length>>)>>
  ELSE <<[bytes  |-> <<(IF list THEN 247 ELSE 183) + Len(to_big_compact(payload_length))>>,
          number |-> payload_length]>>

\* A byte below 0x80 is its own encoding.
encode_bytes(str) ==
  (IF Len(str) = 1 /\ str[1] < kEmptyStringCode THEN <<>> ELSE encode_header(FALSE, Len(str)))
  \o <<Chunk(str)>>

\* One chunk: no number has 56 bytes, so that its header is one byte.
encode_uint(n) ==
  IF n = 0 THEN Chunk(<<kEmptyStringCode>>)
  ELSE IF n < kEmptyStringCode THEN Chunk(<<n>>)
  ELSE [bytes |-> <<kEmptyStringCode + Len(to_big_compact(n))>>, number |-> n]

encode_bool(x) == Chunk(IF x THEN <<1>> ELSE <<kEmptyStringCode>>)

length_bytes(str) ==
  IF Len(str) = 1 /\ str[1] < kEmptyStringCode THEN 1
  ELSE Len(str) + length_of_length(Len(str))

length_uint(n) ==
  IF n < kEmptyStringCode THEN 1
  ELSE count_significant_bytes(n) + length_of_length(count_significant_bytes(n))

-----------------------------------------------------------------------------
(* Decoding.                                                               *)

Failed(error, from)   == [error |-> error, from |-> from]
Decoded(value, from)  == [error |-> "none", from |-> from, value |-> value]
remove_prefix(from, n) == SubSeq(from, n + 1, Len(from))

\* What a result without a view is for the one who has this view.
At(from, result) ==
  IF result.error = "none" THEN Decoded(result.value, from) ELSE Failed(result.error, from)

\* The next step of a decoder, unless this one returned an error.
Then(outcome, Next(_)) == IF outcome.error # "none" THEN outcome ELSE Next(outcome)

\* The end of a decoder: what is left over must be allowed.
Finished(value, from, mode) ==
  IF mode # "kAllow" /\ from # <<>> THEN Failed("kInputTooLong", from) ELSE Decoded(value, from)

\* The header is good if the payload it announces is there.
Announced(list, payload_length, from) ==
  IF Len(from) < payload_length THEN Failed("kInputTooShort", from)
  ELSE Decoded([list |-> list, payload_length |-> payload_length], from)

\* A length of less than 56 needs no bytes of its own.
LongHeader(list, len_of_len, from) ==
  IF Len(from) < len_of_len THEN Failed("kInputTooShort", from)
  ELSE Then(At(from, from_big_compact(SubSeq(from, 1, len_of_len), 8)), LAMBDA len :
         IF len.value < 56 THEN Failed("kNonCanonicalSize", remove_prefix(from, len_of_len))
         ELSE Announced(list, len.value, remove_prefix(from, len_of_len)))

\* A string of one byte must need its header.
ShortString(payload_length, from) ==
  IF payload_length = 1 /\ from = <<>> THEN Failed("kInputTooShort", from)
  ELSE IF payload_length = 1 /\ from[1] < kEmptyStringCode THEN Failed("kNonCanonicalSize", from)
  ELSE Announced(FALSE, payload_length, from)

\* The first byte tells what follows it.
HeaderOf(b, from) ==
  IF b < 128      THEN Announced(FALSE, 1, from)
  ELSE IF b < 184 THEN ShortString(b - 128, Tail(from))
  ELSE IF b < 192 THEN LongHeader(FALSE, b - 183, Tail(from))
  ELSE IF b < 248 THEN Announced(TRUE, b - 192, Tail(from))
  ELSE LongHeader(TRUE, b - 247, Tail(from))

decode_header(from) ==
  IF from = <<>> THEN Failed("kInputTooShort", from) ELSE HeaderOf(from[1], from)

\* What the decoders of strings begin with.
StringHeader(from) ==
  Then(decode_header(from), LAMBDA h :
    IF h.value.list THEN Failed("kUnexpectedList", h.from) ELSE h)

Payload(h) == SubSeq(h.from, 1, h.value.payload_length)
AfterPayload(h) == remove_prefix(h.from, h.value.payload_length)

decode_bytes(from, mode) ==
  Then(StringHeader(from), LAMBDA h : Finished(Payload(h), AfterPayload(h), mode))

\* An unsigned integral type of `width' bytes.
decode_uint(from, width, mode) ==
  Then(StringHeader(from), LAMBDA h :
    Then(At(h.from, from_big_compact(Payload(h), width)), LAMBDA n :
      Finished(n.value, AfterPayload(h), mode)))

decode_bool(from, mode) ==
  Then(decode_uint(from, 8, mode), LAMBDA i :
    IF i.value > 1 THEN Failed("kOverflow", i.from) ELSE Decoded(i.value = 1, i.from))

\* An array of N bytes.
decode_array(from, N, mode) ==
  Then(StringHeader(from), LAMBDA h :
    IF h.value.payload_length # N THEN Failed("kUnexpectedLength", h.from)
    ELSE Finished(Payload(h), AfterPayload(h), mode))
=============================================================================
