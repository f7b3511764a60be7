------------------------------ MODULE RlpVector ------------------------------
(***************************************************************************)
(* rlp/encode_vector.hpp, rlp/decode_vector.hpp: the RLP of lists, of one  *)
(* type (std::vector, std::span), of several (variadic), or of items that  *)
(* are encoded already (RlpByteView, RlpBytes); types/evmc_bytes32.cpp.    *)
(*                                                                         *)
(* A type is a record, its `kind' telling which overload the compiler      *)
(* picks:                                                                  *)
(*   bytes | uint, width | bool | array, length | vector, of (a type)      *)
(*   | tuple, of (a sequence of types) | views                             *)
(***************************************************************************)
EXTENDS Rlp

kHashLength == 32

Bytes32 == [kind |-> "array", length |-> kHashLength]

\* The first 32 bytes, or zeros on the left of fewer.
to_bytes32(bytes) ==
  LET n == IF Len(bytes) < kHashLength THEN Len(bytes) ELSE kHashLength
  IN  [i \in 1..kHashLength |->
         IF i <= kHashLength - n THEN 0 ELSE bytes[i - (kHashLength - n)]]

\* The types of the items of a list value.
ItemTypes(type, value) ==
  IF type.kind = "vector" THEN [i \in DOMAIN value |-> type.of] ELSE type.of

SumOver(seq, f(_)) == FoldLeft(LAMBDA sum, x : sum + f(x), 0, seq)

RECURSIVE length(_, _)

length_items(type, value) ==
  LET types == ItemTypes(type, value)
  IN  SumOver([i \in DOMAIN value |-> i], LAMBDA i : length(types[i], value[i]))

\* Items that are encoded already have no overload of length: encode adds up their sizes.
length_views(value) == SumOver(value, LAMBDA view : Len(view))

length(type, value) ==
  CASE type.kind \in {"bytes", "array"}  -> length_bytes(value)
    [] type.kind = "uint"                -> length_uint(value)
    [] type.kind = "bool"                -> 1
    [] type.kind \in {"vector", "tuple"} ->
         length_of_length(length_items(type, value)) + length_items(type, value)

RECURSIVE encode(_, _)
encode_items(type, value) ==
  LET types == ItemTypes(type, value)
  IN  FlattenSeq([i \in DOMAIN value |-> encode(types[i], value[i])])

encode_views(value) ==
  encode_header(TRUE, length_views(value)) \o [i \in DOMAIN value |-> Chunk(value[i])]

encode(type, value) ==
  CASE type.kind \in {"bytes", "array"}  -> encode_bytes(value)
    [] type.kind = "uint"                -> <<encode_uint(value)>>
    [] type.kind = "bool"                -> <<encode_bool(value)>>
    [] type.kind = "views"               -> encode_views(value)
    [] type.kind \in {"vector", "tuple"} ->
         encode_header(TRUE, length_items(type, value)) \o encode_items(type, value)

-----------------------------------------------------------------------------

\* What the decoders of lists begin with.
ListHeader(from) ==
  Then(decode_header(from), LAMBDA h :
    IF h.value.list THEN h ELSE Failed("kUnexpectedString", h.from))

RECURSIVE decode(_, _, _)

\* Items of one type until the view is empty.
RECURSIVE decode_all(_, _, _)
decode_all(view, type, items) ==
  IF view = <<>> THEN Decoded(items, view)
  ELSE Then(decode(view, type, "kAllow"), LAMBDA item :
         decode_all(item.from, type, Append(items, item.value)))

\* The view of the payload advances, the caller's stays until the end.
decode_vector(from, type, mode) ==
  Then(ListHeader(from), LAMBDA h :
    Then(At(h.from, decode_all(Payload(h), type.of, <<>>)), LAMBDA items :
      Finished(items.value, AfterPayload(h), mode)))

\* Items of the given types, from the caller's own view: nothing keeps them within
\* the payload.
RECURSIVE decode_items(_, _, _)
decode_items(from, types, items) ==
  IF types = <<>> THEN Decoded(items, from)
  ELSE Then(decode(from, Head(types), "kAllow"), LAMBDA item :
         decode_items(item.from, Tail(types), Append(items, item.value)))

\* Wrong: nothing checks where the items end.
decode_tuple_unchecked(from, type, mode) ==
  Then(ListHeader(from), LAMBDA h :
    IF mode # "kAllow" /\ AfterPayload(h) # <<>> THEN Failed("kInputTooLong", h.from)
    ELSE decode_items(h.from, type.of, <<>>))

\* The bytes after the payload are counted first, and must be what the items leave.
decode_tuple(from, type, mode) ==
  Then(ListHeader(from), LAMBDA h :
    IF mode # "kAllow" /\ AfterPayload(h) # <<>> THEN Failed("kInputTooLong", h.from)
    ELSE Then(decode_items(h.from, type.of, <<>>), LAMBDA items :
           IF Len(items.from) # Len(AfterPayload(h))
           THEN Failed("kUnexpectedListElements", items.from)
           ELSE items))

\* Views of the items of a list, their headers included.  For a bad item the code
\* returns the error of the list's header, which has none: any error.
RECURSIVE item_views(_, _)
item_views(view, items) ==
  IF view = <<>> THEN Decoded(items, view)
  ELSE IF decode_header(view).error # "none" THEN Failed("undefined", view)
  ELSE Then(decode_header(view), LAMBDA item :
         item_views(AfterPayload(item),
                    Append(items, SubSeq(view, 1, Len(view) - Len(AfterPayload(item))))))

decode_views(from, mode) ==
  Then(ListHeader(from), LAMBDA h :
    Then(At(h.from, item_views(Payload(h), <<>>)), LAMBDA items :
      Finished(items.value, AfterPayload(h), mode)))

decode(from, type, mode) ==
  CASE type.kind = "bytes"  -> decode_bytes(from, mode)
    [] type.kind = "uint"   -> decode_uint(from, type.width, mode)
    [] type.kind = "bool"   -> decode_bool(from, mode)
    [] type.kind = "array"  -> decode_array(from, type.length, mode)
    [] type.kind = "vector" -> decode_vector(from, type, mode)
    [] type.kind = "tuple"  -> decode_tuple(from, type, mode)
    [] type.kind = "views"  -> decode_views(from, mode)
    [] type.kind = "header" -> decode_header(from)
=============================================================================
