------------------------------ MODULE RlpItems ------------------------------
(***************************************************************************)
(* What RLP means, without the code: an item is a string of bytes or a     *)
(* list of items, and has one encoding (the Yellow Paper, Appendix B); and *)
(* which items the C++ types stand for.  The types are those of RlpVector. *)
(***************************************************************************)
EXTENDS Integers, Sequences, SequencesExt

String(bytes) == [string |-> bytes]
List(items)   == [list |-> items]

\* A number as a string of bytes: the shortest.
BigEndian[n \in Nat] == IF n = 0 THEN <<>> ELSE Append(BigEndian[n \div 256], n % 256)

Prefixed(bytes, short, long) ==
  LET size == BigEndian[Len(bytes)]
  IN  IF Len(bytes) < 56 THEN <<short + Len(bytes)>> \o bytes
      ELSE <<long + Len(size)>> \o size \o bytes

RECURSIVE RLP(_)
RLP(item) ==
  CASE "raw" \in DOMAIN item    -> item.raw
    [] "string" \in DOMAIN item ->
         IF Len(item.string) = 1 /\ item.string[1] < 128 THEN item.string
         ELSE Prefixed(item.string, 128, 183)
    [] "list" \in DOMAIN item   ->
         Prefixed(FlattenSeq([i \in DOMAIN item.list |-> RLP(item.list[i])]), 192, 247)

Stream(items) == FlattenSeq([i \in DOMAIN items |-> RLP(items[i])])

\* The item a value of a C++ type is; an item encoded already is as it is.
RECURSIVE ItemOf(_, _)
ItemOf(type, value) ==
  CASE type.kind \in {"bytes", "array"} -> String(value)
    [] type.kind = "uint"   -> String(BigEndian[value])
    [] type.kind = "bool"   -> String(IF value THEN <<1>> ELSE <<>>)
    [] type.kind = "vector" -> List([i \in DOMAIN value |-> ItemOf(type.of, value[i])])
    [] type.kind = "tuple"  -> List([i \in DOMAIN value |-> ItemOf(type.of[i], value[i])])
    [] type.kind = "views"  -> List([i \in DOMAIN value |-> [raw |-> value[i]]])

\* Is the item that of some value of the type?
RECURSIVE Fits(_, _)
Fits(type, item) ==
  CASE type.kind \in {"bytes", "array", "uint", "bool"} ->
         /\ "string" \in DOMAIN item
         /\ type.kind = "array" => Len(item.string) = type.length
         /\ type.kind = "uint"  =>
              Len(item.string) <= type.width /\ (item.string # <<>> => item.string[1] # 0)
         /\ type.kind = "bool"  => item.string \in {<<>>, <<1>>}
    [] type.kind \in {"vector", "tuple", "views"} ->
         /\ "list" \in DOMAIN item
         /\ type.kind = "vector" => \A i \in DOMAIN item.list : Fits(type.of, item.list[i])
         /\ type.kind = "tuple"  => /\ Len(item.list) = Len(type.of)
                                    /\ \A i \in DOMAIN item.list : Fits(type.of[i], item.list[i])
=============================================================================
