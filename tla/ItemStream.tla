----------------------------- MODULE ItemStream -----------------------------
(***************************************************************************)
(* What the RLP functions promise their users: a stream of items.  Writers *)
(* append items, each to a stream of its own, and a reader takes them off  *)
(* one of them in that order, naming the type it expects.  It gets the     *)
(* value whose item is next, if there is one.  If not, the reader who uses *)
(* the C functions may ask again for another type, the one who uses those  *)
(* of C++ has lost its place.                                              *)
(***************************************************************************)
EXTENDS RlpItems

CONSTANTS Writers, Messages, Requests

VARIABLES
  items,      \* the items each writer wrote
  stream,     \* the items the reader has before it ...
  intact,     \* ... if it knows where it is
  result      \* what the last read asked for, and what it got: an error, or the
              \* encoding of the value, or a header

Init ==
  /\ items = [w \in Writers |-> <<>>]
  /\ stream = <<>> /\ intact = FALSE /\ result = [error |-> "none"]

Write(w) ==
  /\ \E m \in Messages : items' = [items EXCEPT ![w] = Append(@, m.item)]
  /\ UNCHANGED <<stream, intact, result>>

\* A stream some writer wrote, or bytes from elsewhere, of which nothing is known.
Open ==
  /\ \/ intact' = TRUE /\ \E w \in Writers : stream' = items[w]
     \/ intact' = FALSE /\ stream' = <<>>
  /\ UNCHANGED <<items, result>>

Promised(request) ==
  /\ stream # <<>>
  /\ request.type.kind # "header" =>
       /\ Fits(request.type, Head(stream))
       /\ request.mode = "kProhibit" => Len(stream) = 1

\* The value of the next item; evmc_rlp_decode leaves the item where it is.
Take(request) ==
  /\ Promised(request) /\ request.type.kind # "header"
  /\ result'.error = "none"
  /\ result'.encoding = RLP(Head(stream))
  /\ stream' = IF request.api = "evmc" THEN stream ELSE Tail(stream)
  /\ intact' = TRUE

\* The reader enters the next item: what is in a list is next.  A string of one byte
\* below 0x80 has no header, any other is bare bytes from here on.
Enter(request) ==
  LET item    == Head(stream)
      is_list == "list" \in DOMAIN item
      bare    == ~is_list /\ RLP(item) # item.string
  IN  /\ Promised(request) /\ request.type.kind = "header"
      /\ result'.error = "none"
      /\ result'.header =
           [list           |-> is_list,
            payload_length |-> IF is_list THEN Len(Stream(item.list)) ELSE Len(item.string)]
      /\ stream' = IF bare THEN <<>> ELSE IF is_list THEN item.list \o Tail(stream) ELSE stream
      /\ intact' = ~bare

Refuse(request) ==
  /\ ~Promised(request)
  /\ result'.error # "none"
  /\ stream' = (IF request.api = "C++" THEN <<>> ELSE stream)
  /\ intact' = (request.api # "C++")

Read ==
  /\ result'.request \in Requests
  /\ \/ intact /\ (Take(result'.request) \/ Enter(result'.request) \/ Refuse(result'.request))
     \/ ~intact /\ intact' = FALSE /\ stream' = stream
  /\ UNCHANGED items

Next == (\E w \in Writers : Write(w)) \/ Open \/ Read

Spec == Init /\ [][Next]_<<items, stream, intact, result>>
=============================================================================
