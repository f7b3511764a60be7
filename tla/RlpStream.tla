------------------------------ MODULE RlpStream ------------------------------
(***************************************************************************)
(* Threads that encode values, each into a buffer of its own (RlpWriters), *)
(* and a reader that decodes a buffer, or bytes that come as hexadecimal   *)
(* text (TextReader), through the C++ functions or those of the C          *)
(* interface.  A read is one step.                                         *)
(***************************************************************************)
EXTENDS RlpWriters, TextReader, RlpVector, RlpItems

CONSTANTS
  Messages,    \* what is written: values with their types, and the items they are
  Requests,    \* the reads: the type, the mode, and the interface used
  MaxItems,    \* bound: messages written, by all threads
  MaxReads     \* bound: reads

ASSUME BoundsAssumption == MaxItems \in Nat /\ MaxReads \in Nat

DecodingErrors ==
  {"kOverflow", "kLeadingZero", "kInputTooShort", "kInputTooLong", "kNonCanonicalSize",
   "kUnexpectedLength", "kUnexpectedString", "kUnexpectedList", "kUnexpectedListElements"}

VARIABLES
  reads,       \* how many reads there were
  items, stream, intact, result      \* history: the stream of items (ItemStream)

reader  == <<from, reads, text>>
history == <<items, stream, intact, result>>
vars    == <<writers, reader, history>>

Init ==
  /\ InitWriters
  /\ InitText /\ reads = 0
  /\ items = [t \in Threads |-> <<>>]
  /\ stream = <<>> /\ intact = FALSE /\ result = [error |-> "none"]

Opened == intact \/ text # <<>> \/ reads > 0

-----------------------------------------------------------------------------
(* Encoding.                                                               *)

Encode(t, m) ==
  /\ ~Opened /\ SumOver(SetToSeq(Threads), LAMBDA u : Len(items[u])) < MaxItems
  /\ Begin(t, encode(m.type, m.value))
  /\ items' = [items EXCEPT ![t] = Append(@, m.item)]
  /\ UNCHANGED <<reader, stream, intact, result>>

\* An encoder goes on.
Write(t) == (ToBigCompact(t) \/ AppendChunk(t)) /\ UNCHANGED <<reader, history>>

-----------------------------------------------------------------------------
(* Decoding.                                                               *)

Open(t) ==
  /\ ~Opened /\ to[t] # <<>> /\ \A u \in Threads : pending[u] = <<>>
  /\ from' = to[t] /\ stream' = items[t] /\ intact' = TRUE
  /\ UNCHANGED <<writers, text, reads, items, result>>

\* The reader's bytes come from a text.
ReadText(hex) ==
  /\ ~Opened /\ \A t \in Threads : items[t] = <<>>
  /\ OpenText(hex) \/ silkworm_from_hex(hex)
  /\ UNCHANGED <<writers, reads, history>>

\* Wrong: the C functions work on the caller's view.
AdvancesView_always(api, outcome) == api # "evmc"

\* The C++ functions advance the caller's view whether they succeed or not.  Those of
\* the C interface only if they do, and evmc_rlp_decode, which is given a pointer,
\* never.
AdvancesView(api, outcome) == api = "C++" \/ (api = "C" /\ outcome.error = "none")

\* What is left of the history's items, see ItemStream.
StreamAfter(request, outcome) ==
  LET entered == Head(stream)
  IN  IF ~intact \/ outcome.error # "none" \/ stream = <<>> \/ request.api = "evmc" THEN stream
      ELSE IF request.type.kind # "header" THEN Tail(stream)
      ELSE IF "list" \in DOMAIN entered THEN entered.list \o Tail(stream) ELSE stream

\* A C++ function failed, or a string was entered that has a header.
Lost(request, outcome) ==
  \/ request.api = "C++" /\ outcome.error # "none"
  \/ /\ request.type.kind = "header" /\ outcome.error = "none"
     /\ ~outcome.value.list /\ outcome.from # from

Result(request, error, outcome) ==
  CASE error # "none" -> [request |-> request, error |-> error]
    [] error = "none" /\ request.type.kind = "header" ->
         [request |-> request, error |-> error, header |-> outcome.value]
    [] error = "none" /\ request.type.kind # "header" ->
         [request |-> request, error |-> error,
          encoding |-> RLP(ItemOf(request.type, outcome.value))]

Read(request) ==
  \E outcome \in {decode(from, request.type, request.mode)} :
    /\ intact \/ text # <<>>
    /\ reads < MaxReads /\ reads' = reads + 1
    /\ from' = IF AdvancesView(request.api, outcome) THEN outcome.from ELSE from
    /\ \E error \in IF outcome.error = "undefined" THEN DecodingErrors ELSE {outcome.error} :
         result' = Result(request, error, outcome)
    /\ intact' = (intact /\ ~Lost(request, outcome))
    /\ stream' = IF Lost(request, outcome) THEN <<>> ELSE StreamAfter(request, outcome)
    /\ UNCHANGED <<writers, text, items>>

Next ==
  \/ \E t \in Threads : (\E m \in Messages : Encode(t, m)) \/ Write(t) \/ Open(t)
  \/ \E hex \in Texts : ReadText(hex)
  \/ \E request \in Requests : Read(request)

Spec == Init /\ [][Next]_vars

-----------------------------------------------------------------------------

\* Type invariant: buffers and views hold bytes, a held view lies in the buffer, and
\* an error is one of those the decoders return.
TypeOK ==
  /\ to \in [Threads -> Seq(Byte)] /\ from \in Seq(Byte)
  /\ pending \in [Threads -> Seq(Chunks)]
  /\ buffer \in [Threads -> [1..8 -> Byte]] /\ view \in [Threads -> 0..8]
  /\ text \in Texts \cup {<<>>} /\ reads \in 0..MaxReads /\ intact \in BOOLEAN
  /\ result.error \in DecodingErrors \cup {"none"}

\* Whatever the other threads encode at the same time, what a thread has encoded is
\* the RLP of its items, one after the other.
EncodedIsRlp ==
  \A t \in Threads : pending[t] = <<>> => to[t] = Stream(items[t])

\* For every type that has an overload of it, rlp::length announces the size of what
\* rlp::encode appends, which lists rely on for their headers.
LengthsAgree ==
  \A t \in Threads : \A m \in Messages :
    m.type.kind # "views" /\ items[t] = <<m.item>> /\ pending[t] = <<>> => Len(to[t]) = length(m.type, m.value)

\* Refinement: encoders and decoders are a stream of items.
IS == INSTANCE ItemStream WITH Writers <- Threads
ImplementsItemStream == IS!Spec

\* Any bytes a decoder accepts, wherever they come from, begin with the one encoding
\* of the value it returns, and what is left is what follows; none is accepted with
\* bytes left over where those are prohibited.
AcceptedIsCanonical ==
  [][reads' # reads /\ "encoding" \in DOMAIN result' =>
       /\ IsPrefix(result'.encoding, from)
       /\ result'.request.api # "evmc" => from = result'.encoding \o from'
       /\ result'.request.mode = "kProhibit" => from = result'.encoding]_vars
=============================================================================
