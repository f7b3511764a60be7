----------------------------- MODULE TextReader ------------------------------
(***************************************************************************)
(* A client that reads bytes from hexadecimal text: silkworm::from_hex and *)
(* silkworm_from_hex of common/util.cpp.  Nothing here is recursive.       *)
(***************************************************************************)
EXTENDS Hex

CONSTANTS
  Texts,       \* hexadecimal texts that are read
  Garbage      \* bytes that freed memory may hold

ASSUME TextsAssumption == Texts \subseteq Seq(STRING) /\ <<>> \notin Texts

VARIABLES
  text,        \* the text that was read, <<>> if none
  from         \* the reader's view

InitText == text = <<>> /\ from = <<>>

\* silkworm::from_hex.
OpenText(hex) ==
  /\ text = <<>> /\ text' = hex
  /\ from' = from_hex(hex).bytes

\* silkworm_from_hex: a view of bytes that are freed when it returns.
silkworm_from_hex(hex) ==
  /\ text = <<>> /\ text' = hex
  /\ \E byte \in Garbage : from' = [i \in DOMAIN from_hex(hex).bytes |-> byte]

\* The reader alone, whatever it does with its view.
TextNext == \E hex \in Texts : OpenText(hex) \/ silkworm_from_hex(hex)

TextSpec == InitText /\ [][TextNext]_text

-----------------------------------------------------------------------------

\* A character as to_hex writes it.
Lower(ch) == IF ch \in ToSet(UpperCase) THEN kHexDigits[kUnhexTable[ch] + 1]
             ELSE IF ch = "X" THEN "x" ELSE ch

\* Bytes read from a text are, written as text, that text: in lower case, with its
\* prefix, and with a zero before an odd digit.
TextIsRead ==
  text # <<>> /\ from_hex(text).ok =>
    LET digits == without_prefix(text)
        even   == IF Len(digits) % 2 = 1 THEN <<"0">> \o digits ELSE digits
        whole  == IF has_hex_prefix(text) THEN SubSeq(text, 1, 2) \o even ELSE even
    IN  to_hex(from_hex(text).bytes, has_hex_prefix(text)) = [i \in DOMAIN whole |-> Lower(whole[i])]

\* Where the C string ends that a view at the beginning of the text points at.
EndsAt(hex, end) ==
  /\ end = Len(hex) \/ hex[end + 1] = NUL
  /\ \A i \in 1..end : hex[i] # NUL

\* Whether a view is a valid hash or a valid address is the verdict on the C string it
\* points at, whatever the view shows of it: that from_hex reads that string.  A
\* valid view reads as 32 or 20 bytes unless the terminator is in it, in which case
\* it is not read at all.
VerdictOnCString ==
  \A end \in 1..Len(text) : EndsAt(text, end) =>
    LET good == /\ end > 2 /\ text[1] = "0" /\ text[2] = "x"
                /\ from_hex(SubSeq(text, 1, end)).ok
    IN  \A n \in 1..Len(text) : \A size \in {32, kAddressLength} :
          LET valid == IF size = 32 THEN is_valid_hash(text, n) ELSE is_valid_address(text, n)
              read  == from_hex(SubSeq(text, 1, n))
          IN  /\ valid <=> n = 2 + size * 2 /\ good
              /\ valid /\ n <= end => read.ok /\ Len(read.bytes) = size
              /\ valid /\ n > end  => ~read.ok
=============================================================================
