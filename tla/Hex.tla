--------------------------------- MODULE Hex ---------------------------------
(***************************************************************************)
(* common/util.hpp, common/util.cpp: bytes as hexadecimal text.  A text is *)
(* a sequence of characters, a character a string of length 1 or NUL.  It  *)
(* is in memory, where a terminator follows it.                            *)
(***************************************************************************)
EXTENDS Endian

kHexDigits == <<"0", "1", "2", "3", "4", "5", "6", "7", "8", "9", "a", "b", "c", "d", "e", "f">>
UpperCase  == <<"A", "B", "C", "D", "E", "F">>

\* The terminator of a C string.
NUL == "NUL"

NoDigit == 255
kUnhexTable ==
  [ch \in ToSet(kHexDigits) \cup ToSet(UpperCase) |->
     (CHOOSE d \in 0..15 : ch \in {kHexDigits[d + 1]} \cup
                                  (IF d > 9 THEN {UpperCase[d - 9]} ELSE {}))]
unhex_lut(ch)  == IF ch \in DOMAIN kUnhexTable THEN kUnhexTable[ch] ELSE NoDigit
unhex_lut4(ch) == IF ch \in DOMAIN kUnhexTable THEN 16 * kUnhexTable[ch] ELSE NoDigit

to_hex(bytes, with_prefix) ==
  (IF with_prefix THEN <<"0", "x">> ELSE <<>>) \o
  [i \in 1..(2 * Len(bytes)) |->
     kHexDigits[1 + (IF i % 2 = 1 THEN bytes[(i + 1) \div 2] \div 16
                                  ELSE bytes[i \div 2] % 16)]]

has_hex_prefix(s) == Len(s) >= 2 /\ s[1] = "0" /\ s[2] \in {"x", "X"}

without_prefix(hex) == IF has_hex_prefix(hex) THEN SubSeq(hex, 3, Len(hex)) ELSE hex

\* Wrong: an odd digit comes last, as if a zero followed.
from_hex_odd_last(hex) ==
  LET digits == without_prefix(hex)
      padded == IF Len(digits) % 2 = 1 THEN Append(digits, "0") ELSE digits
      byte(i) == unhex_lut4(padded[2 * i - 1]) + unhex_lut(padded[2 * i])
  IN  IF \E i \in DOMAIN padded : unhex_lut(padded[i]) = NoDigit
      THEN [ok |-> FALSE, bytes |-> <<>>]
      ELSE [ok |-> TRUE, bytes |-> [i \in 1..(Len(padded) \div 2) |-> byte(i)]]

\* "[0x]1" is "[0x]01": an odd digit is a byte of its own, then two digits to a byte.
\* The unrolled loop rejects what the loop after it would.
from_hex(hex) ==
  LET digits  == without_prefix(hex)
      pos     == Len(digits) % 2
      first   == IF pos = 1 THEN <<unhex_lut(digits[1])>> ELSE <<>>
      byte(i) == unhex_lut4(digits[pos + 2 * i - 1]) + unhex_lut(digits[pos + 2 * i])
  IN  IF \E i \in DOMAIN digits : unhex_lut(digits[i]) = NoDigit
      THEN [ok |-> FALSE, bytes |-> <<>>]
      ELSE [ok |-> TRUE, bytes |-> first \o [i \in 1..(Len(digits) \div 2) |-> byte(i)]]

\* The view is matched as a C string: the text from its first character up to the
\* first terminator, which may be in the view or behind its end.
is_valid_hex(text) ==
  \E end \in 3..Len(text) :
    /\ end = Len(text) \/ text[end + 1] = NUL
    /\ text[1] = "0" /\ text[2] = "x"
    /\ \A i \in 3..end : text[i] \in DOMAIN kUnhexTable

kAddressLength == 20
\* Wrong: the prefix counts as a byte.
is_valid_address_prefixed(text, view_length) ==
  view_length = kAddressLength * 2 /\ is_valid_hex(text)

\* Of the view itself only the length counts.
is_valid_hash(text, view_length)    == view_length = 2 + 32 * 2 /\ is_valid_hex(text)
is_valid_address(text, view_length) == view_length = 2 + kAddressLength * 2 /\ is_valid_hex(text)
=============================================================================
