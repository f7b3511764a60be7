----------------------------- MODULE MCRlpStream -----------------------------
(***************************************************************************)
(* An instance of RlpStream for TLC.  The values are on both sides of      *)
(* every boundary of the code: 0, 0x7f and 0x80, 55 and 56 bytes, one and  *)
(* two bytes of length.  The texts spoil valid encodings in the ways the   *)
(* decoders tell apart.                                                    *)
(***************************************************************************)
EXTENDS RlpStream

Bytes        == [kind |-> "bytes"]
Uint(width)  == [kind |-> "uint", width |-> width]
Bool         == [kind |-> "bool"]
Vector(type) == [kind |-> "vector", of |-> type]
Tuple(types) == [kind |-> "tuple", of |-> types]
Views        == [kind |-> "views"]
Header       == [kind |-> "header"]

Run(n, byte) == [i \in 1..n |-> byte]

Typed(type, value) == [type |-> type, value |-> value, item |-> ItemOf(type, value)]

\* Items that are encoded apart and then assembled (RlpBytes).
Assembled(messages) ==
  [type  |-> Views,
   value |-> [i \in DOMAIN messages |-> Written(encode(messages[i].type, messages[i].value))],
   item  |-> List([i \in DOMAIN messages |-> messages[i].item])]

Pair == Tuple(<<Uint(8), Bytes>>)

MCMessages ==
  {Typed(Bytes, bytes) : bytes \in {<<>>, <<127>>, <<128>>, Run(55, 7), Run(256, 9)}}
  \cup {Typed(Uint(8), n) : n \in {0, 128, 256}}
  \cup {Typed(Bool, TRUE)}
  \cup {Typed(Bytes32, to_bytes32(bytes)) : bytes \in {<<5, 6>>, Run(31, 1) \o <<2, 3>>}}
  \cup {Typed(Vector(Uint(8)), numbers) : numbers \in {<<>>, <<0, 128, 300>>}}
  \cup {Typed(Vector(Bytes), <<Run(30, 1), Run(24, 2)>>)}
  \cup {Typed(Pair, <<1, <<200>>>>)}
  \cup {Assembled(<<Typed(Uint(8), 127), Typed(Vector(Uint(8)), <<1>>)>>)}

Raws ==
  LET array(n) == <<160>> \o Run(n, 3)
  IN  {<<>>, <<0>>, <<127>>, <<128>>, <<129>>, <<129, 127>>, <<129, 128>>, <<129, 0>>,
       <<130, 0, 1>>, <<130, 1>>, <<130, 1, 0, 9>>, <<137, 1, 1, 1, 1, 1, 1, 1, 1, 1>>, <<2>>,
       <<192>>, <<193>>, <<193, 127>>, <<193, 129>>, <<193, 193>>, <<194, 129, 128>>,
       <<194, 1, 2, 3>>, <<194, 1, 130, 7, 7>>, <<193, 1, 1>>, <<195, 1, 2, 3>>, <<195, 1, 129, 127>>,
       <<194, 0, 1>>, <<196, 130, 0, 1, 5>>, <<194, 193, 128>>, <<194, 192, 192>>,
       <<184>>, <<184, 55>>, <<184, 55>> \o Run(55, 1), <<184, 0>>, <<185, 0, 56>>,
       <<184, 56>> \o Run(55, 1), <<184, 56>> \o Run(56, 1), <<185, 1, 0>> \o Run(255, 1),
       <<183>> \o Run(55, 1), <<191, 1>>,
       <<248>>, <<248, 55>> \o Run(55, 1), <<249, 0, 56>>, <<248, 56>> \o Run(56, 1),
       <<248, 57>> \o Run(57, 1), <<247>> \o Run(55, 1), <<255, 1>>,
       array(31), array(32), array(33)}

MCTexts ==
  {to_hex(raw, TRUE) : raw \in Raws}
  \cup {<<"7", "B">>, <<"A", "b", "B">>, <<"0", "X", "1">>, <<"0", "x">>, <<"0", "x", "1">>,
        <<"8", "1", "g">>, <<"x", "0">>, <<"8", "1", "8", "0", "g">>,
        to_hex(Run(10, 18), FALSE) \o <<"g">>, to_hex(Run(32, 129), FALSE),
        to_hex(Run(33, 129), TRUE), to_hex(Run(20, 5), TRUE), to_hex(Run(20, 5), TRUE) \o <<"g">>,
        to_hex(<<171>>, TRUE) \o Run(62, NUL), to_hex(Run(20, 5), TRUE) \o <<NUL, "g">>,
        to_hex(Run(31, 7), TRUE) \o <<"f", NUL, "g">>, <<NUL>> \o to_hex(Run(20, 5), TRUE)}

Both == {"kProhibit", "kAllow"}
MCRequests ==
  [type : {Bytes, Uint(8), Uint(1), Bool, Bytes32, Vector(Uint(8)), Vector(Bytes), Pair, Views},
   mode : Both, api : {"C++"}]
  \cup [type : {Bytes, Uint(8), Bool}, mode : Both, api : {"C"}]
  \cup [type : {Header}, mode : {"kAllow"}, api : {"C++", "C"}]
  \cup [type : {Bytes32}, mode : {"kProhibit"}, api : {"evmc"}]

\* No thread is told from another.
Symmetry == Permutations(Threads)
=============================================================================
