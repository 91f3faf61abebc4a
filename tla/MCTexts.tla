------------------------------- MODULE MCTexts -------------------------------
(* Every text of Texts up to a length. *)
EXTENDS Texts
\* '%', '+', ' ', '"', '\\', ';', '=', 'a', '4', NUL and a byte above 127
SomeBytes == {37, 43, 32, 34, 92, 59, 61, 97, 52, 0, 200}
\* each range of leading bytes, both ends of the trailing ones
SomeCharsetBytes == {65, 128, 133, 169, 191, 192, 195, 224, 226, 240, 255}
SomeLengths == [word |-> 4, charset |-> 4, cookies |-> 5, attributes |-> 5]
==============================================================================
