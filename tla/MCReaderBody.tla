----------------------------- MODULE MCReaderBody -----------------------------
(* Small instances of ReaderBody for model checking. *)
EXTENDS ReaderBody

CONSTANTS n1, n2, d1, d2

\* Two parameters, one of them absent or complete only at the end.
Places == {[n \in Names |-> IF n = n1 THEN 2 ELSE 0],
           [n \in Names |-> IF n = n1 THEN 3 ELSE MaxLen + 1]}

Plain(reader) ==
    [reader: {reader}, arrives: {3}, length: {NoLength}, type: {"known"},
     closing: {0, 3}, nested: IF reader = "apache" THEN {0, 2} ELSE {0}, at: Places,
     read_limit: {2, Unlimited}, brigade_limit: {5}, temp_dir: {Null}]

\* Requests that are turned away, and announced lengths that are odd.
Odd(reader) ==
    [reader: {reader}, arrives: {2}, length: {NoNumber, Empty, Negative, 2, 3},
     type: {"known"}, closing: {0}, nested: {0},
     at: {[n \in Names |-> IF n = n1 THEN 1 ELSE 0]},
     read_limit: {2, Unlimited}, brigade_limit: {5}, temp_dir: {Null}]
    \cup
    [reader: {reader}, arrives: {2}, length: {2}, type: {"none", "unknown", "known"},
     closing: {0}, nested: {0}, at: {[n \in Names |-> IF n = n1 THEN 1 ELSE 0]},
     read_limit: {Unlimited}, brigade_limit: {5}, temp_dir: {d1}]

\* Three blocks, with a first name in the second of them and what the hooks
\* are shown next in the third: a byte of it or the end of the stream.
ThreeBlocks(reader) ==
    [reader: {reader}, arrives: {5}, length: {NoLength}, type: {"known"},
     closing: {0}, nested: {0},
     at: {[n \in Names |-> IF n = n1 THEN 3 ELSE i] : i \in {0, 5, MaxLen + 1}},
     read_limit: {Unlimited}, brigade_limit: {5}, temp_dir: {Null}]

SomeRequests ==
    Plain("cgi") \cup Plain("custom") \cup Plain("apache")
    \cup Odd("cgi") \cup Odd("apache")
    \cup ThreeBlocks("cgi") \cup ThreeBlocks("custom")

\* A body that ends inside a nested one, read by the CGI handle.
NestedRequests ==
    [reader: {"cgi"}, arrives: 1 .. MaxLen, length: {NoLength}, type: {"known"},
     closing: {0}, nested: {1}, at: Places,
     read_limit: {Unlimited}, brigade_limit: {5}, temp_dir: {Null}]

SomeParsers == {[limit |-> 9, dir |-> d2], [limit |-> 4, dir |-> Null]}
NoParsers == {}
==============================================================================
