----------------------------- MODULE MCPerlRequest ----------------------------
(* Small instances of PerlRequest for model checking. *)
EXTENDS PerlRequest, TLC

SomeVals == {"q", "c", "x", "y", "new"} \X (1 .. 3)
LowerOf == "a" :> "a" @@ "A" :> "a" @@ "b" :> "b"

Entries(of, names) == [i \in DOMAIN names |-> [key |-> names[i], val |-> <<of, i>>]]
Header(of, names, status) == [entries |-> Entries(of, names), status |-> status]
Body(blocks, status) == [blocks |-> blocks, status |-> status]

\* The same name several times, in either case, and a header with an error
Queries == {Null, Header("q", <<"a", "b", "A">>, "SUCCESS"), Header("q", <<"b">>, "BADSEQ")}
Jars == {Null, Header("c", <<"a", "a">>, "NOTOKEN")}
Bodies == {Null,
           Body(<<Entries("x", <<"b">>), Entries("y", <<"A", "b">>), << >>>>, "SUCCESS"),
           Body(<<Entries("x", <<"a">>), Entries("y", <<"b">>)>>, "BADDATA")}

\* A jar alone, or parameters alone: the two do not meet.
Request(j, q, b) == [p \in Places |-> CASE p = "jar" -> j [] p = "args" -> q [] p = "body" -> b]
SomeRequests == {Request(j, Null, Null) : j \in Jars} \cup {Request(Null, q, b) : q \in Queries, b \in Bodies}

\* Names and values in turn, or values alone, until nothing is typed
SomeConsoles == {<< >>, <<"a", "b", Null>>, <<Null, "b", "a">>}
SomeChanges == {Header("new", <<"a">>, "SUCCESS")}
==============================================================================
