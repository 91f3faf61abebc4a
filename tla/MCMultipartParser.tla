-------------------------- MODULE MCMultipartParser --------------------------
(* Small instances of MultipartParser for model checking. *)
EXTENDS MultipartParser

Bounds == <<"B", "C">>

Delim(b)   == CRLF \o <<"-", "-", b>>
End(b)     == Delim(b) \o <<"-", "-">>
First(b)   == <<"-", "-", b>> \o CRLF
Part(k, s) == <<k, "EOH">> \o s

\* One part with a content of anything that looks like a boundary.
Near == SeqOf({"CR", "LF", "-", "B"}, 2) \cup {CRLF \o s : s \in SeqOf({"CR", "-", "x"}, 2)}
One == {First("B") \o Part("param", s) \o End("B") : s \in Near}

\* Two uploads and a value, text in front, between and behind.
Several ==
    {<<"x">> \o CRLF \o First("B") \o Part("upload", <<"x">>) \o Delim("B")
        \o <<"x">> \o CRLF \o Part("param", <<"CR">>) \o Delim("B")
        \o CRLF \o Part("plain", <<"-">>) \o End("B") \o CRLF \o <<"x">>}

\* Parts without a body, without a header, without a name, and a file part
\* where there is no name for it.
Odd ==
    {First("B") \o <<"upload", "EOH">> \o First("B") \o Part("param", <<"x">>) \o End("B") \o CRLF,
     First("B") \o <<"param", "EOH">> \o <<"-", "-", "B">> \o <<"-", "-">> \o CRLF,
     First("B") \o CRLF \o <<"x">> \o End("B"),
     First("B") \o Part("nameless", <<"x">>) \o End("B"),
     First("B") \o Part("file", <<"x">>) \o End("B")}

\* A nested body with two files, with and without text around it, and one that
\* is nested too deep.
Nested ==
    {First("B") \o <<"mixed", "EOH">> \o before \o First("C") \o Part("file", <<"x">>)
        \o Delim("C") \o CRLF \o Part("file", CRLF) \o End("C") \o after
        \o Delim("B") \o CRLF \o Part("param", <<"x">>) \o End("B") \o CRLF :
        before \in {<< >>, <<"x">> \o CRLF}, after \in {<< >>, CRLF \o <<"x">>}}
    \cup
    {First("B") \o <<"mixed", "EOH">> \o First("C") \o <<"mixed", "EOH">> \o <<"x">>}

AnyBody == One \cup Several \cup Odd \cup Nested
==============================================================================
