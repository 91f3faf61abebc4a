------------------------------- MODULE Cookies -------------------------------
(***************************************************************************)
(* Headers with names and values: the Cookie header's parser and its       *)
(* cookies' attributes (cookie.c), what a Set-Cookie header says of a      *)
(* cookie, and the lookup of an attribute of a header (util.c).            *)
(*                                                                         *)
(* A header is a sequence of symbols: characters, and the words "path",    *)
(* "domain", "comment", "Version" and "name" for the characters of them.   *)
(***************************************************************************)
EXTENDS Integers, Sequences, SequencesExt

Blank == {" ", "TAB", "CR", "LF"}
Width(x) == CASE x \in {"path", "name"} -> 4 [] x = "domain" -> 6
              [] x \in {"Version", "comment"} -> 7 [] OTHER -> 1
WidthOf(w) == FoldLeft(LAMBDA n, x : n + Width(x), 0, w)

\* The symbol at i, or the terminating zero.
At(s, i) == IF i \in 1 .. Len(s) THEN s[i] ELSE "NUL"

RECURSIVE SkipAll(_, _, _)
SkipAll(s, i, what) == IF At(s, i) \in what THEN SkipAll(s, i + 1, what) ELSE i

\* The first place from i on that has one of these.
RECURSIVE UpTo(_, _, _)
UpTo(s, i, what) == IF At(s, i) \in what THEN i ELSE UpTo(s, i + 1, what)

------------------------------------------------------------------------------
(* Pairs *)

\* The quote that ends the quoted value which starts at i, or what stops the
\* search before; a backslash hides what follows it.
RECURSIVE EndQuote(_, _, _)
EndQuote(s, i, stop) ==
    IF At(s, i) \in stop \cup {"\""} THEN i
    ELSE IF At(s, i) = "\\" /\ At(s, i + 1) # "NUL" THEN EndQuote(s, i + 2, stop)
    ELSE EndQuote(s, i + 1, stop)

RECURSIVE Unquoted(_)
Unquoted(w) ==
    IF w = << >> THEN << >>
    ELSE IF Head(w) = "\\" THEN <<w[2]>> \o Unquoted(SubSeq(w, 3, Len(w)))
    ELSE <<Head(w)>> \o Unquoted(Tail(w))

Pair(status, next, n, v) == [status |-> status, next |-> next, name |-> n, value |-> v]

\* get_pair: a name, an equals sign and a value from i on; the name ends at
\* the first blank.
GetPair(s, i, unquote) ==
    LET key == SkipAll(s, i, Blank \cup {"="})
        sign == UpTo(s, key, {"NUL", ";", ",", "="})
        name == SubSeq(s, key, UpTo(s, key, Blank \cup {"NUL", ";", ",", "="}) - 1)
        v == SkipAll(s, sign + 1, Blank)
        q == EndQuote(s, v + 1, {"NUL"})
        e == UpTo(s, v, Blank \cup {"NUL", ";", ","})
    IN  IF At(s, sign) # "="
        THEN Pair(IF name = << >> THEN "BADCHAR" ELSE "NOTOKEN", sign, name, << >>)
        ELSE IF At(s, v) # "\"" THEN Pair("SUCCESS", e, name, SubSeq(s, v, e - 1))
        ELSE IF At(s, q) = "NUL" THEN Pair("BADSEQ", q, name, << >>)
        ELSE Pair("SUCCESS", q + 1, name,
                  IF unquote THEN Unquoted(SubSeq(s, v + 1, q - 1)) ELSE SubSeq(s, v, q))

------------------------------------------------------------------------------
(* Cookies *)

NoValue == <<"none">>
CookieMake(n, v, version) ==
    [name |-> n, value |-> v, version |-> version, path |-> NoValue, domain |-> NoValue,
     comment |-> NoValue]
NoCookie == CookieMake(NoValue, NoValue, 0)

Netscape == 0
RFC == 1

\* apreq_cookie_attr, of the attributes the instances use
CookieAttr(c, name, value) ==
    LET n == IF At(name, 1) \in {"-", "$"} THEN Tail(name) ELSE name
        done(d) == [status |-> "SUCCESS", cookie |-> d]
        fails(e) == [status |-> e, cookie |-> c]
    IN  IF WidthOf(name) < 2 THEN fails("EBADARG")
        ELSE CASE At(n, 1) = "Version" ->
                    IF {i \in DOMAIN value : value[i] \in {"0", "1"}} = {} THEN fails("BADSEQ")
                    ELSE done([c EXCEPT !.version = IF At(value, UpTo(value, 1, {"0", "1"})) = "1"
                                                    THEN 1 ELSE 0])
               [] At(n, 1) = "domain" -> done([c EXCEPT !.domain = value])
               [] At(n, 1) = "path" /\ WidthOf(n) = 4 -> done([c EXCEPT !.path = value])
               [] At(n, 1) = "comment" -> done([c EXCEPT !.comment = value])
               [] OTHER -> fails("ENOTIMPL")

\* Mutant of Kept: a cookie is entered at the end of the header only.
KeptMutant(jar, c, s, i) == IF c = NoCookie \/ At(s, i) # "NUL" THEN jar ELSE Append(jar, c)

\* The jar with the cookie that has been read; i is where its end was seen.
Kept(jar, c, s, i) == IF c = NoCookie THEN jar ELSE Append(jar, c)

RECURSIVE CookiesFrom(_, _, _, _), CookieLoop(_, _, _, _, _, _), CookieError(_, _, _, _, _)

\* From parse_cookie_header: a header may start with $Version.
CookiesFrom(s, start, jar, rv) ==
    LET i == SkipAll(s, start, Blank)
        j == UpTo(s, i, {"NUL", ",", ";"})
    IN  IF At(s, i) # "$" \/ At(s, i + 1) # "Version"
        THEN CookieLoop(s, i, jar, rv, NoCookie, Netscape)
        ELSE CASE At(s, j) = "NUL" -> [status |-> rv, jar |-> jar]
               [] At(s, j) = ","   -> CookiesFrom(s, j + 1, jar, rv)
               [] At(s, j) = ";"   -> CookieLoop(s, j + 1, jar, rv, NoCookie, RFC)

\* From parse_cookie_error: what follows up to a separator is skipped; at the
\* end of the header a cookie that has been read is not kept.
CookieError(s, start, jar, rv, c) ==
    LET i == UpTo(s, start, {"NUL", ",", ";"})
    IN  IF At(s, i) = "NUL" THEN [status |-> rv, jar |-> jar]
        ELSE CookiesFrom(s, i + 1, Kept(jar, c, s, i), rv)

\* The loop over the pairs of a header.
CookieLoop(s, start, jar, rv, c, version) ==
    LET i == SkipAll(s, start, Blank \cup {";"})
        p == GetPair(s, i, FALSE)
        a == GetPair(s, i + 1, TRUE)
        attr == CookieAttr(c, a.name, a.value)
        rvA == IF version = Netscape THEN "MISMATCH" ELSE rv
    IN  CASE At(s, i) = "NUL" -> [status |-> rv, jar |-> Kept(jar, c, s, i)]
          [] At(s, i) = ","   -> CookiesFrom(s, i + 1, Kept(jar, c, s, i), rv)
          [] At(s, i) = "$"   ->
                IF c = NoCookie THEN CookieError(s, i + 1, jar, "BADCHAR", c)
                ELSE IF a.status # "SUCCESS" THEN CookieError(s, a.next, jar, a.status, c)
                ELSE IF attr.status \notin {"SUCCESS", "ENOTIMPL"}
                THEN CookieError(s, a.next, jar, attr.status, c)
                ELSE CookieLoop(s, a.next, jar,
                                IF attr.status = "ENOTIMPL" THEN "BADATTR" ELSE rvA,
                                attr.cookie, version)
          [] OTHER ->
                IF p.status # "SUCCESS"
                THEN CookieError(s, p.next, Kept(jar, c, s, i), p.status, NoCookie)
                ELSE CookieLoop(s, p.next, Kept(jar, c, s, i), rv,
                                CookieMake(p.name, p.value, version), version)

\* apreq_parse_cookie_header
ParseCookieHeader(s) == CookiesFrom(s, 1, << >>, "SUCCESS")

\* apreq_cookie_serialize: a Netscape cookie has path and domain as they are,
\* an RFC one all attributes, between quotes.
Serialize(c) ==
    LET quoted(v) == IF At(v, 1) = "\"" THEN v ELSE <<"\"">> \o v \o <<"\"">>
        ns(n, v) == IF v = NoValue THEN << >> ELSE <<";", " ", n, "=">> \o v
        rfc(n, v) == IF v = NoValue THEN << >> ELSE <<";", " ", n, "=">> \o quoted(v)
    IN  c.name \o <<"=">> \o c.value
        \o IF c.version = Netscape THEN ns("path", c.path) \o ns("domain", c.domain)
           ELSE <<";", " ", "Version", "=", "1">> \o rfc("path", c.path)
                \o rfc("domain", c.domain) \o rfc("comment", c.comment)

------------------------------------------------------------------------------
(* The attributes of a header *)

LineEnd == {"NUL", "CR", "LF"}
Control == {"CTL"}
TokenChars == {"a", "b", "name", "path", "domain", "comment", "Version", "$", "0", "1"}

RECURSIVE WithoutTail(_)
WithoutTail(w) == IF w # << >> /\ Last(w) \in {" ", "TAB"} THEN WithoutTail(Front(w)) ELSE w

Attr(status, value) == [status |-> status, value |-> value]

\* Mutant of QuotedEnd: a quoted value ends at its first quote.
QuotedEndMutant(s, i) == UpTo(s, i, LineEnd \cup Control \cup {"\""})

\* The end of the quoted value that starts at i.
QuotedEnd(s, i) == EndQuote(s, i, LineEnd \cup Control)

\* apreq_header_attribute from i on
RECURSIVE AttributeFrom(_, _, _)
AttributeFrom(s, start, name) ==
    LET i == SkipAll(s, start, {" ", "TAB"})
        e == UpTo(s, i, LineEnd \cup Control \cup {"=", ";", ","})
        n == WithoutTail(SubSeq(s, i, e - 1))
        v == SkipAll(s, e + 1, {" ", "TAB"})
        q == QuotedEnd(s, v + 1)
        afterQ == SkipAll(s, q + 1, {" ", "TAB"})
        f == UpTo(s, v, LineEnd \cup Control \cup {";", ","})
        next(value, k) ==
            IF n = name THEN Attr("SUCCESS", value)
            ELSE IF At(s, k) \in LineEnd THEN Attr("NOATTR", NoValue)
            ELSE AttributeFrom(s, k + 1, name)
    IN  CASE \E k \in DOMAIN n : n[k] \in {" ", "TAB"} -> Attr("BADATTR", NoValue)
          [] At(s, e) \in Control -> Attr("BADCHAR", NoValue)
          [] At(s, e) # "=" -> next(NoValue, e)
          [] n = << >> -> Attr("BADATTR", NoValue)
          [] \E k \in DOMAIN n : n[k] \notin TokenChars -> Attr("BADCHAR", NoValue)
          [] At(s, v) = "\"" ->
                IF At(s, q) \in LineEnd THEN Attr("BADSEQ", NoValue)
                ELSE IF At(s, q) \in Control THEN Attr("BADCHAR", NoValue)
                ELSE IF At(s, afterQ) \notin LineEnd \cup {";", ","}
                THEN Attr(IF At(s, afterQ) \in Control THEN "BADCHAR" ELSE "BADSEQ", NoValue)
                ELSE next(SubSeq(s, v + 1, q - 1), afterQ)
          [] OTHER -> IF At(s, f) \in Control THEN Attr("BADCHAR", NoValue)
                      ELSE next(WithoutTail(SubSeq(s, v, f - 1)), f)

HeaderAttribute(s, name) == AttributeFrom(s, 1, name)

==============================================================================
