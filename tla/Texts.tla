-------------------------------- MODULE Texts --------------------------------
(***************************************************************************)
(* The library's functions on texts, over every text up to a length: the   *)
(* behaviour appends one piece after the other, and what the functions     *)
(* return is compared with what the text says by construction.             *)
(*                                                                         *)
(* A word is a sequence of bytes; a Cookie header and a header with        *)
(* attributes are sequences of pieces whose meaning is known.              *)
(***************************************************************************)
EXTENDS Params, Cookies, TLC

CONSTANTS
    WordBytes,          \* the bytes words are made of
    CharsetBytes,       \* the bytes of the texts whose character set is guessed
    MaxLen              \* a bound for each kind of text

VARIABLES
    kind,               \* "word", "charset", "cookies" or "attributes"
    text                \* the bytes or pieces so far

vars == <<kind, text>>

\* Pieces of a Cookie header: a cookie, its attributes, what is no pair, and
\* what separates headers that have been joined.
CookiePieces ==
    ("a"     :> <<"a", "=", "0">>)                @@ ("b"      :> <<"b", " ", "=", " ", "\"", ";", "\"">>)
 @@ ("empty" :> <<"b", "=">>)                     @@ ("path"   :> <<"$", "path", "=", "\"", ",", "\"">>)
 @@ ("odd"   :> <<"$", "name", "=", "0">>)        @@ ("short"  :> <<"$", "a", "=", "0">>)
 @@ ("bare"  :> <<"a">>)                          @@ ("badattr" :> <<"$", "path">>)
 @@ ("vers"  :> <<"$", "Version", "=", "1">>)     @@ ("comma"  :> <<",">>)

\* Pieces of a header with attributes: two with the name looked for, one with
\* another, one without a value and one that cannot be read.
AttrPieces ==
    ("plain"  :> <<" ", "name", " ", "=", " ", "a", " ", "b", " ">>)
 @@ ("quoted" :> <<"name", "=", "\"", ";", "\\", "\"", "a", "\"", " ">>)
 @@ ("other"  :> <<"path", "=", "\"", "\\", "\"", ";", "name", "=", "0", "\\", "\\", "\"">>)
 @@ ("alone"  :> <<"b">>) @@ ("named" :> <<"name">>) @@ ("bad" :> <<"a", " ", "b">>)
 @@ ("after"  :> <<"a", "=", "\"", "b", "\"", "0">>)

Pieces == CASE kind = "word" -> WordBytes [] kind = "charset" -> CharsetBytes
            [] kind = "cookies" -> DOMAIN CookiePieces [] kind = "attributes" -> DOMAIN AttrPieces

Init == kind \in {"word", "charset", "cookies", "attributes"} /\ text = << >>

Extend == Len(text) < MaxLen[kind] /\ \E x \in Pieces : text' = Append(text, x) /\ UNCHANGED kind

Next == Extend
Spec == Init /\ [][Next]_vars

------------------------------------------------------------------------------
(* Words *)

ModesThatFit ==
    \A mode \in Modes, sep \in {<< >>, <<44, Space>>}, i \in DOMAIN text :
        LET words == <<SubSeq(text, 1, i), SubSeq(text, i + 1, Len(text))>>
            joined == Join(sep, words, mode)
        IN  joined # NoWord => Len(joined) + 1 <= JoinSize(sep, words, mode)

\* The symbols of a quoted word as the cookie parser reads them.
Symbols(s) == [i \in DOMAIN s |-> CASE s[i] = Quotes -> "\"" [] s[i] = Backslash -> "\\"
                                    [] s[i] = Space -> " " [] s[i] = Semicolon -> ";" [] OTHER -> "a"]

\* Decoding a word over itself writes what decoding it elsewhere does, never
\* past what has been read, and tells a length that lacks the bytes in front of
\* the first escape; the two disagree on a word only when there is a byte above
\* 127 in front, which is passed over unread.
SameInPlace ==
    LET there == Decode(text)
        here  == DecodeInPlace(text)
        front == SubSeq(text, 1, Passed(text))
    IN  /\ there.status = "SUCCESS" =>
            here = [status |-> "SUCCESS", data |-> there.data, dlen |-> Len(there.data) - Len(front)]
        /\ here.status # there.status => \E i \in DOMAIN front : front[i] >= 128
        /\ Len(here.data) <= Len(text)
        /\ 0 \notin ToSet(text) =>
            /\ DecodeInPlace(Encode(text)).data = text
            /\ Unescaped(Encode(text)) = Len(text) - Passed(Encode(text))

\* What one function writes another one reads back (util.c, param.c and
\* cookie.c, which know nothing of each other): an encoded word decodes to
\* itself, into another buffer (apreq_decode) and in place (apreq_unescape),
\* where only the length that is told differs; a table that is encoded as a query string parses to itself and is asked for by name in any
\* case, a word
\* that is quoted, once however often it is asked for, is read back from a
\* cookie's attribute, and joined words fit the room that is made for them.
ReadsBack ==
    kind = "word" =>
        /\ Decode(Encode(text)) = [status |-> "SUCCESS", data |-> text]
        /\ SameInPlace
        /\ \A i \in DOMAIN text :
            LET p == ParamMake(SubSeq(text, 1, i), SubSeq(text, i + 1, Len(text)))
                q == ParamMake(text, << >>)
                parsed == ParseQueryString(ParamEncode(p) \o <<Amp>> \o ParamEncode(q))
            IN  /\ parsed.status = "SUCCESS"
                /\ [k \in DOMAIN parsed.table |-> <<parsed.table[k].name, parsed.table[k].data>>]
                   = <<<<p.name, p.data>>, <<q.name, q.data>>>>
                /\ TableGet(parsed.table, p.name).data = p.data
                /\ ParamsAsString(parsed.table, p.name, "AS_IS") =
                      p.data \o IF SameName(p.name, q.name) THEN <<44, Space>> ELSE << >>
                /\ Upload(parsed.table, p.name) = NoParam
        /\ QuoteOnce(QuoteOnce(text)) = QuoteOnce(text)
        /\ text # << >> /\ 0 \notin ToSet(text) =>
            LET p == GetPair(<<"a", "=">> \o Symbols(Quote(text)), 1, TRUE) IN
            p.status = "SUCCESS" /\ p.value = Symbols(text) /\ p.next = Len(Quote(text)) + 3
        /\ ModesThatFit

------------------------------------------------------------------------------
(* Character sets *)

\* One character in UTF-8, of up to six bytes and no longer than needed.
Least(n) == CASE n = 2 -> 128 [] n = 3 -> 2048 [] n = 4 -> 65536 [] n = 5 -> 2097152 [] n = 6 -> 67108864
Lead(n)  == CASE n = 2 -> 192 [] n = 3 -> 224 [] n = 4 -> 240 [] n = 5 -> 248 [] n = 6 -> 252
LeadBits(n) == CASE n = 2 -> 32 [] n = 3 -> 16 [] n = 4 -> 8 [] n = 5 -> 4 [] n = 6 -> 2

IsCharacter(s) ==
    \/ Len(s) = 1 /\ Head(s) < 128
    \/ /\ Len(s) \in 2 .. 6
       /\ Head(s) \in Lead(Len(s)) .. Lead(Len(s)) + LeadBits(Len(s)) - 1
       /\ \A i \in 2 .. Len(s) : s[i] \in 128 .. 191
       /\ FoldLeft(LAMBDA v, c : 64 * v + (c % 64), Head(s) - Lead(Len(s)), Tail(s)) >= Least(Len(s))

RECURSIVE IsUtf8(_)
IsUtf8(s) == s = << >> \/ \E n \in 1 .. Len(s) :
                             IsCharacter(SubSeq(s, 1, n)) /\ IsUtf8(SubSeq(s, n + 1, Len(s)))

\* The guess apreq_charset_divine makes in one pass, with sequences that turn
\* out not to be UTF-8 half way: text in UTF-8 is recognised, what is called
\* UTF-8 is, but for the two bytes no pattern has, and what is converted from
\* cp1252 is UTF-8 however it is cut.
CharsetDivined ==
    kind = "charset" =>
        LET guess == CharsetDivine(text) IN
        /\ guess = "ASCII" <=> \A i \in DOMAIN text : text[i] < 128
        /\ IsUtf8(text) => guess \in {"ASCII", "UTF8"}
        /\ guess = "UTF8" => IsUtf8(text) \/ \E i \in DOMAIN text : text[i] >= 254
        /\ IsUtf8(Cp1252ToUtf8(text))
        /\ CharsetDivine(Cp1252ToUtf8(text)) \in {"ASCII", "UTF8"}

------------------------------------------------------------------------------
(* Headers *)

Joined(pieces, sep) ==
    FlattenSeq([i \in DOMAIN text |-> IF i = 1 THEN pieces[text[i]] ELSE sep \o pieces[text[i]]])

IsCookie(x) == x \in {"a", "b", "empty"}
CookieOf(x) == CASE x = "a" -> <<<<"a">>, <<"0">>>>
                 [] x = "b" -> <<<<"b">>, <<"\"", ";", "\"">>>>
                 [] x = "empty" -> <<<<"b">>, << >>>>

\* The cookie at i is dropped when the header ends with an attribute of it
\* that cannot be read.
Dropped(i) == /\ text[Len(text)] \in {"short", "badattr"}
              /\ \A j \in i + 1 .. Len(text) - 1 : text[j] \in {"path", "odd", "vers"}

\* $Version is an attribute of the cookie in front of it, if there is one.
Follows(i, j) == j > i /\ \A k \in i + 1 .. j - 1 : text[k] \in {"path", "odd", "vers"}
PathOf(i) == IF \E j \in DOMAIN text : text[j] = "path" /\ Follows(i, j) THEN <<",">> ELSE NoValue

\* Every cookie of the header is in the jar, in order and with its path, and
\* nothing else is, whatever stands between them that cannot be parsed: the
\* parser finds its way back at the next separator (parse_cookie_error).
CookiesKept ==
    kind = "cookies" =>
        LET there == SelectSeq([i \in DOMAIN text |-> i],
                               LAMBDA i : IsCookie(text[i]) /\ ~(i < Len(text) /\ Dropped(i)))
            parsed == ParseCookieHeader(Joined(CookiePieces, <<";", " ">>))
        IN  /\ [k \in DOMAIN parsed.jar |-> <<<<parsed.jar[k].name, parsed.jar[k].value>>, parsed.jar[k].path>>]
               = [k \in DOMAIN there |-> <<CookieOf(text[there[k]]), PathOf(there[k])>>]
            /\ (\E i \in DOMAIN text : text[i] \in {"bare", "short", "badattr", "odd"})
               => parsed.status # "SUCCESS"
            /\ \A k \in DOMAIN parsed.jar :
                LET c == [parsed.jar[k] EXCEPT !.version = RFC, !.path = IF @ = NoValue THEN @ ELSE <<"/">>] IN
                c.value # << >> =>
                    LET again == GetPair(Serialize(c), 1, FALSE) IN
                    again.name = c.name /\ again.value = c.value
                    /\ (c.path # NoValue => HeaderAttribute(Serialize(c), <<"path">>).value = c.path)

AttrValue(x) == CASE x = "plain" -> <<"a", " ", "b">> [] x = "quoted" -> <<";", "\\", "\"", "a">>
                  [] x = "named" -> NoValue

\* The first attribute of that name is found, with its value, and text inside
\* the quotes of another is not taken for it; one that cannot be read hides
\* those behind it.
AttributeFound ==
    kind = "attributes" =>
        LET hits == {i \in DOMAIN text : text[i] \in {"plain", "quoted", "named"}}
            first == CHOOSE i \in hits : \A j \in hits : i <= j
            bad == {i \in DOMAIN text : text[i] \in {"bad", "after"} /\ \A j \in hits : i < j}
            found == HeaderAttribute(Joined(AttrPieces, <<";">>), <<"name">>)
        IN  IF bad # {} THEN found.status \notin {"SUCCESS", "NOATTR"}
            ELSE IF hits = {} THEN found.status = "NOATTR"
            ELSE found = Attr("SUCCESS", AttrValue(text[first]))

==============================================================================
