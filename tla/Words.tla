-------------------------------- MODULE Words --------------------------------
(***************************************************************************)
(* The functions of util.c on words: percent decoding and encoding,        *)
(* quoting and joining, the guess of a character set and the conversion    *)
(* from cp1252.  A word is a sequence of bytes.                            *)
(***************************************************************************)
EXTENDS Integers, Sequences, SequencesExt

Plus == 43
Percent == 37
Space == 32
Quotes == 34
Backslash == 92

IsDigit(c)  == c \in 48 .. 57
IsXDigit(c) == IsDigit(c) \/ c \in 65 .. 70 \/ c \in 97 .. 102
IsAlnum(c)  == IsDigit(c) \/ c \in 65 .. 90 \/ c \in 97 .. 122

------------------------------------------------------------------------------
(* Percent decoding and encoding *)

HexDigit(c) == IF IsDigit(c) THEN c - 48 ELSE (c % 32) + 9

\* hex2_to_char and hex4_to_bmp
HexValue(ds) == FoldLeft(LAMBDA v, c : 16 * v + HexDigit(c), 0, ds)

\* A code point of the basic plane as UTF-8.
Utf8(c) ==
    IF c < 128 THEN <<c>>
    ELSE IF c < 2048 THEN <<192 + (c \div 64), 128 + (c % 64)>>
    ELSE <<224 + (c \div 4096), 128 + ((c \div 64) % 64), 128 + (c % 64)>>

AllHex(s, i, j) == j <= Len(s) /\ \A k \in i .. j : IsXDigit(s[k])
HasU(s, i) == i <= Len(s) /\ s[i] \in {85, 117}

\* The sequence at i can still become an escape when more text follows.
CanComplete(s, i) ==
    /\ i + 5 > Len(s)
    /\ i + 2 <= Len(s) => IsXDigit(s[i + 2])
    /\ i + 1 <= Len(s) => IsXDigit(s[i + 1]) \/ HasU(s, i + 1)

RECURSIVE DecodeFrom(_, _, _)
DecodeFrom(s, i, d) ==
    IF i > Len(s) THEN [status |-> "SUCCESS", data |-> d]
    ELSE CASE s[i] = Plus -> DecodeFrom(s, i + 1, Append(d, Space))
           [] s[i] = Percent /\ AllHex(s, i + 1, i + 2) ->
                DecodeFrom(s, i + 3, Append(d, HexValue(SubSeq(s, i + 1, i + 2))))
           [] s[i] = Percent /\ ~AllHex(s, i + 1, i + 2) ->
                IF HasU(s, i + 1) /\ AllHex(s, i + 2, i + 5)
                THEN DecodeFrom(s, i + 6, d \o Utf8(HexValue(SubSeq(s, i + 2, i + 5))))
                ELSE [status |-> IF CanComplete(s, i) THEN "INCOMPLETE" ELSE "BADSEQ", data |-> d]
           [] s[i] \in (1 .. 127) \ {Plus, Percent} -> DecodeFrom(s, i + 1, Append(d, s[i]))
           [] OTHER -> [status |-> "BADCHAR", data |-> d]

\* apreq_decode into another buffer
Decode(s) == DecodeFrom(s, 1, << >>)

\* How many bytes apreq_decode passes over when it decodes in place, without
\* looking whether they are ASCII.
Passed(s) ==
    LET stops == {i \in DOMAIN s : s[i] \in {Plus, Percent, 0}}
    IN  IF stops = {} THEN Len(s) ELSE (CHOOSE i \in stops : \A j \in stops : i <= j) - 1

\* apreq_decode over the word itself: what is written, and the length that is
\* told, which leaves out the bytes passed over.
DecodeInPlace(s) ==
    LET n    == Passed(s)
        rest == Decode(SubSeq(s, n + 1, Len(s)))
    IN  IF n < Len(s) /\ s[n + 1] = 0
        THEN [status |-> "BADCHAR", data |-> SubSeq(s, 1, n), dlen |-> n]
        ELSE [status |-> rest.status, data |-> SubSeq(s, 1, n) \o rest.data, dlen |-> Len(rest.data)]

\* apreq_unescape, of a C string: what it returns
Unescaped(s) ==
    IF DecodeInPlace(s).status = "SUCCESS" THEN DecodeInPlace(s).dlen ELSE -1

HexOf(n) == IF n < 10 THEN n + 48 ELSE n + 55

\* Mutant of Unreserved: the escape character is copied as it is.
UnreservedMutant(c) == IsAlnum(c) \/ c \in {45, 46, 95, 126, Percent}

Unreserved(c) == IsAlnum(c) \/ c \in {45, 46, 95, 126}

\* apreq_encode
Encode(s) ==
    FlattenSeq([i \in DOMAIN s |->
        IF Unreserved(s[i]) THEN <<s[i]>>
        ELSE IF s[i] = Space THEN <<Plus>>
        ELSE <<Percent, HexOf(s[i] \div 16), HexOf(s[i] % 16)>>])

------------------------------------------------------------------------------
(* Quoting and joining *)

\* Where the backslash that escapes position i would have to be unescaped.
RECURSIVE Escaped(_, _)
Escaped(s, i) == i > 2 /\ s[i - 1] = Backslash /\ ~Escaped(s, i - 1)

IsQuoted(s) ==
    /\ Len(s) > 1 /\ Head(s) = Quotes /\ Last(s) = Quotes
    /\ ~Escaped(s, Len(s))
    /\ \A i \in 2 .. Len(s) - 1 : s[i] # 0 /\ (s[i] = Quotes => Escaped(s, i))

\* apreq_quote
Quote(s) ==
    IF s = << >> THEN << >>
    ELSE <<Quotes>>
         \o FlattenSeq([i \in DOMAIN s |->
                IF s[i] = 0 THEN <<Backslash, 48>>
                ELSE IF s[i] \in {Backslash, Quotes} THEN <<Backslash, s[i]>>
                ELSE <<s[i]>>])
         \o <<Quotes>>

\* apreq_quote_once
QuoteOnce(s) == IF IsQuoted(s) THEN s ELSE Quote(s)

\* What a reader makes of a quoted word.
RECURSIVE Unescape(_)
Unescape(s) ==
    IF s = << >> THEN << >>
    ELSE IF Head(s) = Backslash /\ Len(s) > 1 THEN <<s[2]>> \o Unescape(SubSeq(s, 3, Len(s)))
    ELSE <<Head(s)>> \o Unescape(Tail(s))

Modes == {"AS_IS", "ENCODE", "DECODE", "QUOTE"}

RECURSIVE Separated(_, _)
Separated(sep, words) ==
    IF Len(words) < 2 THEN FlattenSeq(words)
    ELSE Head(words) \o sep \o Separated(sep, Tail(words))

JoinWord(w, mode) == CASE mode = "AS_IS" -> w [] mode = "ENCODE" -> Encode(w)
                       [] mode = "DECODE" -> Decode(w).data [] mode = "QUOTE" -> QuoteOnce(w)

NoWord == <<-1>>

\* apreq_join: NoWord where the code returns NULL
Join(sep, words, mode) ==
    IF mode = "DECODE" /\ \E i \in DOMAIN words : Decode(words[i]).status # "SUCCESS"
    THEN NoWord
    ELSE Separated(sep, [i \in DOMAIN words |-> JoinWord(words[i], mode)])

\* The bytes apreq_join allocates.
JoinSize(sep, words, mode) ==
    LET len == FoldLeft(LAMBDA n, w : n + Len(w) + Len(sep) + 1, 0, words)
    IN  CASE mode = "ENCODE" -> 3 * len
          [] mode = "QUOTE" -> 2 * (len + Len(words))
          [] OTHER -> len

------------------------------------------------------------------------------
(* Character sets *)

\* cp1252_to_bmp, for the characters the instances use
Cp1252ToBmp(c) == CASE c = 128 -> 8364 [] c = 133 -> 8230 [] c = 138 -> 352 [] OTHER -> c

\* apreq_cp1252_to_utf8
Cp1252ToUtf8(s) == FlattenSeq([i \in DOMAIN s |-> Utf8(Cp1252ToBmp(s[i]))])

\* The bytes that must follow a leading byte, and what the first of them must
\* exceed when the leading byte has no bits of the value: a longer sequence
\* than needed is not UTF-8.
Trail(c) == CASE c < 224 -> 1 [] c < 240 -> 2 [] c < 248 -> 3 [] c < 252 -> 4 [] c < 254 -> 5 [] OTHER -> 0

\* Mutant of Minimum: sequences of any length are taken for UTF-8.
MinimumMutant(c) == 0

Minimum(c) == CASE c = 224 -> 32 [] c = 240 -> 16 [] c = 248 -> 8 [] c = 252 -> 4 [] OTHER -> 0

Punt(g)   == [g EXCEPT !.rv = "CP1252", !.over = TRUE]
Latin1(g) == IF g.cntrl THEN Punt(g) ELSE [g EXCEPT !.rv = "LATIN1"]

\* One byte of apreq_charset_divine
Divining(g, c) ==
    IF g.over THEN g
    ELSE IF g.trail > 0
    THEN IF c \in 128 .. 191 /\ c % 64 >= g.min
         THEN [g EXCEPT !.min = 0, !.trail = @ - 1, !.cntrl = @ \/ c < 160]
         ELSE Latin1([g EXCEPT !.trail = 0])
    ELSE CASE c < 128 -> g
           [] c \in 128 .. 159 -> Punt(g)
           [] c \in 160 .. 191 -> Latin1(g)
           [] c >= 192 /\ g.rv = "LATIN1" -> g
           [] c \in {192, 193} /\ g.rv # "LATIN1" -> Latin1(g)
           [] OTHER -> [g EXCEPT !.rv = "UTF8", !.trail = Trail(c), !.min = Minimum(c)]

\* apreq_charset_divine
CharsetDivine(s) ==
    LET g == FoldLeft(Divining, [rv |-> "ASCII", trail |-> 0, min |-> 0, cntrl |-> FALSE,
                                 over |-> FALSE], s)
    IN  IF ~g.over /\ g.trail > 0 THEN IF g.cntrl THEN "CP1252" ELSE "LATIN1" ELSE g.rv

==============================================================================
