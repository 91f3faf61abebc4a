--------------------------- MODULE UrlencodedParser ---------------------------
(***************************************************************************)
(* apreq_parse_urlencoded: the parser of application/x-www-form-urlencoded *)
(* bodies, and the decoding it uses.                                       *)
(*                                                                         *)
(* The body arrives in brigades cut anywhere: in a name, between a name    *)
(* and its '=', inside an escape.  The parser keeps the buckets of the     *)
(* word it is in, and counts its bytes; when the word is complete it finds *)
(* the name and the value among those buckets by the counts, decodes each  *)
(* across the bucket boundaries, and deletes them.  One call is a Run      *)
(* followed by one step for each bucket looked at.                         *)
(*                                                                         *)
(* A character is a string.  A decoded text is a sequence of tuples: <<c>> *)
(* for a plain character, the digits for an escape.                        *)
(***************************************************************************)
EXTENDS Integers, Sequences, SequencesExt

CONSTANTS
    Bodies,             \* the bodies that may arrive
    HookAnswers,        \* what the parser's hooks may return
    ReadsFail           \* whether reading a bucket may fail

ASSUME BodyAssumption ==
    /\ Bodies \subseteq Seq({"=", "&", ";", "+", "%", "u", "NUL", "1", "a", "x"})
    /\ "SUCCESS" \in HookAnswers
    /\ ReadsFail \in BOOLEAN

VARIABLES
    \* struct url_ctx
    bb,                 \* the buckets kept
    nlen,
    vlen,
    status,             \* "NAME", "VALUE", "COMPLETE" or "ERROR"
    \* the call
    pc,                 \* "idle" or "scan"
    e,                  \* the bucket looked at, an index of bb
    rv,                 \* what the last call returned
    \* the caller
    table,              \* the parameters added: <<name, value>>
    body,               \* the body that arrives
    fed,                \* how much of it has been given to the parser
    eos,                \* how often the end of the stream has been given
    stopped             \* whether a hook or a read has failed

ctx    == <<bb, nlen, vlen, status>>
caller == <<body, fed, eos>>
vars   == <<ctx, pc, e, rv, table, caller, stopped>>

Eos   == <<"EOS">>      \* the end-of-stream bucket
NUL   == "NUL"
Hex   == {"1", "a"}

------------------------------------------------------------------------------
(* url_decode and apreq_decodev *)

HexAt(s, I) == \A i \in I : i <= Len(s) /\ s[i] \in Hex

IsHexEscape(s, i) == s[i] = "%" /\ HexAt(s, {i + 1, i + 2})
IsUniEscape(s, i) == s[i] = "%" /\ i + 1 <= Len(s) /\ s[i + 1] = "u" /\ HexAt(s, i + 2 .. i + 5)

\* Whether the '%' at i can be told not to begin an escape, or whether more
\* characters might make it one.
IsBadEscape(s, i) ==
    \/ i + 5 <= Len(s)
    \/ i + 2 <= Len(s) /\ s[i + 2] \notin Hex
    \/ i + 1 <= Len(s) /\ s[i + 1] \notin Hex \cup {"u"}

\* Decoding at i, after n characters that belong to an escape in front of it.
DecodeAt(s, acc, i) ==
    LET stop(st)      == [acc EXCEPT !.status = st, !.left = SubSeq(s, i, Len(s))]
        put(token, n) == [acc EXCEPT !.out = Append(@, token), !.skip = n]
    IN  IF acc.status # "SUCCESS" THEN acc
        ELSE IF acc.skip > 0 THEN [acc EXCEPT !.skip = @ - 1]
        ELSE IF IsHexEscape(s, i) THEN put(SubSeq(s, i + 1, i + 2), 2)
        ELSE IF IsUniEscape(s, i) THEN put(SubSeq(s, i + 1, i + 5), 5)
        ELSE CASE s[i] = "%" -> stop(IF IsBadEscape(s, i) THEN "BADSEQ" ELSE "INCOMPLETE")
               [] s[i] = NUL -> stop("BADCHAR")
               [] s[i] = "+" -> put(<<" ">>, 0)
               [] OTHER      -> put(<<s[i]>>, 0)

\* What s decodes to, and what is left of it when decoding stops early.
UrlDecode(s) ==
    FoldLeftDomain(LAMBDA acc, i : DecodeAt(s, acc, i),
                   [status |-> "SUCCESS", out |-> << >>, left |-> << >>, skip |-> 0], s)

\* Mutant of Carry: an escape cut short is not joined with what follows.
CarryMutant(left, piece) == piece

\* What is left of an incomplete escape is put in front of the next piece.
Carry(left, piece) == left \o piece

Decodev(pieces) ==
    FoldLeft(LAMBDA acc, piece :
                IF acc.status \in {"BADSEQ", "BADCHAR"} THEN acc
                ELSE LET r == UrlDecode(Carry(acc.left, piece))
                     IN  [r EXCEPT !.out = acc.out \o @],
             [status |-> "SUCCESS", out |-> << >>, left |-> << >>, skip |-> 0], pieces)

------------------------------------------------------------------------------
(* split_urlword *)

Bytes(pieces) == Len(FlattenSeq(pieces))

\* The first buckets of pieces that make up n bytes, or all in front of the
\* end of the stream.
Prefix(pieces, n) ==
    LET sums == {i \in 1 .. Len(pieces) : Bytes(SubSeq(pieces, 1, i)) = n}
        ends == {i \in 1 .. Len(pieces) : pieces[i] = Eos}
        last == IF sums # {} THEN CHOOSE i \in sums : \A j \in sums : i <= j
                ELSE IF ends # {} THEN (CHOOSE i \in ends : TRUE) - 1
                ELSE Len(pieces)
    IN  SubSeq(pieces, 1, last)

\* Without the separator that ends the last of them.
Unterminated(pieces, n) ==
    IF Bytes(pieces) = n
    THEN Append(Front(pieces), Front(Last(pieces)))
    ELSE pieces

\* The word whose name and value have n and v bytes, and the buckets it takes.
Word(buckets, n, v) ==
    LET nbuckets == Prefix(buckets, n + 1)
        rest     == SubSeq(buckets, Len(nbuckets) + 1, Len(buckets))
        vbuckets == Prefix(rest, v + 1)
        value    == Decodev(Unterminated(vbuckets, v + 1))
        name     == Decodev(Unterminated(nbuckets, n + 1))
    IN  [status |-> IF n = 0 THEN "EBADARG"
                    ELSE IF value.status # "SUCCESS" THEN value.status
                    ELSE name.status,
         param  |-> <<name.out, value.out>>,
         used   |-> Len(nbuckets) + Len(vbuckets)]

------------------------------------------------------------------------------
(* apreq_parse_urlencoded *)

Scanning == pc = "scan" /\ e <= Len(bb)

Return(s) == pc' = "idle" /\ rv' = s

\* A call with another brigade, in the state in which PARSER_STATUS_CHECK
\* finds the parser.
Run(chunk) ==
    /\ pc = "idle"
    /\ CASE status = "ERROR"    -> Return("GENERAL") /\ UNCHANGED <<bb, e>>
         [] status = "COMPLETE" -> Return("SUCCESS") /\ UNCHANGED <<bb, e>>
         [] OTHER -> /\ bb' = bb \o chunk
                     /\ e' = Len(bb) + 1
                     /\ pc' = "scan"
                     /\ UNCHANGED rv
    /\ UNCHANGED <<nlen, vlen, status, table, stopped>>

\* All buckets have been looked at.
BrigadeEnds ==
    /\ pc = "scan" /\ e > Len(bb)
    /\ Return("INCOMPLETE")
    /\ UNCHANGED <<ctx, e, table, caller, stopped>>

ReadFails ==
    /\ Scanning /\ bb[e] # Eos /\ ReadsFail
    /\ status' = "ERROR"
    /\ stopped' = TRUE
    /\ Return("EIO")
    /\ UNCHANGED <<bb, nlen, vlen, e, table, caller>>

Ends(bucket, separators) == {i \in DOMAIN bucket : bucket[i] \in separators}

FirstEnd(bucket, separators) ==
    CHOOSE i \in Ends(bucket, separators) :
        \A j \in Ends(bucket, separators) : i <= j

\* apr_bucket_split: the bucket is cut behind its first i bytes.
Split(i) ==
    SubSeq(bb, 1, e - 1) \o <<SubSeq(bb[e], 1, i), SubSeq(bb[e], i + 1, Len(bb[e]))>>
    \o SubSeq(bb, e + 1, Len(bb))

Counted(n, bucket) == n + Len(bucket)

NameGoesOn ==
    /\ Scanning /\ bb[e] # Eos /\ status = "NAME"
    /\ Ends(bb[e], {"="}) = {}
    /\ nlen' = Counted(nlen, bb[e])
    /\ e' = e + 1
    /\ UNCHANGED <<bb, vlen, status, pc, rv, table, caller, stopped>>

NameEnds ==
    /\ Scanning /\ bb[e] # Eos /\ status = "NAME"
    /\ Ends(bb[e], {"="}) # {}
    /\ LET i == FirstEnd(bb[e], {"="}) IN
        /\ bb' = Split(i)
        /\ nlen' = nlen + i - 1
    /\ status' = "VALUE"
    /\ e' = e + 1
    /\ UNCHANGED <<vlen, pc, rv, table, caller, stopped>>

ValueGoesOn ==
    /\ Scanning /\ bb[e] # Eos /\ status = "VALUE"
    /\ Ends(bb[e], {"&", ";"}) = {}
    /\ vlen' = Counted(vlen, bb[e])
    /\ e' = e + 1
    /\ UNCHANGED <<bb, nlen, status, pc, rv, table, caller, stopped>>

\* Mutant of AfterWord: the buckets of the word are not deleted.
KeepsWordMutant(buckets, used) ==
    /\ bb' = buckets
    /\ nlen' = 0 /\ vlen' = 0

\* The word's buckets are gone, and the counts start again.
AfterWord(buckets, used) ==
    /\ bb' = SubSeq(buckets, used + 1, Len(buckets))
    /\ nlen' = 0 /\ vlen' = 0

\* The separator behind a value: the word is decoded, shown to the hooks and
\* added to the table; if any of that fails so does the parser.
ValueEnds ==
    /\ Scanning /\ bb[e] # Eos /\ status = "VALUE"
    /\ Ends(bb[e], {"&", ";"}) # {}
    /\ LET i    == FirstEnd(bb[e], {"&", ";"})
           v    == vlen + i - 1
           word == Word(Split(i), nlen, v)
       IN  \E answer \in HookAnswers :
            IF word.status = "SUCCESS" /\ answer = "SUCCESS"
            THEN /\ table' = Append(table, word.param)
                 /\ AfterWord(Split(i), word.used)
                 /\ status' = "NAME"
                 /\ e' = 1
                 /\ UNCHANGED <<pc, rv, stopped>>
            ELSE /\ bb' = Split(i) /\ vlen' = v
                 /\ status' = "ERROR"
                 /\ Return(IF word.status # "SUCCESS" THEN word.status ELSE answer)
                 /\ stopped' = (stopped \/ word.status = "SUCCESS")
                 /\ UNCHANGED <<nlen, e, table>>
    /\ UNCHANGED caller

\* The end of the stream in a name: what there is of it is dropped.
EosInName ==
    /\ Scanning /\ bb[e] = Eos /\ status = "NAME"
    /\ bb' = << >>
    /\ Return("SUCCESS")
    /\ UNCHANGED <<nlen, vlen, status, e, table, caller, stopped>>

\* Whatever the last word was, the parser has finished, and gives back what it
\* has kept.
AfterLastWord(s) ==
    /\ status' = IF s = "SUCCESS" THEN "COMPLETE" ELSE "ERROR"
    /\ bb' = << >>

\* The end of the stream ends the last value.
EosInValue ==
    /\ Scanning /\ bb[e] = Eos /\ status = "VALUE"
    /\ LET word == Word(bb, nlen, vlen) IN
        \E answer \in HookAnswers :
            LET s == IF word.status # "SUCCESS" THEN word.status ELSE answer IN
            /\ table' = IF s = "SUCCESS" THEN Append(table, word.param) ELSE table
            /\ AfterLastWord(s)
            /\ Return(s)
            /\ stopped' = (stopped \/ (word.status = "SUCCESS" /\ s # "SUCCESS"))
    /\ UNCHANGED <<nlen, vlen, e, caller>>

------------------------------------------------------------------------------
(* The caller *)

\* The next piece of the body, with the end of the stream behind it or not.
Feed ==
    /\ eos = 0
    /\ \E k \in 0 .. Len(body) - fed, end \in BOOLEAN :
        /\ k > 0 \/ end
        /\ end => fed + k = Len(body)
        /\ Run((IF k > 0 THEN <<SubSeq(body, fed + 1, fed + k)>> ELSE << >>)
               \o IF end THEN <<Eos>> ELSE << >>)
        /\ fed' = fed + k
        /\ eos' = IF end THEN 1 ELSE 0
    /\ UNCHANGED body

\* A caller that is told that the parser wants more reads on, and gets the end
\* of the stream once more; two such answers are enough to see where it leads.
FeedEosAgain ==
    /\ eos \in {1, 2} /\ rv = "INCOMPLETE"
    /\ Run(<<Eos>>)
    /\ eos' = eos + 1
    /\ UNCHANGED <<body, fed>>

Init ==
    /\ bb = << >> /\ nlen = 0 /\ vlen = 0 /\ status = "NAME"
    /\ pc = "idle" /\ e = 1 /\ rv = "INCOMPLETE"
    /\ table = << >>
    /\ body \in Bodies /\ fed = 0 /\ eos = 0
    /\ stopped = FALSE

Step ==
    \/ BrigadeEnds \/ ReadFails
    \/ NameGoesOn \/ NameEnds \/ ValueGoesOn \/ ValueEnds
    \/ EosInName \/ EosInValue

Next == Step \/ Feed \/ FeedEosAgain

Spec == Init /\ [][Next]_vars

------------------------------------------------------------------------------
(* The body read as one text, without buckets. *)

Text == SubSeq(body, 1, fed)

ReadChar(acc, c) ==
    CASE acc.in = "NAME" /\ c = "=" -> [acc EXCEPT !.in = "VALUE"]
      [] acc.in = "NAME" /\ c # "=" -> [acc EXCEPT !.name = Append(@, c)]
      [] acc.in = "VALUE" /\ c \in {"&", ";"} ->
            [in |-> "NAME", name |-> << >>, value |-> << >>,
             words |-> Append(acc.words, <<acc.name, acc.value>>)]
      [] OTHER -> [acc EXCEPT !.value = Append(@, c)]

ReadText ==
    FoldLeft(ReadChar, [in |-> "NAME", name |-> << >>, value |-> << >>, words |-> << >>], Text)

Words ==
    ReadText.words \o IF eos > 0 /\ ReadText.in = "VALUE"
                      THEN <<<<ReadText.name, ReadText.value>>>> ELSE << >>

WordStatus(w) ==
    IF w[1] = << >> THEN "EBADARG"
    ELSE IF UrlDecode(w[2]).status # "SUCCESS" THEN UrlDecode(w[2]).status
    ELSE UrlDecode(w[1]).status

\* The words in front of the first that is refused, and why that one is.
BadWords(words) == {i \in DOMAIN words : WordStatus(words[i]) # "SUCCESS"}
FirstBad(words) == CHOOSE i \in BadWords(words) : \A j \in BadWords(words) : i <= j
GoodWords(words) ==
    IF BadWords(words) = {} THEN words ELSE SubSeq(words, 1, FirstBad(words) - 1)

Expected(words) ==
    [i \in DOMAIN GoodWords(words) |->
        <<UrlDecode(words[i][1]).out, UrlDecode(words[i][2]).out>>]

------------------------------------------------------------------------------
\* The parameters are those of the text, however it was cut: same names, same
\* values, same order, the same word refused for the same reason; unless a
\* hook or a read has failed, what has been added is all there is to add; and
\* a caller that reads on after the end of the stream is told to stop.
ParsedAsText ==
    LET words == Words IN
    /\ IsPrefix(table, Expected(words))
    /\ pc = "idle" /\ ~stopped =>
        /\ table = Expected(words)
        /\ (status = "ERROR") = (BadWords(words) # {})
        /\ status = "ERROR" => rv \in {WordStatus(words[FirstBad(words)]), "GENERAL"}
    /\ pc = "idle" /\ eos > 1 => rv # "INCOMPLETE"

\* A call gets nearer to its end with each bucket it looks at: fewer bytes are
\* ahead of it, or as many in fewer buckets.
Ahead == Bytes(SubSeq(bb, e, Len(bb)))

CallAdvances ==
    [][pc = "scan" /\ pc' = "scan" =>
         \/ Ahead' < Ahead
         \/ Ahead' = Ahead /\ Len(bb') - e' < Len(bb) - e]_vars

==============================================================================
