----------------------------- MODULE HeaderParser -----------------------------
(***************************************************************************)
(* apreq_parse_headers: the parser of a block of header lines, which the   *)
(* multipart parser runs on each part.                                     *)
(*                                                                         *)
(* The block arrives in brigades cut anywhere.  The parser keeps the       *)
(* buckets of the line it is in, counts the characters of its name, of the *)
(* gap behind it and of its value, and cuts the buckets where one of them  *)
(* ends; the first character of the next line, which may also be the       *)
(* beginning of a continuation, shows that the line is over, and then      *)
(* consume_header_line finds its parts by the counts.  One call is a Run   *)
(* followed by one step for each character looked at.                      *)
(***************************************************************************)
EXTENDS Integers, Sequences, SequencesExt

CONSTANTS
    Texts,              \* the texts that may arrive
    MaxCalls,           \* bounds the brigades a text is cut into
    HookAnswers,        \* what the parser's hooks may return
    ReadsFail           \* whether reading a bucket may fail

Token == {"a", "b"}     \* stand for IS_TOKEN_CHAR
SP    == "SP"           \* a space
White == {SP, "TAB"}
Chars == Token \cup White \cup {":", "=", "CR", "LF", "CTL"}
Ctl   == {"TAB", "CTL"} \* apr_iscntrl, of what is neither CR nor LF

ASSUME TextAssumption ==
    /\ Texts \subseteq Seq(Chars)
    /\ MaxCalls \in Nat \ {0}
    /\ "SUCCESS" \in HookAnswers
    /\ ReadsFail \in BOOLEAN

VARIABLES
    \* struct hdr_ctx
    bb, nlen, glen, vlen, status,
    \* the call
    pc,                 \* "idle", "scan", or "abort" when an assert has failed
    e, off,             \* the bucket looked at, and how much of it
    rv,                 \* what the last call returned
    \* the caller
    table,              \* the headers added: <<name, value>>
    rest,               \* the buckets given back to it
    text, fed, eos, calls,
    stopped             \* whether a hook or a read has failed

ctx    == <<bb, nlen, glen, vlen, status>>
caller == <<text, fed, eos, calls>>
vars   == <<ctx, pc, e, off, rv, table, rest, caller, stopped>>

Eos == <<"EOS">>

------------------------------------------------------------------------------
(* consume_header_line *)

Bytes(buckets) == Len(FlattenSeq(buckets))

EndsAt(buckets, n) == {i \in DOMAIN buckets : Bytes(SubSeq(buckets, 1, i)) = n}

\* The first buckets that make up n characters; none if there is no such
\* place, which the asserts catch.
Take(buckets, n) ==
    IF EndsAt(buckets, n) = {} THEN << >>
    ELSE SubSeq(buckets, 1, CHOOSE i \in EndsAt(buckets, n) : \A j \in EndsAt(buckets, n) : i <= j)

Drop(buckets, n) == SubSeq(buckets, n + 1, Len(buckets))

WithoutNewlines(s) == SelectSeq(s, LAMBDA c : c \notin {"CR", "LF"})

\* The buckets of the value, up to the one with the LF that follows its n-th
\* character.
TakeValue(buckets, n) ==
    LET over(i) ==
            LET s == FlattenSeq(SubSeq(buckets, 1, i))
            IN  \E k \in DOMAIN s :
                    s[k] = "LF" /\ Len(WithoutNewlines(SubSeq(s, 1, k))) = n
        I == {i \in DOMAIN buckets : over(i)}
    IN  IF I = {} THEN << >>
        ELSE SubSeq(buckets, 1, CHOOSE i \in I : \A j \in I : i <= j)

Line(buckets, n, g, v) ==
    LET name  == Take(buckets, n)
        gap   == Take(Drop(buckets, Len(name)), g)
        value == TakeValue(Drop(buckets, Len(name) + Len(gap)), v)
        data  == WithoutNewlines(FlattenSeq(value))
    IN  [fits  |-> name # << >> /\ gap # << >> /\ value # << >> /\ Len(data) = v,
         param |-> <<FlattenSeq(name), data>>,
         used  |-> Len(name) + Len(gap) + Len(value)]

------------------------------------------------------------------------------
(* apreq_parse_headers *)

Return(s) == pc' = "idle" /\ rv' = s

Fail(s) == status' = "ERROR" /\ Return(s)

Run(chunk) ==
    /\ pc = "idle"
    /\ CASE status = "ERROR"    -> Return("GENERAL") /\ UNCHANGED <<bb, e, off>>
         [] status = "COMPLETE" -> Return("SUCCESS") /\ UNCHANGED <<bb, e, off>>
         [] OTHER -> /\ bb' = bb \o chunk
                     /\ e' = Len(bb) + 1 /\ off' = 0
                     /\ pc' = "scan"
                     /\ UNCHANGED rv
    \* the caller's brigade keeps what the parser does not take
    /\ rest' = IF status \in {"ERROR", "COMPLETE"} THEN rest \o chunk ELSE << >>
    /\ UNCHANGED <<nlen, glen, vlen, status, table, stopped>>

BrigadeEnds ==
    /\ pc = "scan" /\ e > Len(bb)
    /\ Return("INCOMPLETE")
    /\ UNCHANGED <<ctx, e, off, table, rest, caller, stopped>>

\* Everything kept goes back to the caller, an unfinished line as well.
EndOfStream ==
    /\ pc = "scan" /\ e <= Len(bb) /\ bb[e] = Eos
    /\ status' = "COMPLETE"
    /\ rest' = bb /\ bb' = << >>
    /\ Return("SUCCESS")
    /\ UNCHANGED <<nlen, glen, vlen, e, off, table, caller, stopped>>

ReadFails ==
    /\ pc = "scan" /\ e <= Len(bb) /\ bb[e] # Eos /\ off = 0 /\ ReadsFail
    /\ stopped' = TRUE
    /\ Fail("EIO")
    /\ UNCHANGED <<bb, nlen, glen, vlen, e, off, table, rest, caller>>

BucketEnds ==
    /\ pc = "scan" /\ e <= Len(bb) /\ bb[e] # Eos /\ off = Len(bb[e])
    /\ status # "COMPLETE"
    /\ e' = e + 1 /\ off' = 0
    /\ UNCHANGED <<ctx, pc, rv, table, rest, caller, stopped>>

Scanning(st) ==
    /\ pc = "scan" /\ status = st
    /\ e <= Len(bb) /\ bb[e] # Eos /\ off < Len(bb[e])

Char == bb[e][off + 1]

\* The character is taken and the bucket left as it is.
Stay ==
    /\ off' = off + 1
    /\ UNCHANGED <<bb, e, pc, rv>>

\* split_header_line: the character is taken, and begins a bucket.
Split ==
    IF off > 0
    THEN /\ bb' = SubSeq(bb, 1, e - 1)
                  \o <<SubSeq(bb[e], 1, off), SubSeq(bb[e], off + 1, Len(bb[e]))>>
                  \o Drop(bb, e)
         /\ e' = e + 1 /\ off' = 1
         /\ UNCHANGED <<pc, rv>>
    ELSE Stay

Refuse(s) == Fail(s) /\ UNCHANGED <<bb, e, off>>

ScanName ==
    /\ Scanning("NAME")
    /\ \/ /\ Char = ":" /\ nlen = 0
          /\ Refuse("BADHEADER")
          /\ UNCHANGED <<nlen, glen>>
       \/ /\ Char = ":" /\ nlen > 0
          /\ Split
          /\ glen' = glen + 1 /\ status' = "GAP"
          /\ UNCHANGED nlen
       \/ /\ Char \in Token
          /\ Stay
          /\ nlen' = nlen + 1
          /\ UNCHANGED <<glen, status>>
       \/ /\ Char \notin Token \cup {":"}
          /\ Refuse("BADCHAR")
          /\ UNCHANGED <<nlen, glen>>
    /\ UNCHANGED <<vlen, table, rest, caller, stopped>>

\* The gap is over: what follows begins a bucket of its own.
GapTo(st) == Split /\ status' = st

ScanGap ==
    /\ Scanning("GAP")
    /\ \/ /\ Char \in White
          /\ Stay
          /\ glen' = glen + 1
          /\ UNCHANGED <<vlen, status>>
       \/ Char = "LF" /\ GapTo("NEWLINE") /\ UNCHANGED <<glen, vlen>>
       \/ Char = "CR" /\ GapTo("ENDLINE") /\ UNCHANGED <<glen, vlen>>
       \/ Char = "CTL" /\ Refuse("BADCHAR") /\ UNCHANGED <<glen, vlen>>
       \/ /\ Char \notin White \cup {"LF", "CR", "CTL"}
          /\ GapTo("VALUE")
          /\ vlen' = vlen + 1
          /\ UNCHANGED glen
    /\ UNCHANGED <<nlen, table, rest, caller, stopped>>

\* Mutant of Forbidden: a tab in a value is white space, as in front of it.
ForbiddenMutant(c, st) == c = "CTL"

\* A tab is white space where a continuation begins, and a control character
\* inside a value.
Forbidden(c, st) == c \in Ctl /\ ~(st = "FOLDLINE" /\ c \in White)

\* In a value, and in the white space a continuation begins with.
ScanValue ==
    /\ Scanning("VALUE") \/ Scanning("FOLDLINE")
    /\ \/ Char = "LF" /\ Stay /\ status' = "NEWLINE" /\ UNCHANGED vlen
       \/ Char = "CR" /\ Stay /\ status' = "ENDLINE" /\ UNCHANGED vlen
       \/ Forbidden(Char, status) /\ Refuse("BADCHAR") /\ UNCHANGED vlen
       \/ /\ Char \notin {"LF", "CR"} /\ ~Forbidden(Char, status)
          /\ Stay
          /\ vlen' = vlen + 1
          /\ status' = IF status = "FOLDLINE" /\ Char \notin White THEN "VALUE" ELSE status
    /\ UNCHANGED <<nlen, glen, table, rest, caller, stopped>>

ScanEndline ==
    /\ Scanning("ENDLINE") \/ Scanning("LASTLINE")
    /\ IF Char = "LF"
       THEN Stay /\ status' = IF status = "ENDLINE" THEN "NEWLINE" ELSE "COMPLETE"
       ELSE Refuse("BADHEADER")
    /\ UNCHANGED <<nlen, glen, vlen, table, rest, caller, stopped>>

Fold == vlen' = vlen + 1

ScanFold ==
    /\ Scanning("NEWLINE") /\ Char \in White
    /\ Stay
    /\ Fold
    /\ status' = "FOLDLINE"
    /\ UNCHANGED <<nlen, glen, table, rest, caller, stopped>>

\* The counts start again, n characters into the next name.
AfterLine(n) == nlen' = n /\ glen' = 0 /\ vlen' = 0

\* The line's buckets, as they are once the one looked at has been split.
Cut == IF off > 0
       THEN SubSeq(bb, 1, e - 1)
            \o <<SubSeq(bb[e], 1, off), SubSeq(bb[e], off + 1, Len(bb[e]))>> \o Drop(bb, e)
       ELSE bb

\* The first character of the next line: the line is taken out of the buckets,
\* shown to the hooks and added to the table.
ScanNextLine ==
    /\ Scanning("NEWLINE") /\ Char \notin White
    /\ LET line == Line(Cut, nlen, glen, vlen)
       IN  \/ /\ ~line.fits
              /\ pc' = "abort"
              /\ UNCHANGED <<ctx, e, off, rv, table, stopped>>
           \/ /\ line.fits
              /\ \E answer \in HookAnswers \ {"SUCCESS"} : Fail(answer)
              /\ bb' = Drop(Cut, line.used)
              /\ stopped' = TRUE
              /\ UNCHANGED <<nlen, glen, vlen, e, off, table>>
           \/ /\ line.fits
              /\ table' = Append(table, line.param)
              /\ bb' = Drop(Cut, line.used)
              /\ e' = (IF off > 0 THEN e + 1 ELSE e) - line.used
              /\ off' = 1
              /\ \/ Char = "LF" /\ status' = "COMPLETE" /\ AfterLine(0) /\ UNCHANGED <<pc, rv>>
                 \/ Char = "CR" /\ status' = "LASTLINE" /\ AfterLine(0) /\ UNCHANGED <<pc, rv>>
                 \/ Char \in Token /\ status' = "NAME" /\ AfterLine(1) /\ UNCHANGED <<pc, rv>>
                 \/ Char \notin Token \cup {"LF", "CR"} /\ Fail("BADCHAR") /\ AfterLine(0)
              /\ UNCHANGED stopped
    /\ UNCHANGED <<rest, caller>>

\* Mutant of Behind: the bucket of the empty line goes with what follows it.
BehindMutant == Drop(bb, e)

\* What follows the empty line.
Behind == (IF off < Len(bb[e]) THEN <<SubSeq(bb[e], off + 1, Len(bb[e]))>> ELSE << >>) \o Drop(bb, e)

Complete ==
    /\ pc = "scan" /\ status = "COMPLETE" /\ e <= Len(bb)
    /\ rest' = Behind
    /\ bb' = << >>
    /\ Return("SUCCESS")
    /\ UNCHANGED <<nlen, glen, vlen, status, e, off, table, caller, stopped>>

------------------------------------------------------------------------------
(* The caller: the next piece of the text, an empty bucket as well, with the
   end of the stream behind it or not. *)

Feed ==
    /\ eos = FALSE /\ calls < MaxCalls
    /\ \E k \in 0 .. Len(text) - fed, end \in BOOLEAN :
        /\ end => fed + k = Len(text)
        /\ Run(<<SubSeq(text, fed + 1, fed + k)>> \o IF end THEN <<Eos>> ELSE << >>)
        /\ fed' = fed + k
        /\ eos' = end
    /\ calls' = calls + 1
    /\ UNCHANGED text

Init ==
    /\ bb = << >> /\ nlen = 0 /\ glen = 0 /\ vlen = 0 /\ status = "NAME"
    /\ pc = "idle" /\ e = 1 /\ off = 0 /\ rv = "INCOMPLETE"
    /\ table = << >> /\ rest = << >>
    /\ text \in Texts /\ fed = 0 /\ eos = FALSE /\ calls = 0
    /\ stopped = FALSE

Next ==
    \/ Feed \/ BrigadeEnds \/ EndOfStream \/ ReadFails \/ BucketEnds
    \/ ScanName \/ ScanGap \/ ScanValue \/ ScanEndline \/ ScanFold
    \/ ScanNextLine \/ Complete

Spec == Init /\ [][Next]_vars

------------------------------------------------------------------------------
(* The text read by lines, without buckets: a line begins at the front and
   behind each LF that no white space follows. *)

Fed == SubSeq(text, 1, fed)

Begins(s) == {1} \cup {i \in 2 .. Len(s) : s[i - 1] = "LF" /\ s[i] \notin White}
Blanks(s) == {i \in Begins(s) \ {1} : s[i] \in {"CR", "LF"}}
Least(S)  == CHOOSE i \in S : \A j \in S : i <= j

\* The lines in front of the empty one, each with its continuations.
Head_(s) == IF Blanks(s) = {} THEN s ELSE SubSeq(s, 1, Least(Blanks(s)) - 1)
LinesOf(s) ==
    LET starts == SetToSortSeq(Begins(s), <)
    IN  [i \in DOMAIN starts |->
            SubSeq(s, starts[i], IF i = Len(starts) THEN Len(s) ELSE starts[i + 1] - 1)]

Colons(l) == {i \in DOMAIN l : l[i] = ":"}
InName(l, i) == \A j \in Colons(l) : i <= j

\* Only white space lies between the colon, or a line's end, and this place.
Leads(l, i) ==
    \E k \in 1 .. i - 1 :
        /\ l[k] = "LF" \/ (l[k] = ":" /\ InName(l, k))
        /\ \A j \in k + 1 .. i - 1 : l[j] \in White

\* A line with a character that may not be where it is.
Bad(l) ==
    \E i \in DOMAIN l :
        \/ InName(l, i) /\ l[i] \notin Token /\ ~(l[i] = ":" /\ i > 1)
        \/ ~InName(l, i) /\ l[i] = "CTL"
        \/ ~InName(l, i) /\ l[i] = "TAB" /\ ~Leads(l, i)
        \/ i > 1 /\ l[i - 1] = "CR" /\ l[i] # "LF"

Header(l) ==
    LET colon == Least(Colons(l))
        behind == {i \in colon + 1 .. Len(l) : l[i] \notin White}
    IN  <<SubSeq(l, 1, colon - 1), WithoutNewlines(SubSeq(l, Least(behind), Len(l)))>>

Lines == LinesOf(Head_(Fed))

\* The lines that are known to be over.
Finished == IF Blanks(Fed) = {} THEN Front(Lines) ELSE Lines

BadLines == {i \in DOMAIN Lines : Bad(Lines[i])}

Expected ==
    LET good == IF BadLines = {} THEN Finished ELSE SubSeq(Lines, 1, Least(BadLines) - 1)
    IN  [i \in DOMAIN good |-> Header(good[i])]

\* A CR that begins the empty line must be followed by its LF.
BadBlank ==
    /\ Blanks(Fed) # {}
    /\ LET b == Least(Blanks(Fed)) IN Fed[b] = "CR" /\ b < Len(Fed) /\ Fed[b + 1] # "LF"

\* Where the block ends, if it has.
BlockEnds ==
    LET b == Least(Blanks(Fed))
    IN  IF Blanks(Fed) = {} \/ BadLines # {} THEN {}
        ELSE IF Fed[b] = "LF" THEN {b}
        ELSE IF b < Len(Fed) /\ Fed[b + 1] = "LF" THEN {b + 1} ELSE {}

------------------------------------------------------------------------------

\* The headers are those of the text, however it was cut: same names, same
\* values with their continuations, same order, and the same texts refused;
\* and no assert of consume_header_line fails, which finds name, gap and value
\* by counting bytes to the ends of buckets.
ParsedAsText ==
    /\ pc # "abort"
    /\ pc = "idle" /\ ~stopped =>
        /\ table = Expected
        /\ (status = "ERROR") = (BadLines # {} \/ BadBlank)
        /\ status = "COMPLETE" => eos \/ BlockEnds # {}

\* What follows the header block goes back to the caller, no more and no less:
\* the multipart parser finds the part's body there.
RestGivenBack ==
    pc = "idle" /\ status = "COMPLETE" /\ BlockEnds # {} =>
        SelectSeq(FlattenSeq(rest), LAMBDA c : c # "EOS") =
            SubSeq(Fed, Least(BlockEnds) + 1, Len(Fed))

==============================================================================
