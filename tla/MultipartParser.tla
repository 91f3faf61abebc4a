---------------------------- MODULE MultipartParser ----------------------------
(***************************************************************************)
(* apreq_parse_multipart: the parser of multipart/form-data bodies.        *)
(*                                                                         *)
(* The body arrives in brigades cut anywhere, also within a boundary.  The *)
(* parser searches it for boundaries with split_on_bdry, which gives out   *)
(* what cannot belong to one and keeps back what may.  Between two         *)
(* boundaries is a part: a header block, then a value or an upload.  A     *)
(* part may be a multipart body itself: then a parser of its own, with the *)
(* boundary of its level, gets all the input until it has finished.        *)
(*                                                                         *)
(* A call of the parser is Run followed by one step for each case of its   *)
(* switch.  A character is a string; a header is one character, the kind   *)
(* of the part it describes, and the empty line behind it is another.      *)
(***************************************************************************)
EXTENDS Integers, Sequences, SequencesExt

CONSTANTS
    Bodies,             \* the bodies that may arrive
    Boundary,           \* the boundary of each level
    MaxLevel,           \* MAX_LEVEL
    HookActs,           \* what a hook may do: keep, refuse, discard
    ReadsFail,          \* whether reading a bucket may fail
    SpoolFails          \* whether apreq_brigade_concat may fail

Kinds == {"param", "upload", "file", "mixed", "plain", "nameless"}
Char  == {"CR", "LF", "-", "x", "EOH"} \cup Kinds \cup Range(Boundary)

ASSUME BodyAssumption ==
    /\ Bodies \subseteq Seq(Char)
    /\ MaxLevel \in Nat \ {0} /\ Len(Boundary) >= MaxLevel
    /\ HookActs \subseteq {"keep", "refuse", "discard"}
    /\ {ReadsFail, SpoolFails} \subseteq BOOLEAN

VARIABLES
    ctxs,               \* the struct mfd_ctx of each level, the innermost last
    pc,                 \* "idle" or "parse"
    rv,                 \* what the last call returned
    table,              \* the parameters added
    shown,              \* what the hooks have seen of each upload
    body,               \* the body that arrives
    fed,                \* how much of it has been given to the parser
    eos,                \* how often the end of the stream has been given
    stopped             \* whether a hook, a read or a spool has failed

caller == <<body, fed, eos>>
vars   == <<ctxs, pc, rv, table, shown, caller, stopped>>

Eos  == <<"EOS">>       \* the end-of-stream bucket
CRLF == <<"CR", "LF">>
Null == "NULL"

\* create_multipart_context.  in: buckets; bb and upload: what they contain;
\* hdr: the header that has been read.
Fresh(name) ==
    [status |-> "INIT", in |-> << >>, bb |-> << >>, hdr |-> << >>,
     param_name |-> name, upload |-> << >>, eos |-> "live"]

ctx   == Last(ctxs)
level == Len(ctxs)
Dashes(l) == <<"-", "-", Boundary[l]>>      \* ctx->bdry + 2
Bdry(l)   == CRLF \o Dashes(l)              \* ctx->bdry

------------------------------------------------------------------------------
(* split_on_bdry and brigade_start_string *)

Shorter(a, b) == IF Len(a) < Len(b) THEN Len(a) ELSE Len(b)

\* Mutant of MayBe: a boundary is found only when all of it is there.
MayBeMutant(text, bdry) == IsPrefix(bdry, text)

\* Whether text begins with bdry as far as both go.
MayBe(text, bdry) ==
    SubSeq(text, 1, Shorter(text, bdry)) = SubSeq(bdry, 1, Shorter(text, bdry))

From(text, i) == SubSeq(text, i, Len(text))

Bucket(data) == IF data = << >> THEN << >> ELSE <<data>>

\* Mutant of Matched: the boundary is not deleted.
MatchedMutant(acc, e, need) ==
    [acc EXCEPT !.status = IF Len(e) >= Len(need) THEN "SUCCESS" ELSE @,
                !.in = Append(@, e)]

\* The bucket e begins with need, or with the front part of it: the boundary
\* and the buckets that led to it are deleted, or e is kept back with them.
Matched(acc, e, need) ==
    IF Len(e) >= Len(need)
    THEN [acc EXCEPT !.status = "SUCCESS", !.in = Bucket(From(e, Len(need) + 1))]
    ELSE [acc EXCEPT !.in = Append(@, e)]

\* acc.in: the buckets kept back, which are the front part of bdry.  When e
\* does not go on with bdry they are given out, and bdry is sought in e alone.
SplitBucket(acc, e, bdry) ==
    LET need   == From(bdry, Len(FlattenSeq(acc.in)) + 1)
        starts == {i \in DOMAIN e : MayBe(From(e, i), bdry)}
        first  == CHOOSE i \in starts : \A j \in starts : i <= j
        given  == acc.out \o FlattenSeq(acc.in)
    IN  IF MayBe(e, need) THEN Matched(acc, e, need)
        ELSE IF starts = {} THEN [acc EXCEPT !.out = given \o e, !.in = << >>]
        ELSE Matched([acc EXCEPT !.out = given \o SubSeq(e, 1, first - 1),
                                 !.in = << >>],
                     From(e, first), bdry)

AtEos(acc) == [acc EXCEPT !.status = "EOF", !.in = Append(@, Eos)]

SplitOnBdry(in, bdry) ==
    FoldLeft(LAMBDA acc, e :
                IF acc.status # "INCOMPLETE" THEN [acc EXCEPT !.in = Append(@, e)]
                ELSE IF e = Eos THEN AtEos(acc)
                ELSE SplitBucket(acc, e, bdry),
             [status |-> "INCOMPLETE", out |-> << >>, in |-> << >>], in)

\* A boundary that ends with the last bucket is seen with the next one only.
StartsWith(in, string) ==
    \E k \in 1 .. Len(in) - 1 : IsPrefix(string, FlattenSeq(SubSeq(in, 1, k)))

MayStartWith(in, string) == MayBe(FlattenSeq(in), string) /\ ~Contains(in, Eos)

------------------------------------------------------------------------------
(* What a call returns, and what its callers among the levels make of it.  *)

Parsing(status) == pc = "parse" /\ ctx.status = status

Return(s) == pc' = "idle" /\ rv' = s

Becomes(c) == ctxs' = Append(Front(ctxs), c) /\ UNCHANGED <<pc, rv>>

\* Each level hands what its nested parser has rejected on to its caller.
Incomplete(c) ==
    /\ ctxs' = Append([i \in 1 .. level - 1 |-> [ctxs[i] EXCEPT !.in = << >>]], c)
    /\ Return("INCOMPLETE")

\* The error of a level is the error of those that called it.
Error(s) ==
    /\ ctxs' = <<[Fresh(Null) EXCEPT !.status = "ERROR"]>>
    /\ Return(s)

\* The innermost level has finished; rest: what it returns to its caller, which
\* looks for its own next boundary.
Complete(rest) ==
    IF level = 1
    THEN /\ ctxs' = <<[ctx EXCEPT !.status = "COMPLETE"]>>
         /\ Return("SUCCESS")
    ELSE /\ ctxs' = Append(SubSeq(ctxs, 1, level - 2),
                           [ctxs[level - 1] EXCEPT !.status = "INIT", !.in = @ \o rest,
                                                   !.param_name = Null])
         /\ UNCHANGED <<pc, rv>>

------------------------------------------------------------------------------
(* apreq_parse_multipart *)

\* A call with another brigade.  Every level whose status is MFD_MIXED passes
\* its input on to the next.
Run(chunk) ==
    /\ pc = "idle"
    /\ CASE ctx.status = "ERROR"    -> Return("GENERAL") /\ UNCHANGED ctxs
         [] ctx.status = "COMPLETE" -> Return("SUCCESS") /\ UNCHANGED ctxs
         [] OTHER -> /\ ctxs' = Append(Front(ctxs), [ctx EXCEPT !.in = @ \o chunk])
                     /\ pc' = "parse"
                     /\ UNCHANGED rv
    /\ UNCHANGED <<table, shown, stopped>>

\* MFD_INIT.  The text in front of the first boundary is returned to the
\* caller, for a nested body the input of the level above.
FirstBoundary ==
    /\ Parsing("INIT")
    /\ LET r == SplitOnBdry(ctx.in, Dashes(level))
           c == [ctx EXCEPT !.in = r.in, !.bb = @ \o r.out]
       IN  CASE r.status = "SUCCESS" ->
                    /\ ctxs' = Append(
                          [i \in 1 .. level - 1 |->
                              IF i = level - 1
                              THEN [ctxs[i] EXCEPT !.in = @ \o Bucket(c.bb)]
                              ELSE ctxs[i]],
                          [c EXCEPT !.status = "NEXTLINE", !.bb = << >>])
                    /\ UNCHANGED <<pc, rv>>
             [] r.status = "INCOMPLETE" -> Incomplete(c)
             [] r.status = "EOF" /\ level = 1 -> ctxs' = <<c>> /\ Return("EOF")
             [] OTHER -> Error("EOF")
    /\ UNCHANGED <<table, shown, caller, stopped>>

\* MFD_NEXTLINE.  The rest of the line: another part follows, or none.
NextLine ==
    /\ Parsing("NEXTLINE")
    /\ LET r    == SplitOnBdry(ctx.in, CRLF)
           line == ctx.bb \o r.out
       IN  CASE r.status = "EOF" -> Complete(<< >>)
             [] r.status = "INCOMPLETE" ->
                    Incomplete([ctx EXCEPT !.in = r.in, !.bb = line])
             [] r.status = "SUCCESS" /\ IsPrefix(<<"-", "-">>, line) -> Complete(r.in)
             [] OTHER -> Becomes([ctx EXCEPT !.in = r.in, !.bb = << >>,
                                             !.status = "HEADER", !.hdr = << >>])
    /\ UNCHANGED <<table, shown, caller, stopped>>

\* The buckets in without their first n characters.
After(in, n) ==
    FoldLeft(LAMBDA acc, e :
                IF acc.n >= Len(e) THEN [acc EXCEPT !.n = @ - Len(e)]
                ELSE [in |-> Append(acc.in, From(e, acc.n + 1)), n |-> 0],
             [in |-> << >>, n |-> n], in).in

\* MFD_HEADER.  The header parser keeps a block that is cut short, and refuses
\* an empty line in front of any header; at the end of the stream it succeeds,
\* and returns what it has not finished.
Header ==
    /\ Parsing("HEADER")
    /\ LET block == ctx.hdr \o FlattenSeq(ctx.in)
           starts(c) == \E k \in Kinds : IsPrefix(<<k, c>>, block)
           done(hdr, in) == Becomes([ctx EXCEPT !.status = "POST_HEADER",
                                                !.hdr = hdr, !.in = in])
       IN  CASE block \in {<< >>} \cup {<<k>> : k \in Kinds} ->
                    Incomplete([ctx EXCEPT !.hdr = block, !.in = << >>])
             [] starts("EOH") ->
                    done(<<Head(block)>>, After(ctx.in, 2 - Len(ctx.hdr)))
             [] IsPrefix(Eos, block) \/ starts("EOS") ->
                    done(<< >>, Bucket(ctx.hdr) \o ctx.in)
             [] OTHER -> Error("BADCHAR")
    /\ UNCHANGED <<table, shown, caller, stopped>>

\* A part without a body: the CRLF that belongs to its boundary is put back.
WithCrlf == IF StartsWith(ctx.in, Dashes(level)) THEN <<CRLF>> \o ctx.in ELSE ctx.in

MayNest(l) == l < MaxLevel

Kind == IF ctx.hdr = << >> THEN "plain" ELSE ctx.hdr[1]

Value(name)   == [ctx EXCEPT !.status = "PARAM", !.in = WithCrlf, !.param_name = name]
Upload(name)  == [ctx EXCEPT !.status = "UPLOAD", !.in = WithCrlf,
                             !.upload = [name |-> name, data |-> << >>]]

\* MFD_POST_HEADER
PostHeader ==
    /\ Parsing("POST_HEADER")
    /\ IF ~StartsWith(ctx.in, Dashes(level)) /\ MayStartWith(ctx.in, Dashes(level))
       THEN Incomplete(ctx)
       ELSE CASE Kind = "mixed" /\ MayNest(level) ->
                    /\ ctxs' = Front(ctxs)
                               \o <<[ctx EXCEPT !.status = "MIXED", !.in = << >>],
                                    [Fresh("m") EXCEPT !.in = WithCrlf]>>
                    /\ UNCHANGED <<pc, rv>>
              [] Kind = "param"  -> Becomes(Value("p"))
              [] Kind = "upload" -> Becomes(Upload("u"))
              [] Kind = "file" /\ ctx.param_name # Null -> Becomes(Upload(ctx.param_name))
              [] Kind = "plain"  -> Becomes(Upload(""))
              [] OTHER -> Error("GENERAL")
    /\ shown' = IF pc' = "parse" /\ Last(ctxs').status = "UPLOAD"
                THEN Append(shown, [data |-> << >>, eos |-> << >>])
                ELSE shown
    /\ UNCHANGED <<table, caller, stopped>>

AfterParam(in, value) ==
    [ctx EXCEPT !.status = "NEXTLINE", !.in = in, !.bb = << >>, !.param_name = Null]

\* MFD_PARAM
ParamPart ==
    /\ Parsing("PARAM")
    /\ LET r     == SplitOnBdry(ctx.in, Bdry(level))
           value == ctx.bb \o r.out
       IN  CASE r.status = "INCOMPLETE" ->
                    /\ Incomplete([ctx EXCEPT !.in = r.in, !.bb = value])
                    /\ UNCHANGED <<table, stopped>>
             [] r.status = "EOF" -> Error("EOF") /\ UNCHANGED <<table, stopped>>
             [] OTHER ->
                    \/ /\ HookActs \ {"refuse"} # {}
                       /\ table' = Append(table, [name |-> ctx.param_name, data |-> value])
                       /\ Becomes(AfterParam(r.in, value))
                       /\ UNCHANGED stopped
                    \/ /\ "refuse" \in HookActs
                       /\ Error("REFUSED")
                       /\ stopped' = TRUE
                       /\ UNCHANGED table
    /\ UNCHANGED <<shown, caller>>

\* A hook is run with the brigade bb; ends: the end-of-stream bucket it finds
\* in it, if any.
Show(bb, ends) ==
    shown' = Append(Front(shown), [data |-> Last(shown).data \o bb,
                                   eos  |-> Last(shown).eos \o ends])

\* MFD_UPLOAD.  ctx->eos is put behind the last piece, and taken away again; a
\* hook that empties the brigade has freed it, and what is put behind the last
\* piece of the next upload may be anything.
EosShown == IF ctx.eos = "live" THEN {"EOS"} ELSE {"EOS", "STALE"}

\* Mutant of FinalPiece: the hooks are run when the end is reached with what
\* the next boundary has left over.
FinalPieceMutant(r) == << >>

FinalPiece(r) == r.out

\* apreq_brigade_concat fails: this level returns its error and does not note it.
SpoolError(c) ==
    /\ IF level = 1 THEN ctxs' = <<c>> /\ Return("ENOSPC") ELSE Error("ENOSPC")
    /\ stopped' = TRUE

UploadPart ==
    /\ Parsing("UPLOAD")
    /\ \E act \in HookActs, failed \in {FALSE, SpoolFails} :
        LET r    == SplitOnBdry(ctx.in, Bdry(level))
            kept == ctx.upload.data \o IF act = "discard" THEN << >> ELSE r.out
            c    == [ctx EXCEPT !.in = r.in, !.upload.data = kept]
            last == [c EXCEPT !.status = "NEXTLINE", !.upload = << >>,
                              !.eos = IF act = "discard" THEN "freed" ELSE @]
        IN  CASE r.status = "EOF" ->
                     Error("EOF") /\ UNCHANGED <<table, shown, stopped>>
              [] r.status = "INCOMPLETE" ->
                     /\ Show(r.out, << >>)
                     /\ CASE act = "refuse" -> Error("REFUSED") /\ stopped' = TRUE
                          [] act # "refuse" /\ failed -> SpoolError([c EXCEPT !.upload = ctx.upload])
                          [] OTHER -> Incomplete(c) /\ UNCHANGED stopped
                     /\ UNCHANGED table
              [] OTHER ->
                     /\ \E end \in EosShown : Show(FinalPiece(r), <<end>>)
                     /\ IF act = "refuse"
                        THEN Error("REFUSED") /\ stopped' = TRUE /\ UNCHANGED table
                        ELSE IF failed
                        THEN /\ table' = Append(table, ctx.upload)
                             /\ SpoolError([c EXCEPT !.upload = ctx.upload])
                        ELSE /\ table' = Append(table, c.upload)
                             /\ Becomes(last)
                             /\ UNCHANGED stopped
    /\ UNCHANGED caller

\* A failed search for the first boundary or the end of a line is not noted by
\* the outermost level; all others become errors, after MFD_POST_HEADER in the
\* case that follows it.
ReadFails ==
    /\ pc = "parse" /\ ReadsFail
    /\ \E i \in DOMAIN ctx.in : ctx.in[i] # Eos
    /\ IF level = 1 /\ ctx.status \in {"INIT", "NEXTLINE"}
       THEN Return("EIO") /\ UNCHANGED ctxs
       ELSE Error("EIO")
    /\ stopped' = TRUE
    /\ UNCHANGED <<table, shown, caller>>

------------------------------------------------------------------------------
(* The caller *)

\* The next piece of the body, with the end of the stream behind it or not; the
\* stream may end anywhere in the body.  No caller goes on after a hook, a
\* read or a spool has failed.
Feed ==
    /\ eos = 0 /\ ~stopped /\ rv # "EOF"
    /\ \E k \in 0 .. Len(body) - fed, end \in BOOLEAN :
        /\ k > 0 \/ end
        /\ Run(Bucket(SubSeq(body, fed + 1, fed + k)) \o IF end THEN <<Eos>> ELSE << >>)
        /\ fed' = fed + k
        /\ eos' = IF end THEN 1 ELSE 0
    /\ UNCHANGED body

\* A caller that is told that the parser wants more gets the end of the stream
\* once more.
FeedEosAgain ==
    /\ eos \in {1, 2} /\ ~stopped /\ rv = "INCOMPLETE"
    /\ Run(<<Eos>>)
    /\ eos' = eos + 1
    /\ UNCHANGED <<body, fed>>

Init ==
    /\ ctxs = <<Fresh(Null)>>
    /\ pc = "idle" /\ rv = "INCOMPLETE"
    /\ table = << >> /\ shown = << >>
    /\ body \in Bodies /\ fed = 0 /\ eos = 0
    /\ stopped = FALSE

Step ==
    \/ FirstBoundary \/ NextLine \/ Header \/ PostHeader \/ ParamPart \/ UploadPart
    \/ ReadFails

Next == Step \/ Feed \/ FeedEosAgain

Spec == Init /\ [][Next]_vars

------------------------------------------------------------------------------
(* The body read character by character, without buckets.  seen: the text   *)
(* since the last delimiter; a delimiter is there when what has been seen   *)
(* ends with it.  names: what the file parts of each level are called.      *)

Begun == [in |-> "INIT", seen |-> << >>, names |-> <<Null>>, part |-> Null, parts |-> << >>]

Without(s, t) == SubSeq(s, 1, Len(s) - Len(t))

GoOn(acc, in) == [acc EXCEPT !.in = in, !.seen = << >>]

PartBegins(acc, kind) ==
    LET named(n) == [GoOn(acc, "BODY") EXCEPT !.part = n] IN
    CASE kind = "mixed" /\ Len(acc.names) < MaxLevel ->
            [GoOn(acc, "INIT") EXCEPT !.names = Append(@, "m")]
      [] kind = "param"  -> named("p")
      [] kind = "upload" -> named("u")
      [] kind = "plain"  -> named("")
      [] kind = "file" /\ Last(acc.names) # Null -> named(Last(acc.names))
      [] OTHER -> GoOn(acc, "ERROR")

PartEnds(acc, data) ==
    [GoOn(acc, "NEXTLINE") EXCEPT
        !.parts = Append(@, [name |-> acc.part, data |-> data])]

LastPartRead(acc) ==
    IF Len(acc.names) = 1 THEN GoOn(acc, "COMPLETE")
    ELSE [GoOn(acc, "INIT") EXCEPT !.names = Append(SubSeq(@, 1, Len(@) - 2), Null)]

ReadChar(acc, c) ==
    LET seen     == Append(acc.seen, c)
        l        == Len(acc.names)
        ends(s)  == IsSuffix(s, seen)
        readOn   == [acc EXCEPT !.seen = seen]
    IN CASE acc.in = "INIT" -> IF ends(Dashes(l)) THEN GoOn(acc, "NEXTLINE") ELSE readOn
         [] acc.in = "NEXTLINE" ->
                IF ~ends(CRLF) THEN readOn
                ELSE IF IsPrefix(<<"-", "-">>, seen) THEN LastPartRead(acc)
                ELSE GoOn(acc, "HEADER")
         [] acc.in = "HEADER" ->
                IF acc.seen # << >> /\ c = "EOH" THEN PartBegins(acc, Head(acc.seen))
                ELSE IF acc.seen = << >> /\ c \in Kinds THEN readOn
                ELSE GoOn(acc, "ERROR")
         [] acc.in = "BODY" ->
                IF ends(Bdry(l)) THEN PartEnds(acc, Without(seen, Bdry(l)))
                ELSE IF seen = Dashes(l) THEN PartEnds(acc, << >>)
                ELSE readOn
         [] OTHER -> acc

ReadTo(n) == FoldLeft(ReadChar, Begun, SubSeq(body, 1, n))

\* What the end of the stream is answered with.
Answers(text) ==
    CASE text.in = "COMPLETE" -> {"SUCCESS"}
      [] text.in = "ERROR"    -> {"BADCHAR", "GENERAL"}
      [] text.in = "NEXTLINE" -> IF Len(text.names) = 1 THEN {"SUCCESS"} ELSE {"INCOMPLETE"}
      [] OTHER                -> {"EOF"}

------------------------------------------------------------------------------
\* The parameters are those of the text, however it was cut: same names, same
\* values and uploads, in the same order, and at the end of the stream the same
\* answer.  A part is in the table with its boundary, or with the next bucket
\* when it has no body.  A caller that reads on after the end of the stream is
\* told to stop: a nested body may take the end for its own, but only once.
\* The code breaks this for three kinds of body, which no instance may have: a
\* `---B' in front, which is a first boundary or not depending on a cut behind
\* its second `-'; a form-data part in a nested body, which makes a file part
\* behind it there nameless; and text in front of a nested body's first
\* boundary when the body ends in the same call, which is searched for the
\* outer boundary.
ParsedAsText ==
    pc = "idle" /\ ~stopped =>
        LET text == ReadTo(fed) IN
        /\ IsPrefix(table, text.parts)
        /\ eos > 0 \/ ctx.status # "POST_HEADER" => table = text.parts
        /\ eos = 1 => rv \in Answers(text)
        /\ eos > 1 => rv # "INCOMPLETE"

\* "Once all hooks have completed, the contents of the brigade will be added to
\* the parameter's bb attribute": the hooks have seen exactly what an upload
\* contains, and the end of the stream once, when it is complete.
Uploads == SelectSeq(table, LAMBDA p : p.name # "p")
HooksSeeUploads ==
    ~stopped =>
        /\ \A i \in DOMAIN Uploads : shown[i] = [data |-> Uploads[i].data, eos |-> <<"EOS">>]
        /\ ctx.status = "UPLOAD" => Last(shown) = [data |-> ctx.upload.data, eos |-> << >>]

\* A call comes to its end: each case of the switch uses up input, or leads on
\* to one that does; the CRLF put back in front of a boundary goes with it.
Rest ==
    LET left(c) == 8 * (Len(FlattenSeq(c.in)) + Len(c.bb))
                   + CASE c.status = "HEADER" -> 18 + 8 * Len(c.hdr)
                       [] c.status = "POST_HEADER" -> 17
                       [] c.status = "NEXTLINE" -> 3
                       [] OTHER -> 0
    IN  FoldLeft(LAMBDA n, c : n + left(c), 0, ctxs)
CallAdvances == [][pc = "parse" /\ pc' = "parse" => Rest' < Rest]_vars

==============================================================================
