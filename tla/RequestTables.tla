---------------------------- MODULE RequestTables ----------------------------
(***************************************************************************)
(* The tables of a request - the cookies of its Cookie header (the jar),   *)
(* the parameters of its query string (args) and of its body - as the      *)
(* handles of Apache 2, of a CGI program and of a caller of its own        *)
(* (module_custom.c) keep them: parsed when first asked for, or at the     *)
(* latest while a single name is looked for, and kept with the status the  *)
(* parse ended with.  A CGI program that is not run by a server asks the   *)
(* person at the terminal instead.                                         *)
(*                                                                         *)
(* The functions are given as what they make of a request, because one     *)
(* calls the other; PerlRequest makes actions of them.  How the text of a  *)
(* header becomes entries is the matter of Params and Cookies, how a body  *)
(* is read that of Apache2Body and ReaderBody: here a body is the blocks   *)
(* of entries its reads yield, and the status of the last one.             *)
(***************************************************************************)
EXTENDS Naturals, SequencesExt

CONSTANTS
    Null,               \* a table, header or value that is not there
    Names,              \* names of cookies and parameters
    Vals,               \* their values
    Lower               \* Lower[n]: the name in lower case

ASSUME LowerAssumption == Lower \in [Names -> Names] /\ Null \notin Names

\* What is typed, and the empty values of a console at its end, beside what is sent
Typed == {"typed", "none"} \X Nat
Entry == [key : Names, val : Vals \cup Typed]

ASSUME ValsAssumption == Null \notin Vals \cup Typed /\ Null \notin Seq(Entry)

Places == {"jar", "args", "body"}
Kinds == {"apache2", "cgi", "interactive", "custom"}

------------------------------------------------------------------------------
(* Tables: sequences of entries, with names compared in lower case *)

Rows(t) == IF t = Null THEN << >> ELSE t
Same(m, n) == Lower[m] = Lower[n]

\* apr_table_do with a name: the values of its entries, in order
Values(t, n) ==
    FlattenSeq([i \in DOMAIN Rows(t) |->
                  IF Same(Rows(t)[i].key, n) THEN <<Rows(t)[i].val>> ELSE << >>])

\* apr_table_get
Lookup(t, n) == IF Values(t, n) = << >> THEN Null ELSE Head(Values(t, n))

\* apreq_module_status_is_error
IsError(s) == s \notin {"SUCCESS", "INCOMPLETE", "EINIT", "NODATA", "NOPARSER", "NOHEADER"}

------------------------------------------------------------------------------
(* Handles.  src[p] is what the environment holds for the place now, console *)
(* the lines that will be typed, fed the blocks of the body read so far.     *)

\* apreq_handle_apache2 makes no tables.
Apache2Handle(kind, src, console) ==
    [kind |-> kind, src |-> src, console |-> console, fed |-> 0,
     table |-> [p \in Places |-> Null], status |-> [p \in Places |-> "EINIT"]]

\* apreq_handle_cgi, once for a pool, makes all of them.
CgiHandle(kind, src, console) ==
    [Apache2Handle(kind, src, console) EXCEPT !.table = [p \in Places |-> << >>]]

\* apreq_handle_custom parses the strings it is given.
CustomHandle(kind, src, console) ==
    [Apache2Handle(kind, src, console) EXCEPT
        !.table = [p \in Places |-> IF p = "body" THEN << >>
                                    ELSE IF src[p] = Null THEN Null ELSE src[p].entries],
        !.status = [p \in Places |-> IF p = "body" THEN "INCOMPLETE"
                                     ELSE IF src[p] = Null THEN "NODATA" ELSE src[p].status]]

Handle(kind, src, console) ==
    CASE kind = "apache2" -> Apache2Handle(kind, src, console)
      [] kind = "custom" -> CustomHandle(kind, src, console)
      [] OTHER -> CgiHandle(kind, src, console)

------------------------------------------------------------------------------
(* The terminal *)

\* The i-th of the lines: behind the last there are empty ones.
Line(console, i) == IF i \in DOMAIN console THEN console[i] ELSE Null

\* What is left after n of them
LinesAfter(console, n) == SubSeq(console, n + 1, Len(console))

\* prompt: a value typed for a name, which an empty line leaves out.  The number
\* of lines that are left tells the values apart.
Prompt(q) ==
    [req |-> [q EXCEPT !.console = LinesAfter(@, 1)],
     val |-> IF Line(q.console, 1) = Null THEN Null ELSE <<"typed", Len(q.console)>>]

Add(q, p, n, v) == [q EXCEPT !.table[p] = Append(@, [key |-> n, val |-> v])]

\* Names are asked for until an empty line, each with a value: the pairs typed
Pairs(console) ==
    CHOOSE k \in 0 .. Len(console) :
        /\ Line(console, 2 * k + 1) = Null
        /\ \A j \in 0 .. k - 1 : Line(console, 2 * j + 1) # Null

PromptAll(q, p) ==
    LET pair(i) == [key |-> Line(q.console, 2 * i - 1),
                    val |-> IF Line(q.console, 2 * i) = Null THEN <<"none", 0>>
                            ELSE <<"typed", Len(q.console) - (2 * i - 1)>>]
        k == Pairs(q.console)
    IN  [q EXCEPT !.table[p] = @ \o [i \in 1 .. k |-> pair(i)],
                  !.console = LinesAfter(@, 2 * k + 1), !.status[p] = "SUCCESS"]

\* A single name is asked for when the table does not have it.
PromptOne(q, p, n) ==
    LET asked == Prompt(q) IN
    IF asked.val = Null THEN asked ELSE [asked EXCEPT !.req = Add(asked.req, p, n, asked.val)]

------------------------------------------------------------------------------
(* The jar and the query string's parameters *)

\* apache2_jar and apache2_args
Apache2Whole(q, p) ==
    IF q.status[p] # "EINIT" THEN q
    ELSE IF q.src[p] = Null THEN [q EXCEPT !.status[p] = "NODATA"]
    ELSE [q EXCEPT !.table[p] = q.src[p].entries, !.status[p] = q.src[p].status]

\* Mutant of CgiWhole: a header without data or with an error is looked at again.
CgiWholeMutant(q, p) ==
    IF q.kind = "interactive" /\ q.status[p] # "SUCCESS" THEN PromptAll(q, p)
    ELSE IF q.status[p] = "SUCCESS" THEN q
    ELSE IF q.src[p] = Null THEN [q EXCEPT !.status[p] = "NODATA"]
    ELSE [q EXCEPT !.table[p] = @ \o q.src[p].entries, !.status[p] = q.src[p].status]

\* cgi_jar and cgi_args
CgiWhole(q, p) ==
    IF q.kind = "interactive" /\ q.status[p] # "SUCCESS" THEN PromptAll(q, p)
    ELSE IF q.status[p] # "EINIT" THEN q
    ELSE IF q.src[p] = Null THEN [q EXCEPT !.status[p] = "NODATA"]
    ELSE [q EXCEPT !.table[p] = @ \o q.src[p].entries, !.status[p] = q.src[p].status]

\* apache2_jar_get and apache2_args_get
Apache2Get(q, p, n) == LET w == Apache2Whole(q, p) IN [req |-> w, val |-> Lookup(w.table[p], n)]

\* cgi_jar_get and cgi_args_get
CgiGet(q, p, n) ==
    LET w == IF q.kind = "interactive" THEN q ELSE CgiWhole(q, p)
        v == Lookup(w.table[p], n)
    IN  IF v = Null /\ q.kind = "interactive" THEN PromptOne(w, p, n) ELSE [req |-> w, val |-> v]

\* custom_jar_get and custom_args_get
CustomGet(q, p, n) == [req |-> q, val |-> Lookup(q.table[p], n)]

------------------------------------------------------------------------------
(* The body's parameters *)

\* The body's parser is made, or the request turned away.
StartBody(q) ==
    IF q.status["body"] # "EINIT" THEN q
    ELSE IF q.src["body"] = Null THEN [q EXCEPT !.status["body"] = "NOHEADER"]
    ELSE [q EXCEPT !.table["body"] = << >>, !.status["body"] = "INCOMPLETE"]

\* So many reads, each of a block.
ReadBlocks(q, k) ==
    LET body == q.src["body"] IN
    [q EXCEPT !.table["body"] = @ \o FlattenSeq(SubSeq(body.blocks, q.fed + 1, q.fed + k)),
              !.fed = @ + k,
              !.status["body"] = IF q.fed + k = Len(body.blocks) THEN body.status ELSE @]

\* Reads until the body is over or, when one is looked for, the name is there.
ReadOn(q, n) ==
    LET left == Len(q.src["body"].blocks) - q.fed
        Stops(k) == k = left \/ (n # Null /\ Lookup(ReadBlocks(q, k).table["body"], n) # Null)
    IN  IF q.status["body"] # "INCOMPLETE" THEN q
        ELSE ReadBlocks(q, CHOOSE k \in 0 .. left : Stops(k) /\ \A j \in 0 .. k - 1 : ~Stops(j))

\* cgi_body, and the others without the terminal
BodyWhole(q) ==
    IF q.kind = "interactive" /\ q.status["body"] # "SUCCESS" THEN PromptAll(q, "body")
    ELSE ReadOn(StartBody(q), Null)

\* cgi_body_get: at the terminal a name that is there is asked for again, and
\* one that is not is never asked for.
BodyGet(q, n) ==
    LET read == ReadOn(StartBody(q), n) IN
    IF q.kind # "interactive" THEN [req |-> read, val |-> Lookup(read.table["body"], n)]
    ELSE IF Lookup(q.table["body"], n) # Null THEN PromptOne(q, "body", n)
    ELSE [req |-> q, val |-> Null]

------------------------------------------------------------------------------
(* What a module's functions are reached by (apreq_module.h, module.c) *)

Whole(q, p) ==
    CASE p = "body" -> BodyWhole(q)
      [] p # "body" /\ q.kind = "apache2" -> Apache2Whole(q, p)
      [] p # "body" /\ q.kind = "custom" -> q
      [] OTHER -> CgiWhole(q, p)

Get(q, p, n) ==
    CASE p = "body" -> BodyGet(q, n)
      [] p # "body" /\ q.kind = "apache2" -> Apache2Get(q, p, n)
      [] p # "body" /\ q.kind = "custom" -> CustomGet(q, p, n)
      [] OTHER -> CgiGet(q, p, n)

\* apreq_param
Param(q, n) ==
    LET args == Get(q, "args", n) IN
    IF args.val # Null THEN args ELSE Get(args.req, "body", n)

\* apreq_params: a table of its own, the query string's parameters first
Params(q) ==
    LET w == Whole(Whole(q, "args"), "body") IN
    [req |-> w,
     table |-> IF w.table["args"] = Null /\ w.table["body"] = Null THEN Null
               ELSE Rows(w.table["args"]) \o Rows(w.table["body"])]


==============================================================================
