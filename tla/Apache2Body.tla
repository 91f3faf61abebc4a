----------------------------- MODULE Apache2Body -----------------------------
(***************************************************************************)
(* One request body under mod_apreq2: the apreq2 input filter, its context *)
(* (struct filter_ctx) and the handle operations that drive it, in one     *)
(* request of Apache 2.x.                                                  *)
(*                                                                         *)
(* Two parties pull the body through the filter.  The application calls    *)
(* the handle (apreq_body, apreq_body_get), which prefetches: the body is  *)
(* read, copied to a spool and parsed.  The consumer, the content handler  *)
(* at the top of the filter chain, reads through the filter: it is given   *)
(* the spool first, then a tee of what the filter reads and parses, and    *)
(* the filter takes itself out when parsing is over.                       *)
(*                                                                         *)
(* All of this runs in one thread: a call runs to its end, so pc # "idle"  *)
(* excludes every other operation; the interleaving is that of calls.      *)
(*                                                                         *)
(* A data byte is its position 1 .. BodyLen in the body and the            *)
(* end-of-stream bucket is BodyLen + 1.  What a parser does is seen from   *)
(* outside: the names it has put in the table and the status it returns.   *)
(***************************************************************************)
EXTENDS Integers, Sequences, FiniteSets

CONSTANTS
    BodyLen,            \* bytes in the request body
    BlockSize,          \* APREQ_DEFAULT_READ_BLOCK_SIZE
    Names,              \* parameter names the application asks for
    UserHooks,          \* hooks the application may add
    Find,               \* the filter's apreq_hook_find_param hook
    Null,
    Requests,           \* the requests and per-directory settings considered
    ReadSizes,          \* sizes of the consumer's reads
    ReadLimits,         \* arguments of apreq_read_limit_set
    BrigadeLimits,      \* arguments of apreq_brigade_limit_set
    TempDirs,           \* arguments of apreq_temp_dir_set
    PresetParsers       \* parsers an application may install itself

Hooks == UserHooks \cup {Find}

EOS == BodyLen + 1

NoLength  == -1         \* no Content-Length header
BadLength == -2         \* a Content-Length header that is not a number

\* closing: the byte on which the parser completes by itself (a multipart
\* body's closing boundary), 0 when only the end of the stream completes it.
\* at[n]: the token on which parameter n is complete, 0 when it is absent.
RequestType ==
    [get: BOOLEAN,
     length: {NoLength, BadLength, BodyLen},
     type: {"none", "unknown", "known"},
     closing: 0 .. BodyLen,
     at: [Names -> 0 .. EOS],
     read_limit: Nat, brigade_limit: Nat, temp_dir: TempDirs \cup {Null}]

ParserType == [limit: Nat, dir: TempDirs \cup {Null}]

ASSUME SizeAssumption ==
    /\ BodyLen \in Nat
    /\ BlockSize \in Nat \ {0}
    /\ ReadSizes \subseteq Nat \ {0}
    /\ ReadLimits \subseteq Nat /\ BrigadeLimits \subseteq Nat

ASSUME NamesAssumption ==
    /\ Null \notin Hooks /\ Null \notin Names /\ Null \notin TempDirs
    /\ Find \notin UserHooks

ASSUME HooksAssumption == IsFiniteSet(UserHooks)

ASSUME RequestsAssumption ==
    /\ Requests \subseteq RequestType
    /\ PresetParsers \subseteq ParserType

VARIABLES
    req,                \* the request and the merged dir_config, never changed
    \* struct filter_ctx
    body_status, filter_error, spool, bytes_read, read_limit, brigade_limit,
    temp_dir, hook_queue, body,
    \* struct apreq_parser_t and the list of hooks it heads
    parser, hook, next,
    find,               \* the ctx of the find_param hook: name, param, prev
    installed,          \* the filter is in the request's filter chain
    \* the world outside
    pos,                \* tokens taken from the filters below
    broken,             \* reading from below fails from now on
    fed,                \* what the parser has been shown
    out,                \* what the consumer has received
    consumer,           \* "reading", "eos" or "error"
    \* the call in progress
    pc, amount, sought,
    answer              \* what the last body_get returned, and for which name

parse    == <<body_status, fed, body, find, next>>
limits   == <<bytes_read, read_limit, brigade_limit, temp_dir>>
settings == <<parser, hook, hook_queue>>
below    == <<pos, broken>>
above    == <<out, consumer>>
call     == <<amount, sought, answer>>

vars == <<req, body_status, filter_error, spool, bytes_read, read_limit,
          brigade_limit, temp_dir, hook_queue, body, parser, hook, next, find,
          installed, pos, broken, fed, out, consumer, pc, amount, sought,
          answer>>

NoParser == [limit |-> -1, dir |-> Null]
NoAnswer == [name |-> Null, value |-> "none"]

Least(a, b) == IF a <= b THEN a ELSE b

Token(i) == IF i <= BodyLen THEN i ELSE EOS
StreamTo(n) == [i \in 1 .. n |-> Token(i)]

\* Data bytes among the first n tokens.
Bytes(n) == Least(n, BodyLen)

\* What lies between two positions of the stream.
Piece(p, q) == [i \in 1 .. q - p |-> Token(p + i)]

SpoolBytes == Cardinality({i \in DOMAIN spool : spool[i] # EOS})

------------------------------------------------------------------------------
(* The list of hooks.  Every hook of the model runs the one after it, as   *)
(* the hooks of the library do.                                            *)

HookWalk(h) ==
    LET w[k \in 0 .. Cardinality(Hooks)] ==
            IF k = 0 THEN h
            ELSE IF w[k-1] = Null THEN Null ELSE next[w[k-1]]
    IN  w

OnChain(h) == {HookWalk(h)[k] : k \in 0 .. Cardinality(Hooks)} \ {Null}

\* A walk of more steps than there are hooks has met one of them twice.
Cyclic(h) == HookWalk(h)[Cardinality(Hooks)] # Null

LastOf(h) == CHOOSE l \in OnChain(h) : next[l] = Null

\* Mutant of AddHook: only h itself is linked, what follows it is dropped.
AddHookMutant(h) ==
    /\ next' = [next EXCEPT ![h] = hook]
    /\ hook' = h

\* apreq_parser_add_hook: the list that h heads goes in front of the parser's.
AddHook(h) ==
    /\ next' = [next EXCEPT ![LastOf(h)] = hook]
    /\ hook' = h

------------------------------------------------------------------------------
(* External: the filters below, down to the connection.                    *)

\* Where a read of at most n bytes can leave the stream.  A read returns at
\* least one byte or the end of the stream; the end may come with the last
\* bytes or alone, and comes again on every later read.
Reads(n) ==
    {q \in pos + 1 .. pos + n + 1 :
        IF pos > BodyLen THEN q = pos + 1
        ELSE q <= Least(pos + n, BodyLen) \/ q = EOS}

\* The connection dies, or a filter below starts to fail.
Break ==
    /\ pc = "idle" /\ ~broken
    /\ broken' = TRUE
    /\ UNCHANGED <<req, parse, filter_error, spool, limits, settings,
                   installed, pos, above, pc, call>>

------------------------------------------------------------------------------
(* apreq_filter_init_context *)

LengthOver == req.length > read_limit

InitOutcome ==
    IF req.get THEN "NODATA"
    ELSE IF req.length = BadLength THEN "BADHEADER"
    ELSE IF LengthOver THEN "OVERLIMIT"
    ELSE IF parser = NoParser /\ req.type = "unknown" THEN "NOPARSER"
    ELSE IF parser = NoParser /\ req.type = "none" THEN "NOHEADER"
    ELSE "INCOMPLETE"

\* The content type's parser is made with the context's settings and queued
\* hooks; a parser that is already there has them merged into its own.
MakeParser ==
    /\ parser' = [limit |-> brigade_limit, dir |-> temp_dir]
    /\ hook' = hook_queue
    /\ UNCHANGED next

MergeParser ==
    /\ parser' = [limit |-> Least(parser.limit, brigade_limit),
                  dir |-> IF temp_dir # Null THEN temp_dir ELSE parser.dir]
    /\ IF hook_queue # Null THEN AddHook(hook_queue) ELSE UNCHANGED <<hook, next>>

NeedsInit == body_status = "EINIT"

InitContext ==
    /\ NeedsInit
    /\ body_status' = InitOutcome
    /\ IF InitOutcome = "INCOMPLETE"
       THEN /\ IF parser = NoParser THEN MakeParser ELSE MergeParser
            /\ hook_queue' = Null
       ELSE UNCHANGED <<settings, next>>
    /\ UNCHANGED <<fed, body, find, filter_error, spool, limits>>

------------------------------------------------------------------------------
(* apreq_parser_run on the piece that ends at q.                           *)

\* What a parser may answer.  Any parser may fail on any piece; short of
\* that it completes on its closing boundary or at the end of the stream.  A
\* parser that is inside a nested body may absorb the end of the stream once.
Verdicts(q) ==
    {"GENERAL"} \cup
    IF req.closing > 0 /\ q >= req.closing THEN {"SUCCESS"}
    ELSE IF q <= BodyLen THEN {"INCOMPLETE"}
    ELSE IF pos > BodyLen THEN {"SUCCESS"}
    ELSE {"SUCCESS", "INCOMPLETE"}

\* The parameters completed between the current position and m.
Completed(m) == {n \in Names : pos < req.at[n] /\ req.at[n] <= m}

\* A parser that fails does so after some of the piece's parameters.
ParsedUpTo(q, verdict) == IF verdict = "GENERAL" THEN pos .. q ELSE {q}

\* Each new parameter is shown to the hooks and then joins the table.  The
\* find_param hook, if it is on the list and names one of them, keeps it and
\* sets ctx->prev->next = hook->next.
RunHooks(new) ==
    IF Find \in OnChain(hook) /\ find.name \in new /\ ~find.param
    THEN /\ find' = [find EXCEPT !.param = TRUE]
         /\ next' = [next EXCEPT ![find.prev] = next[Find]]
    ELSE UNCHANGED <<find, next>>

\* Mutant of Shown: the brigade is not emptied after the parser has run.
ShownMutant(q) == fed' = fed \o fed \o Piece(pos, q)

Shown(q) == fed' = fed \o Piece(pos, q)

\* A list of hooks that runs into itself recurses until the stack is gone.
Feed(q, resume) ==
    \E verdict \in Verdicts(q) : \E m \in ParsedUpTo(q, verdict) :
        LET new == Completed(m) IN
        /\ Shown(q)
        /\ IF new # {} /\ Cyclic(hook)
           THEN /\ pc' = "overflow"
                /\ UNCHANGED <<body_status, body, find, next>>
           ELSE /\ pc' = resume
                /\ body_status' = verdict
                /\ body' = body \cup new
                /\ RunHooks(new)

PastLimit == bytes_read' > read_limit

\* The piece that ends at q is counted, and shown to the parser unless it
\* goes past the limit.
CountAndFeed(q, resume) ==
    /\ bytes_read' = bytes_read + Bytes(q) - Bytes(pos)
    /\ IF PastLimit
       THEN /\ body_status' = "OVERLIMIT"
            /\ pc' = resume
            /\ UNCHANGED <<fed, body, find, next>>
       ELSE Feed(q, resume)
    /\ UNCHANGED <<read_limit, brigade_limit, temp_dir>>

------------------------------------------------------------------------------
(* apreq_filter_prefetch *)

SpoolEnded == spool # << >> /\ spool[Len(spool)] = EOS

\* apreq_brigade_concat: nothing is added behind the end of the stream (it
\* says APR_EOF, which prefetch accepts).
Spool(q) == spool' = IF SpoolEnded THEN spool ELSE spool \o Piece(pos, q)

\* The spool goes to a temporary file at the brigade limit, and only then
\* can fail; what it held stays, the new piece is lost.
SpoolMayFail(q) ==
    ~SpoolEnded /\ SpoolBytes + Bytes(q) - Bytes(pos) >= brigade_limit

\* Mutant of FailFilter: the consumer is not told.
FailFilterMutant ==
    /\ filter_error' = FALSE
    /\ body_status' = "GENERAL"

\* Mutant of FailFilter: the status stays as it was.
FailFilterAgain ==
    /\ filter_error' = TRUE
    /\ UNCHANGED body_status

FailFilter ==
    /\ filter_error' = TRUE
    /\ body_status' = "GENERAL"

PrefetchRefused(resume) ==
    /\ body_status # "INCOMPLETE"
    /\ pc' = resume
    /\ UNCHANGED <<parse, filter_error, spool, limits, below>>

PrefetchBroken(resume) ==
    /\ body_status = "INCOMPLETE" /\ broken
    /\ FailFilter
    /\ pc' = resume
    /\ UNCHANGED <<fed, body, find, next, spool, limits, below>>

PrefetchUnspooled(resume) ==
    /\ body_status = "INCOMPLETE" /\ ~broken
    /\ \E q \in Reads(BlockSize) : SpoolMayFail(q) /\ pos' = q
    /\ FailFilter
    /\ pc' = resume
    /\ UNCHANGED <<fed, body, find, next, spool, limits, broken>>

PrefetchPiece(resume) ==
    /\ body_status = "INCOMPLETE" /\ ~broken
    /\ \E q \in Reads(BlockSize) :
        /\ pos' = q
        /\ Spool(q)
        /\ CountAndFeed(q, resume)
    /\ UNCHANGED <<filter_error, broken>>

Prefetch(resume) ==
    \/ PrefetchRefused(resume)
    \/ PrefetchBroken(resume)
    \/ PrefetchUnspooled(resume)
    \/ PrefetchPiece(resume)

------------------------------------------------------------------------------
(* apache2_body: parse to the end. *)

Body ==
    /\ pc = "idle"
    /\ pc' = "body"
    /\ IF NeedsInit THEN InitContext
       ELSE UNCHANGED <<parse, filter_error, spool, limits, settings>>
    /\ UNCHANGED <<req, installed, below, above, call>>

BodyLoop ==
    /\ pc = "body" /\ body_status = "INCOMPLETE"
    /\ Prefetch("body")
    /\ UNCHANGED <<req, settings, installed, above, call>>

BodyReturn ==
    /\ pc = "body" /\ body_status # "INCOMPLETE"
    /\ pc' = "idle"
    /\ UNCHANGED <<req, parse, filter_error, spool, limits, settings,
                   installed, below, above, call>>

------------------------------------------------------------------------------
(* apache2_body_get: parse until the parameter n is there. *)

Return(n, value) ==
    /\ answer' = [name |-> n, value |-> value]
    /\ pc' = "idle"
    /\ sought' = Null
    /\ UNCHANGED amount

Found(n) == IF n \in body THEN "param" ELSE "null"

\* Parsing is over (or never began): the table has the answer.
GetFromTable(n) ==
    /\ pc = "idle"
    /\ body_status \notin {"EINIT", "INCOMPLETE"}
    /\ Return(n, Found(n))
    /\ UNCHANGED <<req, parse, filter_error, spool, limits, settings,
                   installed, below, above>>

\* The first call readies the context, and prefetches if it may parse.
GetInit(n) ==
    /\ pc = "idle"
    /\ InitContext
    /\ IF body_status' = "INCOMPLETE"
       THEN pc' = "first" /\ sought' = n /\ UNCHANGED <<amount, answer>>
       ELSE Return(n, "null")
    /\ UNCHANGED <<req, installed, below, above>>

GetFirst ==
    /\ pc = "first"
    /\ Prefetch("lookup")
    /\ UNCHANGED <<req, settings, installed, above, call>>

GetOngoing(n) ==
    /\ pc = "idle" /\ body_status = "INCOMPLETE"
    /\ pc' = "lookup"
    /\ sought' = n
    /\ UNCHANGED <<req, parse, filter_error, spool, limits, settings,
                   installed, below, above, amount, answer>>

\* A parameter that is not in the table yet is looked for with find_param
\* at the head of the list; ctx->prev is read after the head was assigned.
InstallFind ==
    /\ next' = [next EXCEPT ![Find] = hook]
    /\ hook' = Find
    /\ find' = [name |-> sought, param |-> FALSE, prev |-> hook']

GetLookup ==
    /\ pc = "lookup"
    /\ IF sought \in body
       THEN Return(sought, "param") /\ UNCHANGED <<next, hook, find>>
       ELSE /\ InstallFind
            /\ pc' = "scan"
            /\ UNCHANGED call
    /\ UNCHANGED <<req, body_status, fed, body, filter_error, spool, limits,
                   parser, hook_queue, installed, below, above>>

GetScan ==
    /\ pc = "scan"
    /\ Prefetch("test")
    /\ UNCHANGED <<req, settings, installed, above, call>>

\* Mutant of ScanOver: one prefetch is enough.
ScanOverMutant == TRUE

ScanOver == body_status # "INCOMPLETE"

GetTest ==
    /\ pc = "test"
    /\ IF find.param
       THEN Return(sought, "param") /\ UNCHANGED hook
       ELSE IF ScanOver
       THEN hook' = next[Find] /\ Return(sought, "null")
       ELSE pc' = "scan" /\ UNCHANGED <<call, hook>>
    /\ UNCHANGED <<req, parse, filter_error, spool, limits, parser,
                   hook_queue, installed, below, above>>

------------------------------------------------------------------------------
(* The other handle operations. *)

ParserSet(p) ==
    /\ pc = "idle" /\ parser = NoParser
    /\ parser' = p
    /\ UNCHANGED <<req, parse, filter_error, spool, limits, hook, hook_queue,
                   installed, below, above, pc, call>>

\* A hook object goes on one list once: a new one is on none and leads nowhere.
FreshHook(h) == next[h] = Null /\ h \notin OnChain(hook) \cup OnChain(hook_queue)

\* With a parser, in front of its hooks; without one, at the end of the queue.
HookAdd(h) ==
    /\ pc = "idle" /\ FreshHook(h)
    /\ IF parser # NoParser
       THEN AddHook(h) /\ UNCHANGED hook_queue
       ELSE /\ UNCHANGED hook
            /\ IF hook_queue # Null
               THEN /\ next' = [next EXCEPT ![LastOf(hook_queue)] = h]
                    /\ UNCHANGED hook_queue
               ELSE hook_queue' = h /\ UNCHANGED next
    /\ UNCHANGED <<req, body_status, fed, body, find, filter_error, spool,
                   limits, parser, installed, below, above, pc, call>>

BrigadeLimitSet(b) ==
    /\ pc = "idle" /\ (body_status = "EINIT" \/ brigade_limit > b)
    /\ brigade_limit' = b
    /\ UNCHANGED <<req, parse, filter_error, spool, bytes_read, read_limit,
                   temp_dir, settings, installed, below, above, pc, call>>

\* Mutant of MayLower: what was already read is not looked at.
MayLowerMutant(b) == read_limit > b

MayLower(b) == read_limit > b /\ bytes_read < b

ReadLimitSet(b) ==
    /\ pc = "idle" /\ MayLower(b)
    /\ read_limit' = b
    /\ UNCHANGED <<req, parse, filter_error, spool, bytes_read, brigade_limit,
                   temp_dir, settings, installed, below, above, pc, call>>

TempDirSet(d) ==
    /\ pc = "idle" /\ temp_dir = Null /\ bytes_read = 0
    /\ temp_dir' = d
    /\ UNCHANGED <<req, parse, filter_error, spool, bytes_read, read_limit,
                   brigade_limit, settings, installed, below, above, pc, call>>

\* apache2_temp_dir_get
TempDirGet == IF parser # NoParser THEN parser.dir ELSE temp_dir

------------------------------------------------------------------------------
(* apreq_filter in AP_MODE_READBYTES: the consumer reads n bytes. *)

Reading == pc = "idle" /\ consumer = "reading"

\* Mutant of Receive: buckets are spliced in at the head.
ReceiveMutant(t) ==
    /\ out' = t \o out
    /\ consumer' = IF t # << >> /\ t[Len(t)] = EOS THEN "eos" ELSE "reading"

\* What the consumer makes of the piece t.
Receive(t) ==
    /\ out' = out \o t
    /\ consumer' = IF t # << >> /\ t[Len(t)] = EOS THEN "eos" ELSE "reading"

ReadStart(n) ==
    /\ Reading /\ installed
    /\ pc' = "read" /\ amount' = n
    /\ IF NeedsInit THEN InitContext
       ELSE UNCHANGED <<parse, filter_error, spool, limits, settings>>
    /\ UNCHANGED <<req, installed, below, above, sought, answer>>

ReadReturn == pc' = "idle" /\ amount' = 0 /\ UNCHANGED <<sought, answer>>

\* Mutant of Cut: the end of the stream stays behind the bytes.
CutMutant == IF amount < SpoolBytes THEN amount ELSE SpoolBytes

\* The first bytes of the spool, and the end of the stream if it is next.
Cut == IF amount < SpoolBytes THEN amount ELSE Len(spool)

ReadSpool ==
    /\ pc = "read" /\ spool # << >>
    /\ Receive(SubSeq(spool, 1, Cut))
    /\ spool' = SubSeq(spool, Cut + 1, Len(spool))
    /\ ReadReturn
    /\ UNCHANGED <<req, parse, filter_error, limits, settings, installed, below>>

\* Parsing is over and the spool is gone: an earlier failure is reported ...
ReadFilterError ==
    /\ pc = "read" /\ spool = << >>
    /\ body_status # "INCOMPLETE" /\ filter_error
    /\ consumer' = "error"
    /\ ReadReturn
    /\ UNCHANGED <<req, parse, filter_error, spool, limits, settings,
                   installed, below, out>>

\* ... or the read goes to the filters below and this one leaves the chain.
ReadThrough ==
    /\ pc = "read" /\ spool = << >>
    /\ body_status # "INCOMPLETE" /\ ~filter_error
    /\ IF broken
       THEN consumer' = "error" /\ UNCHANGED <<out, pos>>
       ELSE \E q \in Reads(amount) : pos' = q /\ Receive(Piece(pos, q))
    /\ installed' = FALSE
    /\ ReadReturn
    /\ UNCHANGED <<req, parse, filter_error, spool, limits, settings, broken>>

\* Parsing goes on: what is read goes to the consumer and to the parser.
ReadTee ==
    /\ pc = "read" /\ spool = << >> /\ body_status = "INCOMPLETE"
    /\ IF broken
       THEN /\ consumer' = "error"
            /\ pc' = "idle"
            /\ UNCHANGED <<out, pos, parse, limits>>
       ELSE \E q \in Reads(amount) :
                /\ pos' = q
                /\ Receive(Piece(pos, q))
                /\ CountAndFeed(q, "idle")
    /\ amount' = 0
    /\ UNCHANGED <<req, filter_error, spool, settings, installed, broken,
                   sought, answer>>

\* With the filter gone, the consumer reads from the filters below.
ReadBelow(n) ==
    /\ Reading /\ ~installed
    /\ IF broken
       THEN consumer' = "error" /\ UNCHANGED <<out, pos>>
       ELSE \E q \in Reads(n) : pos' = q /\ Receive(Piece(pos, q))
    /\ UNCHANGED <<req, parse, filter_error, spool, limits, settings,
                   installed, broken, pc, call>>

------------------------------------------------------------------------------
\* A new context (apreq_filter_make_context with nothing to steal) takes its
\* settings from the directory's configuration.
Init ==
    /\ req \in Requests
    /\ body_status = "EINIT" /\ filter_error = FALSE
    /\ spool = << >> /\ bytes_read = 0
    /\ read_limit = req.read_limit
    /\ brigade_limit = req.brigade_limit
    /\ temp_dir = req.temp_dir
    /\ hook_queue = Null /\ body = {}
    /\ parser = NoParser /\ hook = Null
    /\ next = [h \in Hooks |-> Null]
    /\ find = [name |-> Null, param |-> FALSE, prev |-> Null]
    /\ installed = TRUE
    /\ pos = 0 /\ broken = FALSE
    /\ fed = << >> /\ out = << >> /\ consumer = "reading"
    /\ pc = "idle" /\ amount = 0 /\ sought = Null /\ answer = NoAnswer

CallStep ==
    \/ BodyLoop \/ BodyReturn
    \/ GetFirst \/ GetLookup \/ GetScan \/ GetTest
    \/ ReadSpool \/ ReadFilterError \/ ReadThrough \/ ReadTee

Consume == \E n \in ReadSizes : ReadStart(n) \/ ReadBelow(n)

Configure ==
    \/ \E p \in PresetParsers : ParserSet(p)
    \/ \E h \in UserHooks : HookAdd(h)
    \/ \E b \in BrigadeLimits : BrigadeLimitSet(b)
    \/ \E b \in ReadLimits : ReadLimitSet(b)
    \/ \E d \in TempDirs : TempDirSet(d)

Next ==
    \/ Body
    \/ \E n \in Names : GetFromTable(n) \/ GetInit(n) \/ GetOngoing(n)
    \/ Configure
    \/ CallStep
    \/ Consume
    \/ Break

\* A call that has begun goes on, and the consumer keeps reading whenever no
\* call is in progress: one thread, and a content handler that wants the body.
Fairness ==
    /\ WF_vars(CallStep)
    /\ SF_vars(Consume)

Spec == Init /\ [][Next]_vars /\ Fairness

------------------------------------------------------------------------------
Statuses == {"EINIT", "INCOMPLETE", "SUCCESS", "NODATA", "BADHEADER",
             "OVERLIMIT", "NOPARSER", "NOHEADER", "GENERAL"}

Settled == body_status \notin {"EINIT", "INCOMPLETE"}

\* The variables hold what their C counterparts may hold.
TypeOK ==
    /\ req \in Requests
    /\ body_status \in Statuses /\ filter_error \in BOOLEAN
    /\ spool \in Seq(1 .. EOS) /\ out \in Seq(1 .. EOS) /\ fed \in Seq(1 .. EOS)
    /\ bytes_read \in Nat /\ read_limit \in Nat /\ brigade_limit \in Nat
    /\ temp_dir \in TempDirs \cup {Null}
    /\ hook_queue \in Hooks \cup {Null} /\ hook \in Hooks \cup {Null}
    /\ next \in [Hooks -> Hooks \cup {Null}]
    /\ body \subseteq Names
    /\ parser \in ParserType \cup {NoParser}
    /\ find \in [name: Names \cup {Null}, param: BOOLEAN, prev: Hooks \cup {Null}]
    /\ installed \in BOOLEAN /\ broken \in BOOLEAN
    /\ pos \in Nat
    /\ consumer \in {"reading", "eos", "error"}
    /\ pc \in {"idle", "body", "first", "lookup", "scan", "test", "read", "overflow"}
    /\ amount \in Nat
    /\ sought \in Names \cup {Null}
    /\ answer \in [name: Names \cup {Null}, value: {"none", "param", "null"}]

\* What the consumer has, followed by what is spooled for it, is the body
\* from its first byte, in order and without a gap or a repetition, however
\* prefetches and reads alternate; and unless the filter holds an error for
\* the consumer, it is all that was taken from the connection.
TeeIntact ==
    /\ out \o spool = StreamTo(Len(out) + Len(spool))
    /\ ~filter_error => Least(Len(out) + Len(spool), EOS) = Least(pos, EOS)

\* The parser sees the same body in the same order, and as long as parsing
\* goes on it has seen every token taken from the connection, by whichever
\* of apreq_filter and apreq_filter_prefetch it was taken.
ParserInStep ==
    /\ fed = StreamTo(Len(fed))
    /\ body_status = "INCOMPLETE" => Len(fed) = pos

\* The parser is never shown more bytes than the read limit in force, though
\* the limit may be lowered between any two reads.
ParserWithinLimit == Bytes(Len(fed)) <= read_limit

\* Having read more than the limit and the verdict OVERLIMIT go together: a
\* limit lowered after the fact never condemns bytes already accepted.
OverlimitJustified ==
    /\ bytes_read > read_limit => body_status = "OVERLIMIT"
    /\ body_status = "OVERLIMIT" =>
           bytes_read > read_limit \/ req.length > read_limit

\* A consumer that meets the end of the stream has the whole body, whatever
\* failed on the way: a read error or a full disk never looks like the end.
EosMeansWhole == consumer = "eos" => out = StreamTo(EOS)

\* A consumer that is told of a failure has been given everything that was
\* spooled before it.
FailureComesLast == consumer = "error" => spool = << >>

\* body_get says "no such parameter" only when parsing is over and the table
\* does not have it, and otherwise returns a parameter of the table.
AnswerIsFinal ==
    /\ answer.value = "null" => Settled /\ answer.name \notin body
    /\ answer.value = "param" => answer.name \in body

\* Once parsing is over the status and the table of parameters never change,
\* though the consumer may still be reading through the filter.
VerdictStands == [][Settled => UNCHANGED <<body_status, body, fed>>]_vars

\* The application's hooks on the queue or on the parser's list.
Listed == (OnChain(hook) \cup OnChain(hook_queue)) \ {Find}

\* A hook an application has added stays on the queue or on the parser's
\* list: neither merging the queue nor the find_param hook's coming and going
\* drops it, unless that hook is linked to a list it was left on.
HooksKept == [][~Cyclic(hook)' => Listed \subseteq Listed']_vars

\* Every call of the application returns, and so does every read, but for the
\* one that runs a list of hooks without an end.
CallsReturn == pc # "idle" ~> pc \in {"idle", "overflow"}

\* A consumer that keeps reading gets to the end of the body or an error, or the
\* list of hooks has no end.
ConsumerServed == <>(consumer # "reading" \/ pc = "overflow")

\* The filter is a tee: the abstract two-reader stream.
Tee == INSTANCE BodyTee WITH settled <- Settled, failed <- consumer = "error"
TeeSpec == Tee!Spec

------------------------------------------------------------------------------
(* What comments and documents of the source say and the code does not do. *)

==============================================================================
