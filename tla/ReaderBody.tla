------------------------------ MODULE ReaderBody ------------------------------
(***************************************************************************)
(* One request body under a handle that reads for itself: that of a CGI    *)
(* program (module_cgi.c), of Apache 1.3 (module/apache/handle.c), and the *)
(* custom handle over a brigade its caller gives it (module_custom.c).     *)
(*                                                                         *)
(* The three share their operations and differ in where the body comes     *)
(* from, in which settings they accept, and in how body_get waits for its  *)
(* parameter.  `req.reader' says which of them it is.  A call runs to its  *)
(* end; the interleaving is that of calls, and of what arrives.            *)
(*                                                                         *)
(* A data byte is its position in the body.  What a parser does is seen    *)
(* from outside: the names it has put in the table, and its status.        *)
(***************************************************************************)
EXTENDS Integers, Sequences, FiniteSets, SequencesExt

CONSTANTS
    MaxLen,             \* bounds the bytes of a body
    BlockSize,          \* APREQ_DEFAULT_READ_BLOCK_SIZE
    Unlimited,          \* (apr_uint64_t)-1
    Names, Hooks,
    Find,               \* the CGI handle's apreq_hook_find_param hook
    Dirs, Null,
    Requests,           \* the requests and configurations considered
    ReadLimits, BrigadeLimits, PresetParsers

Readers == {"cgi", "custom", "apache"}

\* The Content-Length header: none, one that is no number, one without a
\* character, one with a minus sign, or what it says.
NoLength == -1
NoNumber == -2
Empty    == -3
Negative == -4

\* arrives: the bytes that arrive, whatever was announced.
\* closing: the byte on which the parser completes by itself, 0 if none.
\* nested: how many times the parser absorbs the end of the stream, one time
\* for each nested body that is open when it comes.
\* at[n]: the byte that completes parameter n, or MaxLen + 1 when the end of
\* the stream does; 0 when it is absent.
RequestType ==
    [reader: Readers, arrives: 0 .. MaxLen,
     length: {NoLength, NoNumber, Empty, Negative} \cup 0 .. MaxLen,
     type: {"none", "unknown", "known"},
     closing: 0 .. MaxLen, nested: Nat, at: [Names -> 0 .. MaxLen + 1],
     read_limit: 0 .. Unlimited, brigade_limit: Nat, temp_dir: Dirs \cup {Null}]

ParserType == [limit: Nat, dir: Dirs \cup {Null}]

ASSUME SizeAssumption ==
    /\ MaxLen \in Nat /\ BlockSize \in Nat \ {0}
    /\ Unlimited \in Nat /\ Unlimited > MaxLen
    /\ ReadLimits \subseteq 0 .. Unlimited /\ BrigadeLimits \subseteq Nat

ASSUME RequestsAssumption ==
    /\ Requests \subseteq RequestType
    /\ PresetParsers \subseteq ParserType
    /\ Null \notin Dirs \cup Names \cup Hooks /\ Find \notin Hooks

VARIABLES
    req,
    \* the handle
    body_status, bytes_read, read_limit, brigade_limit, temp_dir, hook_queue,
    body,               \* the names in the table
    parser,             \* with the sequence of its hooks
    looped,             \* the list of hooks runs into itself
    find,               \* the ctx of the find_param hook: name, param
    \* the world outside
    pos,                \* bytes taken from it
    ends,               \* how often the end of the stream was taken
    broken,             \* reading fails from now on
    fed,                \* the bytes the parser has been shown, and its ends
    \* the call in progress
    pc, sought,
    answer,             \* what the last body_get returned, and for which name
    accepted            \* the settings a caller was told are in force

handle == <<body_status, bytes_read, body, parser, looped, find, hook_queue>>
set    == <<read_limit, brigade_limit, temp_dir, accepted>>
world  == <<pos, ends, broken, fed>>
vars   == <<req, handle, set, world, pc, sought, answer>>

NoParser == [limit |-> -1, dir |-> Null, hooks |-> << >>]
NoAnswer == [name |-> Null, value |-> "none"]

Is(reader) == req.reader = reader

Least(a, b) == IF a <= b THEN a ELSE b

------------------------------------------------------------------------------
(* init_body, of the CGI and the Apache 1.3 handle. *)

\* Only the CGI handle looks whether there was a digit at all.
BadLength == req.length = NoNumber \/ (req.length = Empty /\ Is("cgi"))

\* The length is compared as an unsigned number, a negative one as a huge one.
LengthOver ==
    \/ req.length > read_limit
    \/ req.length = Negative /\ read_limit < Unlimited

InitOutcome ==
    IF BadLength THEN "BADHEADER"
    ELSE IF LengthOver THEN "OVERLIMIT"
    ELSE IF parser = NoParser /\ req.type = "unknown" THEN "NOPARSER"
    ELSE IF parser = NoParser /\ req.type = "none" THEN "NOHEADER"
    ELSE "INCOMPLETE"

\* apreq_parser_add_hook: the queue goes in front.
WithQueue(p) == [p EXCEPT !.hooks = hook_queue \o @]

NeedsInit == body_status = "EINIT"

InitBody ==
    /\ NeedsInit
    /\ body_status' = InitOutcome
    /\ IF InitOutcome = "INCOMPLETE"
       THEN /\ hook_queue' = << >>
            /\ parser' =
                  IF parser = NoParser
                  THEN [limit |-> brigade_limit, dir |-> temp_dir, hooks |-> hook_queue]
                  ELSE [WithQueue(parser) EXCEPT
                           !.limit = Least(@, brigade_limit),
                           !.dir = IF temp_dir # Null THEN temp_dir ELSE @]
       ELSE UNCHANGED <<hook_queue, parser>>
    /\ UNCHANGED <<bytes_read, body, looped, find>>

------------------------------------------------------------------------------
(* custom_parse_brigade, cgi_read, apache_read *)

\* Mutant of LooksEnded: every handle takes a failed read for the end.
LooksEndedMutant == broken

\* A failed read that is taken for the end.
LooksEnded == broken /\ Is("apache")

\* What a read takes: the bytes up to q, and the end of the stream or not.
\* The CGI and the custom handle take a whole block, or all there is with the
\* end behind it; once they have taken the end nothing is left.  Apache 1.3
\* gives what has arrived, and the end whenever it has nothing more to give,
\* a failed read included.
Reads ==
    LET all == req.arrives
        at(q, end) == [to |-> q, end |-> end]
    IN  IF LooksEnded \/ (Is("apache") /\ pos = all) THEN {at(pos, TRUE)}
        ELSE IF Is("apache")
        THEN {at(q, FALSE) : q \in pos + 1 .. Least(pos + BlockSize, all)}
        ELSE IF ends > 0 THEN {at(pos, FALSE)}
        ELSE IF pos + BlockSize <= all THEN {at(pos + BlockSize, FALSE)}
        ELSE {at(all, TRUE)}

\* What the parser may answer to that.
Verdicts(r) ==
    {"GENERAL"} \cup
    IF req.closing > 0 /\ r.to >= req.closing THEN {"SUCCESS"}
    ELSE IF r.end /\ ends >= req.nested THEN {"SUCCESS"}
    ELSE {"INCOMPLETE"}

Completed(from, to, verdict) ==
    {n \in Names : from < req.at[n] /\ req.at[n] <= to}
    \cup IF verdict = "SUCCESS" THEN {n \in Names : req.at[n] = MaxLen + 1} ELSE {}

\* Each new parameter is shown to the hooks; find_param keeps its own.
RunHooks(new) ==
    find' = IF Find \in ToSet(parser.hooks) /\ find.name \in new
            THEN [find EXCEPT !.param = TRUE] ELSE find

\* Mutant of Shown: what was moved to tmpbb or in stays there.
ShownMutant(r) == fed' = [bytes |-> fed.bytes \o fed.bytes \o [i \in 1 .. r.to - pos |-> pos + i],
                          ends  |-> fed.ends + IF r.end THEN 1 ELSE 0]

Shown(r) == fed' = [bytes |-> fed.bytes \o [i \in 1 .. r.to - pos |-> pos + i],
                    ends  |-> fed.ends + IF r.end THEN 1 ELSE 0]

\* A list of hooks that runs into itself recurses until the stack is gone.
Feed(r, resume) ==
    \E verdict \in Verdicts(r) :
    \E m \in IF verdict = "GENERAL" THEN pos .. r.to ELSE {r.to} :
        LET new == Completed(pos, m, verdict) IN
        /\ Shown(r)
        /\ IF new # {} /\ looped
           THEN pc' = "overflow" /\ UNCHANGED <<body_status, body, find>>
           ELSE /\ pc' = resume
                /\ body_status' = verdict
                /\ body' = body \cup new
                /\ RunHooks(new)

\* Mutant of PastLimit: the limit is compared before the piece is counted.
PastLimitMutant == bytes_read > read_limit

PastLimit == bytes_read' > read_limit

\* Mutant of ReadFails: the status stays as it was.
ReadFailsMutant == UNCHANGED body_status

ReadFails == body_status' = "EIO"

Read(resume) ==
    /\ \/ /\ body_status # "INCOMPLETE"
          /\ pc' = resume
          /\ UNCHANGED <<body_status, bytes_read, body, find, world>>
       \/ /\ body_status = "INCOMPLETE" /\ broken /\ ~LooksEnded
          /\ ReadFails
          /\ pc' = resume
          /\ UNCHANGED <<bytes_read, body, find, world>>
       \/ /\ body_status = "INCOMPLETE" /\ (broken => LooksEnded)
          /\ \E r \in Reads :
                /\ pos' = r.to
                /\ ends' = Least(ends + (IF r.end THEN 1 ELSE 0), req.nested + 1)
                /\ bytes_read' = bytes_read + r.to - pos
                /\ IF PastLimit
                   THEN /\ body_status' = "OVERLIMIT"
                        /\ pc' = resume
                        /\ UNCHANGED <<body, find, fed>>
                   ELSE Feed(r, resume)
          /\ UNCHANGED broken
    /\ UNCHANGED <<req, parser, looped, hook_queue, set, answer>>

\* The pipe or the connection fails.
Break ==
    /\ pc = "idle" /\ ~broken
    /\ broken' = TRUE
    /\ UNCHANGED <<req, handle, set, pos, ends, fed, pc, sought, answer>>

------------------------------------------------------------------------------
(* body *)

Body ==
    /\ pc = "idle"
    /\ pc' = "body"
    /\ InitBody \/ (~NeedsInit /\ UNCHANGED handle)
    /\ UNCHANGED <<req, set, world, sought, answer>>

BodyLoop ==
    /\ pc = "body" /\ body_status = "INCOMPLETE"
    /\ Read("body")
    /\ UNCHANGED sought

BodyReturn ==
    /\ pc = "body" /\ body_status # "INCOMPLETE"
    /\ pc' = "idle"
    /\ UNCHANGED <<req, handle, set, world, sought, answer>>

------------------------------------------------------------------------------
(* body_get *)

Return(n, value) ==
    /\ answer' = [name |-> n, value |-> value]
    /\ pc' = "idle" /\ sought' = Null

Found(n) == IF n \in body THEN "param" ELSE "null"

GetFromTable(n) ==
    /\ pc = "idle" /\ body_status \notin {"EINIT", "INCOMPLETE"}
    /\ Return(n, Found(n))
    /\ UNCHANGED <<req, handle, set, world>>

GetInit(n) ==
    /\ pc = "idle"
    /\ InitBody
    /\ IF body_status' = "INCOMPLETE"
       THEN pc' = "first" /\ sought' = n /\ UNCHANGED answer
       ELSE Return(n, "null")
    /\ UNCHANGED <<req, set, world>>

GetFirst == pc = "first" /\ Read("lookup") /\ UNCHANGED sought

GetOngoing(n) ==
    /\ pc = "idle" /\ body_status = "INCOMPLETE"
    /\ pc' = "lookup" /\ sought' = n
    /\ UNCHANGED <<req, handle, set, world, answer>>

InFrontOfFind(hooks) ==
    {i \in DOMAIN hooks : \A j \in 1 .. i : hooks[j] # Find}

\* The CGI handle puts find_param at the head.  If it was on the list already,
\* as it is once it has found something, the list now leads back to it and
\* what was behind it is lost.
InstallFind ==
    /\ find' = [name |-> sought, param |-> FALSE]
    /\ looped' = (Find \in ToSet(parser.hooks))
    /\ parser' = [parser EXCEPT !.hooks = <<Find>> \o SubSeq(@, 1, Cardinality(InFrontOfFind(@)))]

GetLookup ==
    /\ pc = "lookup"
    /\ IF sought \in body
       THEN Return(sought, "param") /\ UNCHANGED <<parser, looped, find>>
       ELSE /\ pc' = "scan" /\ UNCHANGED <<sought, answer>>
            /\ IF Is("cgi") THEN InstallFind ELSE UNCHANGED <<parser, looped, find>>
    /\ UNCHANGED <<req, body_status, bytes_read, body, hook_queue, set, world>>

GetScan == pc = "scan" /\ Read("test") /\ UNCHANGED sought

\* Mutant of ScanOver: one read is enough.
ScanOverMutant == TRUE

ScanOver == body_status # "INCOMPLETE"

GetTest ==
    /\ pc = "test"
    /\ IF (IF Is("cgi") THEN find.param ELSE sought \in body)
       THEN Return(sought, "param") /\ UNCHANGED parser
       ELSE IF ScanOver
       THEN /\ Return(sought, "null")
            \* parser->hook = h->next
            /\ parser' = IF Is("cgi") /\ ~looped
                         THEN [parser EXCEPT !.hooks = Tail(@)] ELSE parser
       ELSE pc' = "scan" /\ UNCHANGED <<sought, answer, parser>>
    /\ UNCHANGED <<req, body_status, bytes_read, body, looped, find, hook_queue, set, world>>

------------------------------------------------------------------------------
(* The settings *)

\* The custom handle is made with its settings: it takes hooks, and its setters
\* return APR_ENOTIMPL.
Settable == pc = "idle" /\ ~Is("custom")

\* Mutant of Adopted: the CGI handle forgets its directory.
AdoptedMutant(p) == [WithQueue(p) EXCEPT !.limit = Least(@, brigade_limit)]

\* What parser_set makes of p.  The assignments of the Apache 1.3 handle are
\* to itself: its settings wait for init_body.
Adopted(p) ==
    IF Is("apache") THEN WithQueue(p)
    ELSE [WithQueue(p) EXCEPT
             !.limit = Least(@, brigade_limit),
             !.dir = IF temp_dir # Null THEN temp_dir ELSE @]

ParserSet(p) ==
    /\ Settable /\ parser = NoParser
    /\ parser' = Adopted([limit |-> p.limit, dir |-> p.dir, hooks |-> << >>])
    /\ hook_queue' = << >>
    /\ UNCHANGED <<req, body_status, bytes_read, body, looped, find, set, world, pc, sought, answer>>

\* A hook object goes on one list once.
HookAdd(h) ==
    /\ pc = "idle" /\ h \notin ToSet(parser.hooks) \cup ToSet(hook_queue)
    /\ IF parser # NoParser
       THEN parser' = [parser EXCEPT !.hooks = <<h>> \o @] /\ UNCHANGED hook_queue
       ELSE hook_queue' = Append(hook_queue, h) /\ UNCHANGED parser
    /\ UNCHANGED <<req, body_status, bytes_read, body, looped, find, set, world, pc, sought, answer>>

BrigadeLimitGet == IF parser = NoParser THEN brigade_limit ELSE parser.limit

BrigadeLimitSet(b) ==
    /\ Settable /\ BrigadeLimitGet > b
    /\ IF parser = NoParser
       THEN brigade_limit' = b /\ UNCHANGED parser
       ELSE parser' = [parser EXCEPT !.limit = b] /\ UNCHANGED brigade_limit
    /\ accepted' = [accepted EXCEPT !.limit = b]
    /\ UNCHANGED <<req, body_status, bytes_read, body, looped, find, hook_queue,
                   read_limit, temp_dir, world, pc, sought, answer>>

MayLower(b) == read_limit > b /\ bytes_read < b

ReadLimitSet(b) ==
    /\ Settable /\ MayLower(b)
    /\ read_limit' = b
    /\ UNCHANGED <<req, handle, brigade_limit, temp_dir, accepted, world, pc, sought, answer>>

TempDirGet == IF parser = NoParser THEN temp_dir ELSE parser.dir

\* Only the CGI handle minds that reading has begun.
TempDirSet(d) ==
    /\ Settable /\ TempDirGet = Null
    /\ Is("cgi") => bytes_read = 0
    /\ IF parser = NoParser
       THEN temp_dir' = d /\ UNCHANGED parser
       ELSE parser' = [parser EXCEPT !.dir = d] /\ UNCHANGED temp_dir
    /\ accepted' = [accepted EXCEPT !.dir = d]
    /\ UNCHANGED <<req, body_status, bytes_read, body, looped, find, hook_queue,
                   read_limit, brigade_limit, world, pc, sought, answer>>

------------------------------------------------------------------------------
\* The custom handle is made with its parser and its brigade, and ready.
Init ==
    /\ req \in Requests
    /\ body_status = IF Is("custom") THEN "INCOMPLETE" ELSE "EINIT"
    /\ bytes_read = 0 /\ read_limit = req.read_limit
    /\ brigade_limit = req.brigade_limit /\ temp_dir = req.temp_dir
    /\ hook_queue = << >> /\ body = {}
    /\ parser = IF Is("custom")
                THEN [limit |-> req.brigade_limit, dir |-> req.temp_dir, hooks |-> << >>]
                ELSE NoParser
    /\ looped = FALSE /\ find = [name |-> Null, param |-> FALSE]
    /\ pos = 0 /\ ends = 0 /\ broken = FALSE
    /\ fed = [bytes |-> << >>, ends |-> 0]
    /\ pc = "idle" /\ sought = Null /\ answer = NoAnswer
    /\ accepted = [limit |-> req.brigade_limit, dir |-> req.temp_dir]

CallStep == BodyLoop \/ BodyReturn \/ GetFirst \/ GetLookup \/ GetScan \/ GetTest

Next ==
    \/ Body \/ CallStep \/ Break
    \/ \E n \in Names : GetFromTable(n) \/ GetInit(n) \/ GetOngoing(n)
    \/ \E p \in PresetParsers : ParserSet(p)
    \/ \E h \in Hooks : HookAdd(h)
    \/ \E b \in BrigadeLimits : BrigadeLimitSet(b)
    \/ \E b \in ReadLimits : ReadLimitSet(b)
    \/ \E d \in Dirs : TempDirSet(d)

\* A call that has begun goes on: there is one thread.
Spec == Init /\ [][Next]_vars /\ WF_vars(CallStep)

------------------------------------------------------------------------------
Settled == body_status \notin {"EINIT", "INCOMPLETE"}

\* The parser is shown the bytes that arrive once each and in order, and while
\* it wants more it has been shown all that was taken, whichever of body and
\* body_get took it.
ParserInStep ==
    /\ fed.bytes = [i \in 1 .. Len(fed.bytes) |-> i]
    /\ body_status = "INCOMPLETE" => Len(fed.bytes) = pos

\* Having read more than the limit and the verdict OVERLIMIT go together, and
\* the parser is never shown more than the limit in force, though the limit
\* may be lowered between any two reads.
OverlimitJustified ==
    /\ bytes_read > read_limit => body_status = "OVERLIMIT"
    /\ body_status = "OVERLIMIT" => bytes_read > read_limit \/ LengthOver
    /\ Len(fed.bytes) <= read_limit

\* The end of the stream is shown to a parser only when all that arrives has
\* been, except under Apache 1.3, where a failed read looks like the end.
EndMeansAll ==
    fed.ends > 0 => Len(fed.bytes) = req.arrives \/ (broken /\ Is("apache"))

\* body_get says "no such parameter" only when parsing is over and the table
\* does not have it, and otherwise returns a parameter of the table.
AnswerIsFinal ==
    /\ answer.value = "null" => Settled /\ answer.name \notin body
    /\ answer.value = "param" => answer.name \in body

\* The settings a caller was told are in force are the ones the parser works
\* with once it runs, in whichever order they and the parser came: the limit
\* on its brigade with every handle, and the directory for temporary files with
\* the CGI and the custom handle.  Under Apache 1.3, whose parser_set assigns
\* the handle's fields to themselves (handle.c:370-375), a directory accepted
\* before the parser came is not the parser's until init_body, and one accepted
\* in between is told to be in force and then overridden by the older one.
SettingsHonoured ==
    body_status = "INCOMPLETE" =>
        /\ parser.limit <= accepted.limit
        /\ accepted.dir # Null =>
             parser.dir = IF Is("apache") /\ temp_dir # Null THEN temp_dir ELSE accepted.dir

\* The CGI handle has put find_param in front of itself, for a second name it
\* was asked for while the body was being read, and a parameter has been shown
\* to that list: apreq_hook_find_param calls itself until the stack is gone.
LostInHooks == Is("cgi") /\ looped /\ pc = "overflow"

\* Every call of the application returns, but for the one that is lost in a
\* list of hooks that leads back into itself, which never does.
CallsReturn == pc # "idle" ~> pc = "idle" \/ LostInHooks

==============================================================================
