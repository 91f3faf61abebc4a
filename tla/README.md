# A verification of libapreq2

libapreq2 parses what an HTTP client sends: cookies, query strings, and request
bodies with form parameters and file uploads. It runs inside Apache 2 as an
input filter, inside Apache 1.3, in a CGI program, or over any bucket brigade.
This directory models it in TLA+, checks the models with TLC, and proves what
matters most of them with TLAPS. The models are read from the C code under
`src/`; a module's comments name the function each definition stands for, and
`PROJECT.json` gives the lines.

Contents: 1 the system, 2 the modules, 3 the runs, 4 the proofs, 5 what
the code does that its documents do not say, 6 what is not modelled, 7 the plan.

## 1. The system

### Components, their state and their operations

| component | source | state | operations |
|---|---|---|---|
| Apache 2 input filter | `module/apache2/filter.c` | `struct filter_ctx`: the body's status, a spool brigade, bytes read, limits, the parser, its queued hooks, a held error | `apreq_filter` (a read from above), `apreq_filter_prefetch`, `apreq_filter_init_context`, `apreq_filter_make_context`, `apreq_filter_init`, `apreq_filter_relocate` |
| Apache 2 handle | `module/apache2/handle.c` | the handle and its tables; drives the filter's context | `jar`, `args`, `body`, `jar_get`, `args_get`, `body_get`, `parser_get/set`, `hook_add`, `brigade_limit_get/set`, `read_limit_get/set`, `temp_dir_get/set` |
| Brigade spooling | `library/util.c`, `include/apreq_util.h` | bucket brigades, temporary files and the offset of their descriptors | `apreq_brigade_concat`, `_copy`, `_move`, `_fwrite`, `_spoolfile`, the spool bucket type |
| Parser objects and hooks | `library/parser.c`, `include/apreq_parser.h` | a parser and its linked list of hooks | `apreq_parser_make`, `apreq_parser_add_hook`, `apreq_parser_run`, `apreq_hook_run`, `apreq_hook_find_param` and the XML, discard and disable-uploads hooks |
| Parser registry | `library/parser.c` | the table from content type to parser, its pool, a lock | `apreq_pre_initialize`, `apreq_register_parser`, `apreq_post_initialize`, `apreq_parser` |
| Urlencoded parser | `library/parser_urlencoded.c` | `struct url_ctx`: kept buckets, two counts, a status | `apreq_parse_urlencoded`, one call for each brigade |
| Header parser | `library/parser_header.c` | `struct hdr_ctx`: kept buckets, four counts, a status | `apreq_parse_headers` |
| Multipart parser | `library/parser_multipart.c` | `struct mfd_ctx`: the boundary and its search pattern, two brigades, the header parser, the nested parser, the upload in progress | `apreq_parse_multipart`, split on boundary, nested parts |
| CGI handle | `library/module_cgi.c` | the handle, limits, an input brigade over a pipe bucket | as the Apache 2 handle, with `cgi_read` in place of the filter |
| Custom handle | `library/module_custom.c` | the same over a brigade given by the caller | as above |
| Apache 1.3 handle | `module/apache/handle.c` | handle and reader in one structure | as above, reading with `ap_get_client_block` |
| Handle dispatch | `library/module.c`, `include/apreq_module.h` | none | inline dispatch through a table; `apreq_param`, `apreq_params`, `apreq_cookie` |
| Parameters, query strings | `library/param.c` | none | `apreq_parse_query_string`, `apreq_param_decode/encode`, `apreq_uploads`, `apreq_upload` |
| Cookies | `library/cookie.c` | none | `apreq_parse_cookie_header`, `apreq_cookie_serialize`, `_bake`, `_expires` |
| Strings and numbers | `library/util.c` | none | decode, encode, quote, join, charset guess, `apreq_atoi64f/t`, `apreq_header_attribute` |
| Directives | `module/apache2/filter.c`, `module/apache/command.c` | a `dir_config` for each section of the configuration | `APREQ2_TempDir`, `_ReadLimit`, `_BrigadeLimit`, merging |
| Perl glue | `glue/perl/xsbuilder` | tied tables with an iterator; exceptions | `jar`, `args`, `body`, `param`, `parse` in scalar and list context, `FETCH`, `NEXTKEY`, `do` |

Further: errors and version (`library/error.c`, `version.c`), tests and build
files.

### How they interact

One request is served by one thread, so nothing here runs in parallel; what
interleaves is calls. Two parties pull the same body through the Apache 2
filter: the application, through the handle (`apreq_body` reads to the end,
`apreq_body_get` only until it has its parameter), and whatever sits above the
filter and reads the body as the content handler of the request. The filter
keeps for the second what it read for the first (the spool), shows all of it to
the parser, and removes itself when parsing is over. The parser calls hooks for
each parameter; a hook may refuse, and one of the library's own
(`apreq_hook_find_param`) stops `apreq_body_get` as soon as it can. The parser
builds upload brigades, and the filter its spool, with `apreq_brigade_concat`,
which moves a brigade to a temporary file at a limit. The multipart parser runs
a header parser for each part and, for a nested body, a parser of its own that
shares the hooks. The CGI, custom and Apache 1.3 handles read for themselves.

Around a request there are two longer lives. The table of parsers is made when
the server starts, filled by other modules, locked, and goes away at a restart.
And within one connection's request Apache 2 may redirect internally: the filters
next to the connection stay, with what they have read and parsed, and the new
request's filter may take over their context. Above it all the Perl glue asks
for the same tables on several paths, and throws what the statuses say.

### What is hard about it

- **Order of calls.** A read of the content handler may fall before, between or
  after prefetches, limits may be lowered and hooks added in between.
- **Chunking.** Bytes arrive in brigades cut anywhere, and each parser must give
  the result of the whole text.
- **Partial failure.** Reading from below, a write to the temporary file, or a
  hook fails in the middle; bytes already taken must not be lost silently.
- **Stale copies.** The parser has copies of the filter's limits; a hook knows
  its predecessor on a list that changes; a spool is read through the descriptor
  that it is written with.
- **Restarts and redirects.** Memory belongs to pools that go away; a filter
  is moved, dropped, stopped and taken over while others hold on to it.
- **Boundaries.** The end-of-stream bucket has no length, limits are compared
  with `<` in one place and `>` in another, a file bucket has a largest size,
  unknown lengths are -1 cast to unsigned.

`PROJECT.json` lists these as hazards, line by line, with the properties that
cover each.

### What makes each component correct

- *filter and handle*: consumer and parser each get the body once, in order,
  within the limit; an error is told after everything spooled before it and
  never looks like the end; a verdict is final; an answer "no such parameter"
  is given only when it is certain; hooks of the application are never lost;
  every call returns.
- *spooling*: a brigade holds what was concatenated to it, whatever has been
  taken, copied or read, and however little each write wrote; nobody writes over
  what somebody else holds; memory stays below the limit.
- *each parser*: the result is a function of the text, not of the cuts; what it
  keeps between two calls is exactly the unfinished piece; a caller that reads on
  after the end is told to stop.
- *filter chain*: whoever reads gets the whole body in order, and the filter a
  handle drives can read it when the content handler is there.
- *registry and directives*: a lookup gives what was registered, from a table
  whose pool is there; a limit is what the sections that apply ask for.
- *CGI, custom, Apache 1.3*: the promises of the filter, with one reader.
- *tables and Perl*: an answer stands, on whichever path it was asked for; an
  error is never taken for an absent name; an iteration yields each entry once.
- *pure functions*: agreement with a reference definition, decode after encode
  is the identity, no output longer than its documented bound.

## 2. The modules

| module | what it is |
|---|---|
| `BodyTee` | abstract specification: a stream with two readers |
| `Apache2Body` | the input filter, its context, and the handle operations that drive it; implements `BodyTee` |
| `Apache2Body_proofs` | its invariants; a verdict and an answer are final, no hook is lost; the filter implements `BodyTee` |
| `FilterChain` | where the filters of a request are, and whose context is whose, across redirects |
| `FilterChain_proofs` | its inductive invariant and all its properties |
| `ReaderBody` | the handles that read for themselves: CGI, custom, Apache 1.3 |
| `ReaderBody_proofs` | all its invariants |
| `RequestTables` | jar, args and body of a request as the handles keep them, and `apreq_param` |
| `PerlRequest` | a script that uses them; EXTENDS `RequestTables` |
| `PerlRequest_proofs` | what the functions of `RequestTables` make of a handle; all properties of `PerlRequest` |
| `BrigadeSpool` | brigades, buckets, temporary files, partial writes |
| `BrigadeSpool_proofs` | what its operators on buckets keep, and its invariants; memory is bounded, a file has one writer, brigades hold what was concatenated to them, concatenations advance |
| `UrlencodedParser`, `HeaderParser`, `MultipartParser` | the three parsers, resumable at any cut |
| `UrlencodedParser_proofs` | decoding by pieces, finding a word by its bytes, and the parser's invariant; both its properties |
| `Words`, `Params`, `Cookies` | the pure functions: strings, parameters and query strings, cookies and header attributes |
| `Texts` | every text up to a length, and what those functions must make of it |
| `ServerSetup` | the registry of parsers through starts and restarts, the directives and their merging |
| `ServerSetup_proofs` | the registry's invariant and what follows from it; limits are as asked |
| `Sequences_proofs` | lemmas about sequences and their parts, `FlattenSeq` and the largest of some positions, and induction for a set of numbers or of sequences, which the other proofs use |

Each module that is run has an `MC...` module with its small instance.

How they fit together: `FilterChain` has the filters of a request, and inside one
filter a read of one token; `Apache2Body` has the inside of one filter.
`Apache2Body` and `ReaderBody` see a parser from outside (names completed, a
status, an end of stream absorbed); the parser modules are its inside. A parser's
spooling is an outcome there and a state machine in `BrigadeSpool`.
`RequestTables` sees a body as blocks of entries, whichever handle reads it.
`ServerSetup` gives the limits the handles start with.

### Apache2Body

A data byte is its position in the body; the end of the stream is the position
after the last. The variables carry the names of `struct filter_ctx`
(`body_status`, `spool`, `bytes_read`, `read_limit`, ...); `hook`, `next` and
`find` are the parser's linked list of hooks as it is in memory, so that a hook
can be linked to itself; `pos`, `broken` are the filters below; `out`, `fed`,
`consumer`, `answer` say what each party has seen.

A call of the application is a start action (`Body`, `GetInit`, `GetFirst`,
`ParserSet`, `HookAdd`, ...) and, where the C function loops over
`ap_get_brigade` or hands over to another function that may fail, one action for
each turn (`BodyLoop`, `GetScan`, `GetTest`); a read of the consumer is
`ReadStart` and the branch of `apreq_filter` it leads to (`ReadSpool`,
`ReadFilterError`, `ReadThrough`, `ReadTee`), or `ReadBelow` once the filter is
gone. `pc` is "idle" when no call is in progress, and only then can another
begin: that is the single thread. The filters below may return any part of what
is asked for, and may break at any time for good (`Break`). A parser is seen
from outside: which parameters it has put in the table and what it returns;
it may complete on a closing boundary, at the end of the stream, fail, and
absorb the end of the stream once, as the multipart parser may.

`BodyTee` says what the filter promises with none of that machinery. Its steps
are: a piece goes to the consumer, to the parser or to both, the parser settles,
the consumer is told of a failure. `TeeSpec` is `BodyTee` with `settled` the
parser's verdict and `failed` the consumer's error.

### FilterChain

`chain` is `r->input_filters` from the top down, `proto` the filter that heads
the protocol filters, `f_ctx` and `ctx` the contexts, so that two filters can
have had the same one; `handle` is `handle->f` of each request's handle. A life
is: an early phase, in which handlers may parse a part of the body (`Handle`,
`Prepare`, `Prefetch`), the init functions one filter after the other
(`InitFilter` has the branches of `apreq_filter_init` and
`apreq_filter_relocate`, and `cursor` is the server's walk along the chain, which
relocation changes under it), the content handler's reads (`Consume`), and at any
time but during the walk an internal `Redirect`, to the same method or to GET,
to a section with its own read limit. `MakeContext` is
`apreq_filter_make_context` with its stealing. `Through` lets one token through
a stack of filters: what one has spooled comes first, those that parse see it,
those that have finished leave.

### ReaderBody

`req.reader` says which of the three handles it is; the three share their
operations and differ in guards. `Reads` is where they differ most: blocks and
one end-of-stream bucket for the CGI and the custom handle, anything that has
arrived and an end whenever there is no more for Apache 1.3, a failed read
included (`LooksEnded`). Calls are start actions and loops as in `Apache2Body`.
The CGI handle's `find_param` hook is put on the list and, when it has found
something, stays there; installed a second time it makes the list lead back to
itself (`looped`), and running such a list is the state "overflow". `accepted`
is what the callers of setters were told.

### RequestTables and PerlRequest

A handle is a record: its kind, what the environment holds for each place now
(`src`), the tables and statuses it has made of it, the blocks of the body read
so far, and the lines that will be typed at a terminal. The functions `Whole`
and `Get` take a handle to a handle, one for each function of the module tables;
`apreq_param` and `apreq_params` are built of them. Where the code loops, they
say how far the loop goes: `Pairs` is the number of names typed before an empty
line, and `ReadOn` reads the least number of blocks (`ReadBlocks`) that ends the
body or brings the name. An empty line is `Null`. `PerlRequest` makes actions
of the calls: a method in scalar or list context, on the request or on an
exception (`error`), a tied hash and its iterator, with `HeaderChanges` in
between, because the environment may change behind the handle. `told` remembers
the outcome of one call, any one of them, and `walk` an iteration's pairs.

### BrigadeSpool

A brigade is a sequence of buckets: memory buckets, file buckets and spool
buckets with file, start and length, and the end of the stream. A file has its
contents and one offset, which reading and writing share. `Concat`,
`ConcatBrigade` and `SpoolSelf` are the three ways `apreq_brigade_concat` is
called (with a new input, with another brigade, with itself); they do everything
up to the first write. `Writev` is one `apr_file_writev`, of any part of the
iovecs, with what `apreq_fwritev` then does to the array; `WriteFails` is a
failing write or read; `FinishOut` and `FinishIn` are what
`apreq_brigade_concat` does when `apreq_brigade_fwrite` has returned. Between
two concatenations others may `Copy` a brigade, `Take` its front, and `Read` one
of its file buckets or of those taken (`ReadTaken`). `held` and `takenHeld` are what each brigade ought to hold.

`FILE_BUCKET_LIMIT`, 2^64 - 2 or 2^32 - 2 in the code, is `BucketLimit`, and
`apr_size_t` wraps at `BucketLimit + 2`. `SharedInput`,
`SecondSpool` and `StaleIovecs` open three steps of the code that break what is
stated (section 5); the run leaves them shut.

### UrlencodedParser

The variables of `struct url_ctx`, the bucket looked at (`e`), the table and the
environment: a body, how much of it has been given, how often the end of the
stream. `Feed` gives the next piece of any size, with the end behind it or alone;
each further step is one bucket of the scan (`NameGoesOn`, `NameEnds`,
`ValueGoesOn`, `ValueEnds`, `EosInName`, `EosInValue`). `Word` is
`split_urlword`: it finds name and value among the kept buckets by the counts
and decodes them with `Decodev`, which carries an escape that is cut in two from
one piece to the next. The reference for `ParsedAsText` reads the text character
by character, without buckets, and decodes each word whole.

### HeaderParser

The variables of `struct hdr_ctx`, the bucket and the offset looked at, the
table and the caller. One step is one character: the actions `ScanName`,
`ScanGap`, `ScanValue`, `ScanEndline`, `ScanFold` and `ScanNextLine` are the
cases of the switch. `Split` cuts a bucket where name, gap or value ends, and
`Line` is `consume_header_line`, which finds the parts again by adding up bucket
lengths; where its asserts would fail, `pc` is "abort". A tab is white space in
the gap and where a continuation begins, and a control character inside a value
and anywhere else (`Forbidden`). The reference cuts the text into lines at each
LF that no white space follows.

### MultipartParser

`ctxs` is the stack of `struct mfd_ctx`, one for each level of nesting, with the
buckets (`in`) and what has been gathered (`bb`, `hdr`, `upload`); only the last
works, those below it are in `MFD_MIXED`. A call is `Run` and one step for each
case of the switch: `FirstBoundary` (`MFD_INIT`), `NextLine`, `Header`,
`PostHeader`, `ParamPart`, `UploadPart`. `SplitOnBdry` folds `split_on_bdry`
over the buckets: those kept back are the front part of a boundary, the rest is
given out. `Incomplete`, `Error` and `Complete` are a return through all the
levels. A header block is the kind of its part and an empty line, and may be cut
between the two; what the header parser does inside a line is not here. Names
are the kind's (`"m"`, of a nested body, is what its files are called). Hooks
keep, refuse or discard what they are shown (`Show`); spooling an upload
succeeds or fails, and what it does to the bytes is `BrigadeSpool`.

The reference, `ReadTo`, reads the text character by character: a delimiter is
there when the text since the last one ends with it.

### Words, Params, Cookies and Texts

Functions, recursive where the code loops. A word is a sequence of bytes, with
the code's ranges and masks as numbers (`CharsetDivine`, `Cp1252ToUtf8`); a
header is a sequence of symbols. `Decode` is `apreq_decode` into another buffer,
`DecodeInPlace` its branch for a word that is decoded over itself, which passes
over the bytes in front of the first escape, and `Unescaped` what
`apreq_unescape` returns then. `Texts` has a behaviour that appends one byte
or piece after the other, so that TLC meets every text; its properties say by
construction what the text means. A word that is encoded, quoted, joined or made
into a query string must be read back by functions that know nothing of the
writer; pieces of a Cookie header and of a header with attributes are known to
be a pair, an attribute or nothing.

### ServerSetup

`registry` has the static variables of `parser.c`. `PreInit`, `Register`,
`PostInit` are the post_config hooks of Apache 2, `Apache1Init` that of Apache
1.3, `Boot` the loading of `APR::Request::CGI`, which may happen at any time;
`Restart` destroys the configuration's pool, whose cleanup resets the statics if
the table was in it. `promised` has what successful registrations have asked
for. `conf` is a `dir_config` for each of three nested sections, `asked` the
directives read; sizes are words of `WORD` values: the number of a size is read
as a signed word, those beyond its ends as the ends (`Int64`), and its product
with the unit wraps.

## 3. The runs

All with the bounds of the `.cfg` files; sizes are small because positions and
cuts, not amounts, distinguish the cases: every comparison in the code has both
outcomes and its equality in these instances.

| run | instance | result |
|---|---|---|
| `Apache2Body_safety` | body of 3 bytes read in blocks of 2, two parameters that end anywhere or not at all, limits below, at and above the size, limits lowered, spool in memory or not | parser and consumer get the body once, in order and within the limit (`ParserInStep`, `OverlimitJustified`, `EosMeansWhole`), answers are final, `TeeSpec` holds; 565 000 states |
| `Apache2Body_settings` | body of 2, two names, two user hooks, preset parsers, brigade limits, temp dirs; GET, bad, excessive and missing Content-Length, no parser, unknown type | no application hook is lost (`HooksKept`), every call returns (`CallsReturn`), the consumer gets to the end or an error (`ConsumerServed`), unless two searches have made the list of hooks endless (section 5), which the run reaches; 442 000 states |
| `FilterChain_redirects` | body of 3, three apreq filters, one of another module, one redirect, read limit 1 or none | content handlers get the body whole (`BodyPassesOn`), parsers consecutive pieces (`NothingPassesBy`), the handle's filter can read (`HandleCanRead`), the limit is the current request's (`LimitFollows`); 926 000 states |
| `ReaderBody_all` | three handles, body of 3 in blocks of 2, announced lengths that are odd, types without a parser, settings in every order, reads that fail; bodies of three blocks with names in the second and in the third | the promises of the filter for one reader, settings a caller was told of are in force, but for a directory under Apache 1.3 (`SettingsHonoured`, section 5), calls return unless a second search under CGI has made the list of hooks endless (`CallsReturn`, section 5), which the run reaches; 664 000 states |
| `ReaderBody_endless` | a CGI body that ends inside a nested multipart body | violates `CallsReturn` (section 5) |
| `BrigadeSpool_all` | two brigades, two files, limit 2, file buckets of at most 2, two iovecs, 3 bytes each, one bucket taken | contents kept across copies, moves and concatenation of each other; one writer for each place of a file; memory bounded; each step of a concatenation gets on; 1 010 000 states |
| `UrlencodedParser_cut` | all bodies of up to 3 of 6 characters, the same behind `x=`, and eight longer ones; every cut; hooks and reads that fail | the result depends on the text only, calls end |
| `HeaderParser_cut` | all texts of up to 4 of 7 characters and eleven blocks of several lines, with tabs where they are white space and where they are not; up to four brigades; hooks and reads that fail | the headers depend on the text only and no assert fails (`ParsedAsText`), what follows the block is given back (`RestGivenBack`); 1 510 000 states |
| `MultipartParser_cut` | 44 bodies: one part with a content of anything like a boundary, several parts, parts without body, header or name, nested bodies with and without text around them, one nested too deep; ended anywhere, cut anywhere; hooks, reads and spools that fail | the result depends on the text only (`ParsedAsText`), hooks see what is stored (`HooksSeeUploads`), calls end (`CallAdvances`) |
| `Texts_all` | words of up to 4 of 11 bytes, charset texts of up to 4 of 11, Cookie headers and attribute headers of up to 5 pieces | what is written is read back and decoding in place writes the same (`ReadsBack`), the guess of the charset is right, cookies and attributes are found |
| `PerlRequest_script` | four kinds of handle, names in either case and several times, headers and bodies with errors, three consoles, one tied hash | answers stand (`AnswersStand`), failures are told (`FailuresTold`), iterations keep in step (`IterationInStep`) |
| `ServerSetup_all` | three hosts, three generations, one Perl load, two foreign registrations, three sections, three directives with sizes that wrap, read as unset, are negative or have a number beyond the signed word | lookups give what was registered, limits are as asked, startup succeeds; 2 283 000 states |

Why the bounds are enough. In `Apache2Body` a body of 3 and blocks of 2 make a
read shorter than, equal to and longer than what is spooled, and an end of
stream that comes with data and alone. In `FilterChain` three filters are one of
the configuration and one of the handle of each request; a body of 3 lets a part
be read before a redirect and more than one read come after it. In
`BrigadeSpool` an input that goes behind a spool bucket, with file buckets of 2,
makes a concatenation that needs a second file bucket; two iovecs for up to two
new buckets make the array full and not full; the second brigade plays the part
of what was taken from the first. For the urlencoded parser an escape of the
longest kind, and an almost-escape of the same length, are in the longer bodies;
for the header parser continuations behind a value, behind another continuation
and behind an empty value, and a tab at each place the code tells apart. In
`ReaderBody` three blocks are the least in which a second search can follow a
first that has found its name, and be shown another. For the multipart parser two levels, each with a
boundary of its own, are the least that nest; contents begin or end with every
front part of a boundary. The bytes of `Texts` are one of each range the code
tells apart, and both ends of the ranges the charset guess depends on. In
`ServerSetup` three generations are a restart with and without Perl loaded
before it, and the sizes are one that fits with a unit and one without, a
product that wraps to zero, a number that does not fit and -1.

The system may stop (`CHECK_DEADLOCK FALSE`) in every run: a body, a text, a
configuration or a script comes to its end, a bound on calls is reached, an
application has nothing left to ask, or a call goes round an endless list of
hooks. That a call does not stop in the middle otherwise is a liveness property
(`CallsReturn`) or a measure of its own.

### Fairness

`Apache2Body`: weak fairness of the steps of a call, because one thread runs a
call to its end and nothing else happens meanwhile; strong fairness of the
consumer's reads, because a content handler reads until the end or an error
(without it the application alone could keep the filter busy with finished
calls). Nothing is assumed of the application, of settings or of failures.
`ReaderBody`: weak fairness of the steps of a call, for the same reason.
The parsers and the spool have no fairness: that a call ends is stated as a
measure that each of its steps lowers (`CallAdvances`, `ConcatAdvances`).

## 4. What is proved

For every body length, block size, set of names, hooks, requests, read sizes and
limits (with the ASSUMEs of `Apache2Body`: sizes are natural numbers and
positive where the code divides or loops by them, `Null` and the filter's own
hook are distinct from the others, the hooks are finitely many, requests and
parsers are of their types):

- `TypeCorrect`, `TeeIsIntact`, `ParserStaysInStep`, `ParserStaysWithinLimit`,
  `OverlimitIsJustified`, `EosIsWhole`, `FailureIsLast`, `VerdictIsFinal`, and
  `FilterIsTee`: `Spec => TeeSpec` (`Apache2Body_proofs`);
- `AnswersAreFinal`, and `HooksAreKept`: `Spec => HooksKept`
  (`Apache2Body_proofs`).

For every body length, any number of apreq filters, of filters of other modules
and of redirects, every section's limit and every chunk (with the ASSUME of
`FilterChain`: these are natural numbers, and the default limit, 64 MB in the
code, is more than the body):

- `BodyIsPassedOn`, `NothingIsPassedBy`, `HandlesCanRead` and `LimitsFollow`
  (`FilterChain_proofs`): all the properties of `FilterChain_redirects`.

For every set of names and values, any mapping of names to lower case, all
requests, changes of headers and consoles, and any number of tied hashes (with
the ASSUMEs of `RequestTables` and `PerlRequest`: `Null` is not a name, a value
or a table; what the environment holds is nothing or entries with the status
their parse ends with, which is never that of a parse not begun or not finished
- the parsers of headers are called once and return a verdict -; and a body is
at least one read, because there is a read that meets its end):

- `ToldOnceToldForAll`, `NoFailureIsSilent` and `IterationsYieldAll`
  (`PerlRequest_proofs`): all the properties of `PerlRequest_script`.

For every request, block size, limit, directory, set of names and hooks, and
calls and settings in any order (with the ASSUMEs of `ReaderBody`: requests and
preset parsers are of their types, limits are natural numbers up to the one that
means none, which is more than any body, `Null` is nobody's name and the
library's own hook is not among the application's):

- `ReaderTypeCorrect`, `ReaderStaysInStep`, `ReaderOverlimitJustified`,
  `ReaderEndMeansAll`, `ReaderAnswerIsFinal`, `ReaderSettingsHonoured`
  (`ReaderBody_proofs`): all the safety properties of `ReaderBody_all`.

For every set of types and parsers, word size, default and list of sizes, and
any number of restarts, registrations and loads (with the ASSUME of
`ServerSetup`: sizes are numbers and a unit, the defaults fit in a word and the
directory that means none is not one of the directories):

- `TableSound`, `ServedAsRegisteredHolds`, `StartupSucceedsHolds`,
  `MergingLowers` and `LimitsAreAsAsked` (`ServerSetup_proofs`): all the safety
  properties of `ServerSetup_all`.

For every set of brigades, limits, inputs, files and lengths, with writes that
stop or fail anywhere, and whether or not `SharedInput`, `SecondSpool` and
`StaleIovecs` are open (with the ASSUME of `BrigadeSpool`: lengths are natural
numbers, the limits of a call and the file bucket limit are positive, and `"new"`, which
means a call's own input, is not a brigade):

- `TypeCorrect`, `MemoryIsBounded` and `SoleWriterKept` (`BrigadeSpool_proofs`),
  and `ConcatReturns`;
- `ContentIsKept` and `TakenIsKept` (`BrigadeSpool_proofs`), which assume
  the three switches shut, as in the run: each opens a step of the code that
  breaks these two (section 5), and only these two.

These are all the properties of `BrigadeSpool_all`.

For every set of bodies over the ten kinds of characters, every cut, and whatever
the hooks answer and the reads do (with the ASSUME of `UrlencodedParser`: bodies
are of these characters, and a hook may answer SUCCESS):

- `TextParsed`, `CallsAdvance` and, what the first rests on, `WordInBuckets`
  (`UrlencodedParser_proofs`): both properties of `UrlencodedParser_cut`.

### The filter

None of the invariants is inductive alone. `Inv` is
`TypeOK /\ TeeInv /\ FeedInv /\ PhaseInv`:

- `TeeInv` relates `out`, `spool` and `pos`: together the first two are the
  stream, and unless an error is held they are all that was taken. It needs to
  know when the spool may be non-empty although the consumer has finished, and
  that a filter that has been removed has nothing spooled.
- `FeedInv` relates `fed`, `pos`, `bytes_read` and the limit to the status: what
  the parser saw is the stream, `bytes_read` counts what was taken, and only an
  OVERLIMIT verdict lets it exceed the limit.
- `PhaseInv` says which statuses, and which `spool` and `filter_error`, each
  value of `pc` allows: what a later step of a call may rely on from the guard
  of the earlier one.

`InvInit` and `InvStep` prove it inductive, one step for each action. Most of the
handle's operations leave alone what the invariant speaks of (`Watched`,
`QuietStep`); the rest goes through lemmas on the shared parts of the actions:
`InitContextStep`, `CountAndFeedStep`, `SpoolStep`, `PrefetchStep`,
`ReceiveStep`, `ReadSpoolStep`, `PassStep`, `ReadTeeStep`. That the filter
implements the tee is then one step for each action (`TeeStep`) under
`Inv /\ Inv'`: every step of the filter delivers, shows, settles or fails, or
changes none of the abstract variables.

That an answer is final rests on `GetInv`: while `apreq_body_get` scans, its hook
heads the parser's list, seeks the name asked for, and has noted a parameter
exactly when the table has one; so "no such parameter" is answered on a verdict
only, after which the table does not change.

That no hook is lost is a statement about a linked list. `HookInv` says that the
queue and the parser's list are two lists without a common member, or that the
parser's leads into itself; that nothing is queued once there is a parser at
work; and that the find_param hook's idea of its predecessor is itself, which is
the code's mistake (section 5) and the reason why taking it out changes nothing.
A list is a sequence of different hooks whose links go from each to the next
(`IsList`): the walk of `apreq_parser_add_hook` and the splice of
`apreq_filter_init_context` are lemmas about two such sequences (`ListsMerge`,
`ListsPush`, `ListsInstall`, `ListsDrop`). A walk is a recursive function of a
number of steps; that it exists (`WalkExists`) is shown by `SetInduction`, which
states induction for a set of numbers and so needs no operator parameter.

### The chain of filters

`Inv` of `FilterChain_proofs` is
`TypeOK /\ ChainInv /\ CursorInv /\ ReadInv /\ SyncInv /\ HandleInv`; it was
also model-checked on the instance of the run. The chain is a sequence without
repetitions, and everything is said through one relation, `Above(chain, f, g)`:

- `ChainInv`: the chain ends at the connection's filter; an apreq filter among
  the protocol filters has its own context at work; no two filters in the chain
  share a context, although one in the chain and one that has left it may.
- `CursorInv`: the filters whose init function is still to be called are in the
  chain in its order, also when `apreq_filter_relocate` has moved one of them
  while the server walks.
- `ReadInv` is what `BodyPassesOn` needs: what is spooled nearer to the reader is
  of earlier tokens than what is spooled farther away (`Ordered`), the spools
  together are what was taken from the connection and not read by a content
  handler (`Feeds`), and it is the protocol filters that have it, so a redirect,
  which drops the others, drops nothing of the body.
- `SyncInv` is the same for a parser: what it has not been shown is spooled by
  the filters below its own (`InStep`).
- `HandleInv` says where the filter of the current handle is: in the chain, with
  no apreq filter above it, at the top once its init function was called, or its
  parser has finished.

`Rearranging` is one lemma about every change of the order (an insertion, a
relocation, the filters a redirect drops): if the filters that have anything
spooled keep their order, readers do not notice. A token on its way up is
followed filter by filter: `Drawn` says what has been asked, and
`DrawnFeeds`, `DrawnKeeps` and `DrawnOrdered` what the spools hold after it,
from which `ThroughStep`, `PrefetchStep` and `ConsumeStep` follow. Taking over a
context (`TakeOverStep`) is the one step that gives a filter a spool it has not
filled: its former owner was a filter of an earlier request, or is stopped.

### The handles that read for themselves

`Inv` of `ReaderBody_proofs` is `TypeOK` and four parts. `FeedInv` is as above,
with one reader: everything taken is counted, and shown while parsing goes on,
and an end is told behind the last byte, or, under Apache 1.3, behind a failed
read. `LimitInv` bounds the limit. `GetInv` says what each later step of
`body_get` relies on: the CGI handle's hook is on the list and agrees with the
table about the name. `SettingsInv` ties the settings a caller was told of to
those of the parser or, before there is one, of the handle.

### The brigade

`IInv` is `TypeOK /\ OneOwner /\ BoundedMemory /\ CallOK`. That a file has one
writer is a statement about all brigades at once: a spool bucket may be in any of
them or in what somebody has taken. `OneOwner` says that none of these has two on
one file and that no two of them have one on the same. Each operation of the
code is then a lemma on what it makes of buckets: copying, splitting, reading
and writing never bring a spool bucket where there was none on that file
(`SpoolsLess`) nor anything into memory (`Lighter`); moving leaves the old place
empty; and only the first write of a brigade makes a spool bucket, on a file that
nobody has yet. `BoundedMemory` is `MemoryBounded`, and `CallOK` is what the
later steps of `apreq_brigade_concat` rely on: the input is not the brigade
itself, nobody may write behind the new file of a first write, and while an
input is written the brigade ends in the spool bucket on that file.

The operators fold over sequences, and what a fold gives is not an instance the
provers find; the first part of `BrigadeSpool_proofs` proves them by `SetInduction`,
induction for a set of numbers, which needs no operator parameter: `FlattenSeq`,
`Total`, `Concat`, the splits and reads of buckets, and the shift of the iovecs
each have a lemma with their type, length, memory and number of spool buckets.

That brigades hold what they ought to is an argument about where buckets end.
`Behind`, a part of `ContentInv`, says that where a brigade has a spool bucket,
nobody, itself included, refers to that file behind the bucket's end. So a write
that begins there leaves everybody's bytes (`WriteKeepsAll`), and when it is done
the spool bucket has grown to the end of what was written, or was followed by
others up to there (`ExtendedContent`), and nobody is behind the new end
(`GrownBehind`). A copy is of file buckets, the front of a brigade that is cut
keeps none of its spool bucket's writing end, and a read brings into memory what
the file held: `CopyKeepsContent`, `TakeKeepsContent`, `ReadKeepsContent`.

That the bytes written are the right ones is `Writes`: at every moment of a
concatenation what the file has from the old end to the descriptor, what the
iovecs still hold and what the buckets that have not been read hold are, in this
order, the input. A short write moves bytes from the second to the first, filling
the array from the third to the second. It is here that the switches are needed:
`SharedInput`, because an input on the file that is written would move the
descriptor (`NotRead`); `StaleIovecs`, because the iovecs' bytes must be what
they were; and `SecondSpool`, because the length of a first spool bucket must not
wrap. `EosInv` keeps the end of the stream out of what is written and at the end
of brigades.

`ConcatReturns` needs none of them: `Left` counts bytes and buckets still to be
written, whatever they hold, and a write that uses up no iovec and no byte is
given up.

### The urlencoded parser

`ParsedAsText` compares what buckets hold with what a text says, and everything
between the two is a fold: reading a text, decoding a word, decoding pieces one
after the other with what the last left over, adding up bytes. `Chain` says that
a fold is the last of a sequence of states, one for each character or piece
(`FoldChain`), and what holds of a fold is proved by `SetInduction` or
`SnocInduction` along it. The argument then has three parts.

- *Decoding by pieces is decoding* (`DecodevIs`). A text that ends inside an
  escape leaves exactly the characters of that escape (`ChainCutShort`), and
  decoding that begins with them, and with the next piece behind, is where
  decoding the whole would be (`UrlDecodeJoined`). Only when a text is refused
  may the output differ, and it is not used then.
- *Counts find the words* (`WordIs`). The buckets of a word are laid as
  `Laid` says: the name's, of which the last ends with the "=", the value's, of
  which the last ends with its separator, and others. `split_urlword` is given
  two numbers of bytes; that the first bucket at which the bytes reach them is
  the right one is shown by adding up, and that a bucket may be empty, or hold
  the separator only, makes no difference.
- *The parser keeps the word* (`Inv`). During a call what has been read (`done`)
  and what is ahead make up the text (`ScanAt`); the buckets kept are those of
  the word that reading `done` has come to, the two counts are its bytes
  (`WordKept`), and the table holds all words in front of it, which are good
  (`Sound`). Between calls the same holds with nothing ahead, or the word that
  follows the last in the table is one that is refused, or a hook or a read has
  failed, or the end has been met and all is added (`Idles`).

Two things had to be known of reading itself: words that have ended stay when
more text comes (`Grows`), which is why the table never has to be taken back; and
a piece in which no separator occurs makes the name or the value longer and does
nothing else (`ReadingName`, `ReadingValue`, `ReadingEnds`). Each action is then one lemma;
those that cut a bucket go through `CutIs`, and those that end a word through
`Ended`. `CallsAdvance` is from the same invariant: a step looks at a bucket and
goes behind it, or ends a word and drops the buckets it was in.

### Tables and scripts

`Inv` of `PerlRequest_proofs` is `Sound(req) /\ Told(told, req) /\ TiedInv`.
`Sound` is a type and, for each place, what its status says of its table
(`Stage`): only a body is ever half read, and then something is left to read;
what was not begun has no rows; at the terminal nothing fails. The idea is a
relation between a handle and a later one: `Follows(q, w)` says that the entries
of `q` are in front of those of `w`, and that a place that is `Settled`, whose
parse is over, is the same in both. Each function of a handle gives a sound
handle that follows the one it was given (`Becomes`, which is transitive), and
of each single search it is shown what it has found: the first value of the
place, or that the place is settled without one (`Got`).

`Told` then says of every kind of outcome why it cannot be taken back. A list is
told of a settled place. A single value is the first its place has, settled or
not, and entries come behind it. No value is told of a settled place only, and it
is here that the code's statuses matter: a header is not parsed a second time
because its status is no longer that of a parse not begun, whatever has become
of the environment. A method dies on the status of a settled place, so what it
was told is so for good. For the tied hashes `TiedOk` says that the table behind
one is a settled place's, that the iterator is as far as the walk is long, and
that each key was given with its own value; the iteration of a table at the
terminal may meet new entries, which are behind the iterator.

### The server's setup

For the registry the inductive invariant is `RegistryInv`. `ServedAsRegistered`
speaks of the time requests are served only; what makes it inductive is what
holds before: there is a table exactly when there is a pool, and the pool is
alive; a table in Perl's pool is locked and as the library made it; after the
first hook there is a pool, and only Perl can have locked it. `StartupSucceeds`,
that the branch for a lock without a pool is never taken, follows from the second
half of the first. `MergingLowers` is about the operator alone: merging never
raises a read limit, whatever the sections say.

For the limits `ConfInv` says of each section that it is what its directives say,
as the word a size is read as (`SizeRead`, with the number taken as a signed
word by `NumberRead`), and unset only if nothing was said or what was
said reads as unset. `Merged` is then taken apart section by section
(`MergedIs`, `Deeper`): what the first n sections have left is the least read
limit of those that say one, and the innermost of the other settings.

### Only model-checked

Liveness under fairness is out of the prover's reach: `CallsReturn` and
`ConsumerServed` of `Apache2Body` and `CallsReturn` of `ReaderBody` stay with
TLC. So does what the recursive operators of `Words`, `Cookies` and `Params`
compute: the prover does without its arithmetic in a module that reaches one,
and so the properties of `Texts` (`ReadsBack`, `CharsetDivined`, `CookiesKept`,
`AttributeFound`), which are about nothing else, are checked over all texts up
to a length.

The other two parsers have no proof yet. Nothing in `HeaderParser` and
`MultipartParser` is recursive, so nothing is against one, but each has its own
reading of the text and operators on buckets, which need lemmas as those above: `ParsedAsText` and
`RestGivenBack` of the former, `ParsedAsText`, `HooksSeeUploads` and
`CallAdvances` of the latter stay with TLC.

Every safety property and action property of `Apache2Body`, `FilterChain`,
`ReaderBody`, `BrigadeSpool`, `ServerSetup`, `PerlRequest` and
`UrlencodedParser` is proved.

## 5. Where the code and its documents disagree

Shown by a run whose property states what a comment says:

- `ReaderBody_endless`: `cgi_body` and `custom_body` read while the parser answers
  `APR_INCOMPLETE`. There is one end-of-stream bucket; when a nested multipart
  body has absorbed it each further read parses nothing, and the call never
  returns.

Steps of the code that break a property, opened by a constant and shut in the
runs so that the rest is checked:

- A brigade larger than one file bucket that is spooled a second time becomes
  one bucket whose length wraps (32-bit `size_t`, 64-bit `off_t`):
  `SecondSpool`; with TRUE `ContentKept` fails.
- Concatenating a brigade with buckets of its own spool file reads through the
  descriptor between the seek and the write, and writes into the spool:
  `SharedInput`.
- `apreq_brigade_fwrite` deletes the buckets that iovecs left by a short write
  still refer to: `StaleIovecs` (where FALSE, memory of a deleted bucket keeps
  its contents for the rest of the call).
- The multipart parser lends one end-of-stream bucket to the hooks of every
  upload; a hook that empties the brigade (`apreq_hook_discard_brigade`) frees
  it, and the hooks of the next upload are given the freed bucket: "discard" in
  `HookActs`.

In the models as they are, with no property that says otherwise:

- `apache2_body_get` and `cgi_body_get` note the predecessor of their find_param
  hook after the head of the list has changed, so the hook that has found its
  parameter stays; a later search links it to itself, and what walks the list then
  does not return (`overflow`). `HooksKept` and `CallsReturn` say what holds as
  long as the list has an end; `CallsReturn` of `ReaderBody` names the exception
  (`LostInHooks`).
- The urlencoded parser answers SUCCESS at the end of a body that ends in a name
  and INCOMPLETE when asked again.
- A temp dir set after the parser was made, and a brigade limit lowered while
  parsing, are accepted and not used under Apache 2. Under Apache 1.3
  `parser_set` assigns the handle's settings to themselves, and they wait for
  `init_body`: a temp dir accepted before the parser was given then overrides
  one that was accepted in between, and `SettingsHonoured` says just that.
- The stealing of a filter context takes an unset read limit as no limit, making
  one takes the default.
- A read that fails looks like the end of the body under Apache 1.3.
- The brigade limit of Apache 1.3 has a default in every section, which so
  overrides an outer section's; its read limit has no default. Apache 1.3 locks
  the table of parsers at once, where `command.c:150` speaks of other modules
  that register theirs later. Loading `APR::Request::CGI` before the other
  modules' hooks refuses their registrations.
- The number of a size beyond the ends of `apr_int64_t` is read as that end,
  and then its product with the unit wraps modulo 2^64; 2^64 - 1 reads as unset.
  So 2^63 asks for one byte less than it says, and 2^34 G for none at all.
- `apreq_decode` in place passes over the bytes in front of the first `%` or `+`:
  those above 127 are accepted there and refused anywhere else, and the length
  it tells leaves them out. `apreq_unescape` returns that length, so 0 for a word
  without escapes, where `apreq_util.h:219` says "Length of decoded string"
  (`SameInPlace`, a part of `ReadsBack`, says how the two differ).
- A tab inside the value of a header line is refused (`Forbidden`).
- A malformed attribute at the end of a Cookie header takes its cookie with it,
  one in front of a separator does not.
- The two bytes FE and FF may begin what is taken for UTF-8.
- At a terminal `cgi_body_get` asks again for a name that is there, and never for
  one that is not.
- The element of a tied hash taken while its iterator is anywhere is the value
  the iterator is at, whatever the key (`magic_copy`); `param` never throws.

Also seen while reading: `apreq_parser_add_hook` puts the hook in front where
its comment says at the end; `apreq_brigade_concat` spools a brigade of exactly
the limit where the comment says "exceed"; `apreq_brigade_spoolfile` finds
nothing once the end of the stream follows the spool bucket;
`apreq_brigade_move` puts a front part before what the target holds where the
comment says "append" (every caller's target is empty); `apreq_handle_apache`
uses the pool of a handle that it has not made yet; the branch at `parser.c:104`
is never taken (`StartupSucceeds`).

In the urlencoded parser, `&` and `;` end a value and not a name (`a&b=c` is one
parameter named `a&b`), and a name without `=` at the end is dropped.

In the multipart parser, `brigade_start_string` calls a brigade too short in
which the boundary ends with the last bucket, so a part without a body is added
with the next bucket (`ParsedAsText` allows for it); a nested body that ends
behind its boundary takes the end of the stream for its own and the parser asks
for more, once (`ParsedAsText` allows for that, too); a form-data part in a nested body makes a later
file part there nameless, and so an error; after a partial match has failed only
the last bucket is searched again, so that `---B` is a first boundary, or not,
depending on a cut behind the second `-`, which for all other boundaries cannot
happen because CR occurs in them once; and the text in front of a nested body
that ends in the same call is searched for the outer boundary. No body of the
instance has the last three.

## 6. What is not modelled

- *Filter*: reads in the modes GETLINE and EXHAUSTIVE, which pass the filter by,
  and other filters that fail half way through a stack of apreq filters.
- *Spooling*: a file bucket is read through its descriptor, never mapped (APR
  maps large ones, which moves no offset and only removes interference); an
  `apr_file_seek` or `mktemp` that fails leaves everything as it is and is a
  stuttering step; a temporary file's removal with its pool.
- *Parser objects*: the generic parser, which is one concatenation for each call,
  and the XML hook, whose work is done by an external XML parser.
- *Urlencoded and header parser*: the charset guess and the taint flag of a
  parameter. A `%uXXXX` escape is one token, as is `%XX`; which bytes they
  become does not influence control (`Words` has the bytes).
- *Multipart parser*: what is inside a header line (`HeaderParser` has the lines,
  `Cookies` the attributes), and parsers made for a nested body without a
  boundary, which are an error like a part without a name.
- *Tables*: the jar and args of Apache 1.3, which differ from those of Apache 2 in
  their names only; the layout of prompts.
- *Strings*: `apreq_atoi64t` and `apreq_index`, a multiplication and a search;
  code for EBCDIC; dates.
- *Perl glue*: setters, the methods of a single parameter, cookie or upload, the
  Perl 1.x compatibility classes, and everything `ppport.h` brings along, which
  is not this project's.
- Error messages, the version, tests and build files: constant tables, or not
  part of the library.

## 7. The plan

What is left, in order of worth:

1. Proofs about the other two parsers, as for `UrlencodedParser`: the lines of
   a header text as a chain, then `ParsedAsText` and `RestGivenBack` of
   `HeaderParser`; `SplitOnBdry` as finding a boundary in what the buckets hold,
   then `HooksSeeUploads` and `ParsedAsText` of `MultipartParser`.
2. Composition: a parser module as the parser of `Apache2Body`, that is, the
   outside view assumed there shown to be implemented by it; `ReaderBody` as an
   implementation of a one-reader `BodyTee`.
3. The generic parser over `BrigadeSpool`, with the library's hooks.
