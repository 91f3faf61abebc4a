---------------------------- MODULE ServerSetup ----------------------------
(***************************************************************************)
(* How a process gets ready to serve requests: the table of parsers that   *)
(* library/parser.c keeps in static variables, with its lock and its pool, *)
(* through starts, restarts and the hosts that initialize it (Apache 2.x,  *)
(* Apache 1.3, and the Perl module APR::Request::CGI, which may be loaded  *)
(* at any time); and the directives of the server's configuration, their   *)
(* sizes with units, and how nested sections are merged.                   *)
(*                                                                         *)
(* Sizes are words of WORD values, as apr_uint64_t and apr_size_t are.     *)
(***************************************************************************)
EXTENDS Integers, Sequences, FiniteSets

CONSTANTS
    Types,              \* media types
    Parsers,            \* parser functions
    BuiltIn,            \* the parsers the library registers itself, by type
    NoParser,           \* NULL
    Hosts,              \* the hosts to start: "apache2", "apache1", "perl"
    WORD, KILO,         \* 2^64 and 1024
    DefaultReadLimit,   \* APREQ_DEFAULT_READ_LIMIT
    DefaultBrigadeLimit,
    Sizes,              \* what limits are set to: a number and a unit
    Dirs, NoDir,        \* directories for temporary files, and NULL
    MaxGenerations,     \* bounds the times the configuration is read
    MaxBoots,           \* bounds the times the Perl module is loaded
    MaxRegistrations,   \* bounds the calls of apreq_register_parser
    MaxDirectives       \* bounds the directives of one configuration

ASSUME SetupAssumption ==
    /\ Types # {} /\ NoParser \notin Parsers
    /\ BuiltIn \in [Types -> Parsers \cup {NoParser}]
    /\ KILO \in Nat /\ KILO > 1
    /\ WORD \in Nat /\ WORD > DefaultReadLimit + 1
    /\ DefaultReadLimit \in Nat /\ DefaultBrigadeLimit \in Nat
    /\ DefaultBrigadeLimit < WORD - 1
    /\ Sizes \subseteq Int \X {"", "K", "M", "G"}
    /\ NoDir \notin Dirs
    /\ MaxGenerations \in Nat /\ MaxBoots \in Nat

VARIABLES
    host,               \* what the process is
    generation,         \* the configuration pool that is alive
    phase,              \* "config", "middle", "serving" or "down"
    registry,           \* the statics of parser.c: pool, lock and table
    boots,              \* the times APR::Request::CGI has been loaded
    registrations,      \* the calls of apreq_register_parser so far
    promised,           \* what the calls that succeeded have asked for
    refused,            \* one made in the hook meant for it has failed
    conf,               \* each section's dir_config
    asked               \* the directives read: section, directive, value

vars == <<host, generation, phase, registry, boots, registrations, promised,
          refused, conf, asked>>

----------------------------------------------------------------------------
(* The table of parsers.                                                   *)

NoPool  == [of |-> "none", number |-> 0]
NoTable == [t \in {} |-> NoParser]

\* The statics of a process that has just started.
Fresh == [pool |-> NoPool, lock |-> FALSE, table |-> NoTable]

CleanupMutant(g) == [Fresh EXCEPT !.lock = g.lock]

\* What the table's pool does to the statics when it goes away.
Cleanup(g) == [g EXCEPT !.pool = NoPool, !.lock = FALSE, !.table = NoTable]

Answer(s, g) == [status |-> s, registry |-> g]

PreInitializeMutant(g, home) ==
    Answer("SUCCESS", [pool |-> home, lock |-> FALSE, table |-> BuiltIn])

\* The first call that finds no pool makes one and registers the library's
\* own parsers; a call that finds one does nothing, whoever made it.
PreInitialize(g, home) ==
    IF g.pool # NoPool THEN Answer("SUCCESS", g)
    ELSE IF g.lock THEN Answer("GENERAL", g)
    ELSE Answer("SUCCESS",
                [pool |-> home, lock |-> g.lock, table |-> BuiltIn])

PostInitialize(g) ==
    IF g.pool = NoPool THEN Answer("GENERAL", g)
    ELSE Answer("SUCCESS", [g EXCEPT !.lock = TRUE])

Initialize(g, home) ==
    LET pre == PreInitialize(g, home)
    IN  IF pre.status # "SUCCESS" THEN pre ELSE PostInitialize(pre.registry)

\* p is NoParser when the caller wants the type's entry removed.
RegisterParser(g, t, p) ==
    IF g.table = NoTable THEN Answer("EINIT", g)
    ELSE IF g.lock THEN Answer("GENERAL", g)
    ELSE Answer("SUCCESS", [g EXCEPT !.table = [@ EXCEPT ![t] = p]])

Parser(g, t) == IF ~g.lock THEN NoParser ELSE g.table[t]

ConfigPool(n) == [of |-> "config", number |-> n]
PerlPool(n)   == [of |-> "perl", number |-> n]

\* The configuration's pool lasts for one generation, Perl's for good.
Alive(pool) == pool.of = "perl" \/ pool = ConfigPool(generation)

----------------------------------------------------------------------------
(* The directives.                                                         *)

Unset    == WORD - 1            \* (apr_uint64_t)-1 and (apr_size_t)-1
Sections == <<"server", "directory", "file">>
SectionSet == {Sections[i] : i \in DOMAIN Sections}

Unit(u) == CASE u = "G" -> KILO * KILO * KILO
             [] u = "M" -> KILO * KILO
             [] u = "K" -> KILO
             [] OTHER   -> 1

\* apr_strtoi64: a number beyond an end of apr_int64_t is read as that end.
Int64(n) == IF n < -(WORD \div 2) THEN -(WORD \div 2)
            ELSE IF n > (WORD \div 2) - 1 THEN (WORD \div 2) - 1
            ELSE n

\* The product with the unit wraps, and is kept as an unsigned word.
Atoi64f(size) == (Int64(size[1]) * Unit(size[2])) % WORD

CreateDirConfig ==
    [temp_dir      |-> NoDir,
     read_limit    |-> Unset,
     brigade_limit |-> IF host = "apache1" THEN DefaultBrigadeLimit ELSE Unset]

MergeDirConfigMutant(a, b) ==
    [temp_dir      |-> IF b.temp_dir # NoDir THEN b.temp_dir ELSE a.temp_dir,
     read_limit    |-> IF b.read_limit = Unset
                       THEN a.read_limit ELSE b.read_limit,
     brigade_limit |-> IF b.brigade_limit = Unset
                       THEN a.brigade_limit ELSE b.brigade_limit]

\* a is the outer section's, b the inner one's.
MergeDirConfig(a, b) ==
    [temp_dir      |-> IF b.temp_dir # NoDir THEN b.temp_dir ELSE a.temp_dir,
     read_limit    |-> IF b.read_limit < a.read_limit
                       THEN b.read_limit ELSE a.read_limit,
     brigade_limit |-> IF b.brigade_limit = Unset
                       THEN a.brigade_limit ELSE b.brigade_limit]

\* What the server merges for a request that the sections of S apply to.
Merged(S) ==
    LET merge[i \in 0 .. Len(Sections)] ==
            IF i = 0 THEN CreateDirConfig
            ELSE IF Sections[i] \in S
            THEN MergeDirConfig(merge[i - 1], conf[Sections[i]])
            ELSE merge[i - 1]
    IN  merge[Len(Sections)]

\* The limits a filter's new context gets; Apache 1.3 takes them as they are.
RequestConfig(d) ==
    IF host = "apache1" THEN d
    ELSE [d EXCEPT
            !.read_limit    = IF @ = Unset THEN DefaultReadLimit ELSE @,
            !.brigade_limit = IF @ = Unset THEN DefaultBrigadeLimit ELSE @]

----------------------------------------------------------------------------
Init ==
    /\ host \in Hosts
    /\ generation = 1
    /\ phase = "config"
    /\ registry = Fresh
    /\ boots = 0
    /\ registrations = 0
    /\ promised = BuiltIn
    /\ refused = FALSE
    /\ conf = [s \in SectionSet |-> CreateDirConfig]
    /\ asked = {}

Settings == <<conf, asked>>
Counts   == <<host, generation, boots, registrations, promised, refused>>

\* The last of a section's directives of a kind counts.
Asking(s, what, value) ==
    {x \in asked : <<x[1], x[2]>> # <<s, what>>} \cup {<<s, what, value>>}

\* A directive: set_temp_dir, set_read_limit or set_brigade_limit.
SetTempDir(s, d) ==
    /\ conf' = [conf EXCEPT ![s].temp_dir = d]
    /\ asked' = Asking(s, "temp_dir", d)

SetReadLimit(s, size) ==
    /\ conf' = [conf EXCEPT ![s].read_limit = Atoi64f(size)]
    /\ asked' = Asking(s, "read_limit", size)

SetBrigadeLimit(s, size) ==
    /\ conf' = [conf EXCEPT ![s].brigade_limit = Atoi64f(size)]
    /\ asked' = Asking(s, "brigade_limit", size)

Directive ==
    /\ phase = "config" /\ host # "perl"
    /\ Cardinality(asked) < MaxDirectives
    /\ \E s \in SectionSet :
         \/ \E d \in Dirs : SetTempDir(s, d)
         \/ \E size \in Sizes : SetReadLimit(s, size) \/ SetBrigadeLimit(s, size)
    /\ UNCHANGED <<phase, registry, Counts>>

\* Inside <Limit> a directive is an error, and the server does not start.
DirectiveInLimit ==
    /\ phase = "config" /\ host # "perl"
    /\ phase' = "down"
    /\ UNCHANGED <<registry, Counts, Settings>>

\* apreq_pre_init, the first of the post_config hooks.
PreInit ==
    /\ phase = "config" /\ host = "apache2"
    /\ LET pre == PreInitialize(registry, ConfigPool(generation))
       IN  /\ registry' = pre.registry
           /\ phase' = IF pre.status = "SUCCESS" THEN "middle" ELSE "down"
    /\ UNCHANGED <<Counts, Settings>>

\* No memory for the pool.
PreInitFails ==
    /\ phase = "config" /\ host = "apache2"
    /\ registry.pool = NoPool
    /\ phase' = "down"
    /\ UNCHANGED <<registry, Counts, Settings>>

\* Another module registers a parser, in its own post_config hook or at a
\* time it should not.
Register ==
    /\ registrations < MaxRegistrations
    /\ registrations' = registrations + 1
    /\ \E t \in Types, p \in Parsers \cup {NoParser} :
         LET answer == RegisterParser(registry, t, p)
         IN  /\ registry' = answer.registry
             /\ promised' = IF answer.status = "SUCCESS"
                            THEN [promised EXCEPT ![t] = p] ELSE promised
             /\ refused' = (refused \/ ( /\ phase = "middle"
                                         /\ answer.status # "SUCCESS"))
    /\ UNCHANGED <<host, generation, phase, boots, Settings>>

\* apreq_post_init, the last of them.
PostInit ==
    /\ phase = "middle"
    /\ LET post == PostInitialize(registry)
       IN  /\ registry' = post.registry
           /\ phase' = IF post.status = "SUCCESS" THEN "serving" ELSE "down"
    /\ UNCHANGED <<Counts, Settings>>

\* apreq_init of Apache 1.3: the table is locked at once, and nobody looks
\* at the status.
Apache1Init ==
    /\ phase = "config" /\ host = "apache1"
    /\ registry' = Initialize(registry, ConfigPool(generation)).registry
    /\ phase' = "serving"
    /\ UNCHANGED <<Counts, Settings>>

\* BOOT of APR::Request::CGI, on a pool of its own.
Boot ==
    /\ boots < MaxBoots
    /\ boots' = boots + 1
    /\ registry' = Initialize(registry, PerlPool(boots + 1)).registry
    /\ phase' = IF host = "perl" THEN "serving" ELSE phase
    /\ UNCHANGED <<host, generation, registrations, promised, refused,
                   Settings>>

\* The configuration's pool goes away, and the table's pool with it when it
\* is a part of that one; the configuration is read again.
Restart ==
    /\ phase \in {"middle", "serving"} /\ host # "perl"
    /\ generation < MaxGenerations
    /\ generation' = generation + 1
    /\ registry' = IF registry.pool = ConfigPool(generation)
                   THEN Cleanup(registry) ELSE registry
    /\ phase' = "config"
    /\ promised' = BuiltIn
    /\ refused' = FALSE
    /\ conf' = [s \in SectionSet |-> CreateDirConfig]
    /\ asked' = {}
    /\ UNCHANGED <<host, boots, registrations>>

Next == \/ Directive \/ DirectiveInLimit
        \/ PreInit \/ PreInitFails \/ Register \/ PostInit
        \/ Apache1Init \/ Boot \/ Restart

Spec == Init /\ [][Next]_vars

----------------------------------------------------------------------------
(* What must hold.                                                         *)

\* While requests are served the lookup of a media type (apreq_parser) gives
\* what the calls of apreq_register_parser that succeeded since the
\* configuration was read have asked for, and else the library's own parser,
\* from a table whose memory is still there: through restarts, whichever
\* host made the table, and whatever is called while requests are served.
\* And a module that registers its parser in the hook apreq.h tells it to
\* (apreq.h:284-286) is not refused, unless Perl has locked the table.
ServedAsRegistered ==
    phase = "serving" =>
        /\ registry.pool # NoPool /\ Alive(registry.pool)
        /\ \A t \in Types : Parser(registry, t) = promised[t]
        /\ refused => boots > 0

\* The post_config hooks fail only for want of memory: the table is never
\* locked without its pool (parser.c:104), nor is the pool missing when the
\* last hook locks the table (parser.c:130).
StartupSucceeds ==
    /\ PreInitialize(registry, ConfigPool(generation)).status = "SUCCESS"
    /\ phase = "middle" => PostInitialize(registry).status = "SUCCESS"

Meant(size) == size[1] * Unit(size[2])

\* Both the number and its product with the unit are read as they are meant.
Fits(size) == Int64(size[1]) = size[1] /\ Meant(size) \in 0 .. Unset - 1

\* The limit on what is read for a request is at most what each section that
\* applies to it says, in full and not modulo the word, and the least of
\* them (or the default) when all of them fit: a number from 2^63 up is read as
\* 2^63 - 1, before the unit counts (apreq_atoi64f); the brigade limit
\* and the directory for temporary files are those of the innermost section
\* that sets one (filter.c:47-54; Apache 1.3 has a brigade limit in every
\* section, command.c:70, so there the innermost section's counts).
LimitsAsAsked ==
    phase = "serving" =>
    \A S \in SUBSET SectionSet :
        LET d == RequestConfig(Merged(S))
            said(w) == {x \in asked : x[1] \in S /\ x[2] = w}
            wanted == {x[3] : x \in said("read_limit")}
            reads == {Meant(size) : size \in wanted}
            depth(x) == CHOOSE i \in DOMAIN Sections : Sections[i] = x[1]
            innermost(all) == {x \in all : \A y \in all : depth(x) >= depth(y)}
            dirs  == innermost(said("temp_dir"))
            \* A brigade limit that reads as unset is as good as none.
            sizes == innermost({x \in said("brigade_limit") :
                                  Atoi64f(x[3]) # Unset})
        IN  /\ \A n \in reads : n >= 0 => d.read_limit <= n
            /\ (\A size \in wanted : Fits(size)) =>
                 d.read_limit \in
                   IF reads = {} THEN {RequestConfig(CreateDirConfig).read_limit}
                   ELSE reads
            /\ d.temp_dir \in
                 IF dirs = {} THEN {NoDir} ELSE {x[3] : x \in dirs}
            /\ host = "apache2" =>
                 d.brigade_limit \in
                   IF sizes = {} THEN {DefaultBrigadeLimit}
                   ELSE {Atoi64f(x[3]) : x \in sizes}
=============================================================================
