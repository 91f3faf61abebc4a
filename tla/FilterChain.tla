----------------------------- MODULE FilterChain -----------------------------
(***************************************************************************)
(* Where the apreq2 filters of a request of Apache 2.x are, which of them  *)
(* the handle drives, and whose context is whose: apreq_handle_apache2,    *)
(* apreq_filter_init, apreq_filter_relocate, apreq_filter_make_context,    *)
(* and the part of apreq_filter_prefetch that moves proto_input_filters.   *)
(*                                                                         *)
(* A filter is added by the handle or by the server's configuration.  A    *)
(* handler of an early phase (authorization, say) may parse a part of the  *)
(* body; before the content handler runs each filter's init function is    *)
(* called; an internal redirect goes on with the protocol filters only,    *)
(* and has a handle of its own.  Module Apache2Body has what happens       *)
(* inside one filter in detail; here a read takes one token.               *)
(***************************************************************************)
EXTENDS Integers, Sequences, FiniteSets, SequencesExt

CONSTANTS
    BodyLen,
    MaxFilters,         \* bounds the apreq filters that are added
    MaxRedirects,
    MaxOthers,          \* bounds the other filters that are added
    DefaultLimit,       \* APREQ_DEFAULT_READ_LIMIT
    Configs             \* the read limits configured, Unset among them

Unset == DefaultLimit + 1       \* (apr_uint64_t)-1

ASSUME ChainAssumption ==
    /\ BodyLen \in Nat /\ MaxFilters \in Nat /\ MaxRedirects \in Nat
    /\ MaxOthers \in Nat
    /\ DefaultLimit \in Nat /\ DefaultLimit > BodyLen
    /\ Configs \subseteq 0 .. Unset

EOS == BodyLen + 1

VARIABLES
    chain,              \* r->input_filters: filters from the top down
    proto,              \* r->proto_input_filters
    made,               \* the number of apreq filters that have been added
    f_ctx,              \* the context of each, 0 if it has none
    ctx,                \* the contexts
    r,                  \* the request being served: the number of redirects
    get,                \* its method is GET
    config,             \* its directory's read limit
    handle,             \* handle->f of each request's handle, NoHandle or NULL
    phase,              \* "early", "init" or "content"
    cursor,             \* the filters whose init function is still to be called
    pos,                \* tokens taken from the connection
    out,                \* what the content handlers have read
    crashed             \* a null pointer has been followed

vars == <<chain, proto, made, f_ctx, ctx, r, get, config, handle, phase,
          cursor, pos, out, crashed>>

NULL     == 0
NoHandle == -1
Http     == -2          \* the protocol filter
Other(k) == -2 - k      \* a resource filter of another module
IsApreq(f) == f \in 1 .. MaxFilters

Without(s, gone) == FlattenSeq([i \in DOMAIN s |-> IF s[i] \in gone THEN << >> ELSE <<s[i]>>])
After(s, f) == LET i == CHOOSE k \in DOMAIN s : s[k] = f IN SubSeq(s, i + 1, Len(s))

------------------------------------------------------------------------------
(* Contexts *)

NewCtx(limit) == [status |-> "EINIT", limit |-> limit, bytes |-> 0,
                  shown |-> << >>, spool |-> << >>]

Stealable(c) == ctx[c].status \in {"INTERRUPT", "SUCCESS"}

\* f is at the top of the request's own filters and next to the apreq filter
\* that heads the protocol filters.
AboveProto(f) ==
    /\ chain[1] = f /\ proto # f /\ chain[2] = proto /\ IsApreq(proto)
    /\ ~get

\* Mutant of Taken: the context keeps the limit of the request it was made for.
TakenMutant(c) == [c EXCEPT !.status = IF @ = "INTERRUPT" THEN "INCOMPLETE" ELSE @]

\* The stolen context goes on with the configuration as it is, unset or not.
Taken(c) == [c EXCEPT !.status = IF @ = "INTERRUPT" THEN "INCOMPLETE" ELSE @,
                      !.limit = config]

\* apreq_filter_make_context: f takes over the context below, or gets its own.
MakeContext(f) ==
    IF AboveProto(f) /\ f_ctx[chain[2]] = NULL
    THEN crashed' = TRUE /\ UNCHANGED <<chain, proto, f_ctx, ctx>>
    ELSE IF AboveProto(f) /\ Stealable(f_ctx[chain[2]])
    THEN /\ f_ctx' = [f_ctx EXCEPT ![f] = f_ctx[chain[2]]]
         /\ ctx' = [ctx EXCEPT ![f_ctx[chain[2]]] = Taken(@)]
         /\ proto' = f
         /\ chain' = Without(chain, {chain[2]})
         /\ UNCHANGED crashed
    ELSE /\ f_ctx' = [f_ctx EXCEPT ![f] = f]
         /\ ctx' = [ctx EXCEPT ![f] = NewCtx(IF config = Unset THEN DefaultLimit ELSE config)]
         /\ UNCHANGED <<chain, proto, crashed>>

\* apreq_filter_init_context, for a body some parser knows.
Ready(c) == [c EXCEPT !.status = IF @ = "EINIT" THEN IF get THEN "NODATA" ELSE "INCOMPLETE"
                                 ELSE @]

------------------------------------------------------------------------------
(* apreq_handle_apache2 and get_apreq_filter *)

Driven == handle[r] \notin {NoHandle, NULL}

\* The handle of the current request has a filter, at the top of the chain: a
\* new one is moved there.
Handle ==
    /\ phase # "init"
    /\ ~Driven /\ made < MaxFilters
    /\ made' = made + 1
    /\ chain' = <<made'>> \o chain
    /\ handle' = [handle EXCEPT ![r] = made']
    /\ UNCHANGED <<proto, f_ctx, ctx, r, get, config, phase, cursor, pos, out, crashed>>

\* External: the server's configuration adds an apreq filter, above the first
\* filter that is nearer to the connection than apreq filters are.
Configure ==
    /\ phase = "early" /\ made < MaxFilters
    /\ made' = made + 1
    /\ chain' = InsertAt(chain, Len(chain), made')
    /\ UNCHANGED <<proto, f_ctx, ctx, r, get, config, handle, phase, cursor, pos, out, crashed>>

\* External: another module adds a filter on top.
AddOther ==
    /\ phase = "early"
    /\ \E k \in 1 .. MaxOthers :
        /\ Other(k) \notin ToSet(chain)
        /\ \A j \in 1 .. k - 1 : Other(j) \in ToSet(chain)
        /\ chain' = <<Other(k)>> \o chain
    /\ UNCHANGED <<proto, made, f_ctx, ctx, r, get, config, handle, phase, cursor, pos, out, crashed>>

------------------------------------------------------------------------------
(* apreq_filter_init, called for each filter before the content handler runs *)

StartInit ==
    /\ phase = "early"
    /\ phase' = "init"
    /\ cursor' = chain
    /\ UNCHANGED <<chain, proto, made, f_ctx, ctx, r, get, config, handle, pos, out, crashed>>

\* The init function asks for the handle first, which may add a filter.
Added == IF Driven \/ made = MaxFilters THEN NULL ELSE made + 1

ChainAdded == IF Added = NULL THEN chain ELSE <<Added>> \o chain
DrivenBy   == IF Added = NULL THEN handle[r] ELSE Added

\* Mutant of HandleAfterStop: the handle goes on driving the stopped filter.
HandleAfterStopMutant(f) == DrivenBy

\* The stopped filter is no longer the handle's.
HandleAfterStop(f) == IF DrivenBy = f THEN NULL ELSE DrivenBy

Stopped(c) == [c EXCEPT !.status = IF @ = "INCOMPLETE" THEN "INTERRUPT" ELSE @]

InitFilter ==
    /\ phase = "init" /\ cursor # << >> /\ IsApreq(Head(cursor))
    /\ ~Driven => made < MaxFilters
    /\ made' = IF Added = NULL THEN made ELSE Added
    /\ LET f == Head(cursor)
           drive(g) == handle' = [handle EXCEPT ![r] = g]
           unready == IF f_ctx[f] = NULL THEN TRUE ELSE ctx[f_ctx[f]].status = "EINIT"
       IN  \/ \* a GET request is not parsed
              /\ get
              /\ chain' = ChainAdded /\ drive(DrivenBy)
              /\ cursor' = Tail(cursor)
              /\ UNCHANGED <<proto, ctx>>
           \/ \* the top filter is the handle's
              /\ ~get /\ unready /\ f = ChainAdded[1]
              /\ chain' = ChainAdded /\ drive(f)
              /\ cursor' = Tail(cursor)
              /\ UNCHANGED <<proto, ctx>>
           \/ \* one below another apreq filter is not needed
              /\ ~get /\ unready /\ f # ChainAdded[1] /\ IsApreq(ChainAdded[1])
              /\ chain' = Without(ChainAdded, {f})
              /\ drive(IF DrivenBy = f THEN ChainAdded[1] ELSE DrivenBy)
              /\ cursor' = Tail(cursor)
              /\ proto' = IF proto = f THEN Head(After(chain, f)) ELSE proto
              /\ UNCHANGED ctx
           \/ \* one below something else goes to the top; what follows it is
              \* now what was at the top
              /\ ~get /\ unready /\ f # ChainAdded[1] /\ ~IsApreq(ChainAdded[1])
              /\ chain' = <<f>> \o Without(ChainAdded, {f})
              /\ drive(f)
              /\ cursor' = Without(ChainAdded, {f})
              /\ proto' = IF proto = f THEN Head(After(chain, f)) ELSE proto
              /\ UNCHANGED ctx
           \/ \* a protocol filter that an earlier phase has used
              /\ ~get /\ ~unready
              /\ chain' = ChainAdded
              /\ ctx' = IF DrivenBy = f THEN [ctx EXCEPT ![f_ctx[f]] = Stopped(@)] ELSE ctx
              /\ drive(HandleAfterStop(f))
              /\ cursor' = Tail(cursor)
              /\ UNCHANGED proto
    /\ UNCHANGED <<f_ctx, r, get, config, phase, pos, out, crashed>>

InitOther ==
    /\ phase = "init" /\ cursor # << >> /\ ~IsApreq(Head(cursor))
    /\ cursor' = Tail(cursor)
    /\ UNCHANGED <<chain, proto, made, f_ctx, ctx, r, get, config, handle, phase, pos, out, crashed>>

EndInit ==
    /\ phase = "init" /\ cursor = << >>
    /\ phase' = "content"
    /\ UNCHANGED <<chain, proto, made, f_ctx, ctx, r, get, config, handle, cursor, pos, out, crashed>>

------------------------------------------------------------------------------
(* Reading: one token, through the filters of s. *)

Live(f) == f \in DOMAIN f_ctx /\ f_ctx[f] # NULL

\* Every apreq filter that is read through has a context, and it is ready.
Prepared(s) == \A i \in DOMAIN s : IsApreq(s[i]) => Live(s[i]) /\ ctx[f_ctx[s[i]]].status # "EINIT"

Spooling(s) == {i \in DOMAIN s : IsApreq(s[i]) /\ ctx[f_ctx[s[i]]].spool # << >>}

\* The filters the token comes through: those above the first that has one
\* spooled, or all.
Passed(s) ==
    IF Spooling(s) = {} THEN s
    ELSE SubSeq(s, 1, (CHOOSE i \in Spooling(s) : \A j \in Spooling(s) : i <= j) - 1)

Source(s) == IF Spooling(s) = {} THEN NULL ELSE s[Len(Passed(s)) + 1]

Token(s) == IF Source(s) = NULL THEN IF pos < EOS THEN pos + 1 ELSE EOS
            ELSE Head(ctx[f_ctx[Source(s)]].spool)

\* Those whose parser sees it, and those that have finished and leave.
\* Mutant of Leaving: a filter whose parser was interrupted stays.
Parsing(s) == {f \in ToSet(Passed(s)) : IsApreq(f) /\ ctx[f_ctx[f]].status = "INCOMPLETE"}
LeavingMutant(s) ==
    {f \in ToSet(Passed(s)) : IsApreq(f) /\ ctx[f_ctx[f]].status \notin {"INCOMPLETE", "INTERRUPT"}}

Leaving(s) == {f \in ToSet(Passed(s)) : IsApreq(f) /\ ctx[f_ctx[f]].status # "INCOMPLETE"}

Shown(c, t, verdict) ==
    LET read == c.bytes + (IF t = EOS THEN 0 ELSE 1)
    IN  IF read > c.limit
        THEN [c EXCEPT !.bytes = read, !.status = "OVERLIMIT"]
        ELSE [c EXCEPT !.bytes = read,
                       !.shown = Append(@, t),
                       !.status = IF t = EOS THEN "SUCCESS" ELSE verdict]

\* The contexts and the chain after a token has come through s; `by' are the
\* contexts that see it as well, and `spooled' the one that keeps a copy.
Through(s, by, verdict) ==
    LET t == Token(s)
        sees == {f_ctx[f] : f \in Parsing(s)} \cup by
    IN  /\ ctx' = [c \in DOMAIN ctx |->
                     LET drained == IF Source(s) # NULL /\ c = f_ctx[Source(s)]
                                    THEN [ctx[c] EXCEPT !.spool = Tail(@)] ELSE ctx[c]
                         seen == IF c \in sees THEN Shown(drained, t, verdict) ELSE drained
                     IN  IF c \in by /\ (seen.spool = << >> \/ Last(seen.spool) # EOS)
                         THEN [seen EXCEPT !.spool = Append(@, t)] ELSE seen]
        /\ pos' = IF Source(s) = NULL /\ pos < EOS THEN pos + 1 ELSE pos
        /\ chain' = Without(chain, Leaving(s))

ProtoAfter(s, p) ==
    IF p \in Leaving(s)
    THEN Head(Without(After(chain, p), Leaving(s)))
    ELSE p

\* A filter can be reached by a call on the handle or by a read from above.
Reached(f) ==
    \/ f = handle[r]
    \/ \E i \in DOMAIN chain :
        /\ chain[i] = f
        /\ \/ phase = "content" /\ Prepared(SubSeq(chain, 1, i - 1))
           \/ \E j \in 1 .. i - 1 : chain[j] = handle[r] /\ Prepared(SubSeq(chain, j, i - 1))

\* The context is made, or made ready, in front of anything else.
Prepare(f) ==
    /\ phase # "init" /\ f \in ToSet(chain) /\ ~crashed
    /\ IsApreq(f) /\ Reached(f)
    /\ \/ ~Live(f) /\ MakeContext(f)
       \/ /\ Live(f) /\ ctx[f_ctx[f]].status = "EINIT"
          /\ ctx' = [ctx EXCEPT ![f_ctx[f]] = Ready(@)]
          /\ UNCHANGED <<chain, proto, f_ctx, crashed>>
    /\ UNCHANGED <<made, r, get, config, handle, phase, cursor, pos, out>>

\* Mutant of Moved: proto_input_filters stays where it is.
MovedMutant(f) == proto

\* What has been spooled for the filters above must stay in the chain of every
\* later request: the filter becomes a protocol filter.
Moved(f) == IF f \in ToSet(chain) /\ proto \in ToSet(After(chain, f)) THEN f ELSE proto

\* apreq_filter_prefetch
Prefetch ==
    /\ phase # "init" /\ ~crashed
    /\ LET f == handle[r] IN
        /\ f \notin {NoHandle, NULL} /\ f \in ToSet(chain)
        /\ Live(f) /\ ctx[f_ctx[f]].status = "INCOMPLETE"
        /\ Prepared(After(chain, f))
        /\ \E verdict \in {"INCOMPLETE", "SUCCESS"} :
            Through(After(chain, f), {f_ctx[f]}, verdict)
        /\ proto' = ProtoAfter(After(chain, f), Moved(f))
    /\ UNCHANGED <<made, f_ctx, r, get, config, handle, phase, cursor, out, crashed>>

\* A content handler reads through the whole chain.
Consume ==
    /\ phase = "content" /\ ~crashed /\ Prepared(chain)
    /\ EOS \notin ToSet(out)
    /\ out' = Append(out, Token(chain))
    /\ \E verdict \in {"INCOMPLETE", "SUCCESS"} : Through(chain, {}, verdict)
    /\ proto' = ProtoAfter(chain, proto)
    /\ UNCHANGED <<made, f_ctx, r, get, config, handle, phase, cursor, crashed>>

\* External: an internal redirect, to the same method or to GET for an error
\* document; only the protocol filters stay, and belong to the new request.
Redirect ==
    /\ phase # "init" /\ ~crashed /\ r < MaxRedirects
    /\ r' = r + 1
    /\ chain' = <<proto>> \o After(chain, proto)
    /\ get' \in {get, TRUE}
    /\ config' \in Configs
    /\ phase' = "early"
    /\ UNCHANGED <<proto, made, f_ctx, ctx, handle, cursor, pos, out, crashed>>

------------------------------------------------------------------------------
Init ==
    /\ chain = <<Http>> /\ proto = Http
    /\ made = 0
    /\ f_ctx = [f \in 1 .. MaxFilters |-> NULL]
    /\ ctx = [c \in 1 .. MaxFilters |-> NewCtx(0)]
    /\ r = 0 /\ get \in BOOLEAN /\ config \in Configs
    /\ handle = [q \in 0 .. MaxRedirects |-> NoHandle]
    /\ phase = "early" /\ cursor = << >>
    /\ pos = 0 /\ out = << >> /\ crashed = FALSE

Next ==
    \/ Handle \/ Configure \/ AddOther
    \/ StartInit \/ InitFilter \/ InitOther \/ EndInit
    \/ \E f \in 1 .. MaxFilters : Prepare(f)
    \/ Prefetch \/ Consume \/ Redirect

Spec == Init /\ [][Next]_vars

------------------------------------------------------------------------------

\* However filters are moved, dropped and taken over, and whichever request
\* reads, the content handlers get the body in order and without a gap.
BodyPassesOn == out = [i \in DOMAIN out |-> i]

\* A parser that goes on, also one that was interrupted and taken over, sees
\* consecutive pieces of the body: nothing has passed it by.
NothingPassesBy ==
    \A c \in DOMAIN ctx :
        \A i \in 1 .. Len(ctx[c].shown) - 1 :
            ctx[c].shown[i] # EOS => ctx[c].shown[i + 1] = ctx[c].shown[i] + 1

\* When the content handler is there, the filter its request's handle drives
\* can read the body: it stays in the chain until its parser has finished, and
\* it is not one whose parser was stopped for another filter's sake; nor
\* has a context been looked for where there is none (filter.c:489).
HandleCanRead ==
    /\ ~crashed
    /\ phase = "content" /\ Driven =>
        LET f == handle[r]
            status == IF Live(f) THEN ctx[f_ctx[f]].status ELSE "EINIT"
        IN  /\ status # "INTERRUPT"
            /\ status \in {"EINIT", "INCOMPLETE"} => f \in ToSet(chain)

\* The context a handle drives never works with a limit above the one that is
\* configured for its own request, whoever made the context.
LimitFollows ==
    LET f == handle[r] IN
    IsApreq(f) /\ Live(f) /\ config # Unset => ctx[f_ctx[f]].limit = config

==============================================================================
