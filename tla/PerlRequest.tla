----------------------------- MODULE PerlRequest -----------------------------
(***************************************************************************)
(* A Perl script and a request (glue/perl/xsbuilder): the methods jar,     *)
(* args, body and param in scalar and in list context, on the request or   *)
(* on the exception one of them has thrown, and the tied hashes they       *)
(* return, with the iterator each hash keeps.                              *)
(*                                                                         *)
(* A tied hash is [of, rows, cur, going]: the place its table lives in, or *)
(* "params" and the rows of a table of its own; the iterator (SvCUR); and  *)
(* whether Perl itself is between the first key and the end.               *)
(***************************************************************************)
EXTENDS RequestTables

CONSTANTS
    Requests,           \* what the environment may hold at the start
    Consoles,           \* what may be typed
    Changes,            \* headers the environment may change to
    MaxTied             \* a bound: tied hashes the script keeps

\* A parse ends with a status of its own, and every read yields a block.
Ended == STRING \ {"EINIT", "INCOMPLETE"}
IsHeader(h) == h = Null \/ (h.entries \in Seq(Entry) /\ h.status \in Ended)

IsBody(b) == b = Null \/ (b.blocks \in Seq(Seq(Entry)) \ {<< >>} /\ b.status \in Ended)

ASSUME RequestsAssumption ==
    /\ \A src \in Requests :
        DOMAIN src = Places /\ IsHeader(src["jar"]) /\ IsHeader(src["args"]) /\ IsBody(src["body"])
    /\ \A h \in Changes : IsHeader(h)
    /\ \A console \in Consoles : console \in Seq(Names \cup {Null})

VARIABLES
    req,                \* the handle (RequestTables)
    tied,               \* the tied hashes
    told,               \* the outcome of one call the script has made
    walk                \* walk[i]: the pairs an iteration over tied[i] has yielded

vars == <<req, tied, told, walk>>

Methods == Places \cup {"param"}
NoOutcome == [call |-> "none", place |-> "jar", key |-> Null, vals |-> << >>, died |-> FALSE, error |-> FALSE]

Init ==
    /\ \E kind \in Kinds, src \in Requests, console \in Consoles :
        /\ kind = "custom" => src["body"] # Null
        /\ kind # "interactive" => console = << >>
        /\ kind = "interactive" => src = [p \in Places |-> Null]
        /\ req = Handle(kind, src, console)
    /\ tied = << >> /\ walk = << >>
    /\ told = NoOutcome

------------------------------------------------------------------------------
(* Methods.  A call dies when the status is an error, unless it is made on   *)
(* the exception itself.                                                      *)

Outcome(call, p, n, vals, died, error) ==
    [call |-> call, place |-> p, key |-> n, vals |-> vals, died |-> died, error |-> error]

\* Any outcome may be the one that is remembered.
Answers(o) == told' \in IF told = NoOutcome THEN {told, o} ELSE {told}

Dies(q, p, error) == IsError(q.status[p]) /\ ~error

\* Mutant of ScalarCall: the status is looked at before the name.
ScalarCallMutant(p, n, error) ==
    LET w == Whole(req, p) g == Get(w, p, n) IN
    IF Dies(w, p, error)
    THEN req' = w /\ Answers(Outcome("scalar", p, n, << >>, TRUE, error))
    ELSE req' = g.req /\ Answers(Outcome("scalar", p, n, IF g.val = Null THEN << >> ELSE <<g.val>>, FALSE, error))

\* $req->jar($key), args and body in scalar context: only when the name is not
\* there is the status of the whole place asked for.
ScalarCall(p, n, error) ==
    LET g == Get(req, p, n) w == Whole(g.req, p) IN
    IF g.val # Null
    THEN req' = g.req /\ Answers(Outcome("scalar", p, n, <<g.val>>, FALSE, error))
    ELSE req' = w /\ Answers(Outcome("scalar", p, n, << >>, Dies(w, p, error), error))

\* $req->jar($key), args and body in list context
ListCall(p, n, error) ==
    LET w == Whole(req, p) dies == Dies(w, p, error) IN
    /\ req' = w
    /\ Answers(Outcome("list", p, n, IF dies THEN << >> ELSE Values(w.table[p], n), dies, error))

\* $req->param($key): never dies
ParamScalarCall(n) ==
    LET g == Param(req, n) IN
    req' = g.req /\ Answers(Outcome("scalar", "param", n, IF g.val = Null THEN << >> ELSE <<g.val>>, FALSE, FALSE))

ParamListCall(n) ==
    LET w == Whole(Whole(req, "args"), "body") IN
    /\ req' = w
    /\ Answers(Outcome("list", "param", n, Values(w.table["args"], n) \o Values(w.table["body"], n), FALSE, FALSE))

\* Once something has died there is an exception to call methods on.
Selves == {FALSE} \cup {IsError(req.status[p]) : p \in Places}

\* $req->parse, jar_status, args_status and body_status
Parse == req' = Whole(Whole(Whole(req, "jar"), "args"), "body") /\ UNCHANGED told

Call ==
    /\ \/ \E p \in Places, n \in Names, error \in Selves : ScalarCall(p, n, error) \/ ListCall(p, n, error)
       \/ \E n \in Names : ParamScalarCall(n) \/ ParamListCall(n)
       \/ Parse
    /\ UNCHANGED <<tied, walk>>

\* The server, or the script, changes a header, the query string or a variable
\* of the environment.
HeaderChanges ==
    /\ req.kind \in {"apache2", "cgi"}
    /\ \E p \in {"jar", "args"}, h \in Changes : req' = [req EXCEPT !.src[p] = h]
    /\ UNCHANGED <<tied, walk, told>>

------------------------------------------------------------------------------
(* Tied hashes *)

NewWalk == [seen |-> << >>, ended |-> FALSE, size |-> 0]

Tie(q, of, rows) ==
    /\ Len(tied) < MaxTied
    /\ req' = q
    /\ tied' = Append(tied, [of |-> of, rows |-> rows, cur |-> 0, going |-> FALSE])
    /\ walk' = Append(walk, NewWalk)
    /\ UNCHANGED told

\* $req->jar, args and body in scalar context
TableCall(p) ==
    LET w == Whole(req, p) dies == Dies(w, p, FALSE) IN
    IF dies \/ w.table[p] = Null
    THEN req' = w /\ Answers(Outcome("table", p, Null, << >>, dies, FALSE)) /\ UNCHANGED <<tied, walk>>
    ELSE Tie(w, p, << >>)

\* $req->param in scalar context
ParamsCall == LET t == Params(req) IN t.table # Null /\ Tie(t.req, "params", t.table)

TiedRows(i) == IF tied[i].of = "params" THEN tied[i].rows ELSE Rows(req.table[tied[i].of])

\* FIRSTKEY and NEXTKEY, which FIRSTKEY is: the iterator after it
KeyAfter(i, first) ==
    LET cur == IF first THEN 0 ELSE tied[i].cur IN
    IF cur >= Len(TiedRows(i)) THEN 0 ELSE cur + 1

\* Mutant of Prefetched: the entry behind the current one.
PrefetchedMutant(i, cur, n) ==
    IF cur + 1 \in DOMAIN TiedRows(i) THEN TiedRows(i)[cur + 1].val
    ELSE Lookup(TiedRows(i), n)

\* magic_copy: an element of the hash that is taken while the iterator is
\* anywhere is the value it is at, whatever the key.
Prefetched(i, cur, n) ==
    IF cur \in DOMAIN TiedRows(i) THEN TiedRows(i)[cur].val ELSE Lookup(TiedRows(i), n)

\* FETCH in scalar context, called as a method
Fetched(i, cur, n) ==
    IF cur \in DOMAIN TiedRows(i) /\ Same(n, TiedRows(i)[cur].key) THEN TiedRows(i)[cur].val
    ELSE Lookup(TiedRows(i), n)

\* One step of each, or of keys or values, which go on until the end.
Each(i) ==
    LET cur == KeyAfter(i, ~tied[i].going)
        before == IF tied[i].going THEN walk[i] ELSE NewWalk
        key == TiedRows(i)[cur].key
    IN  /\ tied' = [tied EXCEPT ![i].cur = cur, ![i].going = cur > 0]
        /\ walk' = [walk EXCEPT ![i] =
                IF cur = 0 THEN [before EXCEPT !.ended = TRUE, !.size = Len(TiedRows(i))]
                ELSE [before EXCEPT !.seen =
                        Append(@, <<key, Prefetched(i, cur, key), Fetched(i, cur, key)>>)]]
        /\ UNCHANGED <<req, told>>

\* keys %$table in void context starts the iteration again.
Restart(i) ==
    /\ tied' = [tied EXCEPT ![i].going = FALSE]
    /\ walk' = [walk EXCEPT ![i] = NewWalk]
    /\ UNCHANGED <<req, told>>

\* FETCH of any name in the middle of an iteration
FetchCall(i, n) ==
    /\ tied[i].of # "params"
    /\ Answers(Outcome("fetch", tied[i].of, n,
                       IF Fetched(i, tied[i].cur, n) = Null THEN << >>
                       ELSE <<Fetched(i, tied[i].cur, n)>>, FALSE, FALSE))
    /\ UNCHANGED <<req, tied, walk>>

\* $table->do($callback, $key): the callback refuses the entry at stop.
DoCall(i, n, stop) ==
    LET found == Values(TiedRows(i), n) IN
    /\ tied[i].of # "params" /\ stop \in DOMAIN found
    /\ Answers(Outcome("do", tied[i].of, n, SubSeq(found, 1, stop), FALSE, FALSE))
    /\ UNCHANGED <<req, tied, walk>>

Table ==
    \/ \E p \in Places : TableCall(p)
    \/ ParamsCall
    \/ \E i \in DOMAIN tied : \/ Each(i) \/ Restart(i)
                              \/ \E n \in Names : FetchCall(i, n) \/ \E stop \in 1 .. 2 : DoCall(i, n, stop)

Next == Call \/ HeaderChanges \/ Table
Spec == Init /\ [][Next]_vars

------------------------------------------------------------------------------
(* Properties *)

NowValues(p, n) == IF p = "param" THEN Values(req.table["args"], n) \o Values(req.table["body"], n)
                   ELSE Values(req.table[p], n)

\* What the script was once told about a name stands, whatever is called after
\* it, on whichever path the answer came - a scan of the body that stops at the
\* name, the whole table, a table or both, a fetch in the middle of an
\* iteration - and whatever has become of the header: one value is the first
\* the table has, a list is all of them, and a name that was not there never
\* turns up (the statuses in the handles, which keep a header from being parsed
\* twice).  At the terminal entries may be typed behind those that were told,
\* and the body's single names are the exception cgi_body_get makes.
AnswersStand ==
    LET now == NowValues(told.place, told.key) asks == req.kind = "interactive" IN
    ~told.died =>
        CASE told.call = "list" ->
                IF asks THEN told.place # "param" => IsPrefix(told.vals, now) ELSE told.vals = now
          [] told.call = "scalar" /\ told.vals # << >> ->
                (asks => told.place \notin {"body", "param"}) => told.vals[1] = now[1]
          [] told.call \in {"fetch", "do"} /\ told.vals # << >> ->
                \E i \in DOMAIN now : IsPrefix(told.vals, SubSeq(now, i, Len(now)))
          [] told.call \in {"scalar", "fetch"} /\ told.vals = << >> -> asks \/ now = << >>
          [] OTHER -> TRUE

\* A request that could not be parsed is never taken for one that has not got
\* the name: a method of the request that comes back empty-handed comes back
\* from a place without an error; and what was parsed in front of the error can
\* be had, by its name, without dying (Request.pod of jar, args and body).
FailuresTold ==
    told.call \in {"scalar", "list", "table"} /\ told.place # "param" =>
        LET failed == IsError(req.status[told.place]) IN
        /\ told.died => failed /\ ~told.error
        /\ told.vals = << >> /\ ~told.error => (told.died <=> failed)
        /\ told.died /\ told.call = "scalar" =>
              Lookup(req.table[told.place], told.key) = Null

\* An iteration over a tied hash yields every entry of its table once, in
\* order, each key with its own value even when the name occurs several times
\* - as an element of the hash and by FETCH - with lookups, other iterations
\* over the same table and new entries in between (apreq_xs_tables.h).  An
\* element taken for another key than the iterator's gets the iterator's value
\* (Prefetched): that is the code's, and the property is about where the
\* iterator is left.
IterationInStep ==
    \A i \in DOMAIN tied :
        LET rows == TiedRows(i) seen == walk[i].seen IN
        /\ Len(seen) <= Len(rows)
        /\ \A k \in DOMAIN seen : seen[k] = <<rows[k].key, rows[k].val, rows[k].val>>
        /\ walk[i].ended => Len(seen) = walk[i].size

==============================================================================
