-------------------------- MODULE ReaderBody_proofs --------------------------
(***************************************************************************)
(* What the handles that read for themselves promise, for every request,   *)
(* block size and limit, any names and hooks, and calls and settings in    *)
(* any order.                                                              *)
(***************************************************************************)
EXTENDS ReaderBody, SequenceTheorems, FiniteSetTheorems, TLAPS

Statuses == {"EINIT", "INCOMPLETE", "SUCCESS", "GENERAL", "EIO", "OVERLIMIT",
             "BADHEADER", "NOPARSER", "NOHEADER"}

Hooked == [limit: Nat, dir: Dirs \cup {Null}, hooks: Seq(Hooks \cup {Find})]

\* Every variable has its type.
TypeOK ==
    /\ req \in Requests
    /\ body_status \in Statuses
    /\ bytes_read \in Nat /\ read_limit \in Nat /\ brigade_limit \in Nat
    /\ temp_dir \in Dirs \cup {Null}
    /\ hook_queue \in Seq(Hooks) /\ body \subseteq Names
    /\ parser \in Hooked \cup {NoParser}
    /\ looped \in BOOLEAN
    /\ find \in [name: Names \cup {Null}, param: BOOLEAN]
    /\ pos \in Nat /\ pos <= req.arrives
    /\ ends \in Nat /\ broken \in BOOLEAN
    /\ fed \in [bytes: Seq(Nat), ends: Nat]
    /\ pc \in {"idle", "body", "first", "lookup", "scan", "test", "overflow"}
    /\ sought \in Names \cup {Null}
    /\ answer \in [name: Names \cup {Null}, value: {"none", "null", "param"}]
    /\ accepted \in [limit: Nat, dir: Dirs \cup {Null}]

\* What has been taken, counted and shown; the end comes behind all of it.
FeedInv ==
    /\ bytes_read = pos
    /\ \A i \in 1 .. Len(fed.bytes) : fed.bytes[i] = i
    /\ Len(fed.bytes) <= pos
    /\ body_status = "INCOMPLETE" => Len(fed.bytes) = pos
    /\ body_status = "EINIT" => pos = 0 /\ body = {}
    /\ fed.ends > 0 => /\ ends > 0
                       /\ Len(fed.bytes) = req.arrives \/ (broken /\ Is("apache"))
    /\ ends > 0 /\ ~Is("apache") => pos = req.arrives

\* The limits and the verdict on them.
LimitInv ==
    /\ read_limit <= Unlimited
    /\ OverlimitJustified

\* What the later steps of body_get may rely on: the CGI handle's hook is on
\* the list and knows of the name exactly what the table does.
GetInv ==
    /\ pc \in {"first", "lookup", "scan", "test"} =>
            sought \in Names /\ body_status # "EINIT" /\ parser # NoParser
    /\ pc \in {"body", "first"} => body_status # "EINIT"
    /\ pc \in {"scan", "test"} /\ Is("cgi") =>
            /\ Find \in ToSet(parser.hooks)
            /\ find.name = sought
            /\ find.param <=> sought \in body
    /\ AnswerIsFinal

\* A parser is there as soon as the body can be read; the settings a caller was
\* told of are either its own or wait for init_body.
SettingsInv ==
    /\ body_status = "INCOMPLETE" => parser # NoParser
    /\ parser = NoParser =>
            accepted.limit = brigade_limit /\ accepted.dir = temp_dir
    /\ parser # NoParser =>
            /\ parser.limit <= accepted.limit \/ brigade_limit <= accepted.limit
            /\ (Is("apache") => temp_dir = Null) /\ accepted.dir # Null
                  => parser.dir = accepted.dir
            /\ ~Is("apache") /\ temp_dir # Null => accepted.dir = temp_dir
            /\ temp_dir # Null => accepted.dir # Null
    /\ SettingsHonoured

Inv == TypeOK /\ FeedInv /\ LimitInv /\ GetInv /\ SettingsInv

------------------------------------------------------------------------------
(* Requests and reads *)

USE DEF handle, set, world

LEMMA RequestFacts ==
    ASSUME req \in Requests
    PROVE  /\ req.arrives \in Nat /\ req.nested \in Nat
           /\ req.read_limit \in Nat /\ req.read_limit <= Unlimited
           /\ req.brigade_limit \in Nat /\ req.temp_dir \in Dirs \cup {Null}
<1>1. req \in RequestType
  BY RequestsAssumption
<1>2. MaxLen \in Nat /\ Unlimited \in Nat
  BY SizeAssumption
<1>3. /\ req.arrives \in 0 .. MaxLen /\ req.nested \in Nat
      /\ req.read_limit \in 0 .. Unlimited
      /\ req.brigade_limit \in Nat /\ req.temp_dir \in Dirs \cup {Null}
  BY <1>1 DEF RequestType
<1> QED
  BY <1>2, <1>3

\* A read does not go back, nor beyond what arrives; only the end of the stream
\* comes with an end, but for a read of Apache 1.3 that has failed; and once the
\* other handles have taken the end nothing is left.
LEMMA ReadsFacts ==
    ASSUME TypeOK, FeedInv, NEW r \in Reads
    PROVE  /\ r.to \in Nat /\ pos <= r.to /\ r.to <= req.arrives
           /\ r.end \in BOOLEAN
           /\ r.end => r.to = req.arrives \/ (broken /\ Is("apache") /\ r.to = pos)
           /\ ~Is("apache") /\ ends > 0 => r.to = pos
<1>1. /\ req.arrives \in Nat /\ pos \in Nat /\ pos <= req.arrives
      /\ BlockSize \in Nat /\ ends \in Nat
  BY RequestFacts, SizeAssumption DEF TypeOK
<1>2. CASE LooksEnded \/ (Is("apache") /\ pos = req.arrives)
  <2>1. r = [to |-> pos, end |-> TRUE]
    BY <1>2 DEF Reads
  <2> QED
    BY <1>1, <1>2, <2>1 DEF LooksEnded
<1>3. CASE ~LooksEnded /\ Is("apache") /\ pos # req.arrives
  <2>1. PICK q \in pos + 1 .. Least(pos + BlockSize, req.arrives) :
            r = [to |-> q, end |-> FALSE]
    BY <1>3 DEF Reads
  <2> QED
    BY <1>1, <1>3, <2>1 DEF Least
<1>4. CASE ~Is("apache") /\ ends > 0
  <2>1. r = [to |-> pos, end |-> FALSE]
    BY <1>4 DEF Reads, LooksEnded
  <2> QED
    BY <1>1, <1>4, <2>1
<1>5. CASE ~Is("apache") /\ ~(ends > 0)
  <2>1. r = IF pos + BlockSize <= req.arrives
            THEN [to |-> pos + BlockSize, end |-> FALSE]
            ELSE [to |-> req.arrives, end |-> TRUE]
    BY <1>5 DEF Reads, LooksEnded
  <2> QED
    BY <1>1, <1>5, <2>1
<1> QED
  BY <1>2, <1>3, <1>4, <1>5

\* What the parser is shown next goes on where it has been.
LEMMA ShownFacts ==
    ASSUME TypeOK, FeedInv, body_status = "INCOMPLETE", NEW r \in Reads, Shown(r)
    PROVE  /\ fed' \in [bytes: Seq(Nat), ends: Nat]
           /\ Len(fed'.bytes) = r.to
           /\ \A i \in 1 .. r.to : fed'.bytes[i] = i
           /\ fed'.ends > 0 => fed.ends > 0 \/ r.end
<1> DEFINE new == [i \in 1 .. r.to - pos |-> pos + i]
<1>1. pos \in Nat /\ r.to \in Nat /\ pos <= r.to
  BY ReadsFacts DEF TypeOK
<1>2. fed.bytes \in Seq(Nat) /\ fed.ends \in Nat /\ Len(fed.bytes) = pos
  BY DEF TypeOK, FeedInv
<1>3. new \in Seq(Nat) /\ Len(new) = r.to - pos
  <2>1. r.to - pos \in Nat /\ \A i \in 1 .. r.to - pos : pos + i \in Nat
    BY <1>1
  <2> QED
    BY <2>1
<1>4. fed' = [bytes |-> fed.bytes \o new, ends |-> fed.ends + IF r.end THEN 1 ELSE 0]
  BY DEF Shown
<1>5. /\ fed.bytes \o new \in Seq(Nat)
      /\ Len(fed.bytes \o new) = Len(fed.bytes) + Len(new)
      /\ \A i \in 1 .. Len(fed.bytes) + Len(new) :
            (fed.bytes \o new)[i] = IF i <= Len(fed.bytes) THEN fed.bytes[i]
                                    ELSE new[i - Len(fed.bytes)]
  BY <1>2, <1>3, ConcatProperties
<1>6. fed'.bytes = fed.bytes \o new /\ Len(fed.bytes \o new) = r.to
  <2>1. fed'.bytes = fed.bytes \o new
    BY <1>4
  <2>2. Len(fed.bytes \o new) = Len(fed.bytes) + Len(new)
    BY <1>5
  <2>3. Len(fed.bytes) + Len(new) = r.to
    BY <1>1, <1>2, <1>3
  <2> QED
    BY <2>1, <2>2, <2>3
<1>7. ASSUME NEW i \in 1 .. r.to PROVE fed'.bytes[i] = i
  <2>1. fed'.bytes[i] = IF i <= pos THEN fed.bytes[i] ELSE new[i - pos]
    BY <1>1, <1>2, <1>3, <1>5, <1>6
  <2>2. i <= pos => fed.bytes[i] = i
    BY <1>1, <1>2 DEF FeedInv
  <2>3. ~(i <= pos) => new[i - pos] = i
    BY <1>1
  <2> QED
    BY <2>1, <2>2, <2>3
<1>8. fed'.ends \in Nat /\ (fed'.ends > 0 => fed.ends > 0 \/ r.end)
  BY <1>2, <1>4, ReadsFacts
<1>9. fed' \in [bytes: Seq(Nat), ends: Nat]
  BY <1>4, <1>5, <1>8
<1> QED
  BY <1>6, <1>7, <1>8, <1>9

------------------------------------------------------------------------------
(* Parts of actions *)

\* What init_body leaves alone belongs to the calls it is a part of.
LEMMA InitBodyStep ==
    ASSUME Inv, InitBody, UNCHANGED <<req, set, world>>
    PROVE  /\ body_status' \in Statuses \ {"EINIT"}
           /\ hook_queue' \in Seq(Hooks) /\ body' = body
           /\ parser' \in Hooked \cup {NoParser}
           /\ looped' = looped /\ find' = find
           /\ FeedInv' /\ LimitInv' /\ SettingsInv'
<1> USE DEF Inv
<1>1. /\ body_status = "EINIT" /\ pos = 0 /\ body = {} /\ bytes_read = 0
      /\ body_status' = InitOutcome
      /\ UNCHANGED <<bytes_read, body, looped, find>>
  BY DEF InitBody, NeedsInit, FeedInv
<1>2. InitOutcome \in {"BADHEADER", "OVERLIMIT", "NOPARSER", "NOHEADER", "INCOMPLETE"}
  BY DEF InitOutcome
<1>3. Len(fed.bytes) = 0
  <2>1. Len(fed.bytes) \in Nat
    BY DEF TypeOK
  <2> QED
    BY <1>1, <2>1 DEF FeedInv
<1>4. FeedInv'
  BY <1>1, <1>2, <1>3 DEF FeedInv, Is
<1>5. LimitInv'
  <2>1. ~(bytes_read > read_limit)
    BY <1>1 DEF TypeOK
  <2>2. InitOutcome = "OVERLIMIT" => LengthOver
    BY DEF InitOutcome
  <2>3. LengthOver' = LengthOver
    BY DEF LengthOver
  <2>4. Len(fed.bytes) <= read_limit
    BY <1>3 DEF TypeOK
  <2> QED
    BY <1>1, <2>1, <2>2, <2>3, <2>4 DEF LimitInv, OverlimitJustified
<1>6. CASE InitOutcome # "INCOMPLETE"
  <2>1. UNCHANGED <<hook_queue, parser>>
    BY <1>6 DEF InitBody
  <2>2. SettingsInv'
    BY <1>1, <1>6, <2>1 DEF SettingsInv, SettingsHonoured, Is
  <2> QED
    BY <1>1, <1>2, <1>4, <1>5, <2>1, <2>2 DEF TypeOK, Statuses
<1>7. CASE InitOutcome = "INCOMPLETE" /\ parser = NoParser
  <2>1. /\ hook_queue' = << >>
        /\ parser' = [limit |-> brigade_limit, dir |-> temp_dir, hooks |-> hook_queue]
    BY <1>7 DEF InitBody
  <2>2. hook_queue \in Seq(Hooks \cup {Find})
    BY DEF TypeOK
  <2>3. parser' \in Hooked /\ parser' # NoParser
    BY <2>1, <2>2 DEF TypeOK, Hooked, NoParser
  <2>4. SettingsInv'
    BY <1>7, <2>1, <2>3 DEF SettingsInv, SettingsHonoured, TypeOK, Is
  <2>5. hook_queue' \in Seq(Hooks)
    BY <2>1
  <2> QED
    BY <1>1, <1>2, <1>4, <1>5, <2>3, <2>4, <2>5 DEF Statuses
<1>8. CASE InitOutcome = "INCOMPLETE" /\ parser # NoParser
  <2>1. parser \in Hooked /\ hook_queue \in Seq(Hooks)
    BY <1>8 DEF TypeOK
  <2>2. /\ hook_queue' = << >>
        /\ parser' = [limit |-> Least(parser.limit, brigade_limit),
                      dir |-> IF temp_dir # Null THEN temp_dir ELSE parser.dir,
                      hooks |-> hook_queue \o parser.hooks]
    BY <1>8, <2>1 DEF InitBody, WithQueue, Hooked
  <2>3. hook_queue \o parser.hooks \in Seq(Hooks \cup {Find})
    BY <2>1 DEF Hooked
  <2>4. parser' \in Hooked
    BY <2>1, <2>2, <2>3 DEF TypeOK, Hooked, Least
  <2>5. parser' # NoParser
    BY <2>4 DEF Hooked, NoParser
  <2>6. /\ parser'.limit <= accepted.limit
        /\ accepted.dir # Null =>
              parser'.dir = IF Is("apache") /\ temp_dir # Null THEN temp_dir ELSE accepted.dir
        /\ (Is("apache") => temp_dir = Null) /\ accepted.dir # Null
              => parser'.dir = accepted.dir
        /\ ~Is("apache") /\ temp_dir # Null => accepted.dir = temp_dir
        /\ temp_dir # Null => accepted.dir # Null
    BY <1>8, <2>1, <2>2 DEF SettingsInv, TypeOK, Hooked, Least
  <2>7. SettingsInv'
    BY <1>8, <2>5, <2>6 DEF SettingsInv, SettingsHonoured, Is
  <2>8. hook_queue' \in Seq(Hooks)
    BY <2>2
  <2> QED
    BY <1>1, <1>2, <1>4, <1>5, <2>4, <2>7, <2>8 DEF Statuses
<1> QED
  BY <1>2, <1>6, <1>7, <1>8

\* Settings that nobody touches hold as long as they did; nothing gets a body
\* read that was not.
LEMMA SettingsKept ==
    ASSUME Inv,
           UNCHANGED <<req, brigade_limit, temp_dir, accepted>>,
           body_status' = "INCOMPLETE" => body_status = "INCOMPLETE",
           parser # NoParser => parser' # NoParser
                                /\ parser'.limit = parser.limit /\ parser'.dir = parser.dir,
           parser = NoParser => parser' = NoParser
    PROVE  SettingsInv'
<1>1. SettingsInv
  BY DEF Inv
<1>2. Is("apache")' = Is("apache")
  BY DEF Is
<1> QED
  BY <1>1, <1>2 DEF SettingsInv, SettingsHonoured

\* One read, in whichever call: the body goes on by a piece or is over, and the
\* hook that looks for a name knows of it when the table does.
LEMMA ReadStep ==
    ASSUME Inv, NEW resume, Read(resume)
    PROVE  /\ body_status' \in Statuses /\ (body_status # "EINIT" => body_status' # "EINIT")
           /\ bytes_read' \in Nat
           /\ body' \subseteq Names /\ body \subseteq body'
           /\ find' \in [name: Names \cup {Null}, param: BOOLEAN]
           /\ pos' \in Nat /\ pos' <= req.arrives /\ ends' \in Nat /\ broken' \in BOOLEAN
           /\ fed' \in [bytes: Seq(Nat), ends: Nat]
           /\ pc' \in {resume, "overflow"}
           /\ UNCHANGED <<req, parser, looped, hook_queue, set, answer>>
           /\ Settled => UNCHANGED <<body_status, body>>
           /\ find'.name = find.name
           /\ (pc' = resume /\ Find \in ToSet(parser.hooks)
                /\ (find.param <=> find.name \in body))
              => (find'.param <=> find'.name \in body')
           /\ FeedInv' /\ LimitInv' /\ SettingsInv'
<1> USE DEF Inv
<1>1. /\ bytes_read = pos /\ pos \in Nat /\ pos <= req.arrives /\ ends \in Nat
      /\ req.arrives \in Nat /\ req.nested \in Nat /\ read_limit \in Nat
      /\ find \in [name: Names \cup {Null}, param: BOOLEAN]
      /\ fed \in [bytes: Seq(Nat), ends: Nat]
      /\ body_status \in Statuses /\ body \subseteq Names
  BY RequestFacts DEF TypeOK, FeedInv
<1>2. UNCHANGED <<req, parser, looped, hook_queue, set, answer>>
  BY DEF Read
<1>3. LengthOver' = LengthOver
  BY <1>2 DEF LengthOver
<1>4. CASE body_status # "INCOMPLETE"
  <2>1. /\ pc' = resume
        /\ UNCHANGED <<body_status, bytes_read, body, find, world>>
    BY <1>4 DEF Read
  <2>2. FeedInv' /\ LimitInv' /\ SettingsInv'
    BY <1>2, <1>3, <2>1 DEF FeedInv, LimitInv, OverlimitJustified, SettingsInv,
         SettingsHonoured, Is
  <2> QED
    BY <1>1, <1>2, <2>1, <2>2 DEF TypeOK
<1>5. CASE body_status = "INCOMPLETE" /\ broken /\ ~LooksEnded
  <2>1. /\ body_status' = "EIO" /\ pc' = resume
        /\ UNCHANGED <<bytes_read, body, find, world>>
    BY <1>5 DEF Read, ReadFails
  <2>2. FeedInv' /\ LimitInv' /\ SettingsInv'
    BY <1>2, <1>3, <1>5, <2>1 DEF FeedInv, LimitInv, OverlimitJustified, SettingsInv,
         SettingsHonoured, Is
  <2> QED
    BY <1>1, <1>2, <1>5, <2>1, <2>2 DEF TypeOK, Statuses, Settled
<1>6. CASE body_status = "INCOMPLETE" /\ (broken => LooksEnded)
  <2>1. PICK r \in Reads :
          /\ pos' = r.to
          /\ ends' = Least(ends + (IF r.end THEN 1 ELSE 0), req.nested + 1)
          /\ bytes_read' = bytes_read + r.to - pos
          /\ IF PastLimit
             THEN /\ body_status' = "OVERLIMIT"
                  /\ pc' = resume
                  /\ UNCHANGED <<body, find, fed>>
             ELSE Feed(r, resume)
    BY <1>6 DEF Read
  <2>2. broken' = broken
    BY <1>6 DEF Read
  <2>3. /\ r.to \in Nat /\ pos <= r.to /\ r.to <= req.arrives
        /\ r.end \in BOOLEAN
        /\ r.end => r.to = req.arrives \/ (broken /\ Is("apache") /\ r.to = pos)
        /\ ~Is("apache") /\ ends > 0 => r.to = pos
    BY ReadsFacts
  <2>4. bytes_read' = pos' /\ pos' \in Nat /\ pos' <= req.arrives
    BY <1>1, <2>1, <2>3
  <2>5. /\ ends' \in Nat
        /\ ends > 0 => ends' > 0
        /\ r.end => ends' > 0
        /\ ends' > 0 => ends > 0 \/ r.end
    BY <1>1, <2>1, <2>3 DEF Least
  <2>6. ends' > 0 /\ ~Is("apache") => pos' = req.arrives
    BY <1>1, <2>1, <2>3, <2>5 DEF FeedInv
  <2>7. Len(fed.bytes) = pos
    BY <1>6 DEF FeedInv
  <2>8. CASE PastLimit
    <3>1. /\ body_status' = "OVERLIMIT" /\ pc' = resume
          /\ UNCHANGED <<body, find, fed>>
      BY <2>1, <2>8
    <3>2. FeedInv'
      BY <1>1, <1>2, <2>1, <2>2, <2>3, <2>4, <2>5, <2>6, <2>7, <3>1 DEF FeedInv, Is
    <3>3. LimitInv'
      BY <1>2, <2>8, <3>1 DEF LimitInv, OverlimitJustified, PastLimit
    <3>4. SettingsInv'
      BY <1>2, <3>1 DEF SettingsInv, SettingsHonoured, Is
    <3> QED
      BY <1>1, <1>2, <1>6, <2>2, <2>4, <2>5, <3>1, <3>2, <3>3, <3>4
         DEF TypeOK, Statuses, Settled
  <2>9. CASE ~PastLimit
    <3>1. Feed(r, resume)
      BY <2>1, <2>9
    <3>2. Shown(r)
      BY <3>1 DEF Feed
    <3>3. /\ fed' \in [bytes: Seq(Nat), ends: Nat]
          /\ Len(fed'.bytes) = r.to
          /\ \A i \in 1 .. r.to : fed'.bytes[i] = i
          /\ fed'.ends > 0 => fed.ends > 0 \/ r.end
      BY <1>6, <3>2, ShownFacts
    <3>2a. PICK verdict \in Verdicts(r) : \E m :
            LET new == Completed(pos, m, verdict) IN
            IF new # {} /\ looped
            THEN pc' = "overflow" /\ UNCHANGED <<body_status, body, find>>
            ELSE /\ pc' = resume
                 /\ body_status' = verdict
                 /\ body' = body \cup new
                 /\ RunHooks(new)
      BY <3>1 DEF Feed
    <3>4. PICK m :
            LET new == Completed(pos, m, verdict) IN
            IF new # {} /\ looped
            THEN pc' = "overflow" /\ UNCHANGED <<body_status, body, find>>
            ELSE /\ pc' = resume
                 /\ body_status' = verdict
                 /\ body' = body \cup new
                 /\ RunHooks(new)
      BY <3>2a
    <3> DEFINE new == Completed(pos, m, verdict)
    <3>5. verdict \in {"GENERAL", "SUCCESS", "INCOMPLETE"} /\ new \subseteq Names
      BY DEF Verdicts, Completed
    <3>6. fed'.ends > 0 => /\ ends' > 0
                           /\ Len(fed'.bytes) = req.arrives \/ (broken /\ Is("apache"))
      BY <1>1, <2>3, <2>5, <2>7, <3>3 DEF FeedInv
    <3>7. bytes_read' <= read_limit /\ Len(fed'.bytes) <= read_limit
      BY <1>1, <2>1, <2>4, <2>9, <3>3 DEF PastLimit
    <3> HIDE DEF new
    <3>8. \/ /\ pc' = "overflow" /\ UNCHANGED <<body_status, body, find>>
          \/ /\ pc' = resume /\ body_status' = verdict
             /\ body' = body \cup new
             /\ RunHooks(new)
      BY <3>4 DEF new
    <3>9. body_status' \in {"GENERAL", "SUCCESS", "INCOMPLETE"}
      BY <1>6, <3>5, <3>8
    <3>10. FeedInv'
      BY <1>2, <2>1, <2>2, <2>4, <2>6, <3>3, <3>6, <3>9 DEF FeedInv, Is
    <3>11. LimitInv'
      BY <1>1, <1>2, <2>4, <3>7, <3>9 DEF LimitInv, OverlimitJustified
    <3>12. SettingsInv'
      BY <1>2, <1>6, SettingsKept
    <3>13. /\ find' \in [name: Names \cup {Null}, param: BOOLEAN]
           /\ find'.name = find.name
           /\ (pc' = resume /\ Find \in ToSet(parser.hooks)
                /\ (find.param <=> find.name \in body))
              => (find'.param <=> find'.name \in body')
      <4>1. CASE UNCHANGED <<body, find>>
        BY <1>1, <4>1
      <4>2. CASE body' = body \cup new /\ RunHooks(new)
        <5>1. CASE Find \in ToSet(parser.hooks) /\ find.name \in new
          <6>1. find' = [find EXCEPT !.param = TRUE]
            BY <4>2, <5>1 DEF RunHooks
          <6>2. /\ find'.name = find.name /\ find'.param = TRUE
                /\ find' \in [name: Names \cup {Null}, param: BOOLEAN]
            BY <1>1, <6>1
          <6>3. find'.name \in body'
            BY <4>2, <5>1, <6>2
          <6> QED
            BY <6>2, <6>3
        <5>2. CASE ~(Find \in ToSet(parser.hooks) /\ find.name \in new)
          <6>1. find' = find
            BY <4>2, <5>2 DEF RunHooks
          <6>2. Find \in ToSet(parser.hooks) => (find.name \in body' <=> find.name \in body)
            BY <4>2, <5>2
          <6> QED
            BY <1>1, <6>1, <6>2
        <5> QED
          BY <5>1, <5>2
      <4> QED
        BY <3>8, <4>1, <4>2
    <3>14. body' \subseteq Names /\ body \subseteq body' /\ pc' \in {resume, "overflow"}
      BY <1>1, <3>5, <3>8
    <3> QED
      BY <1>2, <1>6, <2>2, <2>4, <2>5, <3>3, <3>9, <3>10, <3>11, <3>12, <3>13, <3>14
         DEF TypeOK, Statuses, Settled
  <2> QED
    BY <2>8, <2>9
<1> QED
  BY <1>4, <1>5, <1>6

------------------------------------------------------------------------------
(* The invariant is inductive. *)

\* What a step keeps that leaves the body and the limits alone, whatever call
\* it belongs to.
Quiet == UNCHANGED <<req, body_status, bytes_read, body, read_limit, pos, ends, broken, fed>>

LEMMA QuietStep ==
    ASSUME Inv, Quiet
    PROVE  FeedInv' /\ LimitInv' /\ Settled' = Settled
BY DEF Inv, Quiet, FeedInv, LimitInv, OverlimitJustified, LengthOver, Settled, Is

LEMMA InvInit == Init => Inv
<1> SUFFICES ASSUME Init PROVE Inv
  OBVIOUS
<1>1. /\ req \in Requests /\ req.arrives \in Nat
      /\ req.read_limit \in Nat /\ req.read_limit <= Unlimited
      /\ req.brigade_limit \in Nat /\ req.temp_dir \in Dirs \cup {Null}
  BY RequestFacts DEF Init
<1>2. << >> \in Seq(Hooks) /\ << >> \in Seq(Hooks \cup {Find}) /\ << >> \in Seq(Nat) /\ Len(<< >>) = 0
  OBVIOUS
<1>3. parser \in Hooked \cup {NoParser}
  BY <1>1, <1>2 DEF Init, Hooked
<1>4. body_status \in {"EINIT", "INCOMPLETE"}
  BY DEF Init
<1>5. fed = [bytes |-> << >>, ends |-> 0] /\ fed \in [bytes: Seq(Nat), ends: Nat]
  BY <1>2 DEF Init
<1>6. TypeOK
  <2>1. /\ find \in [name: Names \cup {Null}, param: BOOLEAN]
        /\ answer \in [name: Names \cup {Null}, value: {"none", "null", "param"}]
        /\ accepted \in [limit: Nat, dir: Dirs \cup {Null}]
    BY <1>1 DEF Init, NoAnswer
  <2>2. hook_queue \in Seq(Hooks) /\ body \subseteq Names
    BY <1>2 DEF Init
  <2>3. /\ bytes_read \in Nat /\ read_limit \in Nat /\ brigade_limit \in Nat
        /\ temp_dir \in Dirs \cup {Null}
        /\ pos \in Nat /\ pos <= req.arrives /\ ends \in Nat
        /\ pc = "idle" /\ sought = Null
    BY <1>1 DEF Init
  <2>5. looped \in BOOLEAN /\ broken \in BOOLEAN
    BY DEF Init
  <2>4. body_status \in Statuses
    BY <1>4 DEF Statuses
  <2> QED
    BY <1>1, <1>3, <1>5, <2>1, <2>2, <2>3, <2>4, <2>5 DEF TypeOK
<1>7. FeedInv
  BY <1>2, <1>5 DEF Init, FeedInv
<1>8. LimitInv
  BY <1>1, <1>2, <1>4, <1>5 DEF Init, LimitInv, OverlimitJustified
<1>9. GetInv
  BY DEF Init, GetInv, AnswerIsFinal, NoAnswer
<1>10. SettingsInv
  <2>1. CASE Is("custom")
    <3>1. parser = [limit |-> req.brigade_limit, dir |-> req.temp_dir, hooks |-> << >>]
      BY <2>1 DEF Init
    <3>2. parser # NoParser
      BY <1>1, <3>1 DEF NoParser
    <3> QED
      BY <1>1, <3>1, <3>2 DEF Init, SettingsInv, SettingsHonoured
  <2>2. CASE ~Is("custom")
    BY <1>1, <2>2 DEF Init, SettingsInv, SettingsHonoured
  <2> QED
    BY <2>1, <2>2
<1> QED
  BY <1>6, <1>7, <1>8, <1>9, <1>10 DEF Inv

LEMMA BodyKeeps == Inv /\ Body => Inv'
<1> SUFFICES ASSUME Inv, Body PROVE Inv'
  OBVIOUS
<1>1. pc = "idle" /\ pc' = "body" /\ UNCHANGED <<req, set, world, sought, answer>>
  BY DEF Body
<1>2. CASE InitBody
  <2>1. /\ body_status' \in Statuses \ {"EINIT"}
        /\ hook_queue' \in Seq(Hooks) /\ body' = body
        /\ parser' \in Hooked \cup {NoParser}
        /\ looped' = looped /\ find' = find
        /\ FeedInv' /\ LimitInv' /\ SettingsInv'
    BY <1>1, <1>2, InitBodyStep
  <2>2. body_status = "EINIT" /\ bytes_read' = bytes_read
    BY <1>2 DEF InitBody, NeedsInit
  <2>3. TypeOK'
    BY <1>1, <2>1, <2>2 DEF Inv, TypeOK
  <2>4. GetInv'
    BY <1>1, <2>1, <2>2 DEF Inv, GetInv, AnswerIsFinal, Settled
  <2> QED
    BY <2>1, <2>3, <2>4 DEF Inv
<1>3. CASE ~NeedsInit /\ UNCHANGED handle
  <2>1. TypeOK'
    BY <1>1, <1>3 DEF Inv, TypeOK
  <2>2. GetInv'
    BY <1>1, <1>3 DEF Inv, GetInv, AnswerIsFinal, Settled, NeedsInit
  <2>3. FeedInv' /\ LimitInv'
    BY <1>1, <1>3, QuietStep DEF Quiet
  <2>4. SettingsInv'
    BY <1>1, <1>3, SettingsKept
  <2> QED
    BY <2>1, <2>2, <2>3, <2>4 DEF Inv
<1> QED
  BY <1>2, <1>3 DEF Body

\* A read is a step of body or body_get.
LEMMA ReadKeeps ==
    ASSUME Inv, NEW resume \in {"body", "lookup", "test"}, Read(resume), sought' = sought,
           pc \in {"body", "first", "scan"},
           pc = "body" <=> resume = "body", pc = "scan" <=> resume = "test"
    PROVE  Inv'
<1>1. /\ body_status' \in Statuses /\ (body_status # "EINIT" => body_status' # "EINIT")
      /\ bytes_read' \in Nat
      /\ body' \subseteq Names /\ body \subseteq body'
      /\ find' \in [name: Names \cup {Null}, param: BOOLEAN]
      /\ pos' \in Nat /\ pos' <= req.arrives /\ ends' \in Nat /\ broken' \in BOOLEAN
      /\ fed' \in [bytes: Seq(Nat), ends: Nat]
      /\ pc' \in {resume, "overflow"}
      /\ UNCHANGED <<req, parser, looped, hook_queue, set, answer>>
      /\ FeedInv' /\ LimitInv' /\ SettingsInv'
  BY ReadStep
<1>2. /\ Settled => UNCHANGED <<body_status, body>>
      /\ find'.name = find.name
      /\ (pc' = resume /\ Find \in ToSet(parser.hooks)
            /\ (find.param <=> find.name \in body))
         => (find'.param <=> find'.name \in body')
  BY ReadStep
<1>3. TypeOK'
  BY <1>1 DEF Inv, TypeOK
<1>4. body_status # "EINIT"
  <2>1. pc = "scan" => body_status # "EINIT"
    BY DEF Inv, GetInv
  <2> QED
    BY <2>1 DEF Inv, GetInv
<1>5. AnswerIsFinal'
  <2>1. answer.value = "null" => Settled /\ answer.name \notin body
    BY DEF Inv, GetInv, AnswerIsFinal
  <2>2. answer.value = "param" => answer.name \in body
    BY DEF Inv, GetInv, AnswerIsFinal
  <2> QED
    BY <1>1, <1>2, <2>1, <2>2 DEF AnswerIsFinal, Settled
<1>6. pc' \in {"first", "lookup", "scan", "test"} =>
            sought' \in Names /\ body_status' # "EINIT" /\ parser' # NoParser
  BY <1>1, <1>4 DEF Inv, GetInv
<1>7. pc' \in {"scan", "test"} /\ Is("cgi")' =>
            /\ Find \in ToSet(parser'.hooks)
            /\ find'.name = sought'
            /\ find'.param <=> sought' \in body'
  <2> SUFFICES ASSUME pc' \in {"scan", "test"}, Is("cgi")'
               PROVE  /\ Find \in ToSet(parser'.hooks)
                      /\ find'.name = sought'
                      /\ find'.param <=> sought' \in body'
    OBVIOUS
  <2>1. pc = "scan" /\ pc' = resume /\ Is("cgi")
    BY <1>1 DEF Is
  <2>2. /\ Find \in ToSet(parser.hooks)
        /\ find.name = sought
        /\ find.param <=> sought \in body
    BY <2>1 DEF Inv, GetInv
  <2> QED
    BY <1>1, <1>2, <2>1, <2>2
<1>8. GetInv'
  BY <1>1, <1>4, <1>5, <1>6, <1>7 DEF GetInv
<1> QED
  BY <1>1, <1>3, <1>8 DEF Inv

LEMMA BodyReturnKeeps == Inv /\ BodyReturn => Inv'
<1> SUFFICES ASSUME Inv, BodyReturn PROVE Inv'
  OBVIOUS
<1>1. pc' = "idle" /\ UNCHANGED <<req, handle, set, world, sought, answer>>
  BY DEF BodyReturn
<1>2. TypeOK'
  BY <1>1 DEF Inv, TypeOK
<1>3. GetInv'
  BY <1>1 DEF Inv, GetInv, AnswerIsFinal, Settled
<1> QED
  BY <1>1, <1>2, <1>3, QuietStep, SettingsKept DEF Inv, Quiet

LEMMA BreakKeeps == Inv /\ Break => Inv'
<1> SUFFICES ASSUME Inv, Break PROVE Inv'
  OBVIOUS
<1>1. /\ broken' = TRUE
      /\ UNCHANGED <<req, handle, set, pos, ends, fed, pc, sought, answer>>
  BY DEF Break
<1>2. TypeOK'
  BY <1>1 DEF Inv, TypeOK
<1>3. GetInv'
  BY <1>1 DEF Inv, GetInv, AnswerIsFinal, Settled, Is
<1>4. FeedInv'
  BY <1>1 DEF Inv, FeedInv, Is
<1>5. LimitInv'
  BY <1>1 DEF Inv, LimitInv, OverlimitJustified, LengthOver
<1> QED
  BY <1>1, <1>2, <1>3, <1>4, <1>5, SettingsKept DEF Inv

\* What a return says is true for good: parsing is over, or the table has it.
LEMMA ReturnStep ==
    ASSUME Inv, NEW n \in Names, NEW value \in {"null", "param"}, Return(n, value),
           body' = body, body_status' \in Statuses,
           value = "null" => n \notin body /\ body_status' \notin {"EINIT", "INCOMPLETE"},
           value = "param" => n \in body
    PROVE  /\ answer' \in [name: Names \cup {Null}, value: {"none", "null", "param"}]
           /\ sought' = Null /\ pc' = "idle"
           /\ GetInv'
<1>1. answer' = [name |-> n, value |-> value] /\ sought' = Null /\ pc' = "idle"
  BY DEF Return
<1> QED
  BY <1>1 DEF GetInv, AnswerIsFinal, Settled

LEMMA GetFromTableKeeps == ASSUME Inv, NEW n \in Names, GetFromTable(n) PROVE Inv'
<1>1. /\ body_status \notin {"EINIT", "INCOMPLETE"}
      /\ Return(n, Found(n))
      /\ UNCHANGED <<req, handle, set, world>>
  BY DEF GetFromTable
<1>2. /\ Found(n) \in {"null", "param"}
      /\ Found(n) = "null" => n \notin body
      /\ Found(n) = "param" => n \in body
  BY DEF Found
<1>3. body_status' \in Statuses /\ body_status' \notin {"EINIT", "INCOMPLETE"}
  BY <1>1 DEF Inv, TypeOK
<1>4. /\ answer' \in [name: Names \cup {Null}, value: {"none", "null", "param"}]
      /\ sought' = Null /\ pc' = "idle" /\ GetInv'
  BY <1>1, <1>2, <1>3, ReturnStep
<1>5. TypeOK'
  BY <1>1, <1>4 DEF Inv, TypeOK
<1> QED
  BY <1>1, <1>4, <1>5, QuietStep, SettingsKept DEF Inv, Quiet

LEMMA GetInitKeeps == ASSUME Inv, NEW n \in Names, GetInit(n) PROVE Inv'
<1>1. /\ InitBody /\ UNCHANGED <<req, set, world>>
      /\ IF body_status' = "INCOMPLETE"
         THEN pc' = "first" /\ sought' = n /\ UNCHANGED answer
         ELSE Return(n, "null")
  BY DEF GetInit
<1>2. /\ body_status' \in Statuses \ {"EINIT"}
      /\ hook_queue' \in Seq(Hooks) /\ body' = body
      /\ parser' \in Hooked \cup {NoParser}
      /\ looped' = looped /\ find' = find
      /\ FeedInv' /\ LimitInv' /\ SettingsInv'
  BY <1>1, InitBodyStep
<1>3. body_status = "EINIT" /\ bytes_read' = bytes_read /\ body = {}
  BY <1>1 DEF Inv, FeedInv, InitBody, NeedsInit
<1>4. CASE body_status' = "INCOMPLETE"
  <2>1. TypeOK'
    BY <1>1, <1>2, <1>3, <1>4 DEF Inv, TypeOK
  <2>2. GetInv'
    BY <1>1, <1>2, <1>3, <1>4 DEF Inv, SettingsInv, GetInv, AnswerIsFinal, Settled
  <2> QED
    BY <1>2, <2>1, <2>2 DEF Inv
<1>5. CASE body_status' # "INCOMPLETE"
  <2>1. /\ answer' \in [name: Names \cup {Null}, value: {"none", "null", "param"}]
        /\ sought' = Null /\ pc' = "idle" /\ GetInv'
    BY <1>1, <1>2, <1>3, <1>5, ReturnStep
  <2>2. TypeOK'
    BY <1>1, <1>2, <1>3, <2>1 DEF Inv, TypeOK
  <2> QED
    BY <1>2, <2>1, <2>2 DEF Inv
<1> QED
  BY <1>4, <1>5

LEMMA GetOngoingKeeps == ASSUME Inv, NEW n \in Names, GetOngoing(n) PROVE Inv'
<1>1. /\ body_status = "INCOMPLETE" /\ pc' = "lookup" /\ sought' = n
      /\ UNCHANGED <<req, handle, set, world, answer>>
  BY DEF GetOngoing
<1>2. TypeOK'
  BY <1>1 DEF Inv, TypeOK
<1>3. GetInv'
  BY <1>1 DEF Inv, SettingsInv, GetInv, AnswerIsFinal, Settled
<1> QED
  BY <1>1, <1>2, <1>3, QuietStep, SettingsKept DEF Inv, Quiet

\* The hook that looks for a name is the head of the list.
LEMMA InstallFindStep ==
    ASSUME Inv, parser # NoParser, sought \in Names, InstallFind
    PROVE  /\ find' = [name |-> sought, param |-> FALSE]
           /\ looped' \in BOOLEAN
           /\ parser' \in Hooked /\ parser'.limit = parser.limit /\ parser'.dir = parser.dir
           /\ Find \in ToSet(parser'.hooks)
<1> DEFINE front == Cardinality(InFrontOfFind(parser.hooks))
           hooks == <<Find>> \o SubSeq(parser.hooks, 1, front)
<1>1. parser \in Hooked
  BY DEF Inv, TypeOK
<1>2. parser.hooks \in Seq(Hooks \cup {Find}) /\ parser.limit \in Nat /\ parser.dir \in Dirs \cup {Null}
  BY <1>1 DEF Hooked
<1>3. front \in 0 .. Len(parser.hooks)
  <2>1. Len(parser.hooks) \in Nat /\ DOMAIN parser.hooks = 1 .. Len(parser.hooks)
    BY <1>2
  <2>2. IsFiniteSet(1 .. Len(parser.hooks)) /\ Cardinality(1 .. Len(parser.hooks)) = Len(parser.hooks)
    <3> DEFINE n == Len(parser.hooks)
    <3>1. n \in Int /\ n >= 0
      BY <2>1
    <3> HIDE DEF n
    <3>2. IsFiniteSet(1 .. n) /\ Cardinality(1 .. n) = n
      BY <3>1, FS_Interval
    <3> QED
      BY <3>2 DEF n
  <2>3. InFrontOfFind(parser.hooks) \subseteq 1 .. Len(parser.hooks)
    BY <2>1 DEF InFrontOfFind
  <2>4. Cardinality(InFrontOfFind(parser.hooks)) \in Nat
        /\ Cardinality(InFrontOfFind(parser.hooks)) <= Len(parser.hooks)
    BY <2>2, <2>3, FS_Subset, FS_CardinalityType
  <2> QED
    BY <2>1, <2>4
<1> HIDE DEF front
<1>4. SubSeq(parser.hooks, 1, front) \in Seq(Hooks \cup {Find})
  BY <1>2, <1>3
<1>5. hooks \in Seq(Hooks \cup {Find}) /\ 1 \in DOMAIN hooks /\ hooks[1] = Find
  <2> DEFINE rest == SubSeq(parser.hooks, 1, front)
  <2> HIDE DEF rest
  <2>1. rest \in Seq(Hooks \cup {Find})
    BY <1>4 DEF rest
  <2>2. <<Find>> \in Seq(Hooks \cup {Find})
    OBVIOUS
  <2>3. /\ <<Find>> \o rest \in Seq(Hooks \cup {Find})
        /\ Len(<<Find>> \o rest) = 1 + Len(rest)
        /\ (<<Find>> \o rest)[1] = Find
    BY <2>1, <2>2
  <2>4. Len(rest) \in Nat
    BY <2>1
  <2> QED
    BY <2>3, <2>4 DEF rest
<1>6. parser' = [parser EXCEPT !.hooks = hooks]
  BY DEF InstallFind, front
<1>7. parser' = [limit |-> parser.limit, dir |-> parser.dir, hooks |-> hooks]
  BY <1>1, <1>6 DEF Hooked
<1>8. find' = [name |-> sought, param |-> FALSE] /\ looped' \in BOOLEAN
  BY DEF InstallFind
<1> HIDE DEF hooks
<1>9. parser' \in Hooked
  BY <1>2, <1>5, <1>7 DEF Hooked
<1>10. Find \in ToSet(parser'.hooks)
  BY <1>5, <1>7 DEF ToSet
<1> QED
  BY <1>7, <1>8, <1>9, <1>10

LEMMA HookedIsParser == ASSUME NEW p \in Hooked PROVE p # NoParser
BY DEF Hooked, NoParser

LEMMA GetLookupKeeps == Inv /\ GetLookup => Inv'
<1> SUFFICES ASSUME Inv, GetLookup PROVE Inv'
  OBVIOUS
<1>1. /\ pc = "lookup"
      /\ UNCHANGED <<req, body_status, bytes_read, body, hook_queue, set, world>>
      /\ sought \in Names /\ body_status # "EINIT" /\ parser # NoParser
  BY DEF GetLookup, Inv, GetInv
<1>2. FeedInv' /\ LimitInv'
  BY <1>1, QuietStep DEF Quiet
<1>3. CASE sought \in body
  <2>1. Return(sought, "param") /\ UNCHANGED <<parser, looped, find>>
    BY <1>3 DEF GetLookup
  <2>2. body_status' \in Statuses
    BY <1>1 DEF Inv, TypeOK
  <2>3. /\ answer' \in [name: Names \cup {Null}, value: {"none", "null", "param"}]
        /\ sought' = Null /\ pc' = "idle" /\ GetInv'
    BY <1>1, <1>3, <2>1, <2>2, ReturnStep
  <2>4. TypeOK'
    BY <1>1, <2>1, <2>3 DEF Inv, TypeOK
  <2> QED
    BY <1>1, <1>2, <2>1, <2>3, <2>4, SettingsKept DEF Inv
<1>4. CASE sought \notin body /\ ~Is("cgi")
  <2>1. pc' = "scan" /\ UNCHANGED <<sought, answer, parser, looped, find>>
    BY <1>4 DEF GetLookup
  <2>2. TypeOK'
    BY <1>1, <2>1 DEF Inv, TypeOK
  <2>3. GetInv'
    BY <1>1, <1>4, <2>1 DEF Inv, GetInv, AnswerIsFinal, Settled, Is
  <2> QED
    BY <1>1, <1>2, <2>1, <2>2, <2>3, SettingsKept DEF Inv
<1>5. CASE sought \notin body /\ Is("cgi")
  <2>1. pc' = "scan" /\ UNCHANGED <<sought, answer>> /\ InstallFind
    BY <1>5 DEF GetLookup
  <2>2. /\ find' = [name |-> sought, param |-> FALSE]
        /\ looped' \in BOOLEAN
        /\ parser' \in Hooked /\ parser'.limit = parser.limit /\ parser'.dir = parser.dir
        /\ Find \in ToSet(parser'.hooks)
    BY <1>1, <1>5, <2>1, InstallFindStep
  <2>3. find' \in [name: Names \cup {Null}, param: BOOLEAN]
    BY <1>1, <2>2
  <2>4. TypeOK'
    BY <1>1, <2>1, <2>2, <2>3 DEF Inv, TypeOK
  <2>5. /\ find'.name = sought'
        /\ find'.param <=> sought' \in body'
    BY <1>1, <1>5, <2>1, <2>2
  <2>6. GetInv'
    BY <1>1, <1>5, <2>1, <2>2, <2>5, HookedIsParser DEF Inv, GetInv, AnswerIsFinal, Settled
  <2>7. SettingsInv'
    BY <1>1, <1>5, <2>2, HookedIsParser, SettingsKept
  <2> QED
    BY <1>2, <2>4, <2>6, <2>7 DEF Inv
<1> QED
  BY <1>1, <1>3, <1>4, <1>5

\* Taking the head off the list of hooks changes nothing else.
LEMMA TailOfHooks ==
    ASSUME NEW q \in Hooked, q.hooks # << >>
    PROVE  LET t == [q EXCEPT !.hooks = Tail(@)]
           IN  t \in Hooked /\ t.limit = q.limit /\ t.dir = q.dir
<1>1. q.hooks \in Seq(Hooks \cup {Find}) /\ q.limit \in Nat /\ q.dir \in Dirs \cup {Null}
  BY DEF Hooked
<1>2. Tail(q.hooks) \in Seq(Hooks \cup {Find})
  BY <1>1
<1>3. [q EXCEPT !.hooks = Tail(@)] = [limit |-> q.limit, dir |-> q.dir, hooks |-> Tail(q.hooks)]
  BY DEF Hooked
<1> QED
  BY <1>1, <1>2, <1>3 DEF Hooked

LEMMA GetTestKeeps == Inv /\ GetTest => Inv'
<1> SUFFICES ASSUME Inv, GetTest PROVE Inv'
  OBVIOUS
<1> DEFINE found == IF Is("cgi") THEN find.param ELSE sought \in body
<1>1. /\ pc = "test"
      /\ UNCHANGED <<req, body_status, bytes_read, body, looped, find, hook_queue, set, world>>
  BY DEF GetTest
<1>2. sought \in Names /\ body_status # "EINIT" /\ parser \in Hooked /\ parser # NoParser
  BY <1>1 DEF Inv, TypeOK, GetInv
<1>3. FeedInv' /\ LimitInv'
  BY <1>1, QuietStep DEF Quiet
<1>4. found <=> sought \in body
  BY <1>1 DEF Inv, GetInv
<1>5. body_status' \in Statuses
  BY <1>1 DEF Inv, TypeOK
<1>6. CASE found
  <2>1. Return(sought, "param") /\ UNCHANGED parser
    BY <1>6 DEF GetTest
  <2>2. /\ answer' \in [name: Names \cup {Null}, value: {"none", "null", "param"}]
        /\ sought' = Null /\ pc' = "idle" /\ GetInv'
    BY <1>1, <1>2, <1>4, <1>5, <1>6, <2>1, ReturnStep
  <2>3. TypeOK'
    BY <1>1, <2>1, <2>2 DEF Inv, TypeOK
  <2> QED
    BY <1>1, <1>3, <2>1, <2>2, <2>3, SettingsKept DEF Inv
<1>7. CASE ~found /\ ScanOver
  <2>1. /\ Return(sought, "null")
        /\ parser' = IF Is("cgi") /\ ~looped
                     THEN [parser EXCEPT !.hooks = Tail(@)] ELSE parser
    BY <1>7 DEF GetTest
  <2>2. parser' \in Hooked /\ parser'.limit = parser.limit /\ parser'.dir = parser.dir
    <3>1. Is("cgi") => parser.hooks # << >>
      BY <1>1 DEF Inv, GetInv, ToSet
    <3> QED
      BY <1>2, <2>1, <3>1, TailOfHooks
  <2>3. body_status' \notin {"EINIT", "INCOMPLETE"}
    BY <1>1, <1>2, <1>7 DEF ScanOver
  <2>4. /\ answer' \in [name: Names \cup {Null}, value: {"none", "null", "param"}]
        /\ sought' = Null /\ pc' = "idle" /\ GetInv'
    BY <1>1, <1>2, <1>4, <1>5, <1>7, <2>1, <2>3, ReturnStep
  <2>5. TypeOK'
    BY <1>1, <2>2, <2>4 DEF Inv, TypeOK
  <2>6. SettingsInv'
    BY <1>1, <1>2, <2>2, HookedIsParser, SettingsKept
  <2> QED
    BY <1>3, <2>4, <2>5, <2>6 DEF Inv
<1>8. CASE ~found /\ ~ScanOver
  <2>1. pc' = "scan" /\ UNCHANGED <<sought, answer, parser>>
    BY <1>8 DEF GetTest
  <2>2. TypeOK'
    BY <1>1, <2>1 DEF Inv, TypeOK
  <2>3. GetInv'
    BY <1>1, <2>1 DEF Inv, GetInv, AnswerIsFinal, Settled, Is
  <2> QED
    BY <1>1, <1>3, <2>1, <2>2, <2>3, SettingsKept DEF Inv
<1> QED
  BY <1>6, <1>7, <1>8

------------------------------------------------------------------------------
(* The settings *)

\* Nothing is set in the middle of a call.
LEMMA IdleGet ==
    ASSUME Inv, pc = "idle", UNCHANGED <<pc, sought, answer, body, body_status>>
    PROVE  GetInv'
BY DEF Inv, GetInv, AnswerIsFinal, Settled

LEMMA ParserSetKeeps == ASSUME Inv, NEW p \in PresetParsers, ParserSet(p) PROVE Inv'
<1>1. /\ pc = "idle" /\ ~Is("custom") /\ parser = NoParser
      /\ hook_queue' = << >>
      /\ UNCHANGED <<req, body_status, bytes_read, body, looped, find, set, world, pc, sought, answer>>
  BY DEF ParserSet, Settable
<1>2. p.limit \in Nat /\ p.dir \in Dirs \cup {Null}
  <2>1. p \in ParserType
    BY RequestsAssumption
  <2> QED
    BY <2>1 DEF ParserType
<1>3. hook_queue \in Seq(Hooks) /\ brigade_limit \in Nat /\ temp_dir \in Dirs \cup {Null}
      /\ hook_queue \in Seq(Hooks \cup {Find})
  BY DEF Inv, TypeOK
<1> DEFINE given == [limit |-> p.limit, dir |-> p.dir, hooks |-> << >>]
<1>4. WithQueue(given) = [limit |-> p.limit, dir |-> p.dir, hooks |-> hook_queue \o << >>]
  BY DEF WithQueue
<1>5. hook_queue \o << >> \in Seq(Hooks \cup {Find})
  BY <1>3
<1>6. parser' = [limit |-> IF Is("apache") THEN p.limit ELSE Least(p.limit, brigade_limit),
                 dir   |-> IF Is("apache") \/ temp_dir = Null THEN p.dir ELSE temp_dir,
                 hooks |-> hook_queue \o << >>]
  <2> DEFINE queued == [limit |-> p.limit, dir |-> p.dir, hooks |-> hook_queue \o << >>]
  <2>1. parser' = Adopted(given)
    BY DEF ParserSet
  <2>2. CASE Is("apache")
    BY <1>4, <2>1, <2>2 DEF Adopted
  <2>3. CASE ~Is("apache")
    <3>1. parser' = [queued EXCEPT !.limit = Least(@, brigade_limit),
                                   !.dir = IF temp_dir # Null THEN temp_dir ELSE @]
      BY <1>4, <2>1, <2>3 DEF Adopted
    <3> QED
      BY <2>3, <3>1
  <2> QED
    BY <2>2, <2>3
<1>7. parser' \in Hooked
  BY <1>2, <1>3, <1>5, <1>6 DEF Hooked, Least
<1>8. hook_queue' \in Seq(Hooks)
  BY <1>1
<1>9. TypeOK'
  BY <1>1, <1>7, <1>8 DEF Inv, TypeOK
<1>10. SettingsInv'
  <2>1. accepted.limit = brigade_limit /\ accepted.dir = temp_dir
    BY <1>1 DEF Inv, SettingsInv
  <2>2. body_status # "INCOMPLETE"
    BY <1>1 DEF Inv, SettingsInv
  <2>3. /\ brigade_limit' <= accepted'.limit
        /\ (Is("apache") => temp_dir' = Null) /\ accepted'.dir # Null
              => parser'.dir = accepted'.dir
        /\ temp_dir' # Null => accepted'.dir = temp_dir'
    <3>1. /\ brigade_limit' = brigade_limit /\ temp_dir' = temp_dir
          /\ accepted'.limit = brigade_limit /\ accepted'.dir = temp_dir
      BY <1>1, <2>1
    <3>2. parser'.dir = IF Is("apache") \/ temp_dir = Null THEN p.dir ELSE temp_dir
      BY <1>6
    <3> QED
      BY <1>3, <3>1, <3>2
  <2> QED
    BY <1>1, <1>7, <2>2, <2>3, HookedIsParser DEF SettingsInv, SettingsHonoured, Is
<1> QED
  BY <1>1, <1>9, <1>10, QuietStep, IdleGet DEF Inv, Quiet

LEMMA HookAddKeeps == ASSUME Inv, NEW h \in Hooks, HookAdd(h) PROVE Inv'
<1>1. /\ pc = "idle"
      /\ UNCHANGED <<req, body_status, bytes_read, body, looped, find, set, world, pc, sought, answer>>
  BY DEF HookAdd
<1>2. CASE parser # NoParser
  <2>1. parser \in Hooked /\ hook_queue' = hook_queue
        /\ parser' = [parser EXCEPT !.hooks = <<h>> \o @]
    BY <1>2 DEF Inv, TypeOK, HookAdd
  <2>2. <<h>> \o parser.hooks \in Seq(Hooks \cup {Find})
    BY <2>1 DEF Hooked
  <2>3. parser' = [limit |-> parser.limit, dir |-> parser.dir, hooks |-> <<h>> \o parser.hooks]
    BY <2>1 DEF Hooked
  <2>4. parser' \in Hooked /\ parser'.limit = parser.limit /\ parser'.dir = parser.dir
    BY <2>1, <2>2, <2>3 DEF Hooked
  <2>5. TypeOK'
    BY <1>1, <2>1, <2>4 DEF Inv, TypeOK
  <2>6. SettingsInv'
    BY <1>1, <1>2, <2>4, HookedIsParser, SettingsKept
  <2> QED
    BY <1>1, <2>5, <2>6, QuietStep, IdleGet DEF Inv, Quiet
<1>3. CASE parser = NoParser
  <2>1. hook_queue' = Append(hook_queue, h) /\ parser' = parser
    BY <1>3 DEF HookAdd
  <2>2. hook_queue' \in Seq(Hooks)
    BY <2>1 DEF Inv, TypeOK
  <2>3. TypeOK'
    BY <1>1, <2>1, <2>2 DEF Inv, TypeOK
  <2>4. SettingsInv'
    BY <1>1, <2>1, SettingsKept
  <2> QED
    BY <1>1, <2>3, <2>4, QuietStep, IdleGet DEF Inv, Quiet
<1> QED
  BY <1>2, <1>3

LEMMA BrigadeLimitSetKeeps == ASSUME Inv, NEW b \in BrigadeLimits, BrigadeLimitSet(b) PROVE Inv'
<1>1. /\ pc = "idle" /\ b \in Nat
      /\ accepted' = [accepted EXCEPT !.limit = b]
      /\ UNCHANGED <<req, body_status, bytes_read, body, looped, find, hook_queue,
                     read_limit, temp_dir, world, pc, sought, answer>>
  BY SizeAssumption DEF BrigadeLimitSet, Settable
<1>2. /\ accepted' = [limit |-> b, dir |-> accepted.dir]
      /\ accepted' \in [limit: Nat, dir: Dirs \cup {Null}]
  BY <1>1 DEF Inv, TypeOK
<1>3. CASE parser = NoParser
  <2>1. brigade_limit' = b /\ parser' = parser
    BY <1>3 DEF BrigadeLimitSet
  <2>2. TypeOK'
    BY <1>1, <1>2, <2>1 DEF Inv, TypeOK
  <2>3. SettingsInv'
    BY <1>1, <1>2, <1>3, <2>1 DEF Inv, SettingsInv, SettingsHonoured
  <2> QED
    BY <1>1, <2>2, <2>3, QuietStep, IdleGet DEF Inv, Quiet
<1>4. CASE parser # NoParser
  <2>1. parser \in Hooked /\ brigade_limit' = brigade_limit
        /\ parser' = [parser EXCEPT !.limit = b]
    BY <1>4 DEF Inv, TypeOK, BrigadeLimitSet
  <2>2. parser' = [limit |-> b, dir |-> parser.dir, hooks |-> parser.hooks]
    BY <2>1 DEF Hooked
  <2>3. parser' \in Hooked
    BY <1>1, <2>1, <2>2 DEF Hooked
  <2>4. TypeOK'
    BY <1>1, <1>2, <2>1, <2>3 DEF Inv, TypeOK
  <2>5. /\ parser'.limit <= accepted'.limit
        /\ (Is("apache") => temp_dir' = Null) /\ accepted'.dir # Null
              => parser'.dir = accepted'.dir
        /\ ~Is("apache") /\ temp_dir' # Null => accepted'.dir = temp_dir'
        /\ temp_dir' # Null => accepted'.dir # Null
        /\ body_status = "INCOMPLETE" /\ accepted'.dir # Null =>
              parser'.dir = IF Is("apache") /\ temp_dir' # Null THEN temp_dir' ELSE accepted'.dir
    BY <1>1, <1>2, <1>4, <2>2 DEF Inv, SettingsInv, SettingsHonoured
  <2>6. SettingsInv'
    BY <1>1, <2>3, <2>5, HookedIsParser DEF SettingsInv, SettingsHonoured, Is
  <2> QED
    BY <1>1, <2>4, <2>6, QuietStep, IdleGet DEF Inv, Quiet
<1> QED
  BY <1>3, <1>4

LEMMA ReadLimitSetKeeps == ASSUME Inv, NEW b \in ReadLimits, ReadLimitSet(b) PROVE Inv'
<1>1. /\ pc = "idle" /\ read_limit' = b /\ b < read_limit /\ bytes_read < b
      /\ UNCHANGED <<req, handle, brigade_limit, temp_dir, accepted, world, pc, sought, answer>>
  BY DEF ReadLimitSet, Settable, MayLower
<1>2. b \in Nat /\ Unlimited \in Nat
  BY SizeAssumption
<1>3. TypeOK'
  BY <1>1, <1>2 DEF Inv, TypeOK
<1>4. FeedInv'
  BY <1>1 DEF Inv, FeedInv, Is
<1>5. LimitInv'
  <2>1. bytes_read \in Nat /\ read_limit \in Nat /\ Len(fed.bytes) \in Nat
    BY DEF Inv, TypeOK
  <2>2. Len(fed.bytes) <= bytes_read
    BY DEF Inv, FeedInv
  <2>3. ~(bytes_read > read_limit)
    BY <1>1, <1>2, <2>1
  <2>4. body_status = "OVERLIMIT" => LengthOver
    BY <2>3 DEF Inv, LimitInv, OverlimitJustified
  <2>5. LengthOver => LengthOver'
    <3>1. ASSUME req.length > read_limit PROVE req.length > b
      <4>1. req.length \in Int
        <5>1. req \in RequestType
          BY RequestsAssumption DEF Inv, TypeOK
        <5>2. req.length \in {NoLength, NoNumber, Empty, Negative} \cup 0 .. MaxLen
          BY <5>1 DEF RequestType
        <5> QED
          BY <5>2, SizeAssumption DEF NoLength, NoNumber, Empty, Negative
      <4> QED
        BY <1>1, <1>2, <2>1, <3>1, <4>1
    <3>2. ASSUME read_limit < Unlimited PROVE b < Unlimited
      BY <1>1, <1>2, <2>1, <3>2
    <3> QED
      BY <1>1, <3>1, <3>2 DEF LengthOver
  <2>6. b <= Unlimited
    BY <1>1, <1>2, <2>1 DEF Inv, LimitInv
  <2>7. ~(bytes_read' > read_limit') /\ Len(fed'.bytes) <= read_limit'
    BY <1>1, <1>2, <2>1, <2>2
  <2> QED
    BY <1>1, <2>4, <2>5, <2>6, <2>7 DEF LimitInv, OverlimitJustified
<1> QED
  BY <1>1, <1>3, <1>4, <1>5, IdleGet, SettingsKept DEF Inv

LEMMA TempDirSetKeeps == ASSUME Inv, NEW d \in Dirs, TempDirSet(d) PROVE Inv'
<1>1. /\ pc = "idle" /\ TempDirGet = Null
      /\ accepted' = [accepted EXCEPT !.dir = d]
      /\ UNCHANGED <<req, body_status, bytes_read, body, looped, find, hook_queue,
                     read_limit, brigade_limit, world, pc, sought, answer>>
  BY DEF TempDirSet, Settable
<1>2. /\ accepted' = [limit |-> accepted.limit, dir |-> d]
      /\ accepted' \in [limit: Nat, dir: Dirs \cup {Null}]
  BY <1>1 DEF Inv, TypeOK
<1>3. CASE parser = NoParser
  <2>1. temp_dir' = d /\ parser' = parser
    BY <1>3 DEF TempDirSet
  <2>2. TypeOK'
    BY <1>1, <1>2, <2>1 DEF Inv, TypeOK
  <2>3. SettingsInv'
    BY <1>1, <1>2, <1>3, <2>1 DEF Inv, SettingsInv, SettingsHonoured
  <2> QED
    BY <1>1, <2>2, <2>3, QuietStep, IdleGet DEF Inv, Quiet
<1>4. CASE parser # NoParser
  <2>1. parser \in Hooked /\ temp_dir' = temp_dir
        /\ parser' = [parser EXCEPT !.dir = d]
    BY <1>4 DEF Inv, TypeOK, TempDirSet
  <2>2. parser' = [limit |-> parser.limit, dir |-> d, hooks |-> parser.hooks]
    BY <2>1 DEF Hooked
  <2>3. parser' \in Hooked
    BY <2>1, <2>2 DEF Hooked
  <2>4. TypeOK'
    BY <1>1, <1>2, <2>1, <2>3 DEF Inv, TypeOK
  <2>5. parser.dir = Null
    BY <1>1, <1>4 DEF TempDirGet
  <2>6. Null \notin Dirs
    BY RequestsAssumption
  <2>7. ~Is("apache") => temp_dir = Null
    BY <1>4, <2>5, <2>6 DEF Inv, SettingsInv
  <2>8. /\ parser'.limit <= accepted'.limit \/ brigade_limit' <= accepted'.limit
        /\ body_status = "INCOMPLETE" => parser'.limit <= accepted'.limit
        /\ parser'.dir = accepted'.dir /\ accepted'.dir # Null
        /\ body_status = "INCOMPLETE" => temp_dir' = Null
    BY <1>1, <1>2, <1>4, <2>1, <2>2, <2>5, <2>6 DEF Inv, SettingsInv, SettingsHonoured
  <2>9. SettingsInv'
    BY <1>1, <2>1, <2>3, <2>7, <2>8, HookedIsParser DEF SettingsInv, SettingsHonoured, Is
  <2> QED
    BY <1>1, <2>4, <2>9, QuietStep, IdleGet DEF Inv, Quiet
<1> QED
  BY <1>3, <1>4

------------------------------------------------------------------------------
(* The steps together *)

LEMMA InvStep == Inv /\ [Next]_vars => Inv'
<1> SUFFICES ASSUME Inv, [Next]_vars PROVE Inv'
  OBVIOUS
<1>1. CASE Body
  BY <1>1, BodyKeeps
<1>2. CASE BodyLoop
  BY <1>2, ReadKeeps DEF BodyLoop
<1>3. CASE BodyReturn
  BY <1>3, BodyReturnKeeps
<1>4. CASE GetFirst
  BY <1>4, ReadKeeps DEF GetFirst
<1>5. CASE GetLookup
  BY <1>5, GetLookupKeeps
<1>6. CASE GetScan
  BY <1>6, ReadKeeps DEF GetScan
<1>7. CASE GetTest
  BY <1>7, GetTestKeeps
<1>8. CASE Break
  BY <1>8, BreakKeeps
<1>9. CASE \E n \in Names : GetFromTable(n) \/ GetInit(n) \/ GetOngoing(n)
  BY <1>9, GetFromTableKeeps, GetInitKeeps, GetOngoingKeeps
<1>10. CASE \E p \in PresetParsers : ParserSet(p)
  BY <1>10, ParserSetKeeps
<1>11. CASE \E h \in Hooks : HookAdd(h)
  BY <1>11, HookAddKeeps
<1>12. CASE \E b \in BrigadeLimits : BrigadeLimitSet(b)
  BY <1>12, BrigadeLimitSetKeeps
<1>13. CASE \E b \in ReadLimits : ReadLimitSet(b)
  BY <1>13, ReadLimitSetKeeps
<1>14. CASE \E d \in Dirs : TempDirSet(d)
  BY <1>14, TempDirSetKeeps
<1>15. CASE UNCHANGED vars
  <2>1. UNCHANGED <<req, handle, set, world, pc, sought, answer>>
    BY <1>15 DEF vars
  <2>2. TypeOK'
    BY <2>1 DEF Inv, TypeOK
  <2>3. FeedInv' /\ LimitInv'
    BY <2>1, QuietStep DEF Quiet
  <2>4. GetInv'
    BY <2>1 DEF Inv, GetInv, AnswerIsFinal, Settled, Is
  <2>5. SettingsInv'
    BY <2>1, SettingsKept
  <2> QED
    BY <2>2, <2>3, <2>4, <2>5 DEF Inv
<1> QED
  BY <1>1, <1>2, <1>3, <1>4, <1>5, <1>6, <1>7, <1>8, <1>9, <1>10, <1>11, <1>12,
     <1>13, <1>14, <1>15 DEF Next, CallStep

LEMMA ReaderInvariant == Spec => []Inv
BY InvInit, InvStep, PTL DEF Spec

------------------------------------------------------------------------------
(* The theorems *)

\* What the handle, its parser and the call in progress hold is always of the
\* kind the code relies on: a parser that is there has a limit and a list of
\* hooks, and a call waits for a name it was asked for.
THEOREM ReaderTypeCorrect == Spec => []TypeOK
<1>1. Inv => TypeOK
  BY DEF Inv
<1> QED
  BY <1>1, ReaderInvariant, PTL

\* The parser is shown the bytes that arrive once each and in order, whichever
\* of body, body_get and its find_param loop took them from the pipe or brigade.
THEOREM ReaderStaysInStep == Spec => []ParserInStep
<1>1. ASSUME Inv PROVE ParserInStep
  <2>1. fed.bytes \in Seq(Nat)
    BY <1>1 DEF Inv, TypeOK
  <2>2. fed.bytes = [i \in 1 .. Len(fed.bytes) |-> fed.bytes[i]]
    BY <2>1
  <2>3. \A i \in 1 .. Len(fed.bytes) : fed.bytes[i] = i
    BY <1>1 DEF Inv, FeedInv
  <2>4. fed.bytes = [i \in 1 .. Len(fed.bytes) |-> i]
    BY <2>2, <2>3
  <2> QED
    BY <1>1, <2>4 DEF Inv, FeedInv, ParserInStep
<1> QED
  BY <1>1, ReaderInvariant, PTL

\* OVERLIMIT is the verdict exactly when more than the limit was read or
\* announced, also where the limit was lowered in the middle of the body, and no
\* parser is shown more than the limit in force.
THEOREM ReaderOverlimitJustified == Spec => []OverlimitJustified
<1>1. Inv => OverlimitJustified
  BY DEF Inv, LimitInv
<1> QED
  BY <1>1, ReaderInvariant, PTL

\* A parser is told of the end when all that arrives was shown to it; only the
\* Apache 1.3 handle may tell it so after a read that failed.
THEOREM ReaderEndMeansAll == Spec => []EndMeansAll
<1>1. Inv => EndMeansAll
  BY DEF Inv, FeedInv, EndMeansAll
<1> QED
  BY <1>1, ReaderInvariant, PTL

\* What body_get answers goes on being true: "null" of a name the table will not
\* get any more, a parameter of one it has.  The CGI handle answers from its
\* hook and not from the table, even where its list of hooks has run into itself.
THEOREM ReaderAnswerIsFinal == Spec => []AnswerIsFinal
<1>1. Inv => AnswerIsFinal
  BY DEF Inv, GetInv
<1> QED
  BY <1>1, ReaderInvariant, PTL

\* A parser that runs has at most the brigade limit and has the directory that
\* the setters last reported as set, though they may be called before there is a
\* parser, after one was given, and between the two; under Apache 1.3 a
\* directory that was set before the parser was given comes before a later one.
THEOREM ReaderSettingsHonoured == Spec => []SettingsHonoured
<1>1. Inv => SettingsHonoured
  BY DEF Inv, SettingsInv
<1> QED
  BY <1>1, ReaderInvariant, PTL

==============================================================================
