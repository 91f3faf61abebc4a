---------------------------- MODULE MCApache2Body ----------------------------
(* Small instances of Apache2Body for model checking. *)
EXTENDS Apache2Body

Big == 9                \* a limit no body of these instances reaches

Ordinary(limit, closing, at) ==
    [get |-> FALSE, length |-> NoLength, type |-> "known", closing |-> closing,
     at |-> at, read_limit |-> limit, brigade_limit |-> Big, temp_dir |-> Null]

\* Where parameters end: everywhere, including on the end of the stream.
Layouts == [Names -> {0, 2, EOS}]

\* Bodies that are parsed, with and without a closing boundary, with limits
\* below, at and above their size and a spool that stays in memory or not.
ParsedRequests ==
    {[Ordinary(l, c, at) EXCEPT !.brigade_limit = b] :
        l \in {1, BodyLen, Big}, c \in {0, BodyLen - 1}, at \in Layouts,
        b \in {2, Big}}

\* Requests that apreq_filter_init_context turns away, and one it accepts.
TurnedAway ==
    LET r == Ordinary(1, 0, [n \in Names |-> EOS])
    IN  {[r EXCEPT !.get = TRUE], [r EXCEPT !.length = BadLength],
         [r EXCEPT !.length = BodyLen], [r EXCEPT !.type = "unknown"],
         [r EXCEPT !.type = "none"],
         [r EXCEPT !.length = BodyLen, !.read_limit = BodyLen]}

\* One parameter ends on the last byte, the others with the stream.
OneByOne == [n \in Names |-> IF n = CHOOSE m \in Names : TRUE THEN BodyLen ELSE EOS]

\* Requests whose settings the application changes as it goes.
SettingsRequests ==
    {[Ordinary(Big, 0, OneByOne) EXCEPT !.brigade_limit = 3],
     [Ordinary(Big, 0, [n \in Names |-> 0]) EXCEPT !.type = "none"]}

Presets == {[limit |-> 1, dir |-> "tmp"]}

\* Both: settings of requests that are parsed and of those turned away.
AllRequests == SettingsRequests \cup TurnedAway

NoPresets == {}
==============================================================================
