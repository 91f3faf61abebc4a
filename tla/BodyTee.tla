------------------------------- MODULE BodyTee -------------------------------
(***************************************************************************)
(* What the apreq2 input filter promises, with none of its machinery: the  *)
(* request body is one stream, and it has two readers.  The consumer is    *)
(* whatever sits above the filter and reads the body after (or while)      *)
(* libapreq2 parses it; the parser is libapreq2's own reader.  Each sees   *)
(* a growing prefix of the same stream, whichever of them pulls the bytes  *)
(* off the connection, until the parser has its verdict and until the      *)
(* consumer has met the end of the stream or has been told of a failure.   *)
(*                                                                         *)
(* A byte is represented by its position, the end-of-stream bucket by the  *)
(* position after the last byte; the stream repeats it for ever.           *)
(***************************************************************************)
EXTENDS Integers, Sequences

CONSTANT BodyLen        \* bytes in the request body, a natural number

VARIABLES
    out,                \* what the consumer has received
    fed,                \* what the parser has been shown
    settled,            \* the parser has reached its verdict
    failed              \* the consumer has been told that reading failed

teeVars == <<out, fed, settled, failed>>

EOS == BodyLen + 1

Token(i) == IF i <= BodyLen THEN i ELSE EOS

\* The first n tokens of the stream.
StreamTo(n) == [i \in 1 .. n |-> Token(i)]

\* s has grown to t, and t is a longer piece of the stream.
Advances(s, t) == Len(t) > Len(s) /\ t = StreamTo(Len(t))

\* The consumer stops at the end of the stream or at a failure.
Listening == ~failed /\ Len(out) < EOS

Init ==
    /\ out = << >>
    /\ fed = << >>
    /\ settled = FALSE
    /\ failed = FALSE

\* The consumer receives the next piece of the stream, never past its end.
Deliver ==
    /\ Listening
    /\ Advances(out, out') /\ Len(out') <= EOS
    /\ UNCHANGED <<fed, settled, failed>>

\* The parser is shown the next piece, and may reach its verdict on it.
Show ==
    /\ ~settled
    /\ Advances(fed, fed')
    /\ settled' \in BOOLEAN
    /\ UNCHANGED <<out, failed>>

\* One piece goes to both at once.
DeliverAndShow ==
    /\ Listening /\ ~settled
    /\ Advances(out, out') /\ Len(out') <= EOS
    /\ Advances(fed, fed')
    /\ settled' \in BOOLEAN
    /\ UNCHANGED failed

\* The consumer receives a piece the parser refuses to look at.
DeliverAndSettle ==
    /\ Listening /\ ~settled
    /\ Advances(out, out') /\ Len(out') <= EOS
    /\ settled' = TRUE
    /\ UNCHANGED <<fed, failed>>

\* The parser gives up without looking at any more of the body.
Settle ==
    /\ ~settled
    /\ settled' = TRUE
    /\ UNCHANGED <<out, fed, failed>>

\* The consumer is told that reading failed.
Fail ==
    /\ Listening
    /\ failed' = TRUE
    /\ UNCHANGED <<out, fed, settled>>

Next ==
    \/ Deliver
    \/ Show
    \/ DeliverAndShow
    \/ DeliverAndSettle
    \/ Settle
    \/ Fail

Spec == Init /\ [][Next]_teeVars
==============================================================================
