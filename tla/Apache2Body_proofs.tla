-------------------------- MODULE Apache2Body_proofs --------------------------
(***************************************************************************)
(* Proofs about Apache2Body for every body, every limit, every block and   *)
(* read size, and any finite set of hooks and set of names.                *)
(***************************************************************************)
EXTENDS Apache2Body, Sequences_proofs

------------------------------------------------------------------------------
(* Pieces of the stream. *)

\* A piece of the stream is a sequence of the tokens between two positions.
LEMMA PieceProperties ==
  ASSUME NEW p \in Nat, NEW q \in Nat, p <= q
  PROVE  /\ Piece(p, q) \in Seq(1 .. EOS)
         /\ Len(Piece(p, q)) = q - p
         /\ \A i \in 1 .. q - p : Piece(p, q)[i] = Token(p + i)
<1>1. BodyLen \in Nat
  BY SizeAssumption
<1>2. \A i \in 1 .. q - p : Token(p + i) \in 1 .. EOS
  BY <1>1 DEF Token, EOS
<1>3. q - p \in Nat
  OBVIOUS
<1>4. [i \in 1 .. q - p |-> Token(p + i)] \in Seq(1 .. EOS)
  BY <1>2, <1>3
<1>5. Piece(p, q) \in Seq(1 .. EOS)
  BY <1>4 DEF Piece
<1>6. Len(Piece(p, q)) = q - p
  BY <1>3 DEF Piece
<1> QED
  BY <1>5, <1>6 DEF Piece

\* A read ends later than it began, and moves on by single tokens only once
\* the end of the stream has been reached.
LEMMA ReadsProperties ==
  ASSUME NEW n \in Nat, pos \in Nat, NEW q \in Reads(n)
  PROVE  /\ q \in Nat /\ q > pos
         /\ pos <= BodyLen => q <= EOS
         /\ pos > BodyLen => q = pos + 1
BY SizeAssumption DEF Reads, Least, EOS

\* The number of data bytes among the first tokens never goes down.
LEMMA BytesProperties ==
  ASSUME NEW p \in Nat, NEW q \in Nat, p <= q
  PROVE  /\ Bytes(p) \in Nat /\ Bytes(q) \in Nat
         /\ Bytes(p) <= Bytes(q) /\ Bytes(p) <= p
BY SizeAssumption DEF Bytes, Least

\* Where the spool is cut for a read lies within the spool.
LEMMA CutProperties ==
  ASSUME spool \in Seq(1 .. EOS), amount \in Nat
  PROVE  Cut \in 0 .. Len(spool)
<1> DEFINE B == {i \in DOMAIN spool : spool[i] # EOS}
<1>1. Len(spool) \in Nat /\ DOMAIN spool = 1 .. Len(spool)
  BY LenProperties
<1>2. IsFiniteSet(1 .. Len(spool)) /\ Cardinality(1 .. Len(spool)) = Len(spool)
  BY <1>1, FS_Interval
<1>3. B \subseteq 1 .. Len(spool)
  BY <1>1
<1>4. Cardinality(B) \in Nat /\ Cardinality(B) <= Len(spool)
  BY <1>2, <1>3, FS_Subset, FS_CardinalityType
<1>5. SpoolBytes \in Nat /\ SpoolBytes <= Len(spool)
  BY <1>4 DEF SpoolBytes
<1> QED
  BY <1>1, <1>5 DEF Cut

\* Cutting a sequence gives two sequences that together hold its elements.
LEMMA SpoolCut ==
  ASSUME NEW S, NEW s \in Seq(S), NEW k \in 0 .. Len(s)
  PROVE  /\ SubSeq(s, 1, k) \in Seq(S) /\ Len(SubSeq(s, 1, k)) = k
         /\ SubSeq(s, k + 1, Len(s)) \in Seq(S)
         /\ Len(SubSeq(s, k + 1, Len(s))) = Len(s) - k
         /\ \A i \in 1 .. k : SubSeq(s, 1, k)[i] = s[i]
         /\ \A i \in 1 .. Len(s) - k : SubSeq(s, k + 1, Len(s))[i] = s[k + i]
<1>1. Len(s) \in Nat /\ k \in Int /\ \A i \in 1 .. Len(s) : s[i] \in S
  BY LenProperties, ElementOfSeq
<1>2. /\ SubSeq(s, 1, k) \in Seq(S) /\ Len(SubSeq(s, 1, k)) = k
      /\ \A i \in 1 .. k : SubSeq(s, 1, k)[i] = s[i]
  BY <1>1
<1>3. /\ SubSeq(s, k + 1, Len(s)) \in Seq(S)
      /\ Len(SubSeq(s, k + 1, Len(s))) = Len(s) - k
      /\ \A i \in 1 .. Len(s) - k : SubSeq(s, k + 1, Len(s))[i] = s[k + i]
  BY <1>1
<1> QED
  BY <1>2, <1>3

------------------------------------------------------------------------------
(* Types. *)

\* The tuples that actions leave unchanged.
USE DEF parse, limits, settings, below, above, call

LEMMA InitContextType ==
  ASSUME TypeOK, InitContext
  PROVE  /\ body_status' \in Statuses
         /\ parser' \in ParserType \cup {NoParser}
         /\ hook' \in Hooks \cup {Null} /\ hook_queue' \in Hooks \cup {Null}
         /\ next' \in [Hooks -> Hooks \cup {Null}]
<1>1. InitOutcome \in Statuses
  BY DEF InitOutcome, Statuses
<1>2. body_status' \in Statuses
  BY <1>1 DEF InitContext
<1>3. CASE InitOutcome # "INCOMPLETE"
  BY <1>2, <1>3 DEF InitContext, TypeOK
<1>4. CASE InitOutcome = "INCOMPLETE" /\ parser = NoParser
  <2>1. parser' \in ParserType
    BY <1>4 DEF InitContext, TypeOK, MakeParser, ParserType
  <2> QED
    BY <1>2, <1>4, <2>1 DEF InitContext, TypeOK, MakeParser
<1>5. CASE InitOutcome = "INCOMPLETE" /\ parser # NoParser
  <2>1. MergeParser /\ hook_queue' = Null
    BY <1>5 DEF InitContext
  <2>2. parser \in ParserType
    BY <1>5 DEF TypeOK
  <2>3. parser' \in ParserType
    BY <2>1, <2>2 DEF TypeOK, MergeParser, ParserType, Least
  <2>4. hook' \in Hooks \cup {Null} /\ next' \in [Hooks -> Hooks \cup {Null}]
    BY <2>1 DEF TypeOK, MergeParser, AddHook
  <2> QED
    BY <1>2, <2>1, <2>3, <2>4
<1> QED
  BY <1>3, <1>4, <1>5

\* What CountAndFeed may leave behind, by cases of the run of the parser.
LEMMA CountAndFeedType ==
  ASSUME TypeOK, NEW q \in Nat, q > pos, NEW resume, CountAndFeed(q, resume)
  PROVE  /\ body_status' \in Statuses /\ fed' \in Seq(1 .. EOS)
         /\ body' \subseteq Names
         /\ next' \in [Hooks -> Hooks \cup {Null}]
         /\ find' \in [name: Names \cup {Null}, param: BOOLEAN,
                       prev: Hooks \cup {Null}]
         /\ bytes_read' \in Nat /\ read_limit' \in Nat
         /\ brigade_limit' \in Nat /\ temp_dir' \in TempDirs \cup {Null}
         /\ pc' \in {resume, "overflow"}
<1>1. pos \in Nat /\ Bytes(pos) \in Nat /\ Bytes(q) \in Nat /\ Bytes(pos) <= Bytes(q)
  <2>1. pos \in Nat /\ pos <= q
    BY DEF TypeOK
  <2> QED
    BY <2>1, BytesProperties
<1>2. /\ bytes_read' \in Nat /\ read_limit' \in Nat
      /\ brigade_limit' \in Nat /\ temp_dir' \in TempDirs \cup {Null}
  BY <1>1 DEF TypeOK, CountAndFeed
<1>3. CASE PastLimit
  BY <1>2, <1>3 DEF TypeOK, CountAndFeed, Statuses
<1>4. CASE ~PastLimit
  <2>1. Feed(q, resume)
    BY <1>4 DEF CountAndFeed
  <2>2. PICK verdict \in Verdicts(q) : \E m \in ParsedUpTo(q, verdict) :
          /\ Shown(q)
          /\ IF Completed(m) # {} /\ Cyclic(hook)
             THEN /\ pc' = "overflow"
                  /\ UNCHANGED <<body_status, body, find, next>>
             ELSE /\ pc' = resume
                  /\ body_status' = verdict
                  /\ body' = body \cup Completed(m)
                  /\ RunHooks(Completed(m))
    BY <2>1 DEF Feed
  <2>3. PICK m \in ParsedUpTo(q, verdict) :
          /\ Shown(q)
          /\ IF Completed(m) # {} /\ Cyclic(hook)
             THEN /\ pc' = "overflow"
                  /\ UNCHANGED <<body_status, body, find, next>>
             ELSE /\ pc' = resume
                  /\ body_status' = verdict
                  /\ body' = body \cup Completed(m)
                  /\ RunHooks(Completed(m))
    BY <2>2
  <2>4. verdict \in Statuses
    BY DEF Verdicts, Statuses
  <2>5. Completed(m) \subseteq Names
    BY DEF Completed
  <2>6. fed' \in Seq(1 .. EOS)
    <3>1. Piece(pos, q) \in Seq(1 .. EOS) /\ fed \in Seq(1 .. EOS)
      BY <1>1, PieceProperties DEF TypeOK
    <3> QED
      BY <2>3, <3>1, ConcatProperties DEF Shown
  <2>7. CASE Completed(m) # {} /\ Cyclic(hook)
    BY <1>2, <2>3, <2>6, <2>7 DEF TypeOK
  <2>8. CASE ~(Completed(m) # {} /\ Cyclic(hook))
    <3>1. RunHooks(Completed(m)) /\ pc' = resume /\ body_status' = verdict
          /\ body' = body \cup Completed(m)
      BY <2>3, <2>8
    <3>2. /\ next' \in [Hooks -> Hooks \cup {Null}]
          /\ find' \in [name: Names \cup {Null}, param: BOOLEAN,
                        prev: Hooks \cup {Null}]
      BY <3>1 DEF TypeOK, RunHooks, Hooks
    <3> QED
      BY <1>2, <2>4, <2>5, <2>6, <3>1, <3>2 DEF TypeOK
  <2> QED
    BY <2>7, <2>8
<1> QED
  BY <1>3, <1>4

\* A prefetch keeps the types of what it may change.
LEMMA PrefetchType ==
  ASSUME TypeOK, NEW resume, Prefetch(resume)
  PROVE  /\ body_status' \in Statuses /\ fed' \in Seq(1 .. EOS)
         /\ body' \subseteq Names
         /\ next' \in [Hooks -> Hooks \cup {Null}]
         /\ find' \in [name: Names \cup {Null}, param: BOOLEAN,
                       prev: Hooks \cup {Null}]
         /\ bytes_read' \in Nat /\ read_limit' \in Nat
         /\ brigade_limit' \in Nat /\ temp_dir' \in TempDirs \cup {Null}
         /\ filter_error' \in BOOLEAN /\ spool' \in Seq(1 .. EOS)
         /\ pos' \in Nat /\ broken' \in BOOLEAN
         /\ pc' \in {resume, "overflow"}
<1>1. CASE PrefetchRefused(resume)
  BY <1>1 DEF PrefetchRefused, TypeOK
<1>2. CASE PrefetchBroken(resume)
  BY <1>2 DEF PrefetchBroken, FailFilter, TypeOK, Statuses
<1>3. CASE PrefetchUnspooled(resume)
  <2>1. pos' \in Nat
    BY <1>3, ReadsProperties, SizeAssumption DEF PrefetchUnspooled, TypeOK
  <2> QED
    BY <1>3, <2>1 DEF PrefetchUnspooled, FailFilter, TypeOK, Statuses
<1>4. CASE PrefetchPiece(resume)
  <2>1. PICK q \in Reads(BlockSize) : pos' = q /\ Spool(q) /\ CountAndFeed(q, resume)
    BY <1>4 DEF PrefetchPiece
  <2>2. q \in Nat /\ q > pos /\ pos \in Nat
    BY ReadsProperties, SizeAssumption DEF TypeOK
  <2>3. spool' \in Seq(1 .. EOS)
    <3>1. Piece(pos, q) \in Seq(1 .. EOS) /\ spool \in Seq(1 .. EOS)
      BY <2>2, PieceProperties DEF TypeOK
    <3>2. spool \o Piece(pos, q) \in Seq(1 .. EOS)
      BY <3>1, ConcatProperties
    <3> QED
      BY <2>1, <3>1, <3>2 DEF Spool
  <2>4. filter_error' \in BOOLEAN /\ broken' \in BOOLEAN
    BY <1>4 DEF PrefetchPiece, TypeOK
  <2> QED
    BY <2>1, <2>2, <2>3, <2>4, CountAndFeedType
<1> QED
  BY <1>1, <1>2, <1>3, <1>4 DEF Prefetch

\* Init and every step keep the types.
LEMMA TypeInit == Init => TypeOK
<1> SUFFICES ASSUME Init PROVE TypeOK
  OBVIOUS
<1>1. req \in RequestType
  BY RequestsAssumption DEF Init
<1>2. read_limit \in Nat /\ brigade_limit \in Nat /\ temp_dir \in TempDirs \cup {Null}
  BY <1>1 DEF Init, RequestType
<1>3. << >> \in Seq(1 .. EOS)
  OBVIOUS
<1> QED
  BY <1>2, <1>3 DEF Init, TypeOK, NoParser, NoAnswer, Statuses

\* A piece given to the consumer keeps the types of what it holds.
LEMMA ReceiveType ==
  ASSUME TypeOK, NEW t \in Seq(1 .. EOS), Receive(t)
  PROVE  out' \in Seq(1 .. EOS) /\ consumer' \in {"reading", "eos"}
<1>1. out \in Seq(1 .. EOS)
  BY DEF TypeOK
<1> QED
  BY <1>1, ConcatProperties DEF Receive

LEMMA TypeStep == TypeOK /\ [Next]_vars => TypeOK'
<1> SUFFICES ASSUME TypeOK, [Next]_vars PROVE TypeOK'
  OBVIOUS
<1>1. CASE UNCHANGED vars
  BY <1>1 DEF TypeOK, vars
<1>2. CASE Body
  <2>1. CASE NeedsInit
    BY <1>2, <2>1, InitContextType DEF Body, InitContext, TypeOK
  <2>2. CASE ~NeedsInit
    BY <1>2, <2>2 DEF Body, TypeOK
  <2> QED
    BY <2>1, <2>2
<1>3. ASSUME NEW n \in Names, GetFromTable(n) PROVE TypeOK'
  BY <1>3 DEF GetFromTable, Return, Found, TypeOK
<1>4. ASSUME NEW n \in Names, GetInit(n) PROVE TypeOK'
  BY <1>4, InitContextType DEF GetInit, InitContext, Return, TypeOK
<1>5. ASSUME NEW n \in Names, GetOngoing(n) PROVE TypeOK'
  BY <1>5 DEF GetOngoing, TypeOK
<1>6. ASSUME NEW p \in PresetParsers, ParserSet(p) PROVE TypeOK'
  <2>1. p \in ParserType
    BY RequestsAssumption
  <2> QED
    BY <1>6, <2>1 DEF ParserSet, TypeOK
<1>7. ASSUME NEW h \in UserHooks, HookAdd(h) PROVE TypeOK'
  <2>1. h \in Hooks
    BY DEF Hooks
  <2>2. /\ hook' \in Hooks \cup {Null} /\ hook_queue' \in Hooks \cup {Null}
        /\ next' \in [Hooks -> Hooks \cup {Null}]
    BY <1>7, <2>1 DEF HookAdd, AddHook, TypeOK
  <2> QED
    BY <1>7, <2>2 DEF HookAdd, TypeOK
<1>8. ASSUME NEW b \in BrigadeLimits, BrigadeLimitSet(b) PROVE TypeOK'
  BY <1>8, SizeAssumption DEF BrigadeLimitSet, TypeOK
<1>9. ASSUME NEW b \in ReadLimits, ReadLimitSet(b) PROVE TypeOK'
  BY <1>9, SizeAssumption DEF ReadLimitSet, TypeOK
<1>10. ASSUME NEW d \in TempDirs, TempDirSet(d) PROVE TypeOK'
  BY <1>10 DEF TempDirSet, TypeOK
<1>11. CASE BodyLoop
  BY <1>11, PrefetchType DEF BodyLoop, TypeOK
<1>12. CASE BodyReturn
  BY <1>12 DEF BodyReturn, TypeOK
<1>13. CASE GetFirst
  BY <1>13, PrefetchType DEF GetFirst, TypeOK
<1>14. CASE GetLookup
  <2>1. /\ next' \in [Hooks -> Hooks \cup {Null}] /\ hook' \in Hooks \cup {Null}
        /\ find' \in [name: Names \cup {Null}, param: BOOLEAN,
                      prev: Hooks \cup {Null}]
    <3>1. CASE sought \in body
      BY <1>14, <3>1 DEF GetLookup, TypeOK
    <3>2. CASE sought \notin body
      <4>1. InstallFind /\ Find \in Hooks
        BY <1>14, <3>2 DEF GetLookup, Hooks
      <4>2. hook' = Find /\ find' = [name |-> sought, param |-> FALSE, prev |-> Find]
        BY <4>1 DEF InstallFind
      <4> QED
        BY <4>1, <4>2 DEF InstallFind, TypeOK
    <3> QED
      BY <3>1, <3>2
  <2> QED
    BY <1>14, <2>1 DEF GetLookup, Return, TypeOK
<1>15. CASE GetScan
  BY <1>15, PrefetchType DEF GetScan, TypeOK
<1>16. CASE GetTest
  <2>1. hook' \in Hooks \cup {Null}
    BY <1>16 DEF GetTest, TypeOK, Hooks
  <2> QED
    BY <1>16, <2>1 DEF GetTest, Return, TypeOK
<1>17. CASE ReadSpool
  <2>1. Cut \in 0 .. Len(spool) /\ spool \in Seq(1 .. EOS)
    BY CutProperties DEF TypeOK
  <2>2. SubSeq(spool, 1, Cut) \in Seq(1 .. EOS) /\ spool' \in Seq(1 .. EOS)
    BY <1>17, <2>1, SpoolCut DEF ReadSpool
  <2>3. out' \in Seq(1 .. EOS) /\ consumer' \in {"reading", "eos"}
    BY <1>17, <2>2, ReceiveType DEF ReadSpool
  <2> QED
    BY <1>17, <2>2, <2>3 DEF ReadSpool, ReadReturn, TypeOK
<1>18. CASE ReadFilterError
  BY <1>18 DEF ReadFilterError, ReadReturn, TypeOK
<1>19. CASE ReadThrough
  <2>1. pos' \in Nat /\ out' \in Seq(1 .. EOS) /\ consumer' \in {"reading", "eos", "error"}
    <3>1. CASE broken
      BY <1>19, <3>1 DEF ReadThrough, TypeOK
    <3>2. CASE ~broken
      <4>1. PICK q \in Reads(amount) : pos' = q /\ Receive(Piece(pos, q))
        BY <1>19, <3>2 DEF ReadThrough
      <4>2. q \in Nat /\ q > pos /\ pos \in Nat
        BY ReadsProperties DEF TypeOK
      <4> QED
        BY <4>1, <4>2, PieceProperties, ReceiveType
    <3> QED
      BY <3>1, <3>2
  <2>2. /\ pc' = "idle" /\ amount' = 0 /\ installed' \in BOOLEAN
        /\ UNCHANGED <<req, body_status, fed, body, find, next, filter_error,
                       spool, bytes_read, read_limit, brigade_limit, temp_dir>>
        /\ UNCHANGED <<parser, hook, hook_queue, broken, sought, answer>>
    BY <1>19 DEF ReadThrough, ReadReturn
  <2> QED
    BY <2>1, <2>2 DEF TypeOK
<1>20. CASE ReadTee
  <2>1. CASE broken
    <3>1. /\ pc' = "idle" /\ amount' = 0 /\ consumer' = "error"
          /\ UNCHANGED <<req, body_status, fed, body, find, next, filter_error,
                         spool, bytes_read, read_limit, brigade_limit, temp_dir>>
          /\ UNCHANGED <<parser, hook, hook_queue, installed, pos, broken, out,
                         sought, answer>>
      BY <1>20, <2>1 DEF ReadTee
    <3> QED
      BY <3>1 DEF TypeOK
  <2>2. CASE ~broken
    <3>1. PICK q \in Reads(amount) :
            pos' = q /\ Receive(Piece(pos, q)) /\ CountAndFeed(q, "idle")
      BY <1>20, <2>2 DEF ReadTee
    <3>2. q \in Nat /\ q > pos /\ pos \in Nat
      BY ReadsProperties DEF TypeOK
    <3>3. out' \in Seq(1 .. EOS) /\ consumer' \in {"reading", "eos"}
      BY <3>1, <3>2, PieceProperties, ReceiveType
    <3> QED
      BY <1>20, <3>1, <3>2, <3>3, CountAndFeedType DEF ReadTee, TypeOK
  <2> QED
    BY <2>1, <2>2
<1>21. ASSUME NEW n \in ReadSizes, ReadStart(n) PROVE TypeOK'
  <2>1. n \in Nat
    BY SizeAssumption
  <2>2. CASE NeedsInit
    BY <1>21, <2>1, <2>2, InitContextType DEF ReadStart, InitContext, TypeOK
  <2>3. CASE ~NeedsInit
    BY <1>21, <2>1, <2>3 DEF ReadStart, TypeOK
  <2> QED
    BY <2>2, <2>3
<1>22. ASSUME NEW n \in ReadSizes, ReadBelow(n) PROVE TypeOK'
  <2>1. pos' \in Nat /\ out' \in Seq(1 .. EOS) /\ consumer' \in {"reading", "eos", "error"}
    <3>1. CASE broken
      BY <1>22, <3>1 DEF ReadBelow, TypeOK
    <3>2. CASE ~broken
      <4>1. PICK q \in Reads(n) : pos' = q /\ Receive(Piece(pos, q))
        BY <1>22, <3>2 DEF ReadBelow
      <4>2. q \in Nat /\ q > pos /\ pos \in Nat
        BY ReadsProperties, SizeAssumption DEF TypeOK
      <4> QED
        BY <4>1, <4>2, PieceProperties, ReceiveType
    <3> QED
      BY <3>1, <3>2
  <2> QED
    BY <1>22, <2>1 DEF ReadBelow, TypeOK
<1>23. CASE Break
  BY <1>23 DEF Break, TypeOK
<1> QED
  BY <1>1, <1>2, <1>3, <1>4, <1>5, <1>6, <1>7, <1>8, <1>9, <1>10, <1>11, <1>12,
     <1>13, <1>14, <1>15, <1>16, <1>17, <1>18, <1>19, <1>20, <1>21, <1>22, <1>23
     DEF Next, CallStep, Consume, Configure

\* The variables of every reachable state hold what their C counterparts may
\* hold, for every body, limit, size, and set of hooks and names.
THEOREM TypeCorrect == Spec => []TypeOK
BY TypeInit, TypeStep, PTL DEF Spec

------------------------------------------------------------------------------
(* The inductive invariant. *)

\* What the consumer has, what is spooled for it and what was taken.
TeeInv ==
    /\ \A i \in 1 .. Len(out) : out[i] = Token(i)
    /\ \A i \in 1 .. Len(spool) : spool[i] = Token(Len(out) + i)
    /\ ~filter_error => Least(Len(out) + Len(spool), EOS) = Least(pos, EOS)
    /\ consumer = "reading" => Len(out) <= BodyLen /\ Len(out) + Len(spool) <= EOS
    /\ consumer = "eos" => Len(out) = EOS
    /\ consumer = "error" => spool = << >> /\ (broken \/ Settled)

\* What the parser was shown, what was counted and what is allowed.
FeedInv ==
    /\ \A i \in 1 .. Len(fed) : fed[i] = Token(i)
    /\ body_status = "INCOMPLETE" =>
           Len(fed) = pos /\ bytes_read = Bytes(pos) /\ bytes_read <= read_limit
    /\ Bytes(Len(fed)) <= bytes_read
    /\ Bytes(Len(fed)) <= read_limit
    /\ OverlimitJustified

\* Which states of the context go with which stage of a call.
PhaseInv ==
    /\ pc = "read" => consumer = "reading" /\ body_status # "EINIT"
    /\ filter_error => Settled
    /\ ~installed => Settled /\ spool = << >> /\ ~filter_error
    /\ body_status = "EINIT" =>
           pos = 0 /\ fed = << >> /\ bytes_read = 0 /\ spool = << >>

Inv == TypeOK /\ TeeInv /\ FeedInv /\ PhaseInv

\* What most of the handle's operations leave alone.
Watched == <<req, body_status, fed, filter_error, spool, bytes_read, read_limit,
             installed, pos, broken, out, consumer>>

\* An operation that touches none of the watched variables, and is not the
\* start of a read, keeps the invariant.
LEMMA QuietStep ==
  ASSUME Inv, UNCHANGED Watched, pc' # "read"
  PROVE  TeeInv' /\ FeedInv' /\ PhaseInv'
<1>1. Inv
  OBVIOUS
<1>2. TeeInv'
  BY <1>1 DEF Inv, TeeInv, Watched, Settled
<1>3. FeedInv'
  BY <1>1 DEF Inv, FeedInv, Watched, OverlimitJustified
<1>4. PhaseInv'
  BY <1>1 DEF Inv, PhaseInv, Watched, Settled
<1> QED
  BY <1>2, <1>3, <1>4

\* Readying the context keeps the invariant: nothing was read before.
LEMMA InitContextStep ==
  ASSUME Inv, InitContext,
         UNCHANGED <<req, installed, pos, broken, out, consumer>>,
         pc' = "read" => consumer = "reading"
  PROVE  TeeInv' /\ FeedInv' /\ PhaseInv' /\ body_status' # "EINIT"
<1>1. /\ body_status = "EINIT" /\ body_status' = InitOutcome
      /\ UNCHANGED <<fed, filter_error, spool, bytes_read, read_limit>>
  BY DEF InitContext, NeedsInit
<1>2. /\ InitOutcome # "EINIT"
      /\ InitOutcome = "OVERLIMIT" => req.length > read_limit
  BY DEF InitOutcome, LengthOver
<1>3. /\ pos = 0 /\ fed = << >> /\ bytes_read = 0 /\ spool = << >>
      /\ ~filter_error /\ installed /\ read_limit \in Nat
  BY <1>1 DEF Inv, PhaseInv, Settled, TypeOK
<1>4. TeeInv'
  BY <1>1, <1>3 DEF Inv, TeeInv, Settled
<1>5. FeedInv'
  <2>1. Bytes(0) = 0 /\ Len(<< >>) = 0
    BY SizeAssumption DEF Bytes, Least
  <2> QED
    BY <1>1, <1>2, <1>3, <2>1 DEF FeedInv, OverlimitJustified, Bytes, Least
<1>6. PhaseInv'
  BY <1>1, <1>2, <1>3 DEF PhaseInv, Settled
<1> QED
  BY <1>1, <1>2, <1>4, <1>5, <1>6

\* A piece that is counted and perhaps shown to the parser.
LEMMA CountAndFeedStep ==
  ASSUME Inv, NEW q \in Nat, q > pos, NEW resume, CountAndFeed(q, resume),
         body_status = "INCOMPLETE", pos' = q, UNCHANGED req
  PROVE  FeedInv' /\ body_status' # "EINIT"
<1>1. /\ pos \in Nat /\ fed \in Seq(1 .. EOS) /\ Len(fed) = pos
      /\ bytes_read = Bytes(pos) /\ bytes_read <= read_limit /\ read_limit \in Nat
      /\ \A i \in 1 .. Len(fed) : fed[i] = Token(i)
  BY DEF Inv, TypeOK, FeedInv
<1>2. Bytes(q) \in Nat /\ Bytes(pos) \in Nat /\ Bytes(pos) <= Bytes(q)
  BY <1>1, BytesProperties
<1>3. bytes_read' = Bytes(q) /\ read_limit' = read_limit
  BY <1>1, <1>2 DEF CountAndFeed
<1>4. CASE PastLimit
  <2>1. body_status' = "OVERLIMIT" /\ fed' = fed
    BY <1>4 DEF CountAndFeed
  <2>2. bytes_read' > read_limit'
    BY <1>3, <1>4 DEF PastLimit
  <2> QED
    BY <1>1, <1>2, <1>3, <2>1, <2>2 DEF FeedInv, OverlimitJustified, Bytes, Least
<1>5. CASE ~PastLimit
  <2>1. Feed(q, resume)
    BY <1>5 DEF CountAndFeed
  <2>2. /\ Shown(q)
        /\ body_status' \notin {"EINIT", "OVERLIMIT"}
    BY <2>1 DEF Feed, Verdicts
  <2>3. /\ Piece(pos, q) \in Seq(1 .. EOS) /\ Len(Piece(pos, q)) = q - pos
        /\ \A i \in 1 .. q - pos : Piece(pos, q)[i] = Token(pos + i)
    BY <1>1, PieceProperties
  <2>4. /\ Len(fed') = q
        /\ \A i \in 1 .. q : fed'[i] = IF i <= pos THEN fed[i] ELSE Piece(pos, q)[i - pos]
    BY <1>1, <2>2, <2>3, ConcatProperties DEF Shown
  <2>5. ASSUME NEW i \in 1 .. q PROVE fed'[i] = Token(i)
    <3>1. CASE i <= pos
      BY <1>1, <2>4, <3>1
    <3>2. CASE i > pos
      <4>1. i - pos \in 1 .. q - pos /\ pos + (i - pos) = i
        BY <1>1, <3>2
      <4>2. Piece(pos, q)[i - pos] = Token(i)
        BY <2>3, <4>1
      <4> QED
        BY <1>1, <2>4, <3>2, <4>2
    <3> QED
      BY <1>1, <3>1, <3>2
  <2>6. bytes_read' <= read_limit' /\ ~(bytes_read' > read_limit')
    BY <1>1, <1>2, <1>3, <1>5 DEF PastLimit
  <2>7. Bytes(q)' = Bytes(q)
    BY DEF Bytes, Least
  <2> QED
    BY <1>2, <1>3, <2>2, <2>4, <2>5, <2>6, <2>7 DEF FeedInv, OverlimitJustified, Bytes, Least
<1> QED
  BY <1>4, <1>5

\* What is spooled continues the stream behind what the consumer has.
LEMMA SpoolStep ==
  ASSUME Inv, NEW q \in Reads(BlockSize), Spool(q), pos' = q,
         body_status = "INCOMPLETE", ~broken, UNCHANGED <<out, consumer>>,
         filter_error' = filter_error, broken' = broken
  PROVE  TeeInv'
<1> DEFINE L == Len(out) + Len(spool)
<1>1. /\ out \in Seq(1 .. EOS) /\ spool \in Seq(1 .. EOS) /\ pos \in Nat
      /\ EOS \in Nat /\ BodyLen \in Nat /\ EOS = BodyLen + 1
      /\ consumer \in {"reading", "eos", "error"}
  BY SizeAssumption DEF Inv, TypeOK, EOS
<1>2. Len(out) \in Nat /\ Len(spool) \in Nat /\ L \in Nat
  BY <1>1, LenProperties
<1>3. ~filter_error /\ consumer # "error"
  BY DEF Inv, TeeInv, PhaseInv, Settled
<1>4. /\ Least(L, EOS) = Least(pos, EOS)
      /\ consumer = "reading" => Len(out) <= BodyLen /\ L <= EOS
      /\ consumer = "eos" => Len(out) = EOS
      /\ \A i \in 1 .. Len(out) : out[i] = Token(i)
      /\ \A i \in 1 .. Len(spool) : spool[i] = Token(Len(out) + i)
  BY <1>3 DEF Inv, TeeInv
<1>5. q \in Nat /\ q > pos /\ (pos <= BodyLen => q <= EOS) /\ (pos > BodyLen => q = pos + 1)
  BY <1>1, ReadsProperties, SizeAssumption
<1>6. CASE SpoolEnded
  <2>1. Len(spool) > 0 /\ Token(L) = EOS
    <3>1. spool # << >> /\ spool[Len(spool)] = EOS
      BY <1>6 DEF SpoolEnded
    <3>2. Len(spool) > 0
      BY <1>1, <3>1, EmptySeq
    <3>3. Len(spool) \in 1 .. Len(spool)
      BY <1>2, <3>2
    <3> QED
      BY <1>4, <3>1, <3>2, <3>3
  <2>2. L >= EOS
    BY <1>1, <1>2, <2>1 DEF Token
  <2>3. Least(L, EOS) = Least(q, EOS)
    BY <1>1, <1>2, <1>4, <1>5, <2>2 DEF Least
  <2>4. spool' = spool
    BY <1>6 DEF Spool
  <2> QED
    BY <1>3, <1>4, <2>3, <2>4 DEF TeeInv, Least, EOS, Token
<1>7. CASE ~SpoolEnded
  <2>1. /\ Piece(pos, q) \in Seq(1 .. EOS) /\ Len(Piece(pos, q)) = q - pos
        /\ \A i \in 1 .. q - pos : Piece(pos, q)[i] = Token(pos + i)
    <3>1. pos \in Nat /\ q \in Nat /\ pos <= q
      BY <1>1, <1>5
    <3> QED
      BY <3>1, PieceProperties
  <2>2. /\ Len(spool') = Len(spool) + (q - pos)
        /\ \A i \in 1 .. Len(spool) + (q - pos) :
             spool'[i] = IF i <= Len(spool) THEN spool[i]
                         ELSE Piece(pos, q)[i - Len(spool)]
    BY <1>1, <1>7, <2>1, ConcatProperties DEF Spool
  <2>3. (L = pos /\ L <= BodyLen) \/ (L >= EOS /\ pos >= EOS /\ q = pos + 1)
    BY <1>1, <1>2, <1>4, <1>5 DEF Least
  <2>4. ASSUME NEW i \in 1 .. q - pos PROVE Token(pos + i) = Token(L + i)
    BY <1>1, <1>2, <1>5, <2>3 DEF Token
  <2>5. ASSUME NEW i \in 1 .. Len(spool') PROVE spool'[i] = Token(Len(out) + i)
    <3>1. CASE i <= Len(spool)
      <4>1. i \in 1 .. Len(spool) /\ i \in 1 .. Len(spool) + (q - pos)
        BY <1>1, <1>2, <1>5, <2>2, <3>1
      <4> QED
        BY <1>4, <2>2, <3>1, <4>1
    <3>2. CASE i > Len(spool)
      <4>1. /\ i - Len(spool) \in 1 .. q - pos
            /\ L + (i - Len(spool)) = Len(out) + i
        BY <1>1, <1>2, <1>5, <2>2, <3>2
      <4>2. Piece(pos, q)[i - Len(spool)] = Token(Len(out) + i)
        BY <2>1, <2>4, <4>1
      <4> QED
        BY <1>1, <1>2, <1>5, <2>2, <3>2, <4>2
    <3> QED
      BY <1>1, <1>2, <1>5, <2>2, <3>1, <3>2
  <2>6. Least(Len(out) + Len(spool'), EOS) = Least(q, EOS)
    BY <1>1, <1>2, <1>5, <2>2, <2>3 DEF Least
  <2>7. consumer = "reading" => Len(out) + Len(spool') <= EOS
    <3>1. consumer = "reading" /\ L >= EOS => SpoolEnded
      <4> SUFFICES ASSUME consumer = "reading", L >= EOS PROVE SpoolEnded
        OBVIOUS
      <4>1. L = EOS /\ Len(spool) > 0
        BY <1>1, <1>2, <1>4
      <4>2. spool[Len(spool)] = Token(L)
        BY <1>2, <1>4, <4>1
      <4> QED
        BY <1>1, <4>1, <4>2, EmptySeq DEF SpoolEnded, Token
    <3> QED
      BY <1>1, <1>2, <1>5, <1>7, <2>2, <2>3, <3>1
  <2> QED
    BY <1>3, <1>4, <2>5, <2>6, <2>7 DEF TeeInv, Least, EOS, Token
<1> QED
  BY <1>6, <1>7

\* A prefetch keeps the invariant.
LEMMA PrefetchStep ==
  ASSUME Inv, NEW resume, resume # "read", Prefetch(resume),
         UNCHANGED <<req, installed, out, consumer>>
  PROVE  TeeInv' /\ FeedInv' /\ PhaseInv'
<1>1. CASE PrefetchRefused(resume)
  BY <1>1, QuietStep DEF PrefetchRefused, Watched
<1>2. CASE PrefetchBroken(resume)
  <2>1. /\ filter_error' /\ body_status' = "GENERAL" /\ pc' = resume
        /\ body_status = "INCOMPLETE"
        /\ UNCHANGED <<fed, spool, bytes_read, read_limit, pos, broken>>
    BY <1>2 DEF PrefetchBroken, FailFilter
  <2>2. TeeInv'
    BY <2>1 DEF Inv, TeeInv, Settled
  <2>3. FeedInv'
    BY <2>1 DEF Inv, FeedInv, OverlimitJustified, TypeOK
  <2>4. PhaseInv'
    BY <2>1 DEF Inv, PhaseInv, Settled
  <2> QED
    BY <2>2, <2>3, <2>4
<1>3. CASE PrefetchUnspooled(resume)
  <2>1. /\ filter_error' /\ body_status' = "GENERAL" /\ pc' = resume
        /\ body_status = "INCOMPLETE"
        /\ UNCHANGED <<fed, spool, bytes_read, read_limit, broken>>
    BY <1>3 DEF PrefetchUnspooled, FailFilter
  <2>2. TeeInv'
    BY <2>1 DEF Inv, TeeInv, Settled
  <2>3. FeedInv'
    <3>1. bytes_read <= read_limit /\ bytes_read \in Nat /\ read_limit \in Nat
      BY <2>1 DEF Inv, FeedInv, TypeOK
    <3> QED
      BY <2>1, <3>1 DEF Inv, FeedInv, OverlimitJustified
  <2>4. PhaseInv'
    BY <2>1 DEF Inv, PhaseInv, Settled
  <2> QED
    BY <2>2, <2>3, <2>4
<1>4. CASE PrefetchPiece(resume)
  <2>1. PICK q \in Reads(BlockSize) : pos' = q /\ Spool(q) /\ CountAndFeed(q, resume)
    BY <1>4 DEF PrefetchPiece
  <2>2. q \in Nat /\ q > pos
    BY ReadsProperties, SizeAssumption DEF Inv, TypeOK
  <2>3. /\ body_status = "INCOMPLETE" /\ ~broken
        /\ filter_error' = filter_error /\ broken' = broken
    BY <1>4 DEF PrefetchPiece
  <2>4. TeeInv'
    BY <2>1, <2>3, SpoolStep
  <2>5. FeedInv' /\ body_status' # "EINIT"
    BY <2>1, <2>2, <2>3, CountAndFeedStep
  <2>6. pc' # "read"
    BY <2>1, <2>2, CountAndFeedType DEF Inv
  <2>7. PhaseInv'
    BY <2>3, <2>5, <2>6 DEF Inv, PhaseInv, Settled
  <2> QED
    BY <2>4, <2>5, <2>7
<1> QED
  BY <1>1, <1>2, <1>3, <1>4 DEF Prefetch

\* With nothing spooled and no error held, what is read from below continues
\* what the consumer has.
LEMMA ReceiveStep ==
  ASSUME Inv, NEW n \in Nat, NEW q \in Reads(n), pos' = q, Receive(Piece(pos, q)),
         consumer = "reading", spool = << >>, ~filter_error,
         UNCHANGED <<spool, filter_error>>
  PROVE  TeeInv'
<1>1. /\ out \in Seq(1 .. EOS) /\ pos \in Nat
      /\ EOS \in Nat /\ BodyLen \in Nat /\ EOS = BodyLen + 1
      /\ Len(out) \in Nat /\ Len(spool) = 0
  BY SizeAssumption, LenProperties DEF Inv, TypeOK, EOS
<1>2. /\ Least(Len(out), EOS) = Least(pos, EOS) /\ Len(out) <= BodyLen
      /\ \A i \in 1 .. Len(out) : out[i] = Token(i)
  BY <1>1 DEF Inv, TeeInv
<1>3. Len(out) = pos /\ pos <= BodyLen
  BY <1>1, <1>2 DEF Least
<1>4. q \in Nat /\ q > pos /\ q <= EOS /\ pos <= q
  BY <1>1, <1>3, ReadsProperties
<1>5. /\ Piece(pos, q) \in Seq(1 .. EOS) /\ Len(Piece(pos, q)) = q - pos
      /\ \A i \in 1 .. q - pos : Piece(pos, q)[i] = Token(pos + i)
  BY <1>1, <1>4, PieceProperties
<1>6. /\ Len(out') = q
      /\ \A i \in 1 .. q : out'[i] = IF i <= pos THEN out[i]
                                     ELSE Piece(pos, q)[i - pos]
  <2>1. out' = out \o Piece(pos, q)
    BY DEF Receive
  <2>2. Len(out) + Len(Piece(pos, q)) = q
    BY <1>3, <1>4, <1>5
  <2> QED
    BY <1>1, <1>3, <1>5, <2>1, <2>2, ConcatProperties
<1>7. ASSUME NEW i \in 1 .. q PROVE out'[i] = Token(i)
  <2>1. CASE i <= pos
    <3>1. i \in 1 .. Len(out)
      BY <1>1, <1>3, <2>1
    <3> QED
      BY <1>2, <1>6, <2>1, <3>1
  <2>2. CASE i > pos
    <3>1. i - pos \in 1 .. q - pos /\ pos + (i - pos) = i
      BY <1>1, <1>4, <2>2
    <3>2. Piece(pos, q)[i - pos] = Token(i)
      BY <1>5, <3>1
    <3>3. ~(i <= pos)
      BY <1>1, <1>4, <2>2
    <3>4. out'[i] = Piece(pos, q)[i - pos]
      BY <1>6, <3>3
    <3> QED
      BY <3>2, <3>4
  <2> QED
    BY <1>1, <1>4, <2>1, <2>2
<1>8. Piece(pos, q) # << >> /\ Piece(pos, q)[Len(Piece(pos, q))] = Token(q)
  <2>1. q - pos \in 1 .. q - pos /\ pos + (q - pos) = q
    BY <1>1, <1>4
  <2> QED
    BY <1>5, <2>1
<1>9. consumer' = IF q = EOS THEN "eos" ELSE "reading"
  BY <1>1, <1>4, <1>8 DEF Receive, Token
<1>10. Least(Len(out') + Len(spool'), EOS') = Least(q, EOS)
  BY <1>1, <1>4, <1>6 DEF EOS, Least
<1> QED
  BY <1>1, <1>3, <1>4, <1>6, <1>7, <1>9, <1>10 DEF TeeInv, Token, EOS

\* Reading from the spool moves its head to the consumer.
LEMMA ReadSpoolStep ==
  ASSUME Inv, ReadSpool
  PROVE  TeeInv' /\ FeedInv' /\ PhaseInv'
<1> DEFINE L == Len(out) + Len(spool)
<1>1. /\ out \in Seq(1 .. EOS) /\ spool \in Seq(1 .. EOS) /\ pos \in Nat
      /\ EOS \in Nat /\ BodyLen \in Nat /\ EOS = BodyLen + 1
      /\ Len(out) \in Nat /\ Len(spool) \in Nat
  BY SizeAssumption, LenProperties DEF Inv, TypeOK, EOS
<1>2. /\ consumer = "reading" /\ body_status # "EINIT" /\ installed
      /\ UNCHANGED <<req, body_status, fed, filter_error, bytes_read,
                     read_limit, installed, pos, broken>>
      /\ pc' = "idle"
  BY DEF Inv, PhaseInv, ReadSpool, ReadReturn
<1>3. /\ \A i \in 1 .. Len(out) : out[i] = Token(i)
      /\ \A i \in 1 .. Len(spool) : spool[i] = Token(Len(out) + i)
      /\ ~filter_error => Least(L, EOS) = Least(pos, EOS)
      /\ Len(out) <= BodyLen /\ L <= EOS
  BY <1>2 DEF Inv, TeeInv
<1>4. Cut \in 0 .. Len(spool)
  BY CutProperties DEF Inv, TypeOK
<1> DEFINE t == SubSeq(spool, 1, Cut)
<1>5. /\ t \in Seq(1 .. EOS) /\ Len(t) = Cut
      /\ spool' \in Seq(1 .. EOS) /\ Len(spool') = Len(spool) - Cut
      /\ \A i \in 1 .. Cut : t[i] = spool[i]
      /\ \A i \in 1 .. Len(spool) - Cut : spool'[i] = spool[Cut + i]
  <2>1. spool' = SubSeq(spool, Cut + 1, Len(spool))
    BY DEF ReadSpool
  <2>2. /\ SubSeq(spool, 1, Cut) \in Seq(1 .. EOS) /\ Len(SubSeq(spool, 1, Cut)) = Cut
        /\ SubSeq(spool, Cut + 1, Len(spool)) \in Seq(1 .. EOS)
        /\ Len(SubSeq(spool, Cut + 1, Len(spool))) = Len(spool) - Cut
        /\ \A i \in 1 .. Cut : SubSeq(spool, 1, Cut)[i] = spool[i]
        /\ \A i \in 1 .. Len(spool) - Cut :
             SubSeq(spool, Cut + 1, Len(spool))[i] = spool[Cut + i]
    <3>1. \A S : \A s \in Seq(S) : \A k \in 0 .. Len(s) :
             /\ SubSeq(s, 1, k) \in Seq(S) /\ Len(SubSeq(s, 1, k)) = k
             /\ SubSeq(s, k + 1, Len(s)) \in Seq(S)
             /\ Len(SubSeq(s, k + 1, Len(s))) = Len(s) - k
             /\ \A i \in 1 .. k : SubSeq(s, 1, k)[i] = s[i]
             /\ \A i \in 1 .. Len(s) - k : SubSeq(s, k + 1, Len(s))[i] = s[k + i]
      BY SpoolCut
    <3> QED
      BY <1>1, <1>4, <3>1
  <2> QED
    BY <2>1, <2>2
<1>6. /\ Len(out') = Len(out) + Cut
      /\ \A i \in 1 .. Len(out) + Cut :
           out'[i] = IF i <= Len(out) THEN out[i] ELSE t[i - Len(out)]
  <2>1. out' = out \o t
    BY DEF ReadSpool, Receive
  <2> HIDE DEF t
  <2> QED
    BY <1>1, <1>5, <2>1, ConcatProperties
<1>7. ASSUME NEW i \in 1 .. Len(out) + Cut PROVE out'[i] = Token(i)
  <2>1. CASE i <= Len(out)
    BY <1>1, <1>3, <1>4, <1>6, <2>1
  <2>2. CASE i > Len(out)
    <3>1. /\ i - Len(out) \in 1 .. Cut /\ i - Len(out) \in 1 .. Len(spool)
          /\ Len(out) + (i - Len(out)) = i
      BY <1>1, <1>4, <2>2
    <3>2. t[i - Len(out)] = Token(i)
      BY <1>3, <1>5, <3>1
    <3> QED
      BY <1>1, <1>4, <1>6, <2>2, <3>2
  <2> QED
    BY <1>1, <1>4, <2>1, <2>2
<1>8. ASSUME NEW i \in 1 .. Len(spool) - Cut
      PROVE  spool'[i] = Token(Len(out') + i)
  <2>1. Cut + i \in 1 .. Len(spool) /\ Len(out) + (Cut + i) = Len(out') + i
    BY <1>1, <1>4, <1>6
  <2> QED
    BY <1>3, <1>5, <2>1
<1>9. Len(out') + Len(spool') = L
  BY <1>1, <1>4, <1>5, <1>6
<1>10. consumer' = IF Cut > 0 /\ Token(Len(out')) = EOS THEN "eos" ELSE "reading"
  <2>1. consumer' = IF t # << >> /\ t[Len(t)] = EOS THEN "eos" ELSE "reading"
    BY DEF ReadSpool, Receive
  <2>2. CASE Cut = 0
    BY <1>5, <2>1, <2>2, EmptySeq
  <2>3. CASE Cut > 0
    <3>1. Cut \in 1 .. Len(spool) /\ Cut \in 1 .. Cut
      BY <1>1, <1>4, <2>3
    <3>4. t # << >>
      <4> HIDE DEF t
      <4>1. Len(t) > 0
        BY <1>1, <1>4, <1>5, <2>3
      <4> QED
        BY <4>1, EmptySeq
    <3>2. t[Len(t)] = Token(Len(out'))
      BY <1>3, <1>5, <1>6, <3>1
    <3> QED
      BY <2>1, <2>3, <3>4, <3>2
  <2> QED
    BY <1>1, <1>4, <2>2, <2>3
<1>11. /\ consumer' \in {"reading", "eos"}
       /\ consumer' = "reading" => Len(out') <= BodyLen
       /\ consumer' = "eos" => Len(out') = EOS
  BY <1>1, <1>3, <1>4, <1>6, <1>9, <1>5, <1>10 DEF Token
<1>12. TeeInv'
  BY <1>1, <1>2, <1>3, <1>5, <1>6, <1>7, <1>8, <1>9, <1>11 DEF TeeInv, Token, EOS, Least
<1>13. FeedInv'
  BY <1>2 DEF Inv, FeedInv, OverlimitJustified
<1>14. PhaseInv'
  BY <1>2 DEF Inv, PhaseInv, Settled
<1> QED
  BY <1>12, <1>13, <1>14

\* Reading past a filter that has finished, or that is gone.
LEMMA PassStep ==
  ASSUME Inv, NEW n \in Nat, consumer = "reading", spool = << >>,
         ~filter_error, Settled, pc' # "read",
         IF broken THEN consumer' = "error" /\ UNCHANGED <<out, pos>>
         ELSE \E q \in Reads(n) : pos' = q /\ Receive(Piece(pos, q)),
         UNCHANGED <<req, body_status, fed, filter_error, spool, bytes_read,
                     read_limit, broken>>
  PROVE  TeeInv' /\ FeedInv' /\ PhaseInv'
<1>1. TeeInv'
  <2>1. CASE broken
    BY <2>1 DEF Inv, TeeInv, Settled
  <2>2. CASE ~broken
    <3>1. PICK q \in Reads(n) : pos' = q /\ Receive(Piece(pos, q))
      BY <2>2
    <3> QED
      BY <3>1, ReceiveStep
  <2> QED
    BY <2>1, <2>2
<1>2. FeedInv'
  BY DEF Inv, FeedInv, OverlimitJustified, Settled
<1>3. PhaseInv'
  BY DEF Inv, PhaseInv, Settled
<1> QED
  BY <1>1, <1>2, <1>3

\* A read that is teed to the parser keeps the invariant.
LEMMA ReadTeeStep ==
  ASSUME Inv, ReadTee
  PROVE  TeeInv' /\ FeedInv' /\ PhaseInv'
<1>1. /\ consumer = "reading" /\ spool = << >> /\ body_status = "INCOMPLETE"
      /\ ~filter_error /\ installed
      /\ UNCHANGED <<req, filter_error, spool, installed, broken>>
  BY DEF Inv, PhaseInv, ReadTee, Settled
<1>2. CASE broken
  <2>1. /\ consumer' = "error" /\ pc' = "idle"
        /\ UNCHANGED <<out, pos, body_status, fed, bytes_read, read_limit>>
    BY <1>2 DEF ReadTee
  <2>2. TeeInv'
    BY <1>1, <1>2, <2>1 DEF Inv, TeeInv, Settled
  <2>3. FeedInv'
    BY <1>1, <2>1 DEF Inv, FeedInv, OverlimitJustified
  <2>4. PhaseInv'
    BY <1>1, <2>1 DEF Inv, PhaseInv, Settled
  <2> QED
    BY <2>2, <2>3, <2>4
<1>3. CASE ~broken
  <2>1. PICK q \in Reads(amount) :
          pos' = q /\ Receive(Piece(pos, q)) /\ CountAndFeed(q, "idle")
    BY <1>3 DEF ReadTee
  <2>2. amount \in Nat /\ pos \in Nat
    BY DEF Inv, TypeOK
  <2>3. q \in Nat /\ q > pos
    BY <2>2, ReadsProperties
  <2>4. TeeInv'
    BY <1>1, <2>1, <2>2, ReceiveStep
  <2>5. FeedInv' /\ body_status' # "EINIT"
    BY <1>1, <2>1, <2>3, CountAndFeedStep
  <2>6. pc' # "read"
    BY <2>1, <2>3, CountAndFeedType DEF Inv
  <2>7. PhaseInv'
    BY <1>1, <2>5, <2>6 DEF Inv, PhaseInv, Settled
  <2> QED
    BY <2>4, <2>5, <2>7
<1> QED
  BY <1>2, <1>3

LEMMA InvInit == Init => Inv
<1> SUFFICES ASSUME Init PROVE Inv
  OBVIOUS
<1>1. TypeOK
  BY TypeInit
<1>2. /\ Len(<< >>) = 0 /\ Bytes(0) = 0 /\ BodyLen \in Nat /\ read_limit \in Nat
      /\ Len(out) = 0 /\ Len(fed) = 0 /\ Len(spool) = 0
  BY <1>1, SizeAssumption DEF Init, Bytes, Least, TypeOK
<1>3. TeeInv
  BY <1>2 DEF Init, TeeInv, Least, EOS, Settled
<1>4. FeedInv
  BY <1>2 DEF Init, FeedInv, OverlimitJustified
<1>5. PhaseInv
  BY DEF Init, PhaseInv, Settled
<1> QED
  BY <1>1, <1>3, <1>4, <1>5 DEF Inv

\* Every step keeps the invariant.
LEMMA InvStep == Inv /\ [Next]_vars => Inv'
<1> SUFFICES ASSUME Inv, [Next]_vars PROVE TeeInv' /\ FeedInv' /\ PhaseInv'
  BY TypeStep DEF Inv
<1> DEFINE Kept == TeeInv' /\ FeedInv' /\ PhaseInv'
<1>1. CASE UNCHANGED vars
  <2>1. UNCHANGED <<Watched, pc>>
    BY <1>1 DEF vars, Watched
  <2>2. TeeInv'
    BY <2>1 DEF Inv, TeeInv, Watched, Settled
  <2>3. FeedInv'
    BY <2>1 DEF Inv, FeedInv, Watched, OverlimitJustified
  <2>4. PhaseInv'
    BY <2>1 DEF Inv, PhaseInv, Watched, Settled
  <2> QED
    BY <2>2, <2>3, <2>4
<1>2. CASE Body
  <2>1. CASE NeedsInit
    BY <1>2, <2>1, InitContextStep DEF Body
  <2>2. CASE ~NeedsInit
    BY <1>2, <2>2, QuietStep DEF Body, Watched
  <2> QED
    BY <2>1, <2>2
<1>3. ASSUME NEW n \in Names, GetFromTable(n) PROVE Kept
  BY <1>3, QuietStep DEF GetFromTable, Return, Watched
<1>4. ASSUME NEW n \in Names, GetInit(n) PROVE Kept
  <2>1. InitContext /\ UNCHANGED <<req, installed, pos, broken, out, consumer>>
    BY <1>4 DEF GetInit
  <2>2. pc' # "read"
    BY <1>4 DEF GetInit, Return
  <2> QED
    BY <2>1, <2>2, InitContextStep
<1>5. ASSUME NEW n \in Names, GetOngoing(n) PROVE Kept
  BY <1>5, QuietStep DEF GetOngoing, Watched
<1>6. ASSUME NEW p \in PresetParsers, ParserSet(p) PROVE Kept
  BY <1>6, QuietStep DEF ParserSet, Watched
<1>7. ASSUME NEW h \in UserHooks, HookAdd(h) PROVE Kept
  BY <1>7, QuietStep DEF HookAdd, Watched
<1>8. ASSUME NEW b \in BrigadeLimits, BrigadeLimitSet(b) PROVE Kept
  BY <1>8, QuietStep DEF BrigadeLimitSet, Watched
<1>9. ASSUME NEW b \in ReadLimits, ReadLimitSet(b) PROVE Kept
  <2>1. /\ b \in Nat /\ read_limit > b /\ bytes_read < b /\ read_limit' = b
        /\ UNCHANGED <<req, body_status, fed, filter_error, spool, bytes_read,
                       installed, pos, broken, out, consumer>>
        /\ pc' # "read"
    BY <1>9, SizeAssumption DEF ReadLimitSet, MayLower
  <2>2. fed \in Seq(1 .. EOS) /\ bytes_read \in Nat /\ read_limit \in Nat
        /\ req.length \in Int /\ Len(fed) \in Nat /\ Bytes(Len(fed)) \in Nat
    <3>1. fed \in Seq(1 .. EOS) /\ bytes_read \in Nat /\ read_limit \in Nat
          /\ req \in RequestType
      BY RequestsAssumption DEF Inv, TypeOK
    <3>2. Len(fed) \in Nat
      BY <3>1, LenProperties
    <3>3. req.length \in Int
      BY <3>1, SizeAssumption DEF RequestType, NoLength, BadLength
    <3>4. Bytes(Len(fed)) \in Nat
      BY <3>2, SizeAssumption DEF Bytes, Least
    <3> QED
      BY <3>1, <3>2, <3>3, <3>4
  <2>3. TeeInv'
    BY <2>1 DEF Inv, TeeInv, Settled
  <2>4. FeedInv'
    BY <2>1, <2>2 DEF Inv, FeedInv, OverlimitJustified, Bytes, Least
  <2>5. PhaseInv'
    BY <2>1 DEF Inv, PhaseInv, Settled
  <2> QED
    BY <2>3, <2>4, <2>5
<1>10. ASSUME NEW d \in TempDirs, TempDirSet(d) PROVE Kept
  BY <1>10, QuietStep DEF TempDirSet, Watched
<1>11. CASE BodyLoop
  BY <1>11, PrefetchStep DEF BodyLoop
<1>12. CASE BodyReturn
  BY <1>12, QuietStep DEF BodyReturn, Watched
<1>13. CASE GetFirst
  BY <1>13, PrefetchStep DEF GetFirst
<1>14. CASE GetLookup
  BY <1>14, QuietStep DEF GetLookup, Return, Watched
<1>15. CASE GetScan
  BY <1>15, PrefetchStep DEF GetScan
<1>16. CASE GetTest
  BY <1>16, QuietStep DEF GetTest, Return, Watched
<1>17. CASE ReadSpool
  BY <1>17, ReadSpoolStep
<1>18. CASE ReadFilterError
  <2>1. /\ spool = << >> /\ consumer' = "error" /\ pc' = "idle"
        /\ consumer = "reading" /\ Settled
        /\ UNCHANGED <<req, body_status, fed, filter_error, spool, bytes_read,
                       read_limit, installed, pos, broken, out>>
    BY <1>18 DEF Inv, PhaseInv, ReadFilterError, ReadReturn, Settled
  <2>2. TeeInv'
    BY <2>1 DEF Inv, TeeInv, Settled
  <2>3. FeedInv'
    BY <2>1 DEF Inv, FeedInv, OverlimitJustified
  <2>4. PhaseInv'
    BY <2>1 DEF Inv, PhaseInv, Settled
  <2> QED
    BY <2>2, <2>3, <2>4
<1>19. CASE ReadThrough
  <2>1. consumer = "reading" /\ spool = << >> /\ Settled /\ ~filter_error /\ amount \in Nat
    BY <1>19 DEF Inv, TypeOK, PhaseInv, ReadThrough, Settled
  <2> QED
    BY <1>19, <2>1, PassStep DEF ReadThrough, ReadReturn
<1>20. CASE ReadTee
  BY <1>20, ReadTeeStep
<1>21. ASSUME NEW n \in ReadSizes, ReadStart(n) PROVE Kept
  <2>1. consumer = "reading"
    BY <1>21 DEF ReadStart, Reading
  <2>2. CASE NeedsInit
    BY <1>21, <2>1, <2>2, InitContextStep DEF ReadStart
  <2>3. CASE ~NeedsInit
    <3>1. UNCHANGED Watched /\ body_status # "EINIT"
      BY <1>21, <2>3 DEF ReadStart, Watched, NeedsInit
    <3>2. TeeInv'
      BY <3>1 DEF Inv, TeeInv, Watched, Settled
    <3>3. FeedInv'
      BY <3>1 DEF Inv, FeedInv, Watched, OverlimitJustified
    <3>4. PhaseInv'
      BY <2>1, <3>1 DEF Inv, PhaseInv, Watched, Settled
    <3> QED
      BY <3>2, <3>3, <3>4
  <2> QED
    BY <2>2, <2>3
<1>22. ASSUME NEW n \in ReadSizes, ReadBelow(n) PROVE Kept
  <2>1. /\ consumer = "reading" /\ spool = << >> /\ Settled /\ ~filter_error
        /\ n \in Nat
    BY <1>22, SizeAssumption DEF Inv, PhaseInv, ReadBelow, Reading
  <2> QED
    BY <1>22, <2>1, PassStep DEF ReadBelow, Reading
<1>23. CASE Break
  <2>1. /\ broken' /\ pc' # "read"
        /\ UNCHANGED <<req, body_status, fed, filter_error, spool, bytes_read,
                       read_limit, installed, pos, out, consumer>>
    BY <1>23 DEF Break
  <2>2. TeeInv'
    BY <2>1 DEF Inv, TeeInv, Settled
  <2>3. FeedInv'
    BY <2>1 DEF Inv, FeedInv, OverlimitJustified
  <2>4. PhaseInv'
    BY <2>1 DEF Inv, PhaseInv, Settled
  <2> QED
    BY <2>2, <2>3, <2>4
<1> QED
  BY <1>1, <1>2, <1>3, <1>4, <1>5, <1>6, <1>7, <1>8, <1>9, <1>10, <1>11, <1>12,
     <1>13, <1>14, <1>15, <1>16, <1>17, <1>18, <1>19, <1>20, <1>21, <1>22, <1>23
     DEF Next, CallStep, Consume, Configure

LEMMA InvAlways == Spec => []Inv
BY InvInit, InvStep, PTL DEF Spec

------------------------------------------------------------------------------
(* The safety properties. *)

\* A sequence whose elements are those of the stream is a prefix of it.
LEMMA StreamPrefix ==
  ASSUME NEW s \in Seq(1 .. EOS), \A i \in 1 .. Len(s) : s[i] = Token(i)
  PROVE  s = StreamTo(Len(s))
<1>1. Len(s) \in Nat /\ s = [i \in 1 .. Len(s) |-> s[i]]
  BY LenProperties
<1> QED
  BY <1>1 DEF StreamTo

\* What the consumer has, followed by what is spooled, is the body from its
\* first byte without a gap or a repetition, and all of what was taken from
\* the connection unless the filter holds an error.
THEOREM TeeIsIntact == Spec => []TeeIntact
<1>1. Inv => TeeIntact
  <2> SUFFICES ASSUME Inv PROVE TeeIntact
    OBVIOUS
  <2>1. /\ out \in Seq(1 .. EOS) /\ spool \in Seq(1 .. EOS)
        /\ Len(out) \in Nat /\ Len(spool) \in Nat
    BY LenProperties DEF Inv, TypeOK
  <2>2. /\ \A i \in 1 .. Len(out) : out[i] = Token(i)
        /\ \A i \in 1 .. Len(spool) : spool[i] = Token(Len(out) + i)
    BY DEF Inv, TeeInv
  <2> DEFINE s == out \o spool
  <2>3. /\ s \in Seq(1 .. EOS) /\ Len(s) = Len(out) + Len(spool)
        /\ \A i \in 1 .. Len(s) : s[i] = IF i <= Len(out) THEN out[i]
                                         ELSE spool[i - Len(out)]
    BY <2>1, ConcatProperties
  <2>4. ASSUME NEW i \in 1 .. Len(s) PROVE s[i] = Token(i)
    <3> HIDE DEF s
    <3>1. CASE i <= Len(out)
      <4>1. i \in 1 .. Len(out)
        BY <2>1, <2>3, <3>1
      <4> QED
        BY <2>2, <2>3, <3>1, <4>1
    <3>2. CASE i > Len(out)
      <4>1. /\ i - Len(out) \in 1 .. Len(spool) /\ ~(i <= Len(out))
            /\ Len(out) + (i - Len(out)) = i
        BY <2>1, <2>3, <3>2
      <4>2. s[i] = spool[i - Len(out)]
        BY <2>3, <4>1
      <4> QED
        BY <2>2, <4>1, <4>2
    <3> QED
      BY <2>1, <2>3, <3>1, <3>2
  <2>5. s = StreamTo(Len(out) + Len(spool))
    <3> HIDE DEF s
    <3> QED
      BY <2>3, <2>4, StreamPrefix
  <2> QED
    BY <2>5 DEF TeeIntact, Inv, TeeInv
<1> QED
  BY <1>1, InvAlways, PTL

\* The parser has been shown the body in order, and while parsing goes on all
\* of what was taken from the connection by prefetches and reads together.
THEOREM ParserStaysInStep == Spec => []ParserInStep
<1>1. Inv => ParserInStep
  BY StreamPrefix DEF Inv, TypeOK, FeedInv, ParserInStep
<1> QED
  BY <1>1, InvAlways, PTL

\* The parser is never shown more bytes than the read limit in force.
THEOREM ParserStaysWithinLimit == Spec => []ParserWithinLimit
<1>1. Inv => ParserWithinLimit
  BY DEF Inv, FeedInv, ParserWithinLimit
<1> QED
  BY <1>1, InvAlways, PTL

\* The verdict OVERLIMIT goes with a body over the limit, and the other way
\* round, however the limit is lowered between reads.
THEOREM OverlimitIsJustified == Spec => []OverlimitJustified
<1>1. Inv => OverlimitJustified
  BY DEF Inv, FeedInv
<1> QED
  BY <1>1, InvAlways, PTL

\* A consumer that meets the end of the stream has the whole body.
THEOREM EosIsWhole == Spec => []EosMeansWhole
<1>1. Inv => EosMeansWhole
  <2> SUFFICES ASSUME Inv, consumer = "eos" PROVE out = StreamTo(EOS)
    BY DEF EosMeansWhole
  <2>1. Len(out) = EOS /\ out \in Seq(1 .. EOS) /\ \A i \in 1 .. Len(out) : out[i] = Token(i)
    BY DEF Inv, TypeOK, TeeInv
  <2> QED
    BY <2>1, StreamPrefix
<1> QED
  BY <1>1, InvAlways, PTL

\* A consumer that is told of a failure has been given all that was spooled.
THEOREM FailureIsLast == Spec => []FailureComesLast
<1>1. Inv => FailureComesLast
  BY DEF Inv, TeeInv, FailureComesLast
<1> QED
  BY <1>1, InvAlways, PTL

------------------------------------------------------------------------------
(* What a step may never do: change a verdict, or be anything but a step of *)
(* the abstract two-reader stream of BodyTee.                               *)

------------------------------------------------------------------------------
(* The verdict. *)

LEMMA VerdictStep ==
  ASSUME Next, Settled
  PROVE  UNCHANGED <<body_status, body, fed>>
<1>1. ~NeedsInit /\ body_status # "INCOMPLETE"
  BY DEF Settled, NeedsInit
<1>2. ASSUME NEW resume, Prefetch(resume)
      PROVE  UNCHANGED <<body_status, body, fed>>
  BY <1>1, <1>2 DEF Prefetch, PrefetchRefused, PrefetchBroken, PrefetchUnspooled,
                    PrefetchPiece
<1>3. CASE Body
  BY <1>1, <1>3 DEF Body
<1>4. ASSUME NEW n \in Names, GetFromTable(n) \/ GetInit(n) \/ GetOngoing(n)
      PROVE  UNCHANGED <<body_status, body, fed>>
  BY <1>1, <1>4 DEF GetFromTable, GetInit, GetOngoing, InitContext
<1>5. CASE Configure
  BY <1>5 DEF Configure, ParserSet, HookAdd, BrigadeLimitSet, ReadLimitSet, TempDirSet
<1>6. CASE BodyLoop \/ GetFirst \/ GetScan
  BY <1>2, <1>6 DEF BodyLoop, GetFirst, GetScan
<1>7. CASE BodyReturn \/ GetLookup \/ GetTest
  BY <1>7 DEF BodyReturn, GetLookup, GetTest
<1>8. CASE ReadSpool \/ ReadFilterError \/ ReadThrough \/ ReadTee
  BY <1>1, <1>8 DEF ReadSpool, ReadFilterError, ReadThrough, ReadTee
<1>9. CASE Consume
  BY <1>1, <1>9 DEF Consume, ReadStart, ReadBelow
<1>10. CASE Break
  BY <1>10 DEF Break
<1> QED
  BY <1>3, <1>4, <1>5, <1>6, <1>7, <1>8, <1>9, <1>10 DEF Next, CallStep

\* Once parsing is over no call, and no read through the filter, changes the
\* status, the table of parameters or what the parser was shown.
THEOREM VerdictIsFinal == Spec => VerdictStands
<1>1. [Next]_vars => [Settled => UNCHANGED <<body_status, body, fed>>]_vars
  BY VerdictStep
<1> QED
  BY <1>1, PTL DEF Spec, VerdictStands

------------------------------------------------------------------------------
(* The two-reader stream. *)

LEMMA SameStream ==
  /\ Tee!EOS = EOS
  /\ \A i : Tee!Token(i) = Token(i)
  /\ \A n : Tee!StreamTo(n) = StreamTo(n)
BY DEF Tee!EOS, EOS, Tee!Token, Token, Tee!StreamTo, StreamTo

\* A reader that has more of the stream than before has advanced on it.
LEMMA OutAdvances ==
  ASSUME Inv', Len(out') > Len(out)
  PROVE  Tee!Advances(out, out')
<1>1. out' = StreamTo(Len(out'))
  <2>1. out' \in Seq(1 .. EOS) /\ \A i \in 1 .. Len(out') : out'[i] = Token(i)
    BY DEF Inv, TypeOK, TeeInv, EOS, Token
  <2> QED
    BY <2>1, StreamPrefix
<1> QED
  BY <1>1, SameStream DEF Tee!Advances

LEMMA FedAdvances ==
  ASSUME Inv', Len(fed') > Len(fed)
  PROVE  Tee!Advances(fed, fed')
<1>1. fed' = StreamTo(Len(fed'))
  <2>1. fed' \in Seq(1 .. EOS) /\ \A i \in 1 .. Len(fed') : fed'[i] = Token(i)
    BY DEF Inv, TypeOK, FeedInv, EOS, Token
  <2> QED
    BY <2>1, StreamPrefix
<1> QED
  BY <1>1, SameStream DEF Tee!Advances

\* While it reads, the consumer has not met the end of the stream.
LEMMA ReadingListens ==
  ASSUME Inv, consumer = "reading"
  PROVE  Tee!Listening
BY SameStream, SizeAssumption, LenProperties
   DEF Inv, TypeOK, TeeInv, Tee!Listening, EOS

\* It never gets past the end.
LEMMA OutBounded ==
  ASSUME Inv, consumer # "error"
  PROVE  Len(out) <= Tee!EOS
<1>1. Len(out) \in Nat /\ BodyLen \in Nat
  BY SizeAssumption, LenProperties DEF Inv, TypeOK
<1> QED
  BY <1>1, SameStream DEF Inv, TypeOK, TeeInv, EOS

\* A consumer that is not told of a failure never gets past the end.
LEMMA OutStaysBounded ==
  ASSUME Inv', consumer' # "error"
  PROVE  Len(out') <= Tee!EOS
<1>1. (Inv => (consumer # "error" => Len(out) <= Tee!EOS))'
  BY OutBounded, PTL
<1> QED
  BY <1>1 DEF Tee!EOS

\* A piece that is counted either is shown to the parser or settles it.
LEMMA CountAndFeedShows ==
  ASSUME Inv, NEW q \in Nat, q > pos, NEW resume, CountAndFeed(q, resume)
  PROVE  \/ fed' = fed /\ Settled'
         \/ Len(fed') > Len(fed)
<1>1. CASE PastLimit
  BY <1>1 DEF CountAndFeed, Settled
<1>2. CASE ~PastLimit
  <2>1. fed' = fed \o Piece(pos, q)
    BY <1>2 DEF CountAndFeed, Feed, Shown
  <2>2. pos \in Nat /\ fed \in Seq(1 .. EOS) /\ Len(fed) \in Nat
    BY LenProperties DEF Inv, TypeOK
  <2>3. Piece(pos, q) \in Seq(1 .. EOS) /\ Len(Piece(pos, q)) = q - pos
    <3>1. pos <= q
      BY <2>2
    <3> QED
      BY <2>2, <3>1, PieceProperties
  <2>4. Len(fed') = Len(fed) + (q - pos)
    BY <2>1, <2>2, <2>3, ConcatProperties
  <2> QED
    BY <2>2, <2>4
<1> QED
  BY <1>1, <1>2

\* What the consumer receives from below is more than nothing.
LEMMA ReceiveAdvances ==
  ASSUME Inv, NEW q \in Nat, q > pos, Receive(Piece(pos, q))
  PROVE  Len(out') > Len(out) /\ consumer' # "error"
<1>1. out' = out \o Piece(pos, q) /\ consumer' # "error"
  BY DEF Receive
<1>2. pos \in Nat /\ out \in Seq(1 .. EOS) /\ Len(out) \in Nat
  BY LenProperties DEF Inv, TypeOK
<1>3. Piece(pos, q) \in Seq(1 .. EOS) /\ Len(Piece(pos, q)) = q - pos
  BY <1>2, PieceProperties
<1>4. Len(out') = Len(out) + (q - pos)
  BY <1>1, <1>2, <1>3, ConcatProperties
<1> QED
  BY <1>1, <1>2, <1>4

\* A prefetch shows a piece, settles the parser, or does nothing.
LEMMA PrefetchTee ==
  ASSUME Inv, Inv', NEW resume, Prefetch(resume), UNCHANGED <<out, consumer>>
  PROVE  [Tee!Next]_Tee!teeVars
<1>1. CASE PrefetchRefused(resume)
  BY <1>1 DEF PrefetchRefused, Tee!teeVars, Settled
<1>2. CASE PrefetchBroken(resume) \/ PrefetchUnspooled(resume)
  <2>1. ~Settled /\ Settled' /\ fed' = fed
    BY <1>2 DEF PrefetchBroken, PrefetchUnspooled, FailFilter, Settled
  <2> QED
    BY <2>1 DEF Tee!Next, Tee!Settle
<1>3. CASE PrefetchPiece(resume)
  <2>1. PICK q \in Reads(BlockSize) : CountAndFeed(q, resume)
    BY <1>3 DEF PrefetchPiece
  <2>2. q \in Nat /\ q > pos
    BY ReadsProperties, SizeAssumption DEF Inv, TypeOK
  <2>3. ~Settled /\ Settled' \in BOOLEAN
    BY <1>3 DEF PrefetchPiece, Settled
  <2>4. CASE fed' = fed /\ Settled'
    BY <2>3, <2>4 DEF Tee!Next, Tee!Settle
  <2>5. CASE Len(fed') > Len(fed)
    BY <2>3, <2>5, FedAdvances DEF Tee!Next, Tee!Show
  <2> QED
    BY <2>1, <2>2, <2>4, <2>5, CountAndFeedShows
<1> QED
  BY <1>1, <1>2, <1>3 DEF Prefetch

\* Reading past a finished filter delivers a piece or a failure.
LEMMA PassTee ==
  ASSUME Inv, Inv', NEW n \in Nat, consumer = "reading",
         IF broken THEN consumer' = "error" /\ UNCHANGED <<out, pos>>
         ELSE \E q \in Reads(n) : pos' = q /\ Receive(Piece(pos, q)),
         UNCHANGED <<fed, body_status>>
  PROVE  Tee!Next
<1>1. Tee!Listening
  BY ReadingListens
<1>2. CASE broken
  BY <1>1, <1>2 DEF Tee!Next, Tee!Fail, Settled
<1>3. CASE ~broken
  <2>1. PICK q \in Reads(n) : Receive(Piece(pos, q))
    BY <1>3
  <2>2. q \in Nat /\ q > pos
    BY ReadsProperties DEF Inv, TypeOK
  <2>3. Len(out') > Len(out) /\ consumer' # "error"
    BY <2>1, <2>2, ReceiveAdvances
  <2>4. Tee!Advances(out, out')
    BY <2>3, OutAdvances
  <2>5. Len(out') <= Tee!EOS
    BY <2>3, OutStaysBounded
  <2> QED
    BY <1>1, <2>3, <2>4, <2>5 DEF Tee!Next, Tee!Deliver, Settled
<1> QED
  BY <1>2, <1>3

\* Every step is a step of the two-reader stream, or none of its business.
LEMMA TeeStep == Inv /\ Inv' /\ [Next]_vars => [Tee!Next]_Tee!teeVars
<1> SUFFICES ASSUME Inv, Inv', [Next]_vars PROVE [Tee!Next]_Tee!teeVars
  OBVIOUS
<1>1. CASE UNCHANGED vars
  BY <1>1 DEF vars, Tee!teeVars, Settled
<1>2. ASSUME InitContext, UNCHANGED <<out, consumer>>
      PROVE  [Tee!Next]_Tee!teeVars
  <2>1. ~Settled /\ Settled' \in BOOLEAN /\ fed' = fed
    BY <1>2 DEF InitContext, NeedsInit, Settled
  <2>2. CASE Settled'
    BY <1>2, <2>1, <2>2 DEF Tee!Next, Tee!Settle
  <2>3. CASE ~Settled'
    <3>1. Settled' = Settled
      BY <2>1, <2>3 DEF Settled
    <3> QED
      BY <1>2, <2>1, <3>1 DEF Tee!teeVars
  <2> QED
    BY <2>2, <2>3
<1>3. CASE Body
  BY <1>2, <1>3 DEF Body, Tee!teeVars, Settled
<1>4. ASSUME NEW n \in Names, GetFromTable(n) \/ GetInit(n) \/ GetOngoing(n)
      PROVE  [Tee!Next]_Tee!teeVars
  <2>1. CASE GetInit(n)
    <3>1. InitContext /\ UNCHANGED <<out, consumer>>
      BY <2>1 DEF GetInit
    <3> QED
      BY <1>2, <3>1
  <2>2. CASE GetFromTable(n) \/ GetOngoing(n)
    BY <2>2 DEF GetFromTable, GetOngoing, Tee!teeVars, Settled
  <2> QED
    BY <1>4, <2>1, <2>2
<1>5. CASE Configure
  BY <1>5 DEF Configure, ParserSet, HookAdd, BrigadeLimitSet, ReadLimitSet,
              TempDirSet, Tee!teeVars, Settled
<1>6. CASE BodyLoop \/ GetFirst \/ GetScan
  BY <1>6, PrefetchTee DEF BodyLoop, GetFirst, GetScan
<1>7. CASE BodyReturn \/ GetLookup \/ GetTest
  BY <1>7 DEF BodyReturn, GetLookup, GetTest, Tee!teeVars, Settled
<1>8. CASE ReadSpool
  <2>1. consumer = "reading" /\ fed' = fed /\ body_status' = body_status
    BY <1>8 DEF Inv, PhaseInv, ReadSpool
  <2>2. out' = out \o SubSeq(spool, 1, Cut) /\ consumer' # "error"
    BY <1>8 DEF ReadSpool, Receive
  <2>3. /\ out \in Seq(1 .. EOS) /\ spool \in Seq(1 .. EOS) /\ spool # << >>
        /\ amount \in Nat /\ Cut \in 0 .. Len(spool) /\ Len(out) \in Nat
    BY <1>8, CutProperties, LenProperties DEF Inv, TypeOK, ReadSpool
  <2>4. SubSeq(spool, 1, Cut) \in Seq(1 .. EOS) /\ Len(SubSeq(spool, 1, Cut)) = Cut
    BY <2>3, SpoolCut
  <2>5. Len(out') = Len(out) + Cut
    BY <2>2, <2>3, <2>4, ConcatProperties
  <2>6. CASE Cut = 0
    <3>1. SubSeq(spool, 1, Cut) = << >>
      BY <2>4, <2>6, EmptySeq
    <3>2. out' = out /\ consumer' = "reading"
      <4>1. consumer' = IF SubSeq(spool, 1, Cut) # << >>
                           /\ SubSeq(spool, 1, Cut)[Len(SubSeq(spool, 1, Cut))] = EOS
                        THEN "eos" ELSE "reading"
        BY <1>8 DEF ReadSpool, Receive
      <4>2. out \o << >> = out
        BY <2>3
      <4> QED
        BY <2>2, <3>1, <4>1, <4>2
    <3> QED
      BY <2>1, <3>2 DEF Tee!teeVars, Settled
  <2>7. CASE Cut # 0
    <3>1. Len(out') > Len(out)
      BY <2>3, <2>5, <2>7
    <3>2. Tee!Listening /\ Tee!Advances(out, out') /\ Len(out') <= Tee!EOS
      BY <2>1, <2>2, <3>1, ReadingListens, OutAdvances, OutStaysBounded
    <3> QED
      BY <2>1, <2>2, <3>2 DEF Tee!Next, Tee!Deliver, Settled
  <2> QED
    BY <2>6, <2>7
<1>9. CASE ReadFilterError
  <2>1. /\ consumer = "reading" /\ consumer' = "error"
        /\ UNCHANGED <<out, fed, body_status>>
    BY <1>9 DEF Inv, PhaseInv, ReadFilterError
  <2> QED
    BY <2>1, ReadingListens DEF Tee!Next, Tee!Fail, Settled
<1>10. CASE ReadThrough
  <2>1. consumer = "reading" /\ amount \in Nat
    BY <1>10 DEF Inv, TypeOK, PhaseInv, ReadThrough
  <2> QED
    BY <1>10, <2>1, PassTee DEF ReadThrough
<1>11. CASE ReadTee
  <2>1. consumer = "reading" /\ amount \in Nat /\ body_status = "INCOMPLETE"
    BY <1>11 DEF Inv, TypeOK, PhaseInv, ReadTee
  <2>2. CASE broken
    BY <1>11, <2>1, <2>2, ReadingListens
       DEF ReadTee, Tee!Next, Tee!Fail, Settled
  <2>3. CASE ~broken
    <3>1. PICK q \in Reads(amount) :
            Receive(Piece(pos, q)) /\ CountAndFeed(q, "idle")
      BY <1>11, <2>3 DEF ReadTee
    <3>2. q \in Nat /\ q > pos
      BY <2>1, ReadsProperties DEF Inv, TypeOK
    <3>3. Len(out') > Len(out) /\ consumer' # "error"
      BY <3>1, <3>2, ReceiveAdvances
    <3>4. Tee!Listening /\ Tee!Advances(out, out') /\ Len(out') <= Tee!EOS
      BY <2>1, <3>3, ReadingListens, OutAdvances, OutStaysBounded
    <3>5. ~Settled /\ Settled' \in BOOLEAN /\ (consumer' = "error") = (consumer = "error")
      BY <2>1, <3>3 DEF Settled
    <3>6. CASE fed' = fed /\ Settled'
      BY <3>4, <3>5, <3>6 DEF Tee!Next, Tee!DeliverAndSettle
    <3>7. CASE Len(fed') > Len(fed)
      BY <3>4, <3>5, <3>7, FedAdvances DEF Tee!Next, Tee!DeliverAndShow
    <3> QED
      BY <3>1, <3>2, <3>6, <3>7, CountAndFeedShows
  <2> QED
    BY <2>2, <2>3
<1>12. ASSUME NEW n \in ReadSizes, ReadStart(n) PROVE [Tee!Next]_Tee!teeVars
  BY <1>2, <1>12 DEF ReadStart, Tee!teeVars, Settled
<1>13. ASSUME NEW n \in ReadSizes, ReadBelow(n) PROVE [Tee!Next]_Tee!teeVars
  <2>1. n \in Nat
    BY SizeAssumption
  <2> QED
    BY <1>13, <2>1, PassTee DEF ReadBelow, Reading
<1>14. CASE Break
  BY <1>14 DEF Break, Tee!teeVars, Settled
<1> QED
  BY <1>1, <1>3, <1>4, <1>5, <1>6, <1>7, <1>8, <1>9, <1>10, <1>11, <1>12, <1>13,
     <1>14 DEF Next, CallStep, Consume

\* The filter is a tee: whatever the prefetches and reads of apreq_filter do,
\* the consumer and the parser see one stream, the abstract specification.
THEOREM FilterIsTee == Spec => TeeSpec
<1>1. Init => Tee!Init
  BY DEF Init, Tee!Init, Settled
<1>2. Inv /\ Inv' /\ [Next]_vars => [Tee!Next]_Tee!teeVars
  BY TeeStep
<1> QED
  BY <1>1, <1>2, InvAlways, PTL DEF Spec, TeeSpec, Tee!Spec

------------------------------------------------------------------------------
(* The list of hooks.  A list is walked by a recursive function; that there
   is such a function is shown by induction over a set of natural numbers. *)

\* The tuples that actions leave unchanged.
USE DEF parse, limits, settings, below, above, call

\* w is the walk of n steps from h.
Walks(w, h, n) ==
    w = [k \in 0 .. n |-> IF k = 0 THEN h
                          ELSE IF w[k-1] = Null THEN Null ELSE next[w[k-1]]]

\* There is a walk of any length.
LEMMA WalkExists ==
  ASSUME NEW h, NEW n \in Nat
  PROVE  \E w : Walks(w, h, n)
<1> DEFINE Walkable == {m \in Nat : \E w : Walks(w, h, m)}
<1>1. 0 \in Walkable
  <2>1. Walks([k \in 0 .. 0 |-> h], h, 0)
    BY DEF Walks
  <2> QED
    BY <2>1
<1>2. ASSUME NEW m \in Nat, m \in Walkable PROVE m + 1 \in Walkable
  <2>1. PICK w : Walks(w, h, m)
    BY <1>2
  <2> DEFINE after == IF w[m] = Null THEN Null ELSE next[w[m]]
             longer == [k \in 0 .. m + 1 |-> IF k = m + 1 THEN after ELSE w[k]]
  <2>2. ASSUME NEW k \in 0 .. m + 1
        PROVE  longer[k] = IF k = 0 THEN h
                           ELSE IF longer[k-1] = Null THEN Null ELSE next[longer[k-1]]
    <3>1. CASE k = m + 1
      BY <3>1
    <3>2. CASE k # m + 1
      <4>1. k \in 0 .. m /\ longer[k] = w[k] /\ (k # 0 => longer[k-1] = w[k-1])
        BY <3>2
      <4> QED
        BY <2>1, <4>1 DEF Walks
    <3> QED
      BY <3>1, <3>2
  <2>3. Walks(longer, h, m + 1)
    BY <2>2 DEF Walks
  <2> QED
    BY <2>3
<1>3. Nat \subseteq Walkable
  <2> HIDE DEF Walkable
  <2> QED
    BY <1>1, <1>2, SetInduction
<1> QED
  BY <1>3

LEMMA HookWalkWalks ==
  ASSUME NEW h
  PROVE  Walks(HookWalk(h), h, Cardinality(Hooks))
<1>1. Cardinality(Hooks) \in Nat
  BY HooksAssumption, FS_AddElement, FS_CardinalityType DEF Hooks
<1>2. \E w : Walks(w, h, Cardinality(Hooks))
  BY <1>1, WalkExists
<1>3. HookWalk(h) = CHOOSE w : Walks(w, h, Cardinality(Hooks))
  BY DEF HookWalk, Walks
<1> QED
  BY <1>2, <1>3

\* A list holds the hook it begins with.
LEMMA HeadOnChain ==
  ASSUME NEW h \in Hooks
  PROVE  h \in OnChain(h)
<1>1. Cardinality(Hooks) \in Nat
  BY HooksAssumption, FS_AddElement, FS_CardinalityType DEF Hooks
<1>2. HookWalk(h)[0] = h /\ 0 \in 0 .. Cardinality(Hooks)
  BY <1>1, HookWalkWalks DEF Walks
<1>3. h # Null
  BY NamesAssumption
<1> QED
  BY <1>2, <1>3 DEF OnChain

------------------------------------------------------------------------------
(* The answers of apreq_body_get. *)

\* What the later steps of body_get may rely on: the find_param hook is the
\* head of the list and knows of the name exactly what the table does.
GetInv ==
    /\ body_status = "EINIT" => body = {}
    /\ pc \in {"first", "lookup", "scan", "test"} => sought \in Names /\ body_status # "EINIT"
    /\ pc \in {"scan", "test"} =>
            /\ hook = Find
            /\ find.name = sought
            /\ find.param <=> sought \in body
    /\ AnswerIsFinal

\* What a prefetch leaves to body_get.
LEMMA PrefetchGet ==
  ASSUME TypeOK, NEW resume, Prefetch(resume), UNCHANGED hook
  PROVE  /\ body \subseteq body'
         /\ body_status # "EINIT" => body_status' # "EINIT"
         /\ body_status = "EINIT" => body_status' = body_status /\ body' = body
         /\ Settled => body_status' = body_status /\ body' = body
         /\ pc' \in {resume, "overflow"}
         /\ find'.name = find.name
         /\ pc' = resume /\ hook = Find /\ (find.param <=> find.name \in body)
               => (find'.param <=> find.name \in body')
<1>1. CASE PrefetchRefused(resume)
  BY <1>1 DEF PrefetchRefused, Settled
<1>2. CASE PrefetchBroken(resume)
  BY <1>2 DEF PrefetchBroken, FailFilter, Settled
<1>3. CASE PrefetchUnspooled(resume)
  BY <1>3 DEF PrefetchUnspooled, FailFilter, Settled
<1>4. CASE PrefetchPiece(resume)
  <2>1. PICK q \in Reads(BlockSize) : CountAndFeed(q, resume)
    BY <1>4 DEF PrefetchPiece
  <2>2. body_status = "INCOMPLETE"
    BY <1>4 DEF PrefetchPiece
  <2>3. CASE PastLimit
    BY <2>1, <2>2, <2>3 DEF CountAndFeed, Settled
  <2>4. CASE ~PastLimit
    <3>1. Feed(q, resume)
      BY <2>1, <2>4 DEF CountAndFeed
    <3>2. PICK verdict \in Verdicts(q) : \E m \in ParsedUpTo(q, verdict) :
            IF Completed(m) # {} /\ Cyclic(hook)
            THEN /\ pc' = "overflow"
                 /\ UNCHANGED <<body_status, body, find, next>>
            ELSE /\ pc' = resume
                 /\ body_status' = verdict
                 /\ body' = body \cup Completed(m)
                 /\ RunHooks(Completed(m))
      BY <3>1 DEF Feed
    <3>3. PICK m \in ParsedUpTo(q, verdict) :
            IF Completed(m) # {} /\ Cyclic(hook)
            THEN /\ pc' = "overflow"
                 /\ UNCHANGED <<body_status, body, find, next>>
            ELSE /\ pc' = resume
                 /\ body_status' = verdict
                 /\ body' = body \cup Completed(m)
                 /\ RunHooks(Completed(m))
      BY <3>2
    <3>4. verdict # "EINIT"
      BY DEF Verdicts
    <3>5. CASE Completed(m) # {} /\ Cyclic(hook)
      <4>1. pc' = "overflow" /\ UNCHANGED <<body_status, body, find, next>>
        BY <3>3, <3>5
      <4> QED
        BY <2>2, <4>1 DEF Settled
    <3>6. CASE ~(Completed(m) # {} /\ Cyclic(hook))
      <4>1. /\ pc' = resume /\ body_status' = verdict
            /\ body' = body \cup Completed(m)
            /\ RunHooks(Completed(m))
        BY <3>3, <3>6
      <4>2. find \in [name: Names \cup {Null}, param: BOOLEAN, prev: Hooks \cup {Null}]
        BY DEF TypeOK
      <4>3. Find \in OnChain(Find)
        BY HeadOnChain DEF Hooks
      <4>4. find'.name = find.name
        BY <4>1, <4>2 DEF RunHooks
      <4>5. hook = Find /\ find.name \in Completed(m) => find'.param = TRUE
        BY <4>1, <4>2, <4>3 DEF RunHooks
      <4>6. find.name \notin Completed(m) => find' = find
        BY <4>1 DEF RunHooks
      <4> QED
        BY <2>2, <3>4, <4>1, <4>2, <4>4, <4>5, <4>6 DEF Settled
    <3> QED
      BY <3>5, <3>6
  <2> QED
    BY <2>3, <2>4
<1> QED
  BY <1>1, <1>2, <1>3, <1>4 DEF Prefetch

\* A step in no call to body_get, or that ends one without an answer: the table
\* only grows, and not once parsing is over.
LEMMA OtherGet ==
  ASSUME GetInv, body \subseteq body', answer' = answer,
         pc' \notin {"first", "lookup", "scan", "test"},
         Settled => body_status' = body_status /\ body' = body,
         body_status' = "EINIT" => body' = {}
  PROVE  GetInv'
BY DEF GetInv, AnswerIsFinal, Settled

\* A call to body_get returns.
LEMMA ReturnGet ==
  ASSUME NEW n \in Names, NEW value \in {"null", "param"}, Return(n, value),
         body' = body, body_status' # "EINIT",
         value = "null" => n \notin body /\ body_status' # "INCOMPLETE",
         value = "param" => n \in body
  PROVE  GetInv'
<1>1. answer' = [name |-> n, value |-> value] /\ pc' = "idle"
  BY DEF Return
<1> QED
  BY <1>1 DEF GetInv, AnswerIsFinal, Settled

\* A read in the middle of body_get.
LEMMA PrefetchInGet ==
  ASSUME TypeOK, GetInv, NEW resume \in {"lookup", "test"}, Prefetch(resume),
         UNCHANGED <<settings, call>>,
         pc \in {"first", "scan"}, pc = "scan" <=> resume = "test"
  PROVE  GetInv'
<1>1. /\ body \subseteq body'
      /\ body_status # "EINIT" => body_status' # "EINIT"
      /\ Settled => body_status' = body_status /\ body' = body
      /\ pc' \in {resume, "overflow"}
      /\ find'.name = find.name
      /\ pc' = resume /\ hook = Find /\ (find.param <=> find.name \in body)
            => (find'.param <=> find.name \in body')
  BY PrefetchGet
<1>2. sought' = sought /\ sought \in Names /\ hook' = hook /\ answer' = answer
      /\ body_status' # "EINIT"
  BY <1>1 DEF GetInv
<1>3. AnswerIsFinal'
  BY <1>1, <1>2 DEF GetInv, AnswerIsFinal, Settled
<1>4. CASE pc' = "test"
  <2>1. pc = "scan" /\ resume = "test"
    BY <1>1, <1>4
  <2>2. hook = Find /\ find.name = sought /\ (find.param <=> sought \in body)
    BY <2>1 DEF GetInv
  <2> QED
    BY <1>1, <1>2, <1>3, <1>4, <2>1, <2>2 DEF GetInv
<1>5. CASE pc' # "test"
  BY <1>1, <1>2, <1>3, <1>5 DEF GetInv
<1> QED
  BY <1>4, <1>5

LEMMA GetStep == TypeOK /\ GetInv /\ [Next]_vars => GetInv'
<1> SUFFICES ASSUME TypeOK, GetInv, [Next]_vars PROVE GetInv'
  OBVIOUS
<1>1. CASE UNCHANGED vars
  BY <1>1 DEF vars, GetInv, AnswerIsFinal, Settled
<1>2. CASE Body
  <2>1. pc' = "body" /\ body' = body /\ answer' = answer
    BY <1>2 DEF Body, InitContext
  <2>2. /\ Settled => body_status' = body_status
        /\ body_status' = "EINIT" => body_status = "EINIT"
    BY <1>2 DEF Body, InitContext, NeedsInit, InitOutcome, Settled
  <2>3. body_status' = "EINIT" => body' = {}
    BY <2>1, <2>2 DEF GetInv
  <2> QED
    BY <2>1, <2>2, <2>3, OtherGet
<1>3. CASE BodyLoop
  <2>1. Prefetch("body") /\ UNCHANGED <<settings, call>> /\ body_status = "INCOMPLETE"
    BY <1>3 DEF BodyLoop
  <2>2. /\ body \subseteq body' /\ body_status' # "EINIT" /\ pc' \in {"body", "overflow"}
    BY <2>1, PrefetchGet
  <2> QED
    BY <2>1, <2>2, OtherGet DEF Settled
<1>4. CASE BodyReturn
  BY <1>4, OtherGet DEF BodyReturn, GetInv
<1>5. ASSUME NEW n \in Names, GetFromTable(n) PROVE GetInv'
  <2>1. /\ body_status \notin {"EINIT", "INCOMPLETE"} /\ Return(n, Found(n))
        /\ body_status' = body_status /\ body' = body
    BY <1>5 DEF GetFromTable
  <2>2. /\ Found(n) \in {"null", "param"}
        /\ Found(n) = "null" => n \notin body
        /\ Found(n) = "param" => n \in body
    BY DEF Found
  <2> QED
    BY <2>1, <2>2, ReturnGet
<1>6. ASSUME NEW n \in Names, GetInit(n) PROVE GetInv'
  <2>1. /\ body_status' = InitOutcome /\ body' = body /\ body = {}
        /\ InitOutcome # "EINIT"
    BY <1>6 DEF GetInit, InitContext, NeedsInit, InitOutcome, GetInv
  <2>2. CASE body_status' = "INCOMPLETE"
    <3>1. pc' = "first" /\ sought' = n /\ answer' = answer /\ body_status = "EINIT"
      BY <1>6, <2>2 DEF GetInit, InitContext, NeedsInit
    <3> QED
      BY <2>1, <2>2, <3>1 DEF GetInv, AnswerIsFinal, Settled
  <2>3. CASE body_status' # "INCOMPLETE"
    <3>1. Return(n, "null")
      BY <1>6, <2>3 DEF GetInit
    <3> QED
      BY <2>1, <2>3, <3>1, ReturnGet
  <2> QED
    BY <2>2, <2>3
<1>7. ASSUME NEW n \in Names, GetOngoing(n) PROVE GetInv'
  BY <1>7 DEF GetOngoing, GetInv, AnswerIsFinal, Settled
<1>8. CASE GetFirst
  BY <1>8, PrefetchInGet DEF GetFirst
<1>9. CASE GetLookup
  <2>1. pc = "lookup" /\ sought \in Names /\ body_status # "EINIT"
        /\ UNCHANGED <<body_status, body>>
    BY <1>9 DEF GetLookup, GetInv
  <2>2. CASE sought \in body
    <3>1. Return(sought, "param")
      BY <1>9, <2>2 DEF GetLookup
    <3> QED
      BY <2>1, <2>2, <3>1, ReturnGet
  <2>3. CASE sought \notin body
    <3>1. /\ hook' = Find /\ find' = [name |-> sought, param |-> FALSE, prev |-> hook']
          /\ pc' = "scan" /\ sought' = sought /\ answer' = answer
      BY <1>9, <2>3 DEF GetLookup, InstallFind
    <3> QED
      BY <2>1, <2>3, <3>1 DEF GetInv, AnswerIsFinal, Settled
  <2> QED
    BY <2>2, <2>3
<1>10. CASE GetScan
  BY <1>10, PrefetchInGet DEF GetScan
<1>11. CASE GetTest
  <2>1. /\ pc = "test" /\ sought \in Names /\ body_status # "EINIT"
        /\ hook = Find /\ find.name = sought /\ (find.param <=> sought \in body)
        /\ UNCHANGED <<body_status, body, find>>
    BY <1>11 DEF GetTest, GetInv
  <2>2. CASE find.param
    <3>1. Return(sought, "param")
      BY <1>11, <2>2 DEF GetTest
    <3> QED
      BY <2>1, <2>2, <3>1, ReturnGet
  <2>3. CASE ~find.param /\ ScanOver
    <3>1. Return(sought, "null") /\ body_status # "INCOMPLETE"
      BY <1>11, <2>3 DEF GetTest, ScanOver
    <3> QED
      BY <2>1, <2>3, <3>1, ReturnGet
  <2>4. CASE ~find.param /\ ~ScanOver
    <3>1. pc' = "scan" /\ hook' = hook /\ sought' = sought /\ answer' = answer
      BY <1>11, <2>4 DEF GetTest
    <3> QED
      BY <2>1, <3>1 DEF GetInv, AnswerIsFinal, Settled
  <2> QED
    BY <2>2, <2>3, <2>4
<1>12. CASE ReadSpool \/ ReadFilterError \/ ReadThrough
  <2>1. pc' = "idle" /\ UNCHANGED <<body_status, body, answer>>
    BY <1>12 DEF ReadSpool, ReadFilterError, ReadThrough, ReadReturn
  <2> QED
    BY <2>1, OtherGet DEF GetInv
<1>13. CASE ReadTee
  <2>1. body_status = "INCOMPLETE" /\ answer' = answer
    BY <1>13 DEF ReadTee
  <2>2. body \subseteq body' /\ body_status' # "EINIT" /\ pc' \in {"idle", "overflow"}
    BY <1>13, <2>1 DEF ReadTee, CountAndFeed, Feed, Verdicts
  <2> QED
    BY <2>1, <2>2, OtherGet DEF Settled
<1>14. CASE Consume
  <2>1. ASSUME NEW size \in ReadSizes, ReadStart(size) PROVE GetInv'
    <3>1. pc' = "read" /\ body' = body /\ answer' = answer
      BY <2>1 DEF ReadStart, InitContext
    <3>2. /\ Settled => body_status' = body_status
          /\ body_status' = "EINIT" => body_status = "EINIT"
      BY <2>1 DEF ReadStart, InitContext, NeedsInit, InitOutcome, Settled
    <3>3. body_status' = "EINIT" => body' = {}
      BY <3>1, <3>2 DEF GetInv
    <3> QED
      BY <3>1, <3>2, <3>3, OtherGet
  <2>2. ASSUME NEW size \in ReadSizes, ReadBelow(size) PROVE GetInv'
    <3>1. pc' = "idle" /\ UNCHANGED <<body_status, body, answer>>
      BY <2>2 DEF ReadBelow, Reading
    <3> QED
      BY <3>1, OtherGet DEF GetInv
  <2> QED
    BY <1>14, <2>1, <2>2 DEF Consume
<1>15. CASE Configure \/ Break
  <2>1. pc' = "idle" /\ UNCHANGED <<body_status, body, answer>>
    BY <1>15 DEF Configure, ParserSet, HookAdd, BrigadeLimitSet, ReadLimitSet,
                 TempDirSet, Break
  <2> QED
    BY <2>1, OtherGet DEF GetInv
<1> QED
  BY <1>1, <1>2, <1>3, <1>4, <1>5, <1>6, <1>7, <1>8, <1>9, <1>10, <1>11, <1>12,
     <1>13, <1>14, <1>15 DEF Next, CallStep

\* What apreq_body_get answers is final: "no such parameter" is said only when
\* no parameter of that name can come any more, and a parameter it returns is
\* in the table, whether it was found there or by the find_param hook, in
\* whichever order calls, hooks and the consumer's reads come.
THEOREM AnswersAreFinal == Spec => []AnswerIsFinal
<1>1. Init => GetInv
  BY DEF Init, GetInv, AnswerIsFinal, NoAnswer
<1>2. TypeOK /\ GetInv /\ [Next]_vars => GetInv'
  BY GetStep
<1>3. GetInv => AnswerIsFinal
  BY DEF GetInv
<1> QED
  BY <1>1, <1>2, <1>3, TypeCorrect, PTL DEF Spec

------------------------------------------------------------------------------
(* Lists of hooks, in the order in which they are linked. *)

\* The hooks s[1], ..., s[n], all different, are the list that h heads when each
\* hook is followed as nx says.
IsList(nx, s, n, h) ==
    /\ n \in Nat /\ s \in [1 .. n -> Hooks]
    /\ \A i, j \in 1 .. n : s[i] = s[j] => i = j
    /\ h = IF n = 0 THEN Null ELSE s[1]
    /\ \A i \in 1 .. n : nx[s[i]] = IF i < n THEN s[i+1] ELSE Null

Members(s, n) == {s[i] : i \in 1 .. n}

LEMMA HooksFacts == Null \notin Hooks /\ Find \in Hooks /\ IsFiniteSet(Hooks)
                    /\ Cardinality(Hooks) \in Nat
BY NamesAssumption, HooksAssumption, FS_AddElement, FS_CardinalityType DEF Hooks

\* A list is no longer than there are hooks.
LEMMA ListFits ==
  ASSUME NEW n \in Nat, NEW s \in [1 .. n -> Hooks],
         \A i, j \in 1 .. n : s[i] = s[j] => i = j
  PROVE  n <= Cardinality(Hooks)
<1>1. IsFiniteSet(1 .. n) /\ Cardinality(1 .. n) = n
  BY FS_Interval
<1>2. SUFFICES ASSUME Cardinality(Hooks) < n PROVE FALSE
  BY HooksFacts
<1>3. \E i, j \in 1 .. n : i # j /\ s[i] = s[j]
  BY <1>1, <1>2, HooksFacts, FS_PigeonHole
<1> QED
  BY <1>3

\* Walking a list meets its hooks and then its end.
LEMMA ListWalk ==
  \A s, n, h : IsList(next, s, n, h) => OnChain(h) = Members(s, n) /\ ~Cyclic(h)
<1> SUFFICES ASSUME NEW s, NEW n, NEW h, IsList(next, s, n, h)
             PROVE  OnChain(h) = Members(s, n) /\ ~Cyclic(h)
  OBVIOUS
<1> DEFINE N == Cardinality(Hooks)
           w == HookWalk(h)
           ahead == {k \in Nat : k <= N => w[k] = IF k < n THEN s[k+1] ELSE Null}
<1>1. /\ n \in Nat /\ N \in Nat /\ n <= N /\ s \in [1 .. n -> Hooks]
      /\ h = IF n = 0 THEN Null ELSE s[1]
      /\ \A i \in 1 .. n : next[s[i]] = IF i < n THEN s[i+1] ELSE Null
  BY HooksFacts, ListFits DEF IsList
<1>2. \A k \in 0 .. N : w[k] = IF k = 0 THEN h
                               ELSE IF w[k-1] = Null THEN Null ELSE next[w[k-1]]
  <2>1. Walks(w, h, N)
    BY HookWalkWalks
  <2> QED
    BY <2>1 DEF Walks
<1> HIDE DEF w, N
<1>3. 0 \in ahead
  BY <1>1, <1>2
<1>4. ASSUME NEW k \in Nat, k \in ahead PROVE k + 1 \in ahead
  <2>1. SUFFICES ASSUME k + 1 <= N
                 PROVE  w[k+1] = IF k + 1 < n THEN s[k+2] ELSE Null
    OBVIOUS
  <2>2. w[k] = IF k < n THEN s[k+1] ELSE Null
    BY <1>1, <1>4, <2>1
  <2>3. w[k+1] = IF w[k] = Null THEN Null ELSE next[w[k]]
    <3>1. k + 1 \in 0 .. N /\ k + 1 # 0 /\ (k + 1) - 1 = k
      BY <1>1, <2>1
    <3> QED
      BY <1>2, <3>1
  <2>4. CASE k < n
    <3>1. k + 1 \in 1 .. n /\ (k + 1) + 1 = k + 2
      BY <1>1, <2>4
    <3>2. s[k+1] # Null
      BY <1>1, <3>1, HooksFacts
    <3> QED
      BY <1>1, <2>2, <2>3, <2>4, <3>1, <3>2
  <2>5. CASE ~(k < n)
    BY <1>1, <2>2, <2>3, <2>5
  <2> QED
    BY <2>4, <2>5
<1>5. \A k \in 0 .. N : w[k] = IF k < n THEN s[k+1] ELSE Null
  <2>1. Nat \subseteq ahead
    <3> HIDE DEF ahead
    <3> QED
      BY <1>3, <1>4, SetInduction
  <2> QED
    BY <1>1, <2>1
<1>6. ~Cyclic(h)
  <2>1. N \in 0 .. N /\ ~(N < n)
    BY <1>1
  <2> QED
    BY <1>5, <2>1 DEF Cyclic, w, N
<1>7. OnChain(h) = {w[k] : k \in 0 .. N} \ {Null}
  BY DEF OnChain, w, N
<1>8. ASSUME NEW i \in 1 .. n PROVE s[i] \in OnChain(h)
  <2>1. i - 1 \in 0 .. N /\ i - 1 < n /\ (i - 1) + 1 = i
    BY <1>1
  <2>2. w[i-1] = s[i] /\ s[i] # Null
    BY <1>1, <1>5, <2>1, HooksFacts
  <2> QED
    BY <1>7, <2>1, <2>2
<1>9. ASSUME NEW x \in OnChain(h) PROVE x \in Members(s, n)
  <2>1. PICK k \in 0 .. N : x = w[k] /\ x # Null
    BY <1>7
  <2>2. k < n /\ x = s[k+1] /\ k + 1 \in 1 .. n
    BY <1>1, <1>5, <2>1
  <2> QED
    BY <2>2 DEF Members
<1> QED
  BY <1>6, <1>8, <1>9 DEF Members

\* The list at the parser leads back into itself.
Looped == \E C \in SUBSET Hooks : hook \in C /\ \A x \in C : next[x] \in C

LEMMA LoopedIsCyclic == Looped => Cyclic(hook)
<1> SUFFICES ASSUME Looped PROVE Cyclic(hook)
  OBVIOUS
<1>1. PICK C \in SUBSET Hooks : hook \in C /\ \A x \in C : next[x] \in C
  BY DEF Looped
<1> DEFINE N == Cardinality(Hooks)
           w == HookWalk(hook)
           inside == {k \in Nat : k <= N => w[k] \in C}
<1>2. N \in Nat
  BY HooksFacts
<1>3. \A k \in 0 .. N : w[k] = IF k = 0 THEN hook
                               ELSE IF w[k-1] = Null THEN Null ELSE next[w[k-1]]
  <2>1. Walks(w, hook, N)
    BY HookWalkWalks
  <2> QED
    BY <2>1 DEF Walks
<1> HIDE DEF w, N
<1>4. 0 \in inside
  BY <1>1, <1>2, <1>3
<1>5. ASSUME NEW k \in Nat, k \in inside PROVE k + 1 \in inside
  <2>1. SUFFICES ASSUME k + 1 <= N PROVE w[k+1] \in C
    OBVIOUS
  <2>2. w[k] \in C /\ w[k] # Null
    BY <1>1, <1>2, <1>5, <2>1, HooksFacts
  <2>3. k + 1 \in 0 .. N /\ k + 1 # 0 /\ (k + 1) - 1 = k
    BY <1>2, <2>1
  <2> QED
    BY <1>1, <1>3, <2>2, <2>3
<1>6. w[N] \in C
  <2>1. Nat \subseteq inside
    <3> HIDE DEF inside
    <3> QED
      BY <1>4, <1>5, SetInduction
  <2> QED
    BY <1>2, <2>1
<1> QED
  BY <1>1, <1>6, HooksFacts DEF Cyclic, w, N

------------------------------------------------------------------------------
(* What is done to the lists. *)

\* The last of a list is where apreq_parser_add_hook stops.
LEMMA ListLast ==
  ASSUME NEW s, NEW n, NEW h, IsList(next, s, n, h), n > 0
  PROVE  LastOf(h) = s[n] /\ s[n] \in Hooks
<1>1. /\ n \in Nat /\ n \in 1 .. n /\ s \in [1 .. n -> Hooks]
      /\ \A i \in 1 .. n : next[s[i]] = IF i < n THEN s[i+1] ELSE Null
  BY DEF IsList
<1>2. OnChain(h) = Members(s, n)
  BY ListWalk
<1>3. s[n] \in OnChain(h) /\ next[s[n]] = Null
  BY <1>1, <1>2 DEF Members
<1>4. ASSUME NEW l \in OnChain(h), next[l] = Null PROVE l = s[n]
  <2>1. PICK i \in 1 .. n : l = s[i]
    BY <1>2 DEF Members
  <2>2. CASE i < n
    <3>1. i + 1 \in 1 .. n /\ s[i+1] # Null
      BY <1>1, <2>2, HooksFacts
    <3> QED
      BY <1>1, <1>4, <2>1, <2>2, <3>1
  <2> QED
    BY <1>1, <2>1, <2>2
<1> QED
  BY <1>1, <1>3, <1>4 DEF LastOf

\* A list that does not have the hook whose successor changes stays as it is.
LEMMA ListApart ==
  ASSUME NEW s, NEW n, NEW h, IsList(next, s, n, h),
         next \in [Hooks -> Hooks \cup {Null}],
         NEW x \in Hooks, NEW y, next' = [next EXCEPT ![x] = y], x \notin Members(s, n)
  PROVE  IsList(next', s, n, h)
<1>1. \A i \in 1 .. n : s[i] \in Hooks /\ next'[s[i]] = next[s[i]]
  BY DEF IsList, Members
<1> QED
  BY <1>1 DEF IsList

\* The links ny are the links nx, but that y comes after the hook x.
LinkSet(nx, ny, x, y) == ny = [nx EXCEPT ![x] = y]

\* Two lists have no common hook.
Apart(s, m, t, n) == Members(s, m) \cap Members(t, n) = {}

\* Two lists without a common hook are linked: the first goes on to the second.
Joined(s, m, t, n) == [i \in 1 .. m + n |-> IF i <= m THEN s[i] ELSE t[i - m]]

LEMMA ListsJoin ==
  ASSUME NEW nx, NEW ny, NEW s, NEW m, NEW h, IsList(nx, s, m, h), m > 0,
         NEW t, NEW n, NEW g, IsList(nx, t, n, g),
         Apart(s, m, t, n),
         nx \in [Hooks -> Hooks \cup {Null}],
         LinkSet(nx, ny, s[m], g)
  PROVE  /\ IsList(ny, Joined(s, m, t, n), m + n, h)
         /\ Members(Joined(s, m, t, n), m + n) = Members(s, m) \cup Members(t, n)
<1> DEFINE u == Joined(s, m, t, n)
<1>1. /\ m \in Nat /\ n \in Nat /\ m + n \in Nat
      /\ s \in [1 .. m -> Hooks] /\ t \in [1 .. n -> Hooks]
      /\ \A i, j \in 1 .. m : s[i] = s[j] => i = j
      /\ \A i, j \in 1 .. n : t[i] = t[j] => i = j
      /\ h = s[1] /\ g = IF n = 0 THEN Null ELSE t[1]
      /\ \A i \in 1 .. m : nx[s[i]] = IF i < m THEN s[i+1] ELSE Null
      /\ \A i \in 1 .. n : nx[t[i]] = IF i < n THEN t[i+1] ELSE Null
  BY DEF IsList
<1>2. s[m] \in Hooks
  BY <1>1
<1>3. \A i \in 1 .. m, j \in 1 .. n : s[i] # t[j]
  BY DEF Members, Apart
<1>4. \A x \in Hooks : ny[x] = IF x = s[m] THEN g ELSE nx[x]
  BY <1>2 DEF LinkSet
<1>5. \A i \in 1 .. m : i \in 1 .. m + n /\ u[i] = s[i]
  BY <1>1 DEF Joined
<1>6. \A i \in 1 .. n : m + i \in 1 .. m + n /\ u[m+i] = t[i]
  BY <1>1 DEF Joined
<1>7. ASSUME NEW k \in 1 .. m + n
      PROVE  (k \in 1 .. m /\ u[k] = s[k]) \/ (k - m \in 1 .. n /\ u[k] = t[k-m])
  BY <1>1 DEF Joined
<1>8. u \in [1 .. m + n -> Hooks]
  <2>1. u = [k \in 1 .. m + n |-> u[k]]
    BY DEF Joined
  <2>2. \A k \in 1 .. m + n : u[k] \in Hooks
    BY <1>1, <1>7
  <2> HIDE DEF u
  <2> QED
    BY <2>1, <2>2
<1>9. ASSUME NEW k \in 1 .. m + n, NEW l \in 1 .. m + n, u[k] = u[l] PROVE k = l
  <2>1. CASE k \in 1 .. m /\ l \in 1 .. m
    BY <1>1, <1>5, <1>9, <2>1
  <2>2. CASE k \in 1 .. m /\ l \notin 1 .. m
    BY <1>3, <1>5, <1>7, <1>9, <2>2
  <2>3. CASE k \notin 1 .. m /\ l \in 1 .. m
    BY <1>3, <1>5, <1>7, <1>9, <2>3
  <2>4. CASE k \notin 1 .. m /\ l \notin 1 .. m
    <3>1. k - m \in 1 .. n /\ l - m \in 1 .. n /\ t[k-m] = t[l-m]
      BY <1>7, <1>9, <2>4
    <3>2. k - m = l - m
      BY <1>1, <3>1
    <3> QED
      BY <1>1, <3>2
  <2> QED
    BY <2>1, <2>2, <2>3, <2>4
<1>10. h = IF m + n = 0 THEN Null ELSE u[1]
  BY <1>1, <1>5
<1>11. ASSUME NEW k \in 1 .. m + n
       PROVE  ny[u[k]] = IF k < m + n THEN u[k+1] ELSE Null
  <2>1. CASE k \in 1 .. m /\ k < m
    <3>1. u[k] = s[k] /\ s[k] # s[m] /\ s[k] \in Hooks
      BY <1>1, <1>5, <2>1
    <3>2. k + 1 \in 1 .. m /\ u[k+1] = s[k+1] /\ k < m + n
      BY <1>1, <1>5, <2>1
    <3> QED
      BY <1>1, <1>4, <2>1, <3>1, <3>2
  <2>2. CASE k = m
    <3>1. u[k] = s[m] /\ ny[u[k]] = g
      BY <1>1, <1>2, <1>4, <1>5, <2>2
    <3>2. CASE n = 0
      BY <1>1, <2>2, <3>1, <3>2
    <3>3. CASE n # 0
      <4>1. 1 \in 1 .. n /\ u[m+1] = t[1] /\ k < m + n
        BY <1>1, <1>6, <2>2, <3>3
      <4> QED
        BY <1>1, <2>2, <3>1, <3>3, <4>1
    <3> QED
      BY <3>2, <3>3
  <2>3. CASE k \notin 1 .. m
    <3> DEFINE i == k - m
    <3>1. i \in 1 .. n /\ u[k] = t[i] /\ k = m + i
      <4>1. k - m \in 1 .. n /\ u[k] = t[k-m]
        BY <1>7, <2>3
      <4> QED
        BY <1>1, <4>1
    <3> HIDE DEF i
    <3>2. t[i] # s[m] /\ t[i] \in Hooks /\ ny[t[i]] = nx[t[i]]
      BY <1>1, <1>3, <1>4, <3>1
    <3>3. CASE i < n
      <4>1. i + 1 \in 1 .. n /\ m + (i + 1) = k + 1 /\ k < m + n
        BY <1>1, <3>1, <3>3
      <4>2. u[k+1] = t[i+1]
        BY <1>6, <4>1
      <4> QED
        BY <1>1, <3>1, <3>2, <3>3, <4>1, <4>2
    <3>4. CASE ~(i < n)
      <4>1. ~(k < m + n)
        BY <1>1, <3>1, <3>4
      <4> QED
        BY <1>1, <3>1, <3>2, <3>4, <4>1
    <3> QED
      BY <3>3, <3>4
  <2> QED
    BY <1>1, <2>1, <2>2, <2>3
<1>12. Members(u, m + n) = Members(s, m) \cup Members(t, n)
  <2>1. Members(u, m + n) \subseteq Members(s, m) \cup Members(t, n)
    BY <1>7 DEF Members
  <2>2. Members(s, m) \subseteq Members(u, m + n)
    BY <1>5 DEF Members
  <2>3. Members(t, n) \subseteq Members(u, m + n)
    BY <1>6 DEF Members
  <2> QED
    BY <2>1, <2>2, <2>3
<1>13. IsList(ny, u, m + n, h)
  <2> HIDE DEF u
  <2> QED
    BY <1>1, <1>8, <1>9, <1>10, <1>11 DEF IsList
<1> QED
  BY <1>12, <1>13

\* A hook that is on no list and leads nowhere is a list by itself.
LEMMA ListOfOne ==
  ASSUME NEW h \in Hooks, next[h] = Null
  PROVE  LET s == [i \in 1 .. 1 |-> h] IN IsList(next, s, 1, h) /\ Members(s, 1) = {h}
BY DEF IsList, Members

\* A list without its first hook.
LEMMA ListRest ==
  ASSUME NEW s, NEW n, NEW h, IsList(next, s, n, h), n > 0, next' = next
  PROVE  LET r == [i \in 1 .. n - 1 |-> s[i+1]]
         IN  /\ IsList(next', r, n - 1, next[h])
             /\ Members(s, n) = {h} \cup Members(r, n - 1)
<1> DEFINE r == [i \in 1 .. n - 1 |-> s[i+1]]
<1>1. /\ n \in Nat /\ n - 1 \in Nat /\ s \in [1 .. n -> Hooks] /\ h = s[1] /\ 1 \in 1 .. n
      /\ \A i, j \in 1 .. n : s[i] = s[j] => i = j
      /\ \A i \in 1 .. n : next[s[i]] = IF i < n THEN s[i+1] ELSE Null
  BY DEF IsList
<1>2. \A i \in 1 .. n - 1 : i + 1 \in 1 .. n /\ r[i] = s[i+1]
  BY <1>1
<1>3. r \in [1 .. n - 1 -> Hooks]
  BY <1>1
<1>4. ASSUME NEW i \in 1 .. n - 1, NEW j \in 1 .. n - 1, r[i] = r[j] PROVE i = j
  <2>1. i + 1 = j + 1
    BY <1>1, <1>2, <1>4
  <2> QED
    BY <1>1, <2>1
<1>5. next[h] = IF n - 1 = 0 THEN Null ELSE r[1]
  BY <1>1
<1>6. ASSUME NEW i \in 1 .. n - 1
      PROVE  next[r[i]] = IF i < n - 1 THEN r[i+1] ELSE Null
  <2>1. next[r[i]] = IF i + 1 < n THEN s[(i+1)+1] ELSE Null
    BY <1>1, <1>2
  <2>2. CASE i < n - 1
    <3>1. i + 1 < n /\ i + 1 \in 1 .. n - 1
      BY <1>1, <2>2
    <3> QED
      BY <1>2, <2>1, <2>2, <3>1
  <2> QED
    BY <1>1, <2>1, <2>2
<1>7. IsList(next', r, n - 1, next[h])
  <2> HIDE DEF r
  <2> QED
    BY <1>1, <1>3, <1>4, <1>5, <1>6 DEF IsList
<1>8. Members(s, n) = {h} \cup Members(r, n - 1)
  <2>1. ASSUME NEW i \in 1 .. n PROVE s[i] \in {h} \cup Members(r, n - 1)
    <3>1. CASE i = 1
      BY <1>1, <3>1
    <3>2. CASE i # 1
      <4>1. i - 1 \in 1 .. n - 1 /\ (i - 1) + 1 = i
        BY <1>1, <3>2
      <4>2. r[i-1] = s[i]
        BY <1>2, <4>1
      <4> QED
        BY <4>1, <4>2 DEF Members
    <3> QED
      BY <3>1, <3>2
  <2>2. {h} \cup Members(r, n - 1) \subseteq Members(s, n)
    BY <1>1, <1>2 DEF Members
  <2> QED
    BY <2>1, <2>2 DEF Members
<1> QED
  BY <1>7, <1>8

------------------------------------------------------------------------------
(* The lists of the parser and of the queue. *)

\* The parser's list and the queue are lists without a common hook.
InOrder(s, m, t, n) ==
    /\ IsList(next, s, m, hook) /\ IsList(next, t, n, hook_queue)
    /\ Members(s, m) \cap Members(t, n) = {}

Ordered == \E s, m, t, n : InOrder(s, m, t, n)

ListsInv == Ordered \/ (Looped /\ hook_queue = Null)

\* What a step owes to the application: the list has no end, or has its hooks.
Kept == Looped' \/ Listed \subseteq Listed'

LEMMA InOrderListed ==
  \A s, m, t, n : InOrder(s, m, t, n)
                     => Listed = (Members(s, m) \cup Members(t, n)) \ {Find}
BY ListWalk DEF InOrder, Listed

LEMMA InOrderListedNext ==
  \A s, m, t, n :
     /\ IsList(next', s, m, hook') /\ IsList(next', t, n, hook_queue')
     /\ Members(s, m) \cap Members(t, n) = {}
     => Ordered' /\ Listed' = (Members(s, m) \cup Members(t, n)) \ {Find}
<1>1. (\A s, m, t, n : InOrder(s, m, t, n)
                     => Listed = (Members(s, m) \cup Members(t, n)) \ {Find})'
  BY InOrderListed, PTL
<1> QED
  BY <1>1 DEF InOrder, Ordered

LEMMA EmptyList == \A s, n : IsList(next, s, n, Null) => n = 0 /\ Members(s, n) = {}
<1> SUFFICES ASSUME NEW s, NEW n, IsList(next, s, n, Null)
             PROVE  n = 0 /\ Members(s, n) = {}
  OBVIOUS
<1>1. n \in Nat /\ s \in [1 .. n -> Hooks] /\ Null = IF n = 0 THEN Null ELSE s[1]
  BY DEF IsList
<1>2. n = 0
  <2>1. n # 0 => s[1] \in Hooks
    BY <1>1
  <2> QED
    BY <1>1, <2>1, HooksFacts
<1> QED
  BY <1>2 DEF Members

LEMMA NoList == LET s == [i \in 1 .. 0 |-> Null]
                IN  IsList(next', s, 0, Null) /\ Members(s, 0) = {}
BY DEF IsList, Members

LEMMA ListsSame ==
  ASSUME ListsInv, UNCHANGED <<hook, hook_queue, next>>
  PROVE  ListsInv' /\ Kept
<1>1. ListsInv'
  BY DEF ListsInv, Ordered, InOrder, Looped
<1>2. CASE Ordered
  <2>1. PICK s, m, t, n : InOrder(s, m, t, n)
    BY <1>2 DEF Ordered
  <2> QED
    BY <1>1, <2>1, InOrderListed, InOrderListedNext DEF InOrder, Kept
<1>3. CASE Looped
  BY <1>1, <1>3 DEF Kept, Looped
<1> QED
  BY <1>1, <1>2, <1>3 DEF ListsInv

\* The parser is made with the queue for its list.
LEMMA ListsMake ==
  ASSUME ListsInv, hook = Null, hook' = hook_queue, hook_queue' = Null, next' = next
  PROVE  ListsInv' /\ Kept
<1>1. ~Looped
  BY HooksFacts DEF Looped
<1>2. PICK s, m, t, n : InOrder(s, m, t, n)
  BY <1>1 DEF ListsInv, Ordered
<1>3. IsList(next', t, n, hook') /\ Members(s, m) = {}
  BY <1>2, EmptyList DEF InOrder
<1> DEFINE e == [i \in 1 .. 0 |-> Null]
<1>4. IsList(next', e, 0, hook_queue') /\ Members(e, 0) = {}
  BY NoList
<1> HIDE DEF e
<1>5. Ordered' /\ Listed' = Members(t, n) \ {Find}
  BY <1>3, <1>4, InOrderListedNext
<1> QED
  BY <1>2, <1>3, <1>5, InOrderListed DEF ListsInv, Kept

\* The queue goes in front of the list of the parser.
LEMMA ListsMerge ==
  ASSUME TypeOK, ListsInv, hook_queue # Null, AddHook(hook_queue), hook_queue' = Null
  PROVE  ListsInv' /\ Kept
<1>1. PICK s, m, t, n : InOrder(s, m, t, n)
  BY DEF ListsInv, Ordered
<1>2. /\ IsList(next, s, m, hook) /\ IsList(next, t, n, hook_queue)
      /\ Apart(t, n, s, m) /\ n > 0
  BY <1>1 DEF InOrder, IsList, Apart
<1>3. /\ next' = [next EXCEPT ![LastOf(hook_queue)] = hook] /\ hook' = hook_queue
      /\ next \in [Hooks -> Hooks \cup {Null}]
  BY DEF AddHook, TypeOK
<1> DEFINE u == Joined(t, n, s, m)
<1>4. /\ IsList(next', u, n + m, hook')
      /\ Members(u, n + m) = Members(t, n) \cup Members(s, m)
  <2>1. /\ IsList(next', u, n + m, hook_queue)
        /\ Members(u, n + m) = Members(t, n) \cup Members(s, m)
    <3>1. LastOf(hook_queue) = t[n]
      BY <1>2, ListLast
    <3>2. LinkSet(next, next', t[n], hook)
      BY <1>3, <3>1 DEF LinkSet
    <3> QED
      BY <1>2, <1>3, <3>2, ListsJoin
  <2> QED
    BY <1>3, <2>1
<1> DEFINE e == [i \in 1 .. 0 |-> Null]
<1>5. IsList(next', e, 0, hook_queue') /\ Members(e, 0) = {}
  BY NoList
<1> HIDE DEF e, u
<1>6. Ordered' /\ Listed' = Members(u, n + m) \ {Find}
  <2>1. Members(u, n + m) \cap Members(e, 0) = {} /\ Members(u, n + m) \cup Members(e, 0) = Members(u, n + m)
    BY <1>5
  <2> QED
    BY <1>4, <1>5, <2>1, InOrderListedNext
<1> QED
  BY <1>1, <1>4, <1>6, InOrderListed DEF ListsInv, Kept

\* A new hook goes in front of the list of the parser.
LEMMA ListsPush ==
  ASSUME TypeOK, ListsInv, NEW h \in Hooks, FreshHook(h), AddHook(h), hook_queue' = hook_queue
  PROVE  ListsInv' /\ Kept
<1> DEFINE o == [i \in 1 .. 1 |-> h]
<1>1. IsList(next, o, 1, h) /\ Members(o, 1) = {h}
  BY ListOfOne DEF FreshHook
<1> HIDE DEF o
<1>2. /\ next' = [next EXCEPT ![LastOf(h)] = hook] /\ hook' = h
      /\ next \in [Hooks -> Hooks \cup {Null}]
  BY DEF AddHook, TypeOK
<1>3. LastOf(h) = h
  <2>1. LastOf(h) = o[1] /\ o[1] \in Members(o, 1)
    BY <1>1, ListLast DEF Members
  <2> QED
    BY <1>1, <2>1
<1>4. CASE Ordered
  <2>1. PICK s, m, t, n : InOrder(s, m, t, n)
    BY <1>4 DEF Ordered
  <2>2. h \notin Members(s, m) /\ h \notin Members(t, n)
    BY <2>1, ListWalk DEF FreshHook, InOrder
  <2> DEFINE u == Joined(o, 1, s, m)
  <2>3. /\ IsList(next', u, 1 + m, hook')
        /\ Members(u, 1 + m) = {h} \cup Members(s, m)
    <3>1. IsList(next, s, m, hook) /\ Apart(o, 1, s, m) /\ 1 > 0
      BY <1>1, <2>1, <2>2 DEF InOrder, Apart
    <3>3. LinkSet(next, next', o[1], hook)
      <4>1. LastOf(h) = o[1]
        BY <1>1, ListLast
      <4> QED
        BY <1>2, <4>1 DEF LinkSet
    <3>2. IsList(next', u, 1 + m, h) /\ Members(u, 1 + m) = Members(o, 1) \cup Members(s, m)
      BY <1>1, <1>2, <3>1, <3>3, ListsJoin
    <3> QED
      BY <1>1, <1>2, <3>2
  <2>4. IsList(next', t, n, hook_queue')
    BY <1>2, <1>3, <2>1, <2>2, ListApart DEF InOrder
  <2> HIDE DEF u
  <2>5. Ordered' /\ Listed' = (Members(u, 1 + m) \cup Members(t, n)) \ {Find}
    BY <2>1, <2>2, <2>3, <2>4, InOrderListedNext DEF InOrder
  <2> QED
    BY <2>1, <2>3, <2>5, InOrderListed DEF ListsInv, Kept
<1>5. CASE Looped /\ hook_queue = Null
  <2>1. PICK C \in SUBSET Hooks : hook \in C /\ \A x \in C : next[x] \in C
    BY <1>5 DEF Looped
  <2> DEFINE D == C \cup {h}
  <2>2. D \in SUBSET Hooks /\ hook' \in D /\ \A x \in D : next'[x] \in D
    BY <1>2, <1>3, <2>1
  <2>3. Looped'
    <3> HIDE DEF D
    <3> QED
      BY <2>2 DEF Looped
  <2> QED
    BY <1>5, <2>3 DEF ListsInv, Kept
<1> QED
  BY <1>4, <1>5 DEF ListsInv

\* A new hook goes to the end of the queue, while there is no parser.
LEMMA ListsQueue ==
  ASSUME TypeOK, ListsInv, NEW h \in Hooks, FreshHook(h), hook = Null, hook' = hook,
         IF hook_queue # Null
         THEN next' = [next EXCEPT ![LastOf(hook_queue)] = h] /\ hook_queue' = hook_queue
         ELSE next' = next /\ hook_queue' = h
  PROVE  ListsInv' /\ Kept
<1> DEFINE o == [i \in 1 .. 1 |-> h]
<1>1. IsList(next, o, 1, h) /\ Members(o, 1) = {h}
  BY ListOfOne DEF FreshHook
<1> HIDE DEF o
<1>2. ~Looped
  BY HooksFacts DEF Looped
<1>3. PICK s, m, t, n : InOrder(s, m, t, n)
  BY <1>2 DEF ListsInv, Ordered
<1>4. h \notin Members(t, n) /\ Members(s, m) = {}
  BY <1>3, ListWalk, EmptyList DEF FreshHook, InOrder
<1> DEFINE e == [i \in 1 .. 0 |-> Null]
<1>5. IsList(next', e, 0, hook') /\ Members(e, 0) = {}
  BY NoList
<1> HIDE DEF e
<1>6. CASE hook_queue # Null
  <2>1. n > 0 /\ next \in [Hooks -> Hooks \cup {Null}]
    <3>1. next \in [Hooks -> Hooks \cup {Null}]
      BY DEF TypeOK
    <3>2. n \in Nat /\ n # 0
      BY <1>3, <1>6 DEF InOrder, IsList
    <3> QED
      BY <3>1, <3>2
  <2> DEFINE u == Joined(t, n, o, 1)
  <2>2. /\ IsList(next', u, n + 1, hook_queue')
        /\ Members(u, n + 1) = Members(t, n) \cup {h}
    <3>1. IsList(next, t, n, hook_queue) /\ Apart(t, n, o, 1)
      BY <1>1, <1>3, <1>4 DEF InOrder, Apart
    <3>2. LinkSet(next, next', t[n], h) /\ hook_queue' = hook_queue
      <4>1. LastOf(hook_queue) = t[n]
        BY <2>1, <3>1, ListLast
      <4> QED
        BY <1>6, <4>1 DEF LinkSet
    <3>3. IsList(next', u, n + 1, hook_queue) /\ Members(u, n + 1) = Members(t, n) \cup Members(o, 1)
      BY <1>1, <2>1, <3>1, <3>2, ListsJoin
    <3> QED
      BY <1>1, <3>2, <3>3
  <2> HIDE DEF u
  <2>3. Ordered' /\ Listed' = Members(u, n + 1) \ {Find}
    <3>1. Members(e, 0) \cap Members(u, n + 1) = {} /\ Members(e, 0) \cup Members(u, n + 1) = Members(u, n + 1)
      BY <1>5
    <3> QED
      BY <1>5, <2>2, <3>1, InOrderListedNext
  <2> QED
    BY <1>3, <1>4, <2>2, <2>3, InOrderListed DEF ListsInv, Kept
<1>7. CASE hook_queue = Null
  <2>1. IsList(next', o, 1, hook_queue')
    BY <1>1, <1>7
  <2>2. Ordered' /\ Listed' = Members(o, 1) \ {Find}
    BY <1>5, <2>1, InOrderListedNext
  <2>3. Members(t, n) = {}
    BY <1>3, <1>7, EmptyList DEF InOrder
  <2> QED
    BY <1>3, <1>4, <2>2, <2>3, InOrderListed DEF ListsInv, Kept
<1> QED
  BY <1>6, <1>7

\* The find_param hook is put at the head; when it is on the list already, the
\* part of the list up to it leads back to itself.
LEMMA ListsInstall ==
  ASSUME TypeOK, ListsInv, InstallFind, hook_queue = Null, hook_queue' = Null
  PROVE  ListsInv' /\ Kept
<1>1. /\ next' = [next EXCEPT ![Find] = hook] /\ hook' = Find
      /\ next \in [Hooks -> Hooks \cup {Null}] /\ Find \in Hooks
  BY HooksFacts DEF InstallFind, TypeOK
<1>2. CASE Looped
  <2>1. PICK C \in SUBSET Hooks : hook \in C /\ \A x \in C : next[x] \in C
    BY <1>2 DEF Looped
  <2> DEFINE D == C \cup {Find}
  <2>2. D \in SUBSET Hooks /\ hook' \in D /\ \A x \in D : next'[x] \in D
    BY <1>1, <2>1
  <2>3. Looped'
    <3> HIDE DEF D
    <3> QED
      BY <2>2 DEF Looped
  <2> QED
    BY <2>3 DEF ListsInv, Kept
<1>3. CASE Ordered
  <2>1. PICK s, m, t, n : InOrder(s, m, t, n)
    BY <1>3 DEF Ordered
  <2>2. /\ m \in Nat /\ s \in [1 .. m -> Hooks] /\ hook = IF m = 0 THEN Null ELSE s[1]
        /\ \A i, j \in 1 .. m : s[i] = s[j] => i = j
        /\ \A i \in 1 .. m : next[s[i]] = IF i < m THEN s[i+1] ELSE Null
        /\ Members(t, n) = {}
    BY <2>1, EmptyList DEF InOrder, IsList
  <2>3. CASE Find \in Members(s, m)
    <3>1. PICK j \in 1 .. m : s[j] = Find
      BY <2>3 DEF Members
    <3> DEFINE C == {s[i] : i \in 1 .. j}
    <3>2. C \in SUBSET Hooks /\ hook' \in C
      BY <1>1, <2>2, <3>1
    <3>3. ASSUME NEW i \in 1 .. j PROVE next'[s[i]] \in C
      <4>1. CASE i = j
        <5>1. next'[s[i]] = s[1] /\ 1 \in 1 .. j
          BY <1>1, <2>2, <3>1, <4>1
        <5> QED
          BY <5>1
      <4>2. CASE i # j
        <5>1. i \in 1 .. m /\ i < m /\ s[i] # Find /\ s[i] \in Hooks
          BY <2>2, <3>1, <4>2
        <5>2. next'[s[i]] = s[i+1] /\ i + 1 \in 1 .. j
          BY <1>1, <2>2, <3>1, <4>2, <5>1
        <5> QED
          BY <5>2
      <4> QED
        BY <4>1, <4>2
    <3>4. Looped'
      <4>1. \A x \in C : next'[x] \in C
        BY <3>3
      <4> HIDE DEF C
      <4> QED
        BY <3>2, <4>1 DEF Looped
    <3> QED
      BY <3>4 DEF ListsInv, Kept
  <2>4. CASE Find \notin Members(s, m)
    <3> DEFINE u == [i \in 1 .. m + 1 |-> IF i = 1 THEN Find ELSE s[i-1]]
    <3>1. \A i \in 1 .. m : s[i] # Find /\ s[i] \in Hooks /\ next'[s[i]] = next[s[i]]
      BY <1>1, <2>2, <2>4 DEF Members
    <3>2. u[1] = Find /\ \A i \in 1 .. m : i + 1 \in 1 .. m + 1 /\ u[i+1] = s[i]
      BY <2>2
    <3>3. \A k \in 1 .. m + 1 : k = 1 \/ (k - 1 \in 1 .. m /\ u[k] = s[k-1])
      BY <2>2
    <3>4. u \in [1 .. m + 1 -> Hooks]
      BY <1>1, <2>2, <3>3
    <3>5. ASSUME NEW k \in 1 .. m + 1, NEW l \in 1 .. m + 1, u[k] = u[l] PROVE k = l
      <4>1. CASE k = 1 \/ l = 1
        BY <3>1, <3>2, <3>3, <3>5, <4>1
      <4>2. CASE k # 1 /\ l # 1
        <5>1. k - 1 = l - 1
          BY <2>2, <3>3, <3>5, <4>2
        <5> QED
          BY <2>2, <5>1
      <4> QED
        BY <4>1, <4>2
    <3>6. ASSUME NEW k \in 1 .. m + 1
          PROVE  next'[u[k]] = IF k < m + 1 THEN u[k+1] ELSE Null
      <4>1. CASE k = 1
        <5>1. next'[u[k]] = hook
          BY <1>1, <3>2, <4>1
        <5>2. m # 0 => u[2] = s[1]
          BY <2>2, <3>2
        <5> QED
          BY <2>2, <4>1, <5>1, <5>2
      <4>2. CASE k # 1
        <5>1. k - 1 \in 1 .. m /\ u[k] = s[k-1]
          BY <3>3, <4>2
        <5>2. next'[u[k]] = IF k - 1 < m THEN s[(k-1)+1] ELSE Null
          BY <2>2, <3>1, <5>1
        <5>3. CASE k < m + 1
          <6>1. k \in 1 .. m /\ (k - 1) + 1 = k /\ u[k+1] = s[k] /\ k - 1 < m
            BY <2>2, <3>2, <5>3
          <6> QED
            BY <5>2, <5>3, <6>1
        <5>4. CASE ~(k < m + 1)
          BY <2>2, <5>2, <5>4
        <5> QED
          BY <5>3, <5>4
      <4> QED
        BY <4>1, <4>2
    <3>7. IsList(next', u, m + 1, hook')
      <4>1. m + 1 \in Nat /\ hook' = IF m + 1 = 0 THEN Null ELSE u[1]
        BY <1>1, <2>2, <3>2
      <4> HIDE DEF u
      <4> QED
        BY <3>4, <3>5, <3>6, <4>1 DEF IsList
    <3>8. Members(s, m) \subseteq Members(u, m + 1)
      BY <3>2 DEF Members
    <3> HIDE DEF u
    <3> DEFINE e == [i \in 1 .. 0 |-> Null]
    <3>9. IsList(next', e, 0, hook_queue') /\ Members(e, 0) = {}
      BY NoList
    <3> HIDE DEF e
    <3>10. Ordered' /\ Listed' = Members(u, m + 1) \ {Find}
      <4>1. Members(u, m + 1) \cap Members(e, 0) = {} /\ Members(u, m + 1) \cup Members(e, 0) = Members(u, m + 1)
        BY <3>9
      <4> QED
        BY <3>7, <3>9, <4>1, InOrderListedNext
    <3> QED
      BY <2>1, <2>2, <3>8, <3>10, InOrderListed DEF ListsInv, Kept
  <2> QED
    BY <2>3, <2>4
<1> QED
  BY <1>2, <1>3 DEF ListsInv

\* The find_param hook that found nothing leaves the head.
LEMMA ListsDrop ==
  ASSUME TypeOK, ListsInv, hook = Find, hook' = next[Find], UNCHANGED <<next, hook_queue>>
  PROVE  ListsInv' /\ Kept
<1>1. CASE Looped /\ hook_queue = Null
  <2>1. Looped'
    BY <1>1 DEF Looped
  <2> QED
    BY <1>1, <2>1 DEF ListsInv, Kept
<1>2. CASE Ordered
  <2>1. PICK s, m, t, n : InOrder(s, m, t, n)
    BY <1>2 DEF Ordered
  <2>2. IsList(next, s, m, Find) /\ m > 0
    <3>1. IsList(next, s, m, Find)
      BY <2>1 DEF InOrder
    <3>2. m \in Nat /\ m # 0
      BY <3>1, HooksFacts DEF IsList
    <3> QED
      BY <3>1, <3>2
  <2> DEFINE r == [i \in 1 .. m - 1 |-> s[i+1]]
  <2>3. /\ IsList(next', r, m - 1, hook')
        /\ Members(s, m) = {Find} \cup Members(r, m - 1)
    BY <2>2, ListRest
  <2> HIDE DEF r
  <2>4. IsList(next', t, n, hook_queue') /\ Members(r, m - 1) \cap Members(t, n) = {}
    BY <2>1, <2>3 DEF InOrder
  <2>5. Ordered' /\ Listed' = (Members(r, m - 1) \cup Members(t, n)) \ {Find}
    BY <2>3, <2>4, InOrderListedNext
  <2> QED
    BY <2>1, <2>3, <2>5, InOrderListed DEF ListsInv, Kept
<1> QED
  BY <1>1, <1>2 DEF ListsInv
------------------------------------------------------------------------------
(* No hook of the application is lost. *)

Getting == pc \in {"first", "lookup", "scan", "test"}

\* Before there is a parser it has no hooks; while there is parsing to do there
\* is one, and no queue; the find_param hook follows itself (ctx->prev is read
\* after the head was assigned), so what it unlinks is nothing.
HookInv ==
    /\ parser = NoParser => hook = Null
    /\ body_status = "INCOMPLETE" \/ Getting => hook_queue = Null /\ parser # NoParser
    /\ find.prev = Find \/ find.name = Null
    /\ ListsInv

\* A step that touches no list of hooks.
LEMMA QuietHooks ==
  ASSUME HookInv, UNCHANGED <<parser, hook, hook_queue, next>>,
         find'.prev = find.prev, find'.name = find.name,
         body_status' = "INCOMPLETE" \/ Getting' => body_status = "INCOMPLETE" \/ Getting
  PROVE  HookInv' /\ Kept
<1>1. ListsInv' /\ Kept
  BY ListsSame DEF HookInv
<1> QED
  BY <1>1 DEF HookInv

\* The find_param hook, when it has found its parameter, links its predecessor
\* to its successor: with itself for a predecessor that changes no link.
LEMMA RunHooksQuiet ==
  ASSUME TypeOK, HookInv, NEW new \in SUBSET Names, RunHooks(new)
  PROVE  next' = next /\ find'.prev = find.prev /\ find'.name = find.name
<1>1. /\ find \in [name: Names \cup {Null}, param: BOOLEAN, prev: Hooks \cup {Null}]
      /\ next \in [Hooks -> Hooks \cup {Null}]
  BY DEF TypeOK
<1>2. CASE Find \in OnChain(hook) /\ find.name \in new /\ ~find.param
  <2>1. find.prev = Find
    BY <1>2, NamesAssumption DEF HookInv
  <2>2. find' = [find EXCEPT !.param = TRUE] /\ next' = [next EXCEPT ![Find] = next[Find]]
    BY <1>2, <2>1 DEF RunHooks
  <2> QED
    BY <1>1, <2>2
<1>3. CASE ~(Find \in OnChain(hook) /\ find.name \in new /\ ~find.param)
  BY <1>3 DEF RunHooks
<1> QED
  BY <1>2, <1>3

LEMMA CountAndFeedQuiet ==
  ASSUME TypeOK, HookInv, NEW q, NEW resume, CountAndFeed(q, resume)
  PROVE  /\ next' = next /\ find'.prev = find.prev /\ find'.name = find.name
         /\ pc' \in {resume, "overflow"}
<1>1. CASE PastLimit
  BY <1>1 DEF CountAndFeed
<1>2. CASE ~PastLimit
  <2>1. Feed(q, resume)
    BY <1>2 DEF CountAndFeed
  <2>2. PICK m : IF Completed(m) # {} /\ Cyclic(hook)
                 THEN /\ pc' = "overflow"
                      /\ UNCHANGED <<body_status, body, find, next>>
                 ELSE pc' = resume /\ RunHooks(Completed(m))
    BY <2>1 DEF Feed
  <2>3. Completed(m) \in SUBSET Names
    BY DEF Completed
  <2>4. CASE Completed(m) # {} /\ Cyclic(hook)
    BY <2>2, <2>4
  <2>5. CASE ~(Completed(m) # {} /\ Cyclic(hook))
    BY <2>2, <2>3, <2>5, RunHooksQuiet
  <2> QED
    BY <2>4, <2>5
<1> QED
  BY <1>1, <1>2

LEMMA PrefetchHooks ==
  ASSUME TypeOK, HookInv, NEW resume, Prefetch(resume), UNCHANGED settings,
         resume \in {"lookup", "scan", "test"} => Getting,
         resume # "first"
  PROVE  HookInv' /\ Kept
<1>1. /\ next' = next /\ find'.prev = find.prev /\ find'.name = find.name
      /\ pc' \in {resume, "overflow"}
      /\ body_status' = "INCOMPLETE" => body_status = "INCOMPLETE"
  <2>1. CASE PrefetchRefused(resume)
    BY <2>1 DEF PrefetchRefused
  <2>2. CASE PrefetchBroken(resume)
    BY <2>2 DEF PrefetchBroken
  <2>3. CASE PrefetchUnspooled(resume)
    BY <2>3 DEF PrefetchUnspooled
  <2>4. CASE PrefetchPiece(resume)
    <3>1. body_status = "INCOMPLETE" /\ \E q : CountAndFeed(q, resume)
      BY <2>4 DEF PrefetchPiece
    <3> QED
      BY <3>1, CountAndFeedQuiet
  <2> QED
    BY <2>1, <2>2, <2>3, <2>4 DEF Prefetch
<1>2. Getting' => Getting
  BY <1>1 DEF Getting
<1> QED
  BY <1>1, <1>2, QuietHooks

\* The context is readied: the queue becomes the parser's list or joins it.
LEMMA InitContextHooks ==
  ASSUME TypeOK, HookInv, InitContext
  PROVE  /\ ListsInv' /\ Kept
         /\ parser' = NoParser => hook' = Null
         /\ body_status' = "INCOMPLETE" => hook_queue' = Null /\ parser' # NoParser
         /\ find' = find
<1>1. find' = find /\ body_status' = InitOutcome
  BY DEF InitContext
<1>2. CASE InitOutcome # "INCOMPLETE"
  <2>1. UNCHANGED <<parser, hook, hook_queue, next>>
    BY <1>2 DEF InitContext
  <2>2. ListsInv' /\ Kept
    BY <2>1, ListsSame DEF HookInv
  <2> QED
    BY <1>1, <1>2, <2>1, <2>2 DEF HookInv
<1>3. CASE InitOutcome = "INCOMPLETE" /\ parser = NoParser
  <2>1. /\ parser' = [limit |-> brigade_limit, dir |-> temp_dir]
        /\ hook' = hook_queue /\ hook_queue' = Null /\ next' = next
    BY <1>3 DEF InitContext, MakeParser
  <2>2. brigade_limit \in Nat
    BY DEF TypeOK
  <2>3. parser' # NoParser
    <3>1. parser'.limit = brigade_limit /\ NoParser.limit = -1
      BY <2>1 DEF NoParser
    <3> QED
      BY <2>2, <3>1
  <2>4. ListsInv' /\ Kept
    BY <1>3, <2>1, ListsMake DEF HookInv
  <2> QED
    BY <1>1, <2>1, <2>3, <2>4
<1>4. CASE InitOutcome = "INCOMPLETE" /\ parser # NoParser
  <2>1. MergeParser /\ hook_queue' = Null
    BY <1>4 DEF InitContext
  <2>2. parser.limit \in Nat /\ brigade_limit \in Nat
    BY <1>4 DEF TypeOK, ParserType
  <2>3. parser' # NoParser
    <3>1. parser'.limit = Least(parser.limit, brigade_limit) /\ NoParser.limit = -1
      BY <2>1 DEF MergeParser, NoParser
    <3>2. Least(parser.limit, brigade_limit) \in Nat
      BY <2>2 DEF Least
    <3> QED
      BY <3>1, <3>2
  <2>4. CASE hook_queue # Null
    <3>1. AddHook(hook_queue)
      BY <2>1, <2>4 DEF MergeParser
    <3>2. ListsInv' /\ Kept
      BY <2>1, <2>4, <3>1, ListsMerge DEF HookInv
    <3> QED
      BY <1>1, <2>1, <2>3, <3>2
  <2>5. CASE hook_queue = Null
    <3>1. UNCHANGED <<hook, hook_queue, next>>
      BY <2>1, <2>5 DEF MergeParser
    <3>2. ListsInv' /\ Kept
      BY <3>1, ListsSame DEF HookInv
    <3> QED
      BY <1>1, <2>1, <2>3, <3>2
  <2> QED
    BY <2>4, <2>5
<1> QED
  BY <1>2, <1>3, <1>4

LEMMA HookAddHooks ==
  ASSUME TypeOK, HookInv, NEW h \in UserHooks, HookAdd(h)
  PROVE  HookInv' /\ Kept
<1>1. /\ h \in Hooks /\ FreshHook(h) /\ pc = "idle" /\ pc' = pc
      /\ parser' = parser /\ body_status' = body_status /\ find' = find
  BY DEF HookAdd, Hooks
<1>2. CASE parser # NoParser
  <2>1. AddHook(h) /\ hook_queue' = hook_queue
    BY <1>2 DEF HookAdd
  <2>2. ListsInv' /\ Kept
    BY <1>1, <2>1, ListsPush DEF HookInv
  <2> QED
    BY <1>1, <1>2, <2>1, <2>2 DEF HookInv, Getting
<1>3. CASE parser = NoParser
  <2>1. /\ hook' = hook
        /\ IF hook_queue # Null
           THEN next' = [next EXCEPT ![LastOf(hook_queue)] = h] /\ hook_queue' = hook_queue
           ELSE next' = next /\ hook_queue' = h
    BY <1>3 DEF HookAdd
  <2>2. hook = Null
    BY <1>3 DEF HookInv
  <2>3. ListsInv' /\ Kept
    BY <1>1, <2>1, <2>2, ListsQueue DEF HookInv
  <2> QED
    BY <1>1, <1>3, <2>1, <2>2, <2>3 DEF HookInv, Getting
<1> QED
  BY <1>2, <1>3

LEMMA HookStep == TypeOK /\ GetInv /\ HookInv /\ [Next]_vars => HookInv' /\ Kept
<1> SUFFICES ASSUME TypeOK, GetInv, HookInv, [Next]_vars PROVE HookInv' /\ Kept
  OBVIOUS
<1>1. CASE UNCHANGED vars
  BY <1>1, QuietHooks DEF vars, Getting
<1>2. CASE Body
  <2>1. CASE NeedsInit
    <3>1. InitContext /\ pc' = "body"
      BY <1>2, <2>1 DEF Body
    <3> QED
      BY <3>1, InitContextHooks DEF HookInv, Getting
  <2>2. CASE ~NeedsInit
    BY <1>2, <2>2, QuietHooks DEF Body, Getting
  <2> QED
    BY <2>1, <2>2
<1>3. CASE BodyLoop
  BY <1>3, PrefetchHooks DEF BodyLoop
<1>4. CASE BodyReturn
  BY <1>4, QuietHooks DEF BodyReturn, Getting
<1>5. ASSUME NEW n \in Names, GetFromTable(n) PROVE HookInv' /\ Kept
  BY <1>5, QuietHooks DEF GetFromTable, Return, Getting
<1>6. ASSUME NEW n \in Names, GetInit(n) PROVE HookInv' /\ Kept
  <2>1. InitContext
    BY <1>6 DEF GetInit
  <2>2. body_status' # "INCOMPLETE" => pc' = "idle"
    BY <1>6 DEF GetInit, Return
  <2> QED
    BY <2>1, <2>2, InitContextHooks DEF HookInv, Getting
<1>7. ASSUME NEW n \in Names, GetOngoing(n) PROVE HookInv' /\ Kept
  BY <1>7, QuietHooks DEF GetOngoing, Getting
<1>8. CASE GetFirst
  BY <1>8, PrefetchHooks DEF GetFirst, Getting
<1>9. CASE GetLookup
  <2>1. pc = "lookup" /\ UNCHANGED <<body_status, parser, hook_queue>>
    BY <1>9 DEF GetLookup
  <2>2. CASE sought \in body
    BY <1>9, <2>1, <2>2, QuietHooks DEF GetLookup, Return, Getting
  <2>3. CASE sought \notin body
    <3>1. InstallFind /\ hook_queue = Null /\ parser # NoParser
      BY <1>9, <2>1, <2>3 DEF GetLookup, HookInv, Getting
    <3>2. ListsInv' /\ Kept
      BY <2>1, <3>1, ListsInstall DEF HookInv
    <3>3. find'.prev = Find
      BY <3>1 DEF InstallFind
    <3> QED
      BY <2>1, <3>1, <3>2, <3>3 DEF HookInv
  <2> QED
    BY <2>2, <2>3
<1>10. CASE GetScan
  BY <1>10, PrefetchHooks DEF GetScan, Getting
<1>11. CASE GetTest
  <2>1. /\ pc = "test" /\ hook = Find
        /\ UNCHANGED <<body_status, find, next, parser, hook_queue>>
    BY <1>11 DEF GetTest, GetInv
  <2>2. CASE hook' = hook
    BY <2>1, <2>2, QuietHooks DEF Getting
  <2>3. CASE hook' = next[Find]
    <3>1. ListsInv' /\ Kept
      BY <2>1, <2>3, ListsDrop DEF HookInv
    <3> QED
      BY <2>1, <3>1 DEF HookInv, Getting
  <2> QED
    BY <1>11, <2>2, <2>3 DEF GetTest
<1>12. CASE ReadSpool \/ ReadFilterError \/ ReadThrough
  BY <1>12, QuietHooks DEF ReadSpool, ReadFilterError, ReadThrough, ReadReturn, Getting
<1>13. CASE ReadTee
  <2>1. body_status = "INCOMPLETE" /\ UNCHANGED settings
    BY <1>13 DEF ReadTee
  <2>2. CASE broken
    BY <1>13, <2>1, <2>2, QuietHooks DEF ReadTee, Getting
  <2>3. CASE ~broken
    <3>1. PICK q : CountAndFeed(q, "idle")
      BY <1>13, <2>3 DEF ReadTee
    <3>2. /\ next' = next /\ find'.prev = find.prev /\ find'.name = find.name
          /\ pc' \in {"idle", "overflow"}
      BY <3>1, CountAndFeedQuiet
    <3> QED
      BY <2>1, <3>2, QuietHooks DEF Getting
  <2> QED
    BY <2>2, <2>3
<1>14. CASE Consume
  <2>1. ASSUME NEW size \in ReadSizes, ReadStart(size) PROVE HookInv' /\ Kept
    <3>1. CASE NeedsInit
      <4>1. InitContext /\ pc' = "read"
        BY <2>1, <3>1 DEF ReadStart
      <4> QED
        BY <4>1, InitContextHooks DEF HookInv, Getting
    <3>2. CASE ~NeedsInit
      BY <2>1, <3>2, QuietHooks DEF ReadStart, Getting
    <3> QED
      BY <3>1, <3>2
  <2>2. ASSUME NEW size \in ReadSizes, ReadBelow(size) PROVE HookInv' /\ Kept
    BY <2>2, QuietHooks DEF ReadBelow, Reading, Getting
  <2> QED
    BY <1>14, <2>1, <2>2 DEF Consume
<1>15. CASE Configure
  <2>1. ASSUME NEW p \in PresetParsers, ParserSet(p) PROVE HookInv' /\ Kept
    <3>1. /\ parser = NoParser /\ pc = "idle" /\ pc' = "idle"
          /\ UNCHANGED <<body_status, find, hook, hook_queue, next>>
      BY <2>1 DEF ParserSet
    <3>2. ListsInv' /\ Kept
      BY <3>1, ListsSame DEF HookInv
    <3> QED
      BY <3>1, <3>2 DEF HookInv, Getting
  <2>2. ASSUME NEW h \in UserHooks, HookAdd(h) PROVE HookInv' /\ Kept
    BY <2>2, HookAddHooks
  <2>3. ASSUME NEW b, BrigadeLimitSet(b) \/ ReadLimitSet(b) \/ TempDirSet(b)
        PROVE  HookInv' /\ Kept
    BY <2>3, QuietHooks DEF BrigadeLimitSet, ReadLimitSet, TempDirSet, Getting
  <2> QED
    BY <1>15, <2>1, <2>2, <2>3 DEF Configure
<1>16. CASE Break
  BY <1>16, QuietHooks DEF Break, Getting
<1> QED
  BY <1>1, <1>2, <1>3, <1>4, <1>5, <1>6, <1>7, <1>8, <1>9, <1>10, <1>11, <1>12,
     <1>13, <1>14, <1>15, <1>16 DEF Next, CallStep

\* A hook that an application has added is never lost, whether it waits in the
\* queue or is on the parser's list, however the queue is merged, further hooks
\* are added and the find_param hook comes and goes: the one way out is a list
\* that has no end, and that is a call which does not return.
THEOREM HooksAreKept == Spec => HooksKept
<1>1. Init => GetInv
  BY DEF Init, GetInv, AnswerIsFinal, NoAnswer
<1>2. Init => HookInv
  <2> SUFFICES ASSUME Init PROVE HookInv
    OBVIOUS
  <2>1. /\ parser = NoParser /\ hook = Null /\ hook_queue = Null /\ pc = "idle"
        /\ body_status = "EINIT" /\ find.name = Null
    BY DEF Init
  <2>2. Ordered
    <3> DEFINE e == [i \in 1 .. 0 |-> Null]
    <3>1. IsList(next, e, 0, Null) /\ Members(e, 0) = {}
      BY DEF IsList, Members
    <3> HIDE DEF e
    <3>2. InOrder(e, 0, e, 0)
      BY <2>1, <3>1 DEF InOrder
    <3> QED
      BY <3>2 DEF Ordered
  <2> QED
    BY <2>1, <2>2 DEF HookInv, ListsInv, Getting
<1>3. TypeOK /\ GetInv /\ [Next]_vars => GetInv'
  BY GetStep
<1>4. TypeOK /\ GetInv /\ HookInv /\ [Next]_vars => HookInv' /\ Kept
  BY HookStep
<1>5. Looped' => Cyclic(hook)'
  BY LoopedIsCyclic, PTL
<1>6. TypeOK /\ GetInv /\ HookInv /\ [Next]_vars
         => [~Cyclic(hook)' => Listed \subseteq Listed']_vars
  BY <1>4, <1>5 DEF Kept
<1> QED
  BY <1>1, <1>2, <1>3, <1>4, <1>6, TypeCorrect, PTL DEF Spec, HooksKept
==============================================================================
