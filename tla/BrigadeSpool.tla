----------------------------- MODULE BrigadeSpool -----------------------------
(***************************************************************************)
(* apreq_brigade_concat and what it is built on: apreq_brigade_fwrite,     *)
(* apreq_fwritev and the spool bucket.                                     *)
(*                                                                         *)
(* A brigade grows by concatenation.  Below its limit it grows in memory;  *)
(* at the limit all of it goes to a temporary file, and from then on its   *)
(* last bucket is a "spool" bucket, a file bucket whose end may be moved   *)
(* as more is written behind it.  Meanwhile others take buckets from the   *)
(* front of the brigade, copy it and read it, and so move the offset of    *)
(* the very file that is written; a file bucket they hold refers to it.    *)
(*                                                                         *)
(* Writing is one action for each apr_file_writev, which may write less    *)
(* than it was given, or fail after writing some.                          *)
(***************************************************************************)
EXTENDS Integers, Sequences, SequencesExt, FiniteSets

CONSTANTS
    Brigades,           \* the brigades that concatenation appends to
    Inputs,             \* what is concatenated to them, see InputType
    HeapLimit,          \* the heap_limit argument of every concatenation
    NElts,              \* APREQ_DEFAULT_NELTS, the iovecs of one write
    BucketLimit,        \* FILE_BUCKET_LIMIT
    ReadSize,           \* what one read of a file bucket brings into memory
    SharedInput,        \* whether an input may refer to the file it goes to
    SecondSpool,        \* whether more than a file bucket may be spooled anew
    StaleIovecs,        \* whether memory changes once its bucket is deleted
    \* bounds of the model
    MaxBytes,           \* data bytes given to concatenation, and in a brigade
    MaxFiles,           \* temporary files made
    MaxTaken            \* brigades of front buckets taken

\* The lengths of the data buckets, whether the end-of-stream bucket follows,
\* and whether the length of all of it is known without reading it.
InputType == [lengths: Seq(Nat), eos: BOOLEAN, known: BOOLEAN]

ASSUME SizeAssumption ==
    /\ HeapLimit \in Nat /\ NElts \in Nat \ {0}
    /\ BucketLimit \in Nat \ {0} /\ ReadSize \in Nat \ {0}
    /\ MaxBytes \in Nat /\ MaxFiles \in Nat /\ MaxTaken \in Nat
    /\ {SharedInput, SecondSpool, StaleIovecs} \subseteq BOOLEAN
    /\ HeapLimit <= BucketLimit
    /\ Inputs \subseteq InputType
    /\ "new" \notin Brigades

VARIABLES
    brigade,            \* [Brigades -> Seq(bucket)]
    file,               \* temporary files: contents and offset of the descriptor
    taken,              \* the brigades of front buckets others hold
    call,               \* the concatenation in progress
    \* history
    made,               \* data bytes given so far; the next byte is made + 1
    held,               \* what each brigade ought to hold
    takenHeld           \* what each brigade of taken buckets ought to hold

vars == <<brigade, file, taken, call, made, held, takenHeld>>

EOS == 0                \* the end-of-stream bucket among the data bytes
Junk == -1              \* a byte nobody gave

Mem(data)          == [type |-> "mem", data |-> data]
Heap(data)         == [type |-> "heap", data |-> data]
FileBucket(f, s, n) == [type |-> "file", fd |-> f, start |-> s, length |-> n]
SpoolBucket(f, s, n) == [type |-> "spool", fd |-> f, start |-> s, length |-> n]
EosBucket          == [type |-> "eos"]

OnFile(e) == e.type \in {"file", "spool"}

Least(a, b) == IF a <= b THEN a ELSE b

\* What a bucket holds, for whoever reads it now; a file ends where it ends.
Data(e) ==
    CASE e.type = "eos" -> <<EOS>>
      [] OnFile(e) -> SubSeq(file[e.fd].data, e.start + 1,
                             Least(e.start + e.length, Len(file[e.fd].data)))
      [] OTHER -> e.data

BucketLen(e) ==
    CASE e.type = "eos" -> 0
      [] OnFile(e) -> e.length
      [] OTHER -> Len(e.data)

Content(bb) == FlattenSeq([i \in DOMAIN bb |-> Data(bb[i])])
Total(ns)   == FoldLeft(+, 0, ns)
Length(bb)  == Total([i \in DOMAIN bb |-> BucketLen(bb[i])])

EndsWith(bb, type) == bb # << >> /\ Last(bb).type = type

Cut(bb) == IF EndsWith(bb, "eos") THEN Front(bb) ELSE bb

Idle == [phase |-> "idle"]

------------------------------------------------------------------------------
(* apreq_fwritev and the loop of apreq_brigade_fwrite.  rest: the buckets   *)
(* not yet read into the iovec array v.  again: flips with every write of   *)
(* nothing, so that writing nothing forever is a behaviour of its own.      *)

\* A file bucket is read in pieces.
Pieces(bb) ==
    FlattenSeq([i \in DOMAIN bb |->
        LET e == bb[i] IN
        IF ~OnFile(e) \/ e.length = 0 THEN <<e>>
        ELSE [k \in 1 .. (e.length + ReadSize - 1) \div ReadSize |->
                FileBucket(e.fd, e.start + (k - 1) * ReadSize,
                           Least(ReadSize, e.length - (k - 1) * ReadSize))]])

Start(phase, to, f, bb, in, more) ==
    [phase |-> phase, to |-> to, fd |-> f, v |-> << >>, rest |-> Pieces(bb),
     wlen |-> 0, again |-> FALSE, in |-> in, more |-> more]

\* The array is filled before it is written.
ToLoad == SubSeq(call.rest, 1, Least(NElts - Len(call.v), Len(call.rest)))
Loaded == call.v \o [i \in DOMAIN ToLoad |-> Data(ToLoad[i])]
Unloaded == SubSeq(call.rest, Len(ToLoad) + 1, Len(call.rest))

\* Reading file buckets leaves the descriptor behind the last that was read.
ReadOffsets(bb) ==
    [f \in DOMAIN file |->
        LET on == {i \in DOMAIN bb : OnFile(bb[i]) /\ bb[i].fd = f} IN
        IF on = {} THEN file[f]
        ELSE [file[f] EXCEPT !.at = bb[Max(on)].start + bb[Max(on)].length]]

\* What a file holds after data is written at its offset, which may be behind
\* its end.
Written(f, data) ==
    LET gap == [i \in 1 .. f.at - Len(f.data) |-> Junk]
    IN  [data |-> SubSeq(f.data \o gap, 1, f.at) \o data
                  \o SubSeq(f.data, f.at + Len(data) + 1, Len(f.data)),
         at |-> f.at + Len(data)]

\* The iovecs that len bytes use up, and the array that is left.
UsedUp(v, len) ==
    CHOOSE n \in 0 .. Len(v) :
        /\ Len(FlattenSeq(SubSeq(v, 1, n))) <= len
        /\ n < Len(v) => Len(FlattenSeq(SubSeq(v, 1, n + 1))) > len

Shifted(v, len) ==
    LET n    == UsedUp(v, len)
        done == len - Len(FlattenSeq(SubSeq(v, 1, n)))
    IN  IF n = Len(v) THEN << >>
        ELSE <<SubSeq(v[n+1], done + 1, Len(v[n+1]))>> \o SubSeq(v, n + 2, Len(v))

\* An input that ends in a spool bucket is written from a copy of it, whose
\* buckets are deleted after each write that used up an iovec, and with them
\* what the iovecs that are left refer to.
Freed(v, len) ==
    call.phase = "in" /\ EndsWith(call.in.bb, "spool") /\ UsedUp(v, len) > 0

Remaining(v, len) ==
    LET left == Shifted(v, len)
        junk == [i \in DOMAIN left |-> [j \in DOMAIN left[i] |-> Junk]]
    IN  IF StaleIovecs /\ Freed(v, len) THEN {left, junk} ELSE {left}

Writing == call.phase \in {"out", "in"} /\ Loaded # << >>

\* Mutant of NoProgress: writing nothing is tried again.
NoProgressMutant(v, len) == FALSE

NoProgress(v, len) == UsedUp(v, len) = 0 /\ len = 0

\* The call gives up.  A brigade that was being moved to its first file stays
\* as it is, and so does the input; an input being written is thrown away.
Discard ==
    IF call.phase = "in" /\ call.in.from \in Brigades
    THEN /\ brigade' = [brigade EXCEPT ![call.in.from] = << >>]
         /\ held' = [held EXCEPT ![call.in.from] = << >>]
    ELSE UNCHANGED <<brigade, held>>

Fail ==
    /\ call' = Idle
    /\ Discard
    /\ UNCHANGED <<taken, made, takenHeld>>

\* apr_file_writev writes len bytes where the descriptor is.
Write(len) ==
    file' = [ReadOffsets(ToLoad) EXCEPT ![call.fd] =
                Written(@, SubSeq(FlattenSeq(Loaded), 1, len))]

Writev ==
    /\ Writing
    /\ \E len \in 0 .. Len(FlattenSeq(Loaded)) :
        /\ Write(len)
        /\ IF NoProgress(Loaded, len)
           THEN Fail
           ELSE /\ \E v \in Remaining(Loaded, len) :
                     call' = [call EXCEPT !.v = v,
                                          !.rest = Unloaded,
                                          !.wlen = @ + len,
                                          !.again = len = 0 /\ ~@]
                /\ UNCHANGED <<brigade, taken, made, held, takenHeld>>

\* apr_file_writev, or reading the next bucket, fails.
WriteFails ==
    /\ Writing
    /\ \E len \in 0 .. Len(FlattenSeq(Loaded)) : Write(len)
    /\ Fail

Finished(phase) == call.phase = phase /\ call.v = << >> /\ call.rest = << >>

------------------------------------------------------------------------------
(* apreq_brigade_concat *)

\* The buckets of a new input.
NewBuckets(input) ==
    LET before(i) == made + Total(SubSeq(input.lengths, 1, i - 1))
    IN  [i \in DOMAIN input.lengths |->
            Mem([j \in 1 .. input.lengths[i] |-> before(i) + j])]
        \o IF input.eos THEN <<EosBucket>> ELSE << >>

\* Mutant of FitsInMemory: the limit itself is allowed.
FitsInMemoryMutant(to, in) ==
    in.known /\ Length(brigade[to]) + Length(in.bb) <= HeapLimit

\* A length that is not known is -1, which as an unsigned number is not less
\* than anything.
FitsInMemory(to, in) ==
    in.known /\ Length(brigade[to]) + Length(in.bb) < HeapLimit

\* Mutant of SpoolEnd: writing goes on wherever the descriptor is.
SpoolEndMutant(e) == file[e.fd].at

SpoolEnd(e) == e.start + e.length

Emptied(bs, in) == IF in.from \in Brigades THEN [bs EXCEPT ![in.from] = << >>] ELSE bs

ConcatInMemory(to, in) ==
    /\ brigade' = [Emptied(brigade, in) EXCEPT ![to] = @ \o in.bb]
    /\ held' = [Emptied(held, in) EXCEPT ![to] = @ \o Content(in.bb)]
    /\ UNCHANGED <<file, taken, call, takenHeld>>

\* No spool bucket yet: all of the brigade goes to a new file first.
ConcatToNewFile(to, in, more) ==
    /\ Len(file) < MaxFiles
    /\ SecondSpool \/ Length(brigade[to]) <= BucketLimit
    /\ file' = Append(file, [data |-> << >>, at |-> 0])
    /\ call' = Start("out", to, Len(file) + 1, brigade[to], in, more)
    /\ UNCHANGED <<brigade, taken, held, takenHeld>>

\* Behind the spool bucket, where the descriptor is first put.
ConcatToSpool(to, in) ==
    LET last == Last(brigade[to]) IN
    /\ file' = [file EXCEPT ![last.fd].at = SpoolEnd(last)]
    /\ call' = Start("in", to, last.fd, Cut(in.bb), in, TRUE)
    /\ UNCHANGED <<brigade, taken, held, takenHeld>>

Files(bb) == {bb[i].fd : i \in {j \in DOMAIN bb : OnFile(bb[j])}}

ConcatInput(to, in) ==
    IF FitsInMemory(to, in) THEN ConcatInMemory(to, in)
    ELSE IF EndsWith(brigade[to], "spool") THEN ConcatToSpool(to, in)
    ELSE ConcatToNewFile(to, in, TRUE)

\* Nothing is added behind the end of the stream (APR_EOF); and when no file
\* can be made, or the descriptor not be moved, nothing changes either.
Concat(to) ==
    /\ call = Idle
    /\ ~EndsWith(brigade[to], "eos")
    /\ \E input \in Inputs :
        LET n == Total(input.lengths) IN
        /\ made + n <= MaxBytes
        /\ made' = made + n
        /\ ConcatInput(to, [bb |-> NewBuckets(input), from |-> "new",
                            known |-> input.known])

\* The input is another brigade, which is empty afterwards.
ConcatBrigade(to, from) ==
    /\ call = Idle /\ from # to
    /\ ~EndsWith(brigade[to], "eos") /\ brigade[from] # << >>
    /\ Length(brigade[to]) + Length(brigade[from]) <= MaxBytes
    /\ SharedInput \/ Files(brigade[from]) \cap Files(brigade[to]) = {}
    /\ ConcatInput(to, [bb |-> brigade[from], from |-> from, known |-> TRUE])
    /\ UNCHANGED made

\* A brigade concatenated with itself, with a limit of zero, is spooled.
SpoolSelf(to) ==
    /\ call = Idle
    /\ brigade[to] # << >> /\ ~EndsWith(brigade[to], "eos")
    /\ IF EndsWith(brigade[to], "spool")
       THEN /\ file' = [file EXCEPT ![Last(brigade[to]).fd].at =
                            SpoolEnd(Last(brigade[to]))]
            /\ UNCHANGED <<brigade, taken, call, held, takenHeld>>
       ELSE ConcatToNewFile(to, [bb |-> << >>, from |-> "new", known |-> TRUE], FALSE)
    /\ UNCHANGED made

\* A bucket's length is an apr_size_t; FILE_BUCKET_LIMIT is two less than what
\* wraps around.
SizeT(n) == n % (BucketLimit + 2)

\* The brigade is in the file, and becomes one spool bucket on it.
FinishOut ==
    /\ Finished("out")
    /\ brigade' = [brigade EXCEPT ![call.to] = <<SpoolBucket(call.fd, 0, SizeT(call.wlen))>>]
    /\ IF call.more
       THEN call' = Start("in", call.to, call.fd, Cut(call.in.bb), call.in, TRUE)
       ELSE call' = Idle
    /\ UNCHANGED <<file, taken, made, held, takenHeld>>

\* Mutant of Extended: the next bucket starts one byte too early.
ExtendedMutant(e, wlen) ==
    LET end == e.start + e.length + wlen
        k   == (e.length + wlen - 1) \div BucketLimit
    IN  IF wlen <= SizeT(BucketLimit - e.length)
        THEN <<SpoolBucket(e.fd, e.start, SizeT(e.length + wlen))>>
        ELSE [i \in 1 .. k |->
                FileBucket(e.fd, e.start + (i - 1) * BucketLimit, BucketLimit)]
             \o <<SpoolBucket(e.fd, e.start + k * BucketLimit - 1,
                              end - (e.start + k * BucketLimit))>>

\* The spool bucket e when wlen more bytes are behind it: as many full file
\* buckets as it takes, and a spool bucket for what is left.
Extended(e, wlen) ==
    LET end == e.start + e.length + wlen
        k   == (e.length + wlen - 1) \div BucketLimit
    IN  IF wlen <= SizeT(BucketLimit - e.length)
        THEN <<SpoolBucket(e.fd, e.start, SizeT(e.length + wlen))>>
        ELSE [i \in 1 .. k |->
                FileBucket(e.fd, e.start + (i - 1) * BucketLimit, BucketLimit)]
             \o <<SpoolBucket(e.fd, e.start + k * BucketLimit,
                              end - (e.start + k * BucketLimit))>>

FinishIn ==
    /\ Finished("in")
    /\ LET bb == brigade[call.to]
           in == call.in
       IN  /\ brigade' = [Emptied(brigade, in) EXCEPT ![call.to] =
                            Front(bb) \o Extended(Last(bb), call.wlen)
                            \o IF EndsWith(in.bb, "eos") THEN <<EosBucket>> ELSE << >>]
           /\ held' = [Emptied(held, in) EXCEPT ![call.to] = @ \o Content(in.bb)]
    /\ call' = Idle
    /\ UNCHANGED <<file, taken, made, takenHeld>>

------------------------------------------------------------------------------
(* What others do to the brigade between two concatenations.               *)

\* Mutant of CopyOf: the copy of a spool bucket is another spool bucket.
CopyOfMutant(e) == e

\* spool_bucket_copy and spool_bucket_split: the copy of a spool bucket, and
\* the front of one that is split, are plain file buckets.
CopyOf(e) == IF e.type = "spool" THEN [e EXCEPT !.type = "file"] ELSE e

SplitFront(e, k) ==
    IF OnFile(e) THEN FileBucket(e.fd, e.start, k)
    ELSE [e EXCEPT !.data = SubSeq(@, 1, k)]

SplitBack(e, k) ==
    IF OnFile(e) THEN [e EXCEPT !.start = @ + k, !.length = @ - k]
    ELSE [e EXCEPT !.data = SubSeq(@, k + 1, Len(@))]

\* apreq_brigade_copy, into a brigade that is empty.
Copy(from, to) ==
    /\ call = Idle /\ from # to
    /\ brigade[from] # << >> /\ brigade[to] = << >>
    /\ brigade' = [brigade EXCEPT ![to] =
                     [i \in DOMAIN brigade[from] |-> CopyOf(brigade[from][i])]]
    /\ held' = [held EXCEPT ![to] = held[from]]
    /\ UNCHANGED <<file, taken, call, made, takenHeld>>

\* The first k bytes, as apr_brigade_partition cuts them off, and the rest.
Front_(bb, k) ==
    LET n == CHOOSE n \in 0 .. Len(bb) :
                /\ Length(SubSeq(bb, 1, n)) <= k
                /\ n < Len(bb) => Length(SubSeq(bb, 1, n + 1)) > k
                /\ n = Len(bb) => Length(bb) <= k
        over == k - Length(SubSeq(bb, 1, n))
    IN  IF n = Len(bb) \/ over = 0
        THEN <<SubSeq(bb, 1, n), SubSeq(bb, n + 1, Len(bb))>>
        ELSE <<Append(SubSeq(bb, 1, n), SplitFront(bb[n+1], over)),
               <<SplitBack(bb[n+1], over)>> \o SubSeq(bb, n + 2, Len(bb))>>

\* apreq_brigade_move, to a brigade that is empty, as every caller's is.
Take(from, k) ==
    /\ call = Idle /\ brigade[from] # << >> /\ Len(taken) < MaxTaken
    /\ LET cut == Front_(brigade[from], k) IN
        /\ brigade' = [brigade EXCEPT ![from] = cut[2]]
        /\ held' = [held EXCEPT ![from] =
                       SubSeq(@, Len(Content(cut[1])) + 1, Len(@))]
        /\ taken' = Append(taken, cut[1])
        /\ takenHeld' = Append(takenHeld, Content(cut[1]))
    /\ UNCHANGED <<file, call, made>>

\* External: apr_bucket_read on the i-th bucket, a file bucket.  What was read
\* becomes a heap bucket and the rest, if any, a plain file bucket.
ReadAt(bb, i) ==
    LET e == bb[i]
        k == Least(e.length, ReadSize)
    IN  /\ call = Idle /\ OnFile(e) /\ e.length > 0
        /\ file' = [file EXCEPT ![e.fd].at = e.start + k]

AfterRead(bb, i) ==
    LET e == bb[i]
        k == Least(e.length, ReadSize)
    IN  SubSeq(bb, 1, i - 1) \o <<Heap(SubSeq(Data(e), 1, Least(k, Len(Data(e)))))>>
        \o (IF k < e.length
            THEN <<FileBucket(e.fd, e.start + k, e.length - k)>>
            ELSE << >>)
        \o SubSeq(bb, i + 1, Len(bb))

Read(b, i) ==
    /\ ReadAt(brigade[b], i)
    /\ brigade' = [brigade EXCEPT ![b] = AfterRead(@, i)]
    /\ UNCHANGED <<taken, call, made, held, takenHeld>>

ReadTaken(t, i) ==
    /\ ReadAt(taken[t], i)
    /\ taken' = [taken EXCEPT ![t] = AfterRead(@, i)]
    /\ UNCHANGED <<brigade, call, made, held, takenHeld>>

------------------------------------------------------------------------------
Init ==
    /\ brigade = [b \in Brigades |-> << >>]
    /\ file = << >> /\ taken = << >>
    /\ call = Idle
    /\ made = 0
    /\ held = [b \in Brigades |-> << >>]
    /\ takenHeld = << >>

Step == Writev \/ WriteFails \/ FinishOut \/ FinishIn

Use ==
    \/ \E b \in Brigades : Concat(b) \/ SpoolSelf(b)
    \/ \E b, c \in Brigades : ConcatBrigade(b, c) \/ Copy(b, c)
    \/ \E b \in Brigades, k \in 1 .. MaxBytes : Take(b, k)
    \/ \E b \in Brigades : \E i \in DOMAIN brigade[b] : Read(b, i)
    \/ \E t \in DOMAIN taken : \E i \in DOMAIN taken[t] : ReadTaken(t, i)

Next == Step \/ Use

Spec == Init /\ [][Next]_vars

------------------------------------------------------------------------------
\* "Concatenates the brigades": a brigade holds what was concatenated to it by
\* calls that succeeded, less what was taken, whatever was spooled, read,
\* copied or only half written on the way.
ContentKept == \A b \in Brigades : Content(brigade[b]) = held[b]

\* What others have taken stays what it was: writing to the file goes on
\* behind it.
TakenKept == \A i \in DOMAIN taken : Content(taken[i]) = takenHeld[i]

\* A file has at most one bucket that may be written behind, over all the
\* brigades and what was taken from them, so that nobody writes over what
\* somebody else has appended.
SpoolsOn(f, bb) == {i \in DOMAIN bb : bb[i].type = "spool" /\ bb[i].fd = f}
SoleWriter ==
    \A f \in DOMAIN file :
        Cardinality(UNION {{<<b, i>> : i \in SpoolsOn(f, brigade[b])} : b \in Brigades})
        + Cardinality(UNION {{<<k, i>> : i \in SpoolsOn(f, taken[k])} :
                                 k \in DOMAIN taken}) <= 1

\* "maximum number of bytes mod_apreq2 will let accumulate within the heap
\* buckets in a brigade": what concatenation leaves in memory stays below the
\* limit, over any sequence of concatenations, takings and readings.
InMemory(bb) == Total([i \in DOMAIN bb |-> IF bb[i].type = "mem" THEN Len(bb[i].data) ELSE 0])
MemoryBounded ==
    \A b \in Brigades :
        (\E i \in DOMAIN brigade[b] : brigade[b][i].type = "mem")
            => InMemory(brigade[b]) < HeapLimit

\* A concatenation returns, however little each write writes: every write
\* leaves fewer bytes and buckets to write, and what is moved to a file is
\* followed by the input once.
Left(c) == Len(FlattenSeq(c.v)) + Len(c.v) + Length(c.rest) + Len(c.rest)
ConcatAdvances ==
    [][call # Idle /\ call' # Idle =>
        \/ call.phase = "out" /\ call'.phase = "in"
        \/ call.phase = call'.phase /\ Left(call') < Left(call)]_vars

==============================================================================
