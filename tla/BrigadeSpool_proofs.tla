------------------------ MODULE BrigadeSpool_proofs ------------------------
(***************************************************************************)
(* Proofs about BrigadeSpool for any brigades, inputs, limits and writes.  *)
(*                                                                         *)
(* First, that nobody writes over what another appended, and that memory   *)
(* stays bounded: neither rests on what the model's switches leave out;    *)
(* inputs may share files with what they are appended to, brigades may be  *)
(* spooled anew, and freed memory may change.                              *)
(*                                                                         *)
(* Then, that a concatenation returns, that a brigade holds what was       *)
(* concatenated to it, and that what was taken from it stays what it was.  *)
(* The argument is about where buckets end.  Whoever has a bucket on a     *)
(* file has one that ends where the spool bucket on that file does, or     *)
(* before; a write puts its bytes behind that place, so that everybody's   *)
(* stay; and a spool bucket that has grown is again the last on its file.  *)
(* That the bytes written are those of the input follows from what is left *)
(* to write, which with what is behind the old end makes up the input,     *)
(* always.                                                                 *)
(***************************************************************************)
EXTENDS BrigadeSpool, Sequences_proofs

(* Sums and concatenations of sequences. *)

\* it is the function by which FoldLeft adds ns up, over the sets of the first
\* n positions.
Folds(it, ns, n) ==
    it = [s \in SUBSET (1 .. n) |-> IF s = {} THEN 0 ELSE it[s \ {Max(s)}] + ns[Max(s)]]

\* There is such a function, for any sequence and any number of positions.
LEMMA FoldExists ==
  ASSUME NEW ns, NEW n \in Nat
  PROVE  \E it : Folds(it, ns, n)
<1> DEFINE Foldable == {m \in Nat : \E it : Folds(it, ns, m)}
<1>1. 0 \in Foldable
  <2>1. Folds([s \in SUBSET (1 .. 0) |-> 0], ns, 0)
    <3>1. \A s \in SUBSET (1 .. 0) : s = {}
      OBVIOUS
    <3> QED
      BY <3>1 DEF Folds
  <2> QED
    BY <2>1
<1>2. ASSUME NEW m \in Nat, m \in Foldable PROVE m + 1 \in Foldable
  <2>1. PICK it : Folds(it, ns, m)
    BY <1>2
  <2> DEFINE small(s) == IF s = {} THEN 0 ELSE it[s \ {Max(s)}] + ns[Max(s)]
             new == [s \in SUBSET (1 .. m + 1) |->
                       IF m + 1 \in s THEN it[s \ {m + 1}] + ns[m + 1] ELSE it[s]]
  <2>2. \A s \in SUBSET (1 .. m) : it[s] = small(s)
    BY <2>1 DEF Folds
  <2>3. ASSUME NEW s \in SUBSET (1 .. m + 1)
        PROVE  new[s] = IF s = {} THEN 0 ELSE new[s \ {Max(s)}] + ns[Max(s)]
    <3>1. CASE m + 1 \in s
      <4>1. Max(s) \in s /\ \A y \in s : y <= Max(s)
        BY <3>1, MaxIs, m + 1 \in Nat
      <4>2. Max(s) = m + 1
        <5>1. Max(s) \in 1 .. m + 1 /\ m + 1 <= Max(s)
          BY <3>1, <4>1
        <5> QED
          BY <5>1
      <4>3. s \ {m + 1} \in SUBSET (1 .. m + 1) /\ m + 1 \notin s \ {m + 1} /\ s # {}
        BY <3>1
      <4>4. new[s \ {m + 1}] = it[s \ {m + 1}]
        BY <4>3
      <4> QED
        BY <3>1, <4>2, <4>3, <4>4
    <3>2. CASE m + 1 \notin s
      <4>1. s \in SUBSET (1 .. m)
        BY <3>2
      <4>2. new[s] = small(s)
        BY <2>2, <3>2, <4>1
      <4>3. /\ s \ {Max(s)} \in SUBSET (1 .. m + 1)
            /\ m + 1 \notin s \ {Max(s)}
        BY <3>2
      <4>4. new[s \ {Max(s)}] = it[s \ {Max(s)}]
        BY <4>3
      <4> QED
        BY <4>2, <4>4
    <3> QED
      BY <3>1, <3>2
  <2>4. Folds(new, ns, m + 1)
    BY <2>3 DEF Folds
  <2> QED
    BY <2>4
<1> HIDE DEF Foldable
<1>3. Nat \subseteq Foldable
  BY <1>1, <1>2, SetInduction
<1> QED
  BY <1>3 DEF Foldable

\* The sum of the n numbers ns is what the partial sums t come to.
LEMMA TotalIs ==
  ASSUME NEW n \in Nat, NEW ns, DOMAIN ns = 1 .. n, NEW t, t[0] = 0,
         \A i \in 1 .. n : t[i] = t[i - 1] + ns[i]
  PROVE  Total(ns) = t[n]
<1> DEFINE fold == CHOOSE it : Folds(it, ns, n)
<1>1. Total(ns) = fold[1 .. n]
  BY DEF Total, FoldLeft, MapThenFoldSet, Folds
<1>2. Folds(fold, ns, n)
  BY FoldExists
<1> HIDE DEF fold
<1>3. \A s \in SUBSET (1 .. n) :
          fold[s] = IF s = {} THEN 0 ELSE fold[s \ {Max(s)}] + ns[Max(s)]
  BY <1>2 DEF Folds
<1> DEFINE Summed == {m \in Nat : m <= n => fold[1 .. m] = t[m]}
<1>4. 0 \in Summed
  <2>1. 1 .. 0 = {} /\ {} \in SUBSET (1 .. n)
    OBVIOUS
  <2> QED
    BY <1>3, <2>1
<1>5. ASSUME NEW m \in Nat, m \in Summed PROVE m + 1 \in Summed
  <2>1. SUFFICES ASSUME m + 1 <= n PROVE fold[1 .. m + 1] = t[m + 1]
    OBVIOUS
  <2>2. 1 .. m + 1 \in SUBSET (1 .. n) /\ 1 .. m + 1 # {}
    BY <2>1
  <2>3. Max(1 .. m + 1) = m + 1
    BY MaxOfInterval
  <2>4. (1 .. m + 1) \ {m + 1} = 1 .. m
    OBVIOUS
  <2>5. fold[1 .. m + 1] = fold[1 .. m] + ns[m + 1]
    BY <1>3, <2>2, <2>3, <2>4
  <2>6. fold[1 .. m] = t[m]
    BY <1>5, <2>1
  <2>7. m + 1 \in 1 .. n /\ (m + 1) - 1 = m
    BY <2>1
  <2> QED
    BY <2>5, <2>6, <2>7
<1> HIDE DEF Summed
<1>6. Nat \subseteq Summed
  BY <1>4, <1>5, SetInduction
<1> QED
  BY <1>1, <1>6 DEF Summed

\* t are the partial sums of the first m of ns.
Sums(t, ns, m) ==
    /\ t \in [0 .. m -> Nat]
    /\ t[0] = 0
    /\ \A i \in 1 .. m : t[i] = t[i - 1] + ns[i]

\* A sequence of numbers has partial sums, and its total is the last of them.
LEMMA SumsExist ==
  ASSUME NEW ns \in Seq(Nat)
  PROVE  \E t : Sums(t, ns, Len(ns)) /\ Total(ns) = t[Len(ns)]
<1> DEFINE Summable == {m \in Nat : m <= Len(ns) => \E t : Sums(t, ns, m)}
<1>1. 0 \in Summable
  <2> DEFINE z == [i \in 0 .. 0 |-> 0]
  <2>1. z \in [0 .. 0 -> Nat] /\ z[0] = 0 /\ 1 .. 0 = {}
    OBVIOUS
  <2>2. Sums(z, ns, 0)
    BY <2>1 DEF Sums
  <2> QED
    BY <2>2
<1>2. ASSUME NEW m \in Nat, m \in Summable PROVE m + 1 \in Summable
  <2>1. SUFFICES ASSUME m + 1 <= Len(ns) PROVE \E t : Sums(t, ns, m + 1)
    BY m + 1 \in Nat
  <2>2. PICK t : Sums(t, ns, m)
    BY <1>2, <2>1
  <2>3. ns[m + 1] \in Nat
    BY <2>1
  <2> DEFINE u == [i \in 0 .. m + 1 |-> IF i <= m THEN t[i] ELSE t[m] + ns[m + 1]]
  <2>4. u \in [0 .. m + 1 -> Nat]
    BY <2>2, <2>3 DEF Sums
  <2>5. ASSUME NEW i \in 1 .. m + 1 PROVE u[i] = u[i - 1] + ns[i]
    <3>1. i - 1 \in 0 .. m /\ u[i - 1] = t[i - 1]
      OBVIOUS
    <3>2. CASE i = m + 1
      BY <3>1, <3>2
    <3>3. CASE i # m + 1
      <4>1. i \in 1 .. m /\ u[i] = t[i]
        BY <3>3
      <4> QED
        BY <2>2, <3>1, <4>1 DEF Sums
    <3> QED
      BY <3>2, <3>3
  <2>6. u[0] = 0
    <3>1. 0 \in 0 .. m + 1 /\ 0 <= m /\ t[0] = 0
      BY <2>2 DEF Sums
    <3> QED
      BY <3>1
  <2> HIDE DEF u
  <2>7. Sums(u, ns, m + 1)
    BY <2>4, <2>5, <2>6 DEF Sums
  <2> QED
    BY ONLY <2>7
<1> HIDE DEF Summable
<1>3. Nat \subseteq Summable
  BY <1>1, <1>2, SetInduction
<1>4. PICK t : Sums(t, ns, Len(ns))
  BY <1>3 DEF Summable
<1>5. Total(ns) = t[Len(ns)]
  <2>1. DOMAIN ns = 1 .. Len(ns) /\ Len(ns) \in Nat
    OBVIOUS
  <2> QED
    BY <1>4, <2>1, TotalIs DEF Sums
<1> QED
  BY <1>4, <1>5

\* Bytes that are counted are a number of bytes.
LEMMA TotalNat == ASSUME NEW ns \in Seq(Nat) PROVE Total(ns) \in Nat
BY SumsExist DEF Sums

\* Nothing comes to nothing.
LEMMA TotalEmpty == Total(<< >>) = 0
<1>1. \E t : Sums(t, << >>, 0) /\ Total(<< >>) = t[0]
  BY SumsExist, << >> \in Seq(Nat), Len(<< >>) = 0
<1> QED
  BY <1>1 DEF Sums

\* One number comes to itself.
LEMMA TotalOne == ASSUME NEW k \in Nat PROVE Total(<<k>>) = k
<1>1. PICK t : Sums(t, <<k>>, 1) /\ Total(<<k>>) = t[1]
  BY SumsExist, <<k>> \in Seq(Nat), Len(<<k>>) = 1
<1> QED
  BY <1>1 DEF Sums

\* What two brigades come to is what the one behind the other does.
LEMMA TotalConcat ==
  ASSUME NEW a \in Seq(Nat), NEW b \in Seq(Nat)
  PROVE  Total(a \o b) = Total(a) + Total(b)
<1>1. PICK t : Sums(t, a, Len(a)) /\ Total(a) = t[Len(a)]
  BY SumsExist
<1>2. PICK u : Sums(u, b, Len(b)) /\ Total(b) = u[Len(b)]
  BY SumsExist
<1> DEFINE n == Len(a) + Len(b)
           v == [i \in 0 .. n |-> IF i <= Len(a) THEN t[i] ELSE Total(a) + u[i - Len(a)]]
<1>3. /\ n \in Nat /\ DOMAIN (a \o b) = 1 .. n /\ Len(a) \in Nat /\ Len(b) \in Nat
      /\ \A i \in 1 .. n : (a \o b)[i] = IF i <= Len(a) THEN a[i] ELSE b[i - Len(a)]
  BY ConcatProperties
<1>4. v[0] = 0
  BY <1>1, <1>3 DEF Sums
<1>5. \A i \in 1 .. n : v[i] = v[i - 1] + (a \o b)[i]
  <2> SUFFICES ASSUME NEW i \in 1 .. n PROVE v[i] = v[i - 1] + (a \o b)[i]
    OBVIOUS
  <2>1. CASE i <= Len(a)
    <3>1. v[i] = t[i] /\ v[i - 1] = t[i - 1] /\ (a \o b)[i] = a[i] /\ i \in 1 .. Len(a)
      BY <1>3, <2>1
    <3> QED
      BY <1>1, <3>1 DEF Sums
  <2>2. CASE i > Len(a)
    <3> DEFINE j == i - Len(a)
    <3>1. j \in 1 .. Len(b) /\ v[i] = Total(a) + u[j] /\ (a \o b)[i] = b[j]
      BY <1>3, <2>2
    <3>2. v[i - 1] = Total(a) + u[j - 1]
      <4>1. CASE j = 1
        <5>1. v[i - 1] = t[Len(a)] /\ j - 1 = 0
          BY <1>3, <4>1
        <5>2. u[0] = 0 /\ Total(a) \in Nat
          BY <1>2, TotalNat DEF Sums
        <5> HIDE DEF v, j
        <5> QED
          BY <1>1, <5>1, <5>2
      <4>2. CASE j # 1
        BY <1>3, <2>2, <3>1, <4>2
      <4> QED
        BY <4>1, <4>2
    <3>3. u[j] = u[j - 1] + b[j]
      BY <1>2, <3>1 DEF Sums
    <3>4. u[j - 1] \in Nat /\ Total(a) \in Nat /\ b[j] \in Nat
      <4>1. j - 1 \in 0 .. Len(b)
        BY <1>3, <3>1
      <4>2. u[j - 1] \in Nat
        BY <1>2, <4>1 DEF Sums
      <4>3. b[j] \in Nat
        BY <3>1
      <4> QED
        BY <4>2, <4>3, TotalNat
    <3> HIDE DEF j, v
    <3> QED
      BY <3>1, <3>2, <3>3, <3>4
  <2> QED
    BY <1>3, <2>1, <2>2
<1>6. v[n] = Total(a) + Total(b)
  <2>1. CASE Len(b) = 0
    BY <1>1, <1>2, <1>3, <2>1, TotalNat DEF Sums
  <2>2. CASE Len(b) > 0
    <3>1. v[n] = Total(a) + u[n - Len(a)] /\ n - Len(a) = Len(b)
      BY <1>3, <2>2
    <3> QED
      BY <1>2, <3>1
  <2> QED
    BY <1>3, <2>1, <2>2
<1> HIDE DEF v, n
<1>7. Total(a \o b) = v[n]
  <2> DEFINE ab == a \o b
  <2>1. n \in Nat /\ DOMAIN ab = 1 .. n /\ \A i \in 1 .. n : v[i] = v[i - 1] + ab[i]
    BY <1>3, <1>5
  <2> HIDE DEF ab
  <2>2. Total(ab) = v[n]
    BY <1>4, <2>1, TotalIs
  <2> QED
    BY <2>2 DEF ab
<1> QED
  BY <1>6, <1>7

------------------------------------------------------------------------------
(* Buckets *)

MemBucket == [type : {"mem", "heap"}, data : Seq(Int)]
FileBuckets(n) == [type : {"file", "spool"}, fd : 1 .. n, start : Nat, length : Nat]
BucketsOn(n) == MemBucket \cup FileBuckets(n) \cup {EosBucket}

Bucket == BucketsOn(Len(file))

FileType == Seq([data : Seq(Int), at : Nat])

InTypeOn(n) == [bb : Seq(BucketsOn(n)), from : Brigades \cup {"new"}, known : BOOLEAN]

CallTypeOn(n) ==
    [phase : {"out", "in"}, to : Brigades, fd : 1 .. n, v : Seq(Seq(Int)),
     rest : Seq(BucketsOn(n)), wlen : Nat, again : BOOLEAN, in : InTypeOn(n), more : BOOLEAN]

CallType == CallTypeOn(Len(file))

TypeOK ==
    /\ file \in FileType
    /\ brigade \in [Brigades -> Seq(Bucket)]
    /\ taken \in Seq(Seq(Bucket))
    /\ call \in CallType \cup {Idle}
    /\ made \in Nat
    /\ held \in [Brigades -> Seq(Int)]
    /\ takenHeld \in Seq(Seq(Int))

\* The kind of a bucket says what else it has.
LEMMA BucketFacts ==
  ASSUME NEW n \in Nat, NEW e \in BucketsOn(n)
  PROVE  /\ e.type \in {"mem", "heap", "file", "spool", "eos"}
         /\ e.type \in {"mem", "heap"} => e \in MemBucket
         /\ OnFile(e) => e \in FileBuckets(n)
         /\ e.type = "eos" => e = EosBucket
BY DEF BucketsOn, MemBucket, FileBuckets, EosBucket, OnFile

\* A bucket on a file refers to one of the n files.
LEMMA FileBucketFacts ==
  ASSUME NEW n \in Nat, NEW e \in FileBuckets(n)
  PROVE  /\ e.fd \in 1 .. n /\ e.start \in Nat /\ e.length \in Nat
         /\ e.type \in {"file", "spool"}
         /\ OnFile(e)
BY DEF FileBuckets, OnFile

\* A bucket has a length.
LEMMA BucketLenNat ==
  ASSUME NEW n \in Nat, NEW e \in BucketsOn(n) PROVE BucketLen(e) \in Nat
<1>1. CASE e.type \in {"mem", "heap"}
  <2>1. e \in MemBucket
    BY <1>1, BucketFacts
  <2>2. e.data \in Seq(Int)
    BY <2>1 DEF MemBucket
  <2> QED
    BY <1>1, <2>2, LenProperties DEF BucketLen, OnFile
<1>2. CASE OnFile(e)
  BY <1>2, BucketFacts, FileBucketFacts DEF BucketLen, OnFile
<1>3. CASE e.type = "eos"
  BY <1>3 DEF BucketLen, OnFile
<1> QED
  BY <1>1, <1>2, <1>3, BucketFacts DEF OnFile

\* What a bucket holds is bytes, wherever they are.
LEMMA DataType ==
  ASSUME file \in FileType, NEW e \in Bucket PROVE Data(e) \in Seq(Int)
<1>0. Len(file) \in Nat
  BY LenProperties DEF FileType
<1>1. CASE e.type \in {"mem", "heap"}
  <2>1. e \in MemBucket
    BY <1>0, <1>1, BucketFacts DEF Bucket
  <2> QED
    BY <1>1, <2>1 DEF Data, OnFile, MemBucket
<1>2. CASE OnFile(e)
  <2>1. e.fd \in 1 .. Len(file) /\ e.start \in Nat /\ e.length \in Nat
    BY <1>0, <1>2, BucketFacts, FileBucketFacts DEF Bucket
  <2>2. file[e.fd] \in [data : Seq(Int), at : Nat]
    BY <2>1, ElementOfSeq DEF FileType
  <2> DEFINE d == file[e.fd].data
             m == Least(e.start + e.length, Len(d))
  <2>3. d \in Seq(Int) /\ Len(d) \in Nat
    BY <2>2, LenProperties
  <2>4. m \in Int /\ m <= Len(d)
    BY <2>1, <2>3 DEF Least
  <2>5. Data(e) = SubSeq(d, e.start + 1, m)
    BY <1>2 DEF Data, OnFile
  <2> HIDE DEF d, m
  <2> QED
    BY <2>1, <2>3, <2>4, <2>5, SubSeqType
<1>3. CASE e.type = "eos"
  BY <1>3 DEF Data, EOS, OnFile
<1> QED
  BY <1>0, <1>1, <1>2, <1>3, BucketFacts DEF OnFile, Bucket

\* Buckets stay buckets when files are added.
LEMMA BucketsGrow ==
  ASSUME NEW n \in Nat, NEW m \in Nat, n <= m
  PROVE  BucketsOn(n) \subseteq BucketsOn(m)
BY DEF BucketsOn, FileBuckets

------------------------------------------------------------------------------
(* Lengths and contents *)

\* apr_brigade_length adds up over brigades in a row.
LEMMA LengthFacts ==
  ASSUME NEW n \in Nat, NEW a \in Seq(BucketsOn(n)), NEW b \in Seq(BucketsOn(n))
  PROVE  /\ Length(a) \in Nat
         /\ Length(a \o b) = Length(a) + Length(b)
<1> DEFINE la == [i \in DOMAIN a |-> BucketLen(a[i])]
           lb == [i \in DOMAIN b |-> BucketLen(b[i])]
           c == a \o b
           lc == [i \in DOMAIN c |-> BucketLen(c[i])]
<1>1. /\ c \in Seq(BucketsOn(n)) /\ Len(c) = Len(a) + Len(b) /\ DOMAIN c = 1 .. Len(c)
      /\ DOMAIN a = 1 .. Len(a) /\ DOMAIN b = 1 .. Len(b)
      /\ Len(a) \in Nat /\ Len(b) \in Nat
      /\ \A i \in 1 .. Len(a) + Len(b) : c[i] = IF i <= Len(a) THEN a[i] ELSE b[i - Len(a)]
  BY ConcatProperties, LenProperties
<1>2. la \in Seq(Nat) /\ Len(la) = Len(a)
  <2>1. la \in [1 .. Len(a) -> Nat]
    BY <1>1, ElementOfSeq, BucketLenNat
  <2> QED
    BY <1>1, <2>1
<1>3. lb \in Seq(Nat) /\ Len(lb) = Len(b)
  <2>1. lb \in [1 .. Len(b) -> Nat]
    BY <1>1, ElementOfSeq, BucketLenNat
  <2> QED
    BY <1>1, <2>1
<1>4. lc \in Seq(Nat) /\ Len(lc) = Len(c)
  <2>1. lc \in [1 .. Len(c) -> Nat]
    BY <1>1, ElementOfSeq, BucketLenNat
  <2> QED
    BY <1>1, <2>1
<1>5. lc = la \o lb
  <2>1. la \o lb \in Seq(Nat) /\ Len(la \o lb) = Len(c)
    BY <1>1, <1>2, <1>3, ConcatProperties
  <2>2. ASSUME NEW i \in 1 .. Len(lc) PROVE lc[i] = (la \o lb)[i]
    <3>1. (la \o lb)[i] = IF i <= Len(a) THEN la[i] ELSE lb[i - Len(a)]
      BY <1>1, <1>2, <1>3, <1>4, ConcatProperties
    <3> QED
      BY <1>1, <1>4, <3>1
  <2> QED
    BY <1>4, <2>1, <2>2, SeqEqual
<1> HIDE DEF la, lb, lc, c
<1>6. Length(a) = Total(la) /\ Length(b) = Total(lb) /\ Length(c) = Total(lc)
  BY DEF Length, la, lb, lc
<1> QED
  BY <1>2, <1>3, <1>5, <1>6, TotalConcat, TotalNat DEF c

\* The length of one bucket.
LEMMA LengthOne ==
  ASSUME NEW n \in Nat, NEW e \in BucketsOn(n)
  PROVE  Length(<<e>>) = BucketLen(e)
<1>1. [i \in DOMAIN <<e>> |-> BucketLen(<<e>>[i])] = <<BucketLen(e)>>
  OBVIOUS
<1> QED
  BY <1>1, TotalOne, BucketLenNat DEF Length

\* The length of no bucket.
LEMMA LengthEmpty == Length(<< >>) = 0
<1>1. [i \in DOMAIN << >> |-> BucketLen(<< >>[i])] = << >>
  OBVIOUS
<1> QED
  BY <1>1, TotalEmpty DEF Length

\* There are so many files.
LEMMA FilesNat == ASSUME file \in FileType PROVE Len(file) \in Nat
BY LenProperties DEF FileType

\* What a brigade holds goes through concatenation.
LEMMA ContentFacts ==
  ASSUME file \in FileType, NEW a \in Seq(Bucket), NEW b \in Seq(Bucket)
  PROVE  /\ Content(a) \in Seq(Int)
         /\ Content(a \o b) = Content(a) \o Content(b)
<1> DEFINE da == [i \in DOMAIN a |-> Data(a[i])]
           db == [i \in DOMAIN b |-> Data(b[i])]
           c == a \o b
           dc == [i \in DOMAIN c |-> Data(c[i])]
<1>1. /\ c \in Seq(Bucket) /\ Len(c) = Len(a) + Len(b) /\ DOMAIN c = 1 .. Len(c)
      /\ DOMAIN a = 1 .. Len(a) /\ DOMAIN b = 1 .. Len(b)
      /\ Len(a) \in Nat /\ Len(b) \in Nat
      /\ \A i \in 1 .. Len(a) + Len(b) : c[i] = IF i <= Len(a) THEN a[i] ELSE b[i - Len(a)]
  BY ConcatProperties, LenProperties
<1>2. da \in Seq(Seq(Int)) /\ Len(da) = Len(a)
  <2>1. da \in [1 .. Len(a) -> Seq(Int)]
    BY <1>1, ElementOfSeq, DataType
  <2> QED
    BY <1>1, <2>1
<1>3. db \in Seq(Seq(Int)) /\ Len(db) = Len(b)
  <2>1. db \in [1 .. Len(b) -> Seq(Int)]
    BY <1>1, ElementOfSeq, DataType
  <2> QED
    BY <1>1, <2>1
<1>4. dc \in Seq(Seq(Int)) /\ Len(dc) = Len(c)
  <2>1. dc \in [1 .. Len(c) -> Seq(Int)]
    BY <1>1, ElementOfSeq, DataType
  <2> QED
    BY <1>1, <2>1
<1>5. dc = da \o db
  <2>1. da \o db \in Seq(Seq(Int)) /\ Len(da \o db) = Len(c)
    BY <1>1, <1>2, <1>3, ConcatProperties
  <2>2. ASSUME NEW i \in 1 .. Len(dc) PROVE dc[i] = (da \o db)[i]
    <3>1. (da \o db)[i] = IF i <= Len(a) THEN da[i] ELSE db[i - Len(a)]
      BY <1>1, <1>2, <1>3, <1>4, ConcatProperties
    <3> QED
      BY <1>1, <1>4, <3>1
  <2> QED
    BY <1>4, <2>1, <2>2, SeqEqual
<1> HIDE DEF da, db, dc, c
<1>6. Content(a) = FlattenSeq(da) /\ Content(b) = FlattenSeq(db) /\ Content(c) = FlattenSeq(dc)
  BY DEF Content, da, db, dc
<1>7. FlattenSeq(da \o db) = FlattenSeq(da) \o FlattenSeq(db)
  BY ONLY <1>2, <1>3, FlattenConcat
<1>8. FlattenSeq(da) \in Seq(Int)
  BY ONLY <1>2, FlattenType
<1> QED
  BY ONLY <1>5, <1>6, <1>7, <1>8 DEF c

\* What one bucket holds.
LEMMA ContentOne ==
  ASSUME file \in FileType, NEW e \in Bucket
  PROVE  Content(<<e>>) = Data(e)
<1>1. [i \in DOMAIN <<e>> |-> Data(<<e>>[i])] = <<Data(e)>>
  OBVIOUS
<1> QED
  BY <1>1, FlattenOne, DataType DEF Content

\* What no bucket holds.
LEMMA ContentEmpty == Content(<< >>) = << >>
<1>1. [i \in DOMAIN << >> |-> Data(<< >>[i])] = << >>
  OBVIOUS
<1> QED
  BY <1>1, FlattenEmpty DEF Content

------------------------------------------------------------------------------
(* What the parts of a write make of buckets and bytes. *)

\* Division, for what the prover needs to know of it.
LEMMA Division ==
  ASSUME NEW a \in Nat, NEW d \in Nat \ {0}
  PROVE  /\ a \div d \in Nat
         /\ (a \div d) * d <= a
         /\ a < (a \div d) * d + d
OBVIOUS

\* The lesser of two numbers.
LEMMA LeastFacts ==
  ASSUME NEW a \in Int, NEW b \in Int
  PROVE  Least(a, b) \in {a, b} /\ Least(a, b) <= a /\ Least(a, b) <= b
BY DEF Least

\* A bucket read in pieces.
PiecesOf(e) ==
    IF ~OnFile(e) \/ e.length = 0 THEN <<e>>
    ELSE [k \in 1 .. (e.length + ReadSize - 1) \div ReadSize |->
            FileBucket(e.fd, e.start + (k - 1) * ReadSize,
                       Least(ReadSize, e.length - (k - 1) * ReadSize))]

\* Each piece of a file bucket lies within it.
LEMMA PieceType ==
  ASSUME NEW n \in Nat, NEW e \in FileBuckets(n), e.length # 0,
         NEW k \in 1 .. (e.length + ReadSize - 1) \div ReadSize
  PROVE  /\ (k - 1) * ReadSize \in Nat /\ (k - 1) * ReadSize < e.length
         /\ FileBucket(e.fd, e.start + (k - 1) * ReadSize,
                       Least(ReadSize, e.length - (k - 1) * ReadSize)) \in FileBuckets(n)
<1> DEFINE x == (k - 1) * ReadSize
           q == (e.length + ReadSize - 1) \div ReadSize
<1>1. ReadSize \in Nat \ {0} /\ e.length \in Nat \ {0} /\ e.start \in Nat /\ e.fd \in 1 .. n
  BY SizeAssumption, FileBucketFacts
<1>2. q \in Nat /\ q * ReadSize <= e.length + ReadSize - 1
  <2>1. e.length + ReadSize - 1 \in Nat
    BY <1>1
  <2> QED
    BY <1>1, <2>1, Division
<1>3. k - 1 \in Nat /\ k <= q
  BY <1>2
<1>4. x \in Nat /\ x < e.length
  <2>1. k * ReadSize <= q * ReadSize
    BY <1>1, <1>2, <1>3
  <2>2. x = k * ReadSize - ReadSize
    BY <1>1, <1>3
  <2>3. x \in Nat
    BY <1>1, <1>3
  <2> HIDE DEF x, q
  <2> QED
    BY <1>1, <1>2, <2>1, <2>2, <2>3
<1> HIDE DEF x, q
<1>5. Least(ReadSize, e.length - x) \in Nat
  BY <1>1, <1>4 DEF Least
<1>6. FileBucket(e.fd, e.start + x, Least(ReadSize, e.length - x)) \in FileBuckets(n)
  BY <1>1, <1>4, <1>5 DEF FileBuckets, FileBucket
<1> QED
  BY <1>4, <1>6 DEF x

\* The pieces of a bucket are buckets on the same files.
LEMMA PiecesOfType ==
  ASSUME NEW n \in Nat, NEW e \in BucketsOn(n)
  PROVE  PiecesOf(e) \in Seq(BucketsOn(n))
<1>1. CASE ~OnFile(e) \/ e.length = 0
  BY <1>1 DEF PiecesOf
<1>2. CASE OnFile(e) /\ e.length # 0
  <2> DEFINE q == (e.length + ReadSize - 1) \div ReadSize
             piece(k) == FileBucket(e.fd, e.start + (k - 1) * ReadSize,
                                    Least(ReadSize, e.length - (k - 1) * ReadSize))
  <2>1. e \in FileBuckets(n)
    BY <1>2, BucketFacts
  <2>2. \A k \in 1 .. q : piece(k) \in BucketsOn(n)
    BY <1>2, <2>1, PieceType DEF BucketsOn
  <2>3. q \in Nat
    <3>1. ReadSize \in Nat \ {0} /\ e.length + ReadSize - 1 \in Nat
      BY <2>1, SizeAssumption, FileBucketFacts
    <3> QED
      BY <3>1, Division
  <2>4. PiecesOf(e) = [k \in 1 .. q |-> piece(k)]
    BY <1>2 DEF PiecesOf
  <2> HIDE DEF q, piece
  <2>5. [k \in 1 .. q |-> piece(k)] \in Seq(BucketsOn(n))
    BY <2>2, <2>3
  <2> QED
    BY <2>4, <2>5
<1> QED
  BY <1>1, <1>2

\* The pieces of a brigade are buckets on the same files.
LEMMA PiecesType ==
  ASSUME NEW n \in Nat, NEW bb \in Seq(BucketsOn(n))
  PROVE  Pieces(bb) \in Seq(BucketsOn(n))
<1> DEFINE p == [i \in DOMAIN bb |-> PiecesOf(bb[i])]
<1>1. Pieces(bb) = FlattenSeq(p)
  BY DEF Pieces, PiecesOf
<1>2. p \in Seq(Seq(BucketsOn(n)))
  <2>1. DOMAIN bb = 1 .. Len(bb) /\ Len(bb) \in Nat
    BY LenProperties
  <2>2. p \in [1 .. Len(bb) -> Seq(BucketsOn(n))]
    BY <2>1, ElementOfSeq, PiecesOfType
  <2> HIDE DEF p
  <2> QED
    BY <2>1, <2>2
<1> HIDE DEF p
<1> QED
  BY <1>1, <1>2, FlattenType

\* What is loaded for a write, and what is left for later ones.
LEMMA LoadType ==
  ASSUME TypeOK, call \in CallType
  PROVE  /\ ToLoad \in Seq(Bucket) /\ Unloaded \in Seq(Bucket)
         /\ Loaded \in Seq(Seq(Int))
         /\ call.rest = ToLoad \o Unloaded
<1>1. call.rest \in Seq(Bucket) /\ call.v \in Seq(Seq(Int)) /\ file \in FileType
  BY DEF CallType, CallTypeOn, Bucket, TypeOK
<1> DEFINE n == Least(NElts - Len(call.v), Len(call.rest))
<1>2. Len(call.rest) \in Nat /\ Len(call.v) \in Nat /\ NElts \in Nat
  BY <1>1, LenProperties, SizeAssumption
<1>3. n \in Int /\ n <= Len(call.rest)
  BY <1>2, LeastFacts
<1>4. ToLoad \in Seq(Bucket) /\ Len(ToLoad) = IF 1 <= n THEN n ELSE 0
  <2> HIDE DEF n
  <2>1. ToLoad = SubSeq(call.rest, 1, n)
    BY DEF ToLoad, n
  <2> QED
    BY <1>1, <1>3, <2>1, SubSeqType
<1>5. Len(ToLoad) \in 0 .. Len(call.rest)
  BY <1>2, <1>3, <1>4
<1>6. ToLoad = SubSeq(call.rest, 1, Len(ToLoad))
  <2>1. CASE 1 <= n
    BY <1>4, <2>1 DEF ToLoad
  <2>2. CASE ~(1 <= n)
    <3>1. ToLoad = << >>
      BY <1>3, <2>2, SubSeqEmpty DEF ToLoad
    <3>2. SubSeq(call.rest, 1, 0) = << >>
      BY SubSeqEmpty
    <3> QED
      BY <1>4, <2>2, <3>1, <3>2
  <2> QED
    BY <2>1, <2>2
<1>7. call.rest = ToLoad \o Unloaded
  BY <1>1, <1>5, <1>6, InTwo DEF Unloaded
<1>8. Unloaded \in Seq(Bucket)
  BY <1>1, <1>2, <1>5, SubSeqType DEF Unloaded
<1> HIDE DEF n
<1>9. Loaded \in Seq(Seq(Int))
  <2> DEFINE d == [i \in DOMAIN ToLoad |-> Data(ToLoad[i])]
  <2>1. Len(ToLoad) \in Nat /\ DOMAIN ToLoad = 1 .. Len(ToLoad)
    BY <1>4, LenProperties
  <2>2. d \in [1 .. Len(ToLoad) -> Seq(Int)]
    BY <1>1, <1>4, <2>1, ElementOfSeq, DataType
  <2>3. d \in Seq(Seq(Int))
    BY <2>1, <2>2
  <2> HIDE DEF d
  <2>4. call.v \o d \in Seq(Seq(Int))
    BY <1>1, <2>3, ConcatProperties
  <2> QED
    BY <2>4 DEF Loaded, d
<1> QED
  BY <1>4, <1>7, <1>8, <1>9

\* What n of the iovecs hold.
Prefix(v, n) == Len(FlattenSeq(SubSeq(v, 1, n)))

\* What the iovecs hold, counted iovec by iovec.
LEMMA PrefixFacts ==
  ASSUME NEW v \in Seq(Seq(Int))
  PROVE  /\ Len(v) \in Nat
         /\ \A n \in 0 .. Len(v) : Prefix(v, n) \in Nat
         /\ Prefix(v, 0) = 0
         /\ Prefix(v, Len(v)) = Len(FlattenSeq(v))
         /\ \A n \in 1 .. Len(v) : Prefix(v, n) = Prefix(v, n - 1) + Len(v[n])
<1>1. Len(v) \in Nat
  BY LenProperties
<1>2. ASSUME NEW n \in 0 .. Len(v) PROVE Prefix(v, n) \in Nat
  <2>1. SubSeq(v, 1, n) \in Seq(Seq(Int))
    BY <1>1, SubSeqType
  <2>2. FlattenSeq(SubSeq(v, 1, n)) \in Seq(Int)
    BY ONLY <2>1, FlattenType
  <2> QED
    BY <2>2, LenProperties DEF Prefix
<1>3. Prefix(v, 0) = 0
  <2>1. SubSeq(v, 1, 0) = << >>
    BY SubSeqEmpty
  <2>2. FlattenSeq(SubSeq(v, 1, 0)) = << >>
    BY ONLY <2>1, FlattenEmpty
  <2> QED
    BY ONLY <2>2, Len(<< >>) = 0 DEF Prefix
<1>4. Prefix(v, Len(v)) = Len(FlattenSeq(v))
  BY SubSeqFull DEF Prefix
<1>5. ASSUME NEW n \in 1 .. Len(v) PROVE Prefix(v, n) = Prefix(v, n - 1) + Len(v[n])
  <2>1. SubSeq(v, 1, n) = SubSeq(v, 1, n - 1) \o <<v[n]>>
    BY <1>1, SubSeqRecursiveSecond, 1 \in 1 .. Len(v), n \in 1 .. Len(v)
  <2>2. SubSeq(v, 1, n - 1) \in Seq(Seq(Int)) /\ v[n] \in Seq(Int)
    BY <1>1, SubSeqType, ElementOfSeq
  <2>3. PICK s \in Seq(Seq(Int)) : s = SubSeq(v, 1, n - 1)
    BY <2>2
  <2>4. PICK x \in Seq(Int) : x = v[n]
    BY <2>2
  <2>5. FlattenSeq(s \o <<x>>) = FlattenSeq(s) \o FlattenSeq(<<x>>)
    BY FlattenConcat, <<x>> \in Seq(Seq(Int))
  <2>6. FlattenSeq(<<x>>) = x /\ FlattenSeq(s) \in Seq(Int)
    BY FlattenOne, FlattenType
  <2>7. Len(FlattenSeq(s \o <<x>>)) = Len(FlattenSeq(s)) + Len(x)
    BY <2>5, <2>6, ConcatProperties
  <2> QED
    BY ONLY <2>1, <2>3, <2>4, <2>7 DEF Prefix
<1> QED
  BY <1>1, <1>2, <1>3, <1>4, <1>5

\* apreq_fwritev finds the iovecs that a write used up: those before hold no
\* more than was written, and the next would hold more.
LEMMA UsedUpFacts ==
  ASSUME NEW v \in Seq(Seq(Int)), NEW len \in 0 .. Len(FlattenSeq(v))
  PROVE  /\ UsedUp(v, len) \in 0 .. Len(v)
         /\ Prefix(v, UsedUp(v, len)) <= len
         /\ UsedUp(v, len) < Len(v) => Prefix(v, UsedUp(v, len) + 1) > len
<1> DEFINE t == [n \in 0 .. Len(v) |-> Prefix(v, n)]
<1>1. Len(v) \in Nat /\ t \in [0 .. Len(v) -> Nat] /\ t[0] = 0 /\ len \in Nat
  <2>1. Len(FlattenSeq(v)) \in Nat
    BY FlattenType, LenProperties
  <2> QED
    BY <2>1, PrefixFacts
<1>2. \E n \in 0 .. Len(v) : t[n] <= len /\ (n < Len(v) => t[n + 1] > len)
  <2> HIDE DEF t
  <2>1. PICK n \in Nat : n = Len(v)
    BY <1>1
  <2>2. PICK k \in Nat : k = len
    BY <1>1
  <2>3. t \in [0 .. n -> Nat] /\ t[0] <= k
    BY <1>1, <2>1, <2>2
  <2>4. \E m \in 0 .. n : t[m] <= k /\ (m < n => t[m + 1] > k)
    BY ONLY <2>3, Crossing, n \in Nat, k \in Nat
  <2> QED
    BY ONLY <2>1, <2>2, <2>4
<1>3. \E n \in 0 .. Len(v) : Prefix(v, n) <= len /\ (n < Len(v) => Prefix(v, n + 1) > len)
  BY <1>1, <1>2
<1> QED
  BY <1>3 DEF UsedUp, Prefix

\* What is left of the iovecs is iovecs.
LEMMA ShiftedType ==
  ASSUME NEW v \in Seq(Seq(Int)), NEW len \in 0 .. Len(FlattenSeq(v))
  PROVE  Shifted(v, len) \in Seq(Seq(Int))
<1> DEFINE n == UsedUp(v, len)
           done == len - Prefix(v, n)
<1>1. n \in 0 .. Len(v) /\ done \in Nat /\ Len(v) \in Nat
  BY UsedUpFacts, PrefixFacts
<1>2. CASE n = Len(v)
  BY <1>2 DEF Shifted
<1>3. CASE n # Len(v)
  <2>1. v[n + 1] \in Seq(Int) /\ n + 1 \in 1 .. Len(v)
    BY <1>1, <1>3, ElementOfSeq
  <2> DEFINE x == SubSeq(v[n + 1], done + 1, Len(v[n + 1]))
             y == SubSeq(v, n + 2, Len(v))
  <2>2. x \in Seq(Int)
    <3>1. Len(v[n + 1]) \in Nat
      BY <2>1, LenProperties
    <3> HIDE DEF n, done
    <3> QED
      BY <1>1, <2>1, <3>1, SubSeqType
  <2>3. y \in Seq(Seq(Int))
    <3> HIDE DEF n
    <3> QED
      BY <1>1, SubSeqType
  <2>4. Shifted(v, len) = <<x>> \o y
    BY <1>3 DEF Shifted, Prefix
  <2> HIDE DEF x, y
  <2>5. <<x>> \in Seq(Seq(Int))
    BY <2>2
  <2> QED
    BY ONLY <2>3, <2>4, <2>5, ConcatProperties
<1> QED
  BY <1>2, <1>3

\* So it is when what they refer to has been freed.
LEMMA RemainingType ==
  ASSUME NEW v \in Seq(Seq(Int)), NEW len \in 0 .. Len(FlattenSeq(v)), NEW w \in Remaining(v, len)
  PROVE  w \in Seq(Seq(Int))
<1>1. PICK left \in Seq(Seq(Int)) : left = Shifted(v, len)
  BY ShiftedType
<1> DEFINE junk == [i \in DOMAIN left |-> [j \in DOMAIN left[i] |-> Junk]]
<1>2. junk \in Seq(Seq(Int))
  <2>1. Len(left) \in Nat /\ DOMAIN left = 1 .. Len(left)
    BY LenProperties
  <2>2. ASSUME NEW i \in 1 .. Len(left) PROVE [j \in DOMAIN left[i] |-> Junk] \in Seq(Int)
    <3>1. left[i] \in Seq(Int)
      BY ElementOfSeq
    <3>2. Len(left[i]) \in Nat /\ DOMAIN left[i] = 1 .. Len(left[i])
      BY <3>1, LenProperties
    <3> QED
      BY <3>2 DEF Junk
  <2> QED
    BY <2>1, <2>2
<1>3. w = left \/ w = junk
  BY <1>1 DEF Remaining
<1> QED
  BY <1>2, <1>3

\* A file that is written.
LEMMA WrittenType ==
  ASSUME NEW f \in [data : Seq(Int), at : Nat], NEW d \in Seq(Int)
  PROVE  Written(f, d) \in [data : Seq(Int), at : Nat]
<1> DEFINE gap == [i \in 1 .. f.at - Len(f.data) |-> Junk]
<1>1. f.data \in Seq(Int) /\ f.at \in Nat /\ Len(f.data) \in Nat /\ Len(d) \in Nat
  BY LenProperties
<1>2. gap \in Seq(Int) /\ Len(gap) = IF f.at > Len(f.data) THEN f.at - Len(f.data) ELSE 0
  <2>1. CASE f.at > Len(f.data)
    <3>1. f.at - Len(f.data) \in Nat
      BY <1>1, <2>1
    <3> QED
      BY SMTT(30), <2>1, <3>1 DEF Junk
  <2>2. CASE ~(f.at > Len(f.data))
    <3>1. gap = [i \in 1 .. 0 |-> Junk]
      BY <1>1, <2>2
    <3>2. [i \in 1 .. 0 |-> Junk] \in Seq(Int) /\ Len([i \in 1 .. 0 |-> Junk]) = 0
      BY DEF Junk
    <3> HIDE DEF gap
    <3> QED
      BY <2>2, <3>1, <3>2
  <2> QED
    BY <2>1, <2>2
<1>3. PICK g \in Seq(Int) : g = gap /\ Len(g) = Len(gap)
  BY <1>2
<1> HIDE DEF gap
<1>4. PICK h \in Seq(Int) : h = f.data \o g /\ Len(h) = Len(f.data) + Len(g)
  BY <1>1, ConcatProperties
<1>5. PICK at \in Nat : at = f.at /\ at <= Len(h)
  BY <1>1, <1>2, <1>3, <1>4
<1>6. PICK p \in Seq(Int) : p = SubSeq(h, 1, f.at)
  <2>1. SubSeq(h, 1, at) \in Seq(Int)
    BY <1>5, SubSeqType
  <2> QED
    BY <1>5, <2>1
<1>7. PICK q \in Seq(Int) : q = SubSeq(f.data, f.at + Len(d) + 1, Len(f.data))
  <2>1. PICK x \in Seq(Int) : x = f.data
    BY <1>1
  <2>2. PICK m \in Nat \ {0} : m = f.at + Len(d) + 1
    BY <1>1
  <2>3. SubSeq(x, m, Len(x)) \in Seq(Int)
    BY SubSeqType, LenProperties
  <2> QED
    BY ONLY <2>1, <2>2, <2>3
<1>8. (p \o d) \o q \in Seq(Int)
  BY ConcatProperties
<1>9. Written(f, d) = [data |-> (p \o d) \o q, at |-> f.at + Len(d)]
  BY <1>3, <1>4, <1>6, <1>7 DEF Written, gap
<1> QED
  BY <1>1, <1>8, <1>9

\* Where the descriptors are after buckets have been read.
LEMMA ReadOffsetsType ==
  ASSUME file \in FileType, NEW bb \in Seq(Bucket)
  PROVE  /\ ReadOffsets(bb) \in FileType
         /\ Len(ReadOffsets(bb)) = Len(file)
         /\ \A f \in 1 .. Len(file) : ReadOffsets(bb)[f].data = file[f].data
<1>1. Len(file) \in Nat /\ DOMAIN file = 1 .. Len(file) /\ Len(bb) \in Nat /\ DOMAIN bb = 1 .. Len(bb)
  BY LenProperties DEF FileType
<1>2. ASSUME NEW f \in 1 .. Len(file)
      PROVE  LET on == {i \in DOMAIN bb : OnFile(bb[i]) /\ bb[i].fd = f}
                 g == IF on = {} THEN file[f]
                      ELSE [file[f] EXCEPT !.at = bb[Max(on)].start + bb[Max(on)].length]
             IN  g \in [data : Seq(Int), at : Nat] /\ g.data = file[f].data
  <2> DEFINE on == {i \in DOMAIN bb : OnFile(bb[i]) /\ bb[i].fd = f}
  <2>1. file[f] \in [data : Seq(Int), at : Nat]
    BY ElementOfSeq DEF FileType
  <2>2. CASE on = {}
    BY <2>1, <2>2
  <2>3. CASE on # {}
    <3>1. Max(on) \in on
      <4>1. on \in SUBSET (1 .. Len(bb))
        BY <1>1
      <4> HIDE DEF on
      <4> QED
        BY <1>1, <2>3, <4>1, MaxIs
    <3>2. PICK m \in 1 .. Len(bb) : m = Max(on) /\ OnFile(bb[m])
      BY <1>1, <3>1
    <3>3. bb[m].start \in Nat /\ bb[m].length \in Nat
      BY <1>1, <3>2, ElementOfSeq, BucketFacts, FileBucketFacts DEF Bucket
    <3>4. bb[Max(on)].start + bb[Max(on)].length \in Nat
      BY <3>2, <3>3
    <3> HIDE DEF on
    <3> QED
      BY <2>1, <2>3, <3>4 DEF on
  <2> QED
    BY <2>2, <2>3
<1>3. DOMAIN ReadOffsets(bb) = 1 .. Len(file)
  BY <1>1 DEF ReadOffsets
<1>4. \A f \in 1 .. Len(file) : /\ ReadOffsets(bb)[f] \in [data : Seq(Int), at : Nat]
                                /\ ReadOffsets(bb)[f].data = file[f].data
  BY <1>1, <1>2 DEF ReadOffsets
<1>5. ReadOffsets(bb) = [f \in 1 .. Len(file) |-> ReadOffsets(bb)[f]]
  BY <1>1 DEF ReadOffsets
<1>6. PICK r : r = ReadOffsets(bb)
  OBVIOUS
<1>7. r \in [1 .. Len(file) -> [data : Seq(Int), at : Nat]]
  BY ONLY <1>4, <1>5, <1>6
<1>8. r \in FileType /\ Len(r) = Len(file)
  <2>1. PICK n \in Nat : n = Len(file)
    BY <1>1
  <2> DEFINE X == [data : Seq(Int), at : Nat]
  <2>2. r \in [1 .. n -> X]
    BY <1>7, <2>1
  <2> HIDE DEF X
  <2>3. r \in Seq(X) /\ Len(r) = n
    BY ONLY <2>2, n \in Nat
  <2> QED
    BY SMTT(30), <2>1, <2>3 DEF FileType, X
<1> QED
  BY <1>4, <1>6, <1>8

\* Numbers no less than others come to no less.
LEMMA TotalMonotone ==
  ASSUME NEW a \in Seq(Nat), NEW b \in Seq(Nat), Len(a) = Len(b),
         \A i \in 1 .. Len(a) : a[i] <= b[i]
  PROVE  Total(a) <= Total(b)
<1>1. PICK t : Sums(t, a, Len(a)) /\ Total(a) = t[Len(a)]
  BY SumsExist
<1>2. PICK u : Sums(u, b, Len(b)) /\ Total(b) = u[Len(b)]
  BY SumsExist
<1>3. PICK n \in Nat : n = Len(a) /\ n = Len(b)
  BY LenProperties
<1> DEFINE Below == {m \in Nat : m <= n => t[m] <= u[m]}
<1>4. 0 \in Below
  BY <1>1, <1>2 DEF Sums
<1>5. ASSUME NEW m \in Nat, m \in Below PROVE m + 1 \in Below
  <2>1. SUFFICES ASSUME m + 1 <= n PROVE t[m + 1] <= u[m + 1]
    OBVIOUS
  <2>2. m + 1 \in 1 .. n /\ m \in 0 .. n /\ (m + 1) - 1 = m
    BY <2>1
  <2>3. t[m] \in Nat /\ u[m] \in Nat /\ t[m] <= u[m]
    <3>1. t[m] <= u[m]
      BY <1>5, <2>1
    <3>2. t[m] \in Nat /\ u[m] \in Nat
      BY ONLY <1>1, <1>2, <1>3, <2>2 DEF Sums
    <3> QED
      BY <3>1, <3>2
  <2>4. t[m + 1] = t[m] + a[m + 1] /\ u[m + 1] = u[m] + b[m + 1]
    BY <1>1, <1>2, <1>3, <2>2 DEF Sums
  <2>5. a[m + 1] \in Nat /\ b[m + 1] \in Nat /\ a[m + 1] <= b[m + 1]
    BY <1>3, <2>2, ElementOfSeq
  <2> QED
    BY <2>3, <2>4, <2>5
<1> HIDE DEF Below
<1>6. Nat \subseteq Below
  BY <1>4, <1>5, SetInduction
<1> QED
  BY <1>1, <1>2, <1>3, <1>6 DEF Below

------------------------------------------------------------------------------
(* What of a brigade is in memory, and which files it may write behind. *)

MemLen(e) == IF e.type = "mem" THEN Len(e.data) ELSE 0

HasMem(bb) == \E i \in DOMAIN bb : bb[i].type = "mem"

\* The files on which bb has a spool bucket, and that no file has two.
Spools(bb) == {bb[i].fd : i \in {j \in DOMAIN bb : bb[j].type = "spool"}}

OneSpool(bb) ==
    \A i, j \in DOMAIN bb :
        bb[i].type = "spool" /\ bb[j].type = "spool" /\ bb[i].fd = bb[j].fd => i = j

\* A bucket has no more in memory than it is long.
LEMMA MemLenFacts ==
  ASSUME NEW n \in Nat, NEW e \in BucketsOn(n)
  PROVE  MemLen(e) \in Nat /\ MemLen(e) <= BucketLen(e)
<1>1. CASE e.type = "mem"
  <2>1. e \in MemBucket
    BY <1>1, BucketFacts
  <2>2. Len(e.data) \in Nat
    BY <2>1, LenProperties DEF MemBucket
  <2> QED
    BY <1>1, <2>2 DEF MemLen, BucketLen, OnFile
<1>2. CASE e.type # "mem"
  BY <1>2, BucketLenNat DEF MemLen
<1> QED
  BY <1>1, <1>2

\* What a brigade has in memory adds up, and is no more than its length.
LEMMA InMemoryFacts ==
  ASSUME NEW n \in Nat, NEW a \in Seq(BucketsOn(n)), NEW b \in Seq(BucketsOn(n))
  PROVE  /\ InMemory(a) \in Nat
         /\ InMemory(a) <= Length(a)
         /\ InMemory(a \o b) = InMemory(a) + InMemory(b)
<1> DEFINE la == [i \in DOMAIN a |-> MemLen(a[i])]
           ka == [i \in DOMAIN a |-> BucketLen(a[i])]
           lb == [i \in DOMAIN b |-> MemLen(b[i])]
           c == a \o b
           lc == [i \in DOMAIN c |-> MemLen(c[i])]
<1>1. /\ c \in Seq(BucketsOn(n)) /\ Len(c) = Len(a) + Len(b) /\ DOMAIN c = 1 .. Len(c)
      /\ DOMAIN a = 1 .. Len(a) /\ DOMAIN b = 1 .. Len(b)
      /\ Len(a) \in Nat /\ Len(b) \in Nat
      /\ \A i \in 1 .. Len(a) + Len(b) : c[i] = IF i <= Len(a) THEN a[i] ELSE b[i - Len(a)]
  BY ConcatProperties, LenProperties
<1>2. la \in Seq(Nat) /\ Len(la) = Len(a)
  <2>1. la \in [1 .. Len(a) -> Nat]
    BY <1>1, ElementOfSeq, MemLenFacts
  <2> QED
    BY <1>1, <2>1
<1>3. lb \in Seq(Nat) /\ Len(lb) = Len(b)
  <2>1. lb \in [1 .. Len(b) -> Nat]
    BY <1>1, ElementOfSeq, MemLenFacts
  <2> QED
    BY <1>1, <2>1
<1>4. lc \in Seq(Nat) /\ Len(lc) = Len(c)
  <2>1. lc \in [1 .. Len(c) -> Nat]
    BY <1>1, ElementOfSeq, MemLenFacts
  <2> QED
    BY <1>1, <2>1
<1>5. lc = la \o lb
  <2>1. la \o lb \in Seq(Nat) /\ Len(la \o lb) = Len(c)
    BY <1>1, <1>2, <1>3, ConcatProperties
  <2>2. ASSUME NEW i \in 1 .. Len(lc) PROVE lc[i] = (la \o lb)[i]
    <3>1. (la \o lb)[i] = IF i <= Len(a) THEN la[i] ELSE lb[i - Len(a)]
      BY <1>1, <1>2, <1>3, <1>4, ConcatProperties
    <3> QED
      BY <1>1, <1>4, <3>1
  <2> QED
    BY <1>4, <2>1, <2>2, SeqEqual
<1>6. ka \in Seq(Nat) /\ Len(ka) = Len(a) /\ Length(a) = Total(ka)
  <2>1. ka \in [1 .. Len(a) -> Nat]
    BY <1>1, ElementOfSeq, BucketLenNat
  <2> QED
    BY <1>1, <2>1 DEF Length
<1>7. \A i \in 1 .. Len(la) : la[i] <= ka[i]
  BY <1>1, <1>2, ElementOfSeq, MemLenFacts
<1> HIDE DEF la, lb, lc, ka, c
<1>8. InMemory(a) = Total(la) /\ InMemory(b) = Total(lb) /\ InMemory(c) = Total(lc)
  BY DEF InMemory, MemLen, la, lb, lc
<1>9. Total(la) <= Total(ka)
  BY <1>2, <1>6, <1>7, TotalMonotone
<1> QED
  BY <1>2, <1>3, <1>5, <1>6, <1>8, <1>9, TotalConcat, TotalNat DEF c

\* What one bucket has in memory.
LEMMA InMemoryOne ==
  ASSUME NEW n \in Nat, NEW e \in BucketsOn(n)
  PROVE  InMemory(<<e>>) = MemLen(e)
<1>1. [i \in DOMAIN <<e>> |-> MemLen(<<e>>[i])] = <<MemLen(e)>>
  OBVIOUS
<1> QED
  BY <1>1, TotalOne, MemLenFacts DEF InMemory, MemLen

\* No bucket has nothing in memory.
LEMMA InMemoryEmpty == InMemory(<< >>) = 0
<1>1. [i \in DOMAIN << >> |-> MemLen(<< >>[i])] = << >>
  OBVIOUS
<1> QED
  BY <1>1, TotalEmpty DEF InMemory, MemLen

\* What it means to have a spool bucket on f.
LEMMA SpoolsHas ==
  ASSUME NEW bb, NEW f
  PROVE  f \in Spools(bb) <=> \E i \in DOMAIN bb : bb[i].type = "spool" /\ bb[i].fd = f
BY DEF Spools

\* The spool buckets of two brigades in a row are those of both, and no file
\* has two when neither brigade has two on it and none is in both.
LEMMA SpoolsConcat ==
  ASSUME NEW n \in Nat, NEW a \in Seq(BucketsOn(n)), NEW b \in Seq(BucketsOn(n))
  PROVE  /\ Spools(a \o b) = Spools(a) \cup Spools(b)
         /\ OneSpool(a \o b) <=> OneSpool(a) /\ OneSpool(b) /\ Spools(a) \cap Spools(b) = {}
         /\ HasMem(a \o b) <=> HasMem(a) \/ HasMem(b)
<1> DEFINE c == a \o b
           A == DOMAIN a
           B == DOMAIN b
           C == DOMAIN c
           at(j) == j + Len(a)
<1>1. /\ \A i \in A : i \in C /\ c[i] = a[i]
      /\ \A j \in B : at(j) \in C /\ at(j) \notin A /\ c[at(j)] = b[j]
      /\ \A i \in B, j \in B : at(i) = at(j) => i = j
      /\ \A x \in C : x \in A \/ \E j \in B : x = at(j)
  <2>1. /\ Len(a) \in Nat /\ Len(b) \in Nat /\ A = 1 .. Len(a) /\ B = 1 .. Len(b)
        /\ C = 1 .. Len(a) + Len(b)
        /\ \A i \in 1 .. Len(a) + Len(b) : c[i] = IF i <= Len(a) THEN a[i] ELSE b[i - Len(a)]
    BY ConcatProperties, LenProperties
  <2> HIDE DEF c, A, B, C
  <2>2. ASSUME NEW i \in A PROVE i \in C /\ c[i] = a[i]
    BY <2>1
  <2>3. ASSUME NEW j \in B PROVE at(j) \in C /\ at(j) \notin A /\ c[at(j)] = b[j]
    <3>1. j + Len(a) \in 1 .. Len(a) + Len(b) /\ ~(j + Len(a) <= Len(a)) /\ j + Len(a) - Len(a) = j
      BY <2>1
    <3> QED
      BY <2>1, <3>1
  <2>4. ASSUME NEW i \in B, NEW j \in B, at(i) = at(j) PROVE i = j
    BY <2>1, <2>4
  <2>5. ASSUME NEW x \in C, x \notin A PROVE \E j \in B : x = at(j)
    <3>1. x - Len(a) \in B /\ x = (x - Len(a)) + Len(a)
      BY <2>1, <2>5
    <3> QED
      BY <3>1
  <2> HIDE DEF at
  <2> QED
    BY <2>2, <2>3, <2>4, <2>5
<1> HIDE DEF c, A, B, C, at
<1>2. ASSUME NEW f PROVE /\ f \in Spools(a) <=> \E i \in A : a[i].type = "spool" /\ a[i].fd = f
                         /\ f \in Spools(b) <=> \E i \in B : b[i].type = "spool" /\ b[i].fd = f
                         /\ f \in Spools(c) <=> \E i \in C : c[i].type = "spool" /\ c[i].fd = f
  BY SpoolsHas DEF A, B, C
<1>3. Spools(c) = Spools(a) \cup Spools(b)
  BY <1>1, <1>2
<1>4. HasMem(c) <=> HasMem(a) \/ HasMem(b)
  BY <1>1 DEF HasMem, A, B, C
<1>5. /\ OneSpool(a) <=> \A i \in A, j \in A : a[i].type = "spool" /\ a[j].type = "spool" /\ a[i].fd = a[j].fd => i = j
      /\ OneSpool(b) <=> \A i \in B, j \in B : b[i].type = "spool" /\ b[j].type = "spool" /\ b[i].fd = b[j].fd => i = j
      /\ OneSpool(c) <=> \A i \in C, j \in C : c[i].type = "spool" /\ c[j].type = "spool" /\ c[i].fd = c[j].fd => i = j
  BY DEF OneSpool, A, B, C
<1>6. ASSUME OneSpool(c) PROVE OneSpool(a) /\ OneSpool(b) /\ Spools(a) \cap Spools(b) = {}
  <2>1. OneSpool(a)
    BY <1>1, <1>5, <1>6
  <2>2. OneSpool(b)
    BY <1>1, <1>5, <1>6
  <2>3. ASSUME NEW f \in Spools(a), f \in Spools(b) PROVE FALSE
    <3>1. PICK i \in A : a[i].type = "spool" /\ a[i].fd = f
      BY <1>2, <2>3
    <3>2. PICK j \in B : b[j].type = "spool" /\ b[j].fd = f
      BY <1>2, <2>3
    <3>3. i = at(j)
      BY <1>1, <1>5, <1>6, <3>1, <3>2
    <3> QED
      BY <1>1, <3>3
  <2> QED
    BY <2>1, <2>2, <2>3
<1>7. ASSUME OneSpool(a), OneSpool(b), Spools(a) \cap Spools(b) = {} PROVE OneSpool(c)
  <2>1. SUFFICES ASSUME NEW i \in C, NEW j \in C,
                        c[i].type = "spool", c[j].type = "spool", c[i].fd = c[j].fd
                 PROVE  i = j
    BY <1>5
  <2>2. CASE i \in A /\ j \in A
    BY <1>1, <1>5, <1>7, <2>1, <2>2
  <2>3. CASE i \notin A /\ j \notin A
    <3>1. PICK x \in B : i = at(x)
      BY <1>1, <2>3
    <3>2. PICK y \in B : j = at(y)
      BY <1>1, <2>3
    <3> QED
      BY <1>1, <1>5, <1>7, <2>1, <3>1, <3>2
  <2>4. CASE i \in A /\ j \notin A
    <3>1. PICK y \in B : j = at(y)
      BY <1>1, <2>4
    <3>2. a[i].type = "spool" /\ b[y].type = "spool" /\ a[i].fd = b[y].fd
      BY <1>1, <2>1, <2>4, <3>1
    <3>3. a[i].fd \in Spools(a) /\ b[y].fd \in Spools(b)
      BY <1>2, <2>4, <3>2
    <3> QED
      BY <1>7, <3>2, <3>3
  <2>5. CASE i \notin A /\ j \in A
    <3>1. PICK x \in B : i = at(x)
      BY <1>1, <2>5
    <3>2. b[x].type = "spool" /\ a[j].type = "spool" /\ b[x].fd = a[j].fd
      BY <1>1, <2>1, <2>5, <3>1
    <3>3. b[x].fd \in Spools(b) /\ a[j].fd \in Spools(a)
      BY <1>2, <2>5, <3>2
    <3> QED
      BY <1>7, <3>2, <3>3
  <2> QED
    BY <2>2, <2>3, <2>4, <2>5
<1> QED
  BY <1>3, <1>4, <1>6, <1>7 DEF c

\* The spool buckets of one bucket.
LEMMA SpoolsOne ==
  ASSUME NEW e
  PROVE  /\ Spools(<<e>>) = IF e.type = "spool" THEN {e.fd} ELSE {}
         /\ OneSpool(<<e>>)
         /\ HasMem(<<e>>) <=> e.type = "mem"
<1>1. DOMAIN <<e>> = {1} /\ <<e>>[1] = e
  OBVIOUS
<1>2. PICK s : s = <<e>>
  OBVIOUS
<1> QED
  BY ONLY <1>1, <1>2 DEF Spools, OneSpool, HasMem

\* No bucket is no spool bucket.
LEMMA SpoolsEmpty == Spools(<< >>) = {} /\ OneSpool(<< >>) /\ ~HasMem(<< >>)
BY DEF Spools, OneSpool, HasMem

\* bb is made of part of what cc was made of.
Lighter(bb, cc) ==
    /\ Spools(bb) \subseteq Spools(cc)
    /\ OneSpool(cc) => OneSpool(bb)
    /\ InMemory(bb) <= InMemory(cc)
    /\ HasMem(bb) => HasMem(cc)

\* A sequence that is cut in two.
LEMMA Parts ==
  ASSUME NEW S, NEW s \in Seq(S), NEW m \in 0 .. Len(s)
  PROVE  /\ SubSeq(s, 1, m) \in Seq(S) /\ Len(SubSeq(s, 1, m)) = m
         /\ SubSeq(s, m + 1, Len(s)) \in Seq(S) /\ Len(SubSeq(s, m + 1, Len(s))) = Len(s) - m
<1>1. Len(s) \in Nat /\ m \in Nat /\ m <= Len(s)
  BY LenProperties
<1>2. SubSeq(s, 1, m) \in Seq(S) /\ Len(SubSeq(s, 1, m)) = IF 1 <= m THEN m - 1 + 1 ELSE 0
  BY <1>1, SubSeqType
<1>3. /\ SubSeq(s, m + 1, Len(s)) \in Seq(S)
      /\ Len(SubSeq(s, m + 1, Len(s))) = IF m + 1 <= Len(s) THEN Len(s) - (m + 1) + 1 ELSE 0
  <2>1. m + 1 \in Nat \ {0} /\ Len(s) \in Int /\ Len(s) <= Len(s)
    BY <1>1
  <2> QED
    BY <2>1, SubSeqType
<1> QED
  BY <1>1, <1>2, <1>3

\* A brigade is made of what it is made of.
LEMMA LighterRefl ==
  ASSUME NEW n \in Nat, NEW a \in Seq(BucketsOn(n)) PROVE Lighter(a, a)
BY InMemoryFacts DEF Lighter

\* Made of part of what was made of part.
LEMMA LighterTrans ==
  ASSUME NEW n \in Nat, NEW a \in Seq(BucketsOn(n)), NEW b \in Seq(BucketsOn(n)),
         NEW c \in Seq(BucketsOn(n)), Lighter(a, b), Lighter(b, c)
  PROVE  Lighter(a, c)
<1>1. InMemory(a) \in Nat /\ InMemory(b) \in Nat /\ InMemory(c) \in Nat
  BY InMemoryFacts
<1> QED
  BY <1>1 DEF Lighter

\* Two brigades in a row, each made of part of another.
LEMMA LighterConcat ==
  ASSUME NEW n \in Nat, NEW a \in Seq(BucketsOn(n)), NEW b \in Seq(BucketsOn(n)),
         NEW c \in Seq(BucketsOn(n)), NEW d \in Seq(BucketsOn(n)),
         Lighter(a, c), Lighter(b, d)
  PROVE  Lighter(a \o b, c \o d)
<1>1. /\ Spools(a \o b) = Spools(a) \cup Spools(b)
      /\ OneSpool(a \o b) <=> OneSpool(a) /\ OneSpool(b) /\ Spools(a) \cap Spools(b) = {}
      /\ HasMem(a \o b) <=> HasMem(a) \/ HasMem(b)
  BY SpoolsConcat
<1>2. /\ Spools(c \o d) = Spools(c) \cup Spools(d)
      /\ OneSpool(c \o d) <=> OneSpool(c) /\ OneSpool(d) /\ Spools(c) \cap Spools(d) = {}
      /\ HasMem(c \o d) <=> HasMem(c) \/ HasMem(d)
  BY SpoolsConcat
<1>3. InMemory(a \o b) = InMemory(a) + InMemory(b) /\ InMemory(c \o d) = InMemory(c) + InMemory(d)
  BY InMemoryFacts
<1>4. InMemory(a) \in Nat /\ InMemory(b) \in Nat /\ InMemory(c) \in Nat /\ InMemory(d) \in Nat
  BY InMemoryFacts
<1>5. PICK x, y : x = a \o b /\ y = c \o d
  OBVIOUS
<1>6. Spools(x) \subseteq Spools(y) /\ (OneSpool(y) => OneSpool(x)) /\ (HasMem(x) => HasMem(y))
  BY ONLY <1>1, <1>2, <1>5, Lighter(a, c), Lighter(b, d) DEF Lighter
<1>7. InMemory(x) <= InMemory(y)
  BY ONLY SMTT(30), <1>3, <1>4, <1>5, Lighter(a, c), Lighter(b, d) DEF Lighter
<1> QED
  BY <1>5, <1>6, <1>7 DEF Lighter

\* Buckets none of which is in memory weigh nothing.
LEMMA NoMemory ==
  ASSUME NEW n \in Nat, NEW bb \in Seq(BucketsOn(n)), ~HasMem(bb)
  PROVE  InMemory(bb) = 0
<1> DEFINE la == [i \in DOMAIN bb |-> MemLen(bb[i])]
<1>1. DOMAIN bb = 1 .. Len(bb) /\ Len(bb) \in Nat
  BY LenProperties
<1>2. \A i \in 1 .. Len(bb) : la[i] = 0
  BY <1>1 DEF HasMem, MemLen
<1>3. DOMAIN la = 1 .. Len(bb)
  BY <1>1
<1> HIDE DEF la
<1>4. PICK m \in Nat : m = Len(bb)
  BY <1>1
<1>5. PICK t : t = [i \in 0 .. m |-> 0]
  OBVIOUS
<1>6. t[0] = 0 /\ t[m] = 0 /\ \A i \in 1 .. m : t[i] = t[i - 1] + la[i]
  <2>1. \A i \in 0 .. m : t[i] = 0
    BY <1>5
  <2>2. \A i \in 1 .. m : i \in 0 .. m /\ i - 1 \in 0 .. m
    OBVIOUS
  <2> QED
    BY <1>2, <1>4, <2>1, <2>2
<1>7. Total(la) = 0
  <2>1. Total(la) = t[m]
    BY ONLY <1>3, <1>4, <1>6, TotalIs, m \in Nat
  <2> QED
    BY <1>6, <2>1
<1> QED
  BY <1>7 DEF InMemory, la, MemLen

\* Buckets on the files of others, with nothing in memory.
LEMMA LighterOnFile ==
  ASSUME NEW n \in Nat, NEW a \in Seq(BucketsOn(n)), NEW b \in Seq(BucketsOn(n)),
         ~HasMem(a), Spools(a) \subseteq Spools(b), OneSpool(b) => OneSpool(a)
  PROVE  Lighter(a, b)
<1>1. InMemory(a) = 0 /\ InMemory(b) \in Nat
  BY NoMemory, InMemoryFacts
<1> QED
  BY <1>1 DEF Lighter

------------------------------------------------------------------------------
(* The front of a brigade, and a bucket of it that is split. *)

\* apr_bucket_split: both parts are buckets, the front is no spool bucket, and
\* together they have in memory and may write behind what the whole did.
LEMMA SplitType ==
  ASSUME NEW n \in Nat, NEW e \in BucketsOn(n), NEW k \in Nat, k < BucketLen(e)
  PROVE  /\ SplitFront(e, k) \in BucketsOn(n) /\ SplitBack(e, k) \in BucketsOn(n)
         /\ SplitFront(e, k).type # "spool"
         /\ Lighter(<<SplitFront(e, k)>> \o <<SplitBack(e, k)>>, <<e>>)
<1>0. PICK x, y : x = SplitFront(e, k) /\ y = SplitBack(e, k)
  OBVIOUS
<1>1. CASE OnFile(e)
  <2>1. e \in FileBuckets(n) /\ k < e.length
    BY <1>1, BucketFacts DEF BucketLen, OnFile
  <2>2. x = FileBucket(e.fd, e.start, k) /\ y = [e EXCEPT !.start = @ + k, !.length = @ - k]
    BY <1>0, <1>1 DEF SplitFront, SplitBack
  <2>3. x \in FileBuckets(n) /\ x.type = "file"
    BY <2>1, <2>2 DEF FileBuckets, FileBucket
  <2>4. y \in FileBuckets(n) /\ y.type = e.type /\ y.fd = e.fd
    <3>1. e.start + k \in Nat /\ e.length - k \in Nat /\ e.fd \in 1 .. n
      BY <2>1, FileBucketFacts
    <3> QED
      BY <2>1, <2>2, <3>1 DEF FileBuckets
  <2>5. x \in BucketsOn(n) /\ y \in BucketsOn(n) /\ e \in BucketsOn(n)
    BY <2>3, <2>4 DEF BucketsOn
  <2>6. PICK s \in Seq(BucketsOn(n)), t \in Seq(BucketsOn(n)), u \in Seq(BucketsOn(n)) :
          s = <<x>> /\ t = <<y>> /\ u = <<e>>
    <3>1. <<x>> \in Seq(BucketsOn(n)) /\ <<y>> \in Seq(BucketsOn(n)) /\ <<e>> \in Seq(BucketsOn(n))
      BY <2>5
    <3> QED
      BY <3>1
  <2>7. PICK st \in Seq(BucketsOn(n)) : st = s \o t
    BY ConcatProperties
  <2>8. ~HasMem(st) /\ Spools(st) = Spools(u) /\ OneSpool(st)
    <3>1. /\ Spools(s) = {} /\ OneSpool(s) /\ ~HasMem(s)
          /\ Spools(t) = Spools(u) /\ OneSpool(t) /\ ~HasMem(t)
      <4>1. y.type \in {"file", "spool"}
        BY <2>4, FileBucketFacts
      <4> QED
        BY <2>3, <2>4, <2>6, <4>1, SpoolsOne
    <3>2. /\ Spools(st) = Spools(s) \cup Spools(t)
          /\ OneSpool(st) <=> OneSpool(s) /\ OneSpool(t) /\ Spools(s) \cap Spools(t) = {}
          /\ HasMem(st) <=> HasMem(s) \/ HasMem(t)
      BY <2>7, SpoolsConcat
    <3> QED
      BY <3>1, <3>2
  <2>9. Lighter(st, u)
    BY <2>8, LighterOnFile
  <2> QED
    BY <1>0, <2>3, <2>5, <2>6, <2>7, <2>9
<1>2. CASE ~OnFile(e)
  <2>1. e \in MemBucket
    <3>1. e.type # "eos"
      BY <1>2 DEF BucketLen
    <3> QED
      BY <1>2, <3>1, BucketFacts DEF OnFile
  <2>2. e.data \in Seq(Int) /\ Len(e.data) \in Nat /\ BucketLen(e) = Len(e.data)
        /\ e.type \in {"mem", "heap"}
    BY <2>1, LenProperties DEF MemBucket, BucketLen, OnFile
  <2>3. PICK d \in Seq(Int) : d = e.data
    BY <2>2
  <2>31. k \in 0 .. Len(d) /\ Len(d) \in Nat
    BY <2>2, <2>3
  <2>4. PICK a \in Seq(Int) : a = SubSeq(d, 1, k) /\ Len(a) = k
    <3>1. SubSeq(d, 1, k) \in Seq(Int) /\ Len(SubSeq(d, 1, k)) = k
      BY <2>31, Parts
    <3> QED
      BY <3>1
  <2>5. PICK b \in Seq(Int) : b = SubSeq(d, k + 1, Len(d)) /\ Len(b) = Len(d) - k
    <3>1. SubSeq(d, k + 1, Len(d)) \in Seq(Int) /\ Len(SubSeq(d, k + 1, Len(d))) = Len(d) - k
      BY <2>31, Parts
    <3> QED
      BY <3>1
  <2>6. x = [e EXCEPT !.data = a] /\ y = [e EXCEPT !.data = b]
    BY <1>0, <1>2, <2>3, <2>4, <2>5 DEF SplitFront, SplitBack
  <2>7. /\ x \in MemBucket /\ x.type = e.type /\ x.data = a
        /\ y \in MemBucket /\ y.type = e.type /\ y.data = b
    BY <2>1, <2>6 DEF MemBucket
  <2>8. x \in BucketsOn(n) /\ y \in BucketsOn(n) /\ e \in BucketsOn(n)
    BY <2>7 DEF BucketsOn
  <2>9. PICK s \in Seq(BucketsOn(n)), t \in Seq(BucketsOn(n)), u \in Seq(BucketsOn(n)) :
          s = <<x>> /\ t = <<y>> /\ u = <<e>>
    <3>1. <<x>> \in Seq(BucketsOn(n)) /\ <<y>> \in Seq(BucketsOn(n)) /\ <<e>> \in Seq(BucketsOn(n))
      BY <2>8
    <3> QED
      BY <3>1
  <2>10. PICK st \in Seq(BucketsOn(n)) : st = s \o t
    BY ConcatProperties
  <2>11. Spools(st) = {} /\ OneSpool(st) /\ (HasMem(st) <=> HasMem(u))
    <3>1. /\ Spools(s) = {} /\ OneSpool(s) /\ (HasMem(s) <=> e.type = "mem")
          /\ Spools(t) = {} /\ OneSpool(t) /\ (HasMem(t) <=> e.type = "mem")
          /\ (HasMem(u) <=> e.type = "mem")
      BY <2>2, <2>7, <2>9, SpoolsOne
    <3>2. /\ Spools(st) = Spools(s) \cup Spools(t)
          /\ OneSpool(st) <=> OneSpool(s) /\ OneSpool(t) /\ Spools(s) \cap Spools(t) = {}
          /\ HasMem(st) <=> HasMem(s) \/ HasMem(t)
      BY <2>10, SpoolsConcat
    <3> QED
      BY <3>1, <3>2
  <2>12. InMemory(st) = InMemory(u)
    <3>1. InMemory(s) = MemLen(x) /\ InMemory(t) = MemLen(y) /\ InMemory(u) = MemLen(e)
      BY <2>8, <2>9, InMemoryOne
    <3>2. InMemory(st) = MemLen(x) + MemLen(y)
      BY <2>10, <3>1, InMemoryFacts
    <3>3. MemLen(x) + MemLen(y) = MemLen(e)
      <4>1. Len(x.data) + Len(y.data) = Len(e.data)
        <5>1. Len(a) = k /\ Len(b) = Len(d) - k /\ Len(d) \in Nat
          BY ONLY <2>31, <2>4, <2>5
        <5>2. Len(x.data) = Len(a) /\ Len(y.data) = Len(b) /\ Len(e.data) = Len(d)
          BY ONLY <2>3, <2>7
        <5> QED
          BY ONLY <5>1, <5>2, k \in Nat
      <4>2. CASE e.type = "mem"
        BY ONLY <2>7, <4>1, <4>2 DEF MemLen
      <4>3. CASE e.type # "mem"
        BY ONLY <2>7, <4>3 DEF MemLen
      <4> QED
        BY <4>2, <4>3
    <3> QED
      BY <3>1, <3>2, <3>3
  <2>13. InMemory(u) \in Nat
    BY InMemoryFacts
  <2>14. Lighter(st, u)
    BY <2>11, <2>12, <2>13 DEF Lighter
  <2> QED
    BY <1>0, <2>2, <2>7, <2>8, <2>9, <2>10, <2>14
<1> QED
  BY <1>1, <1>2

\* The position of the cut: the buckets before it hold no more than k bytes.
CutAt(bb, k) ==
    CHOOSE n \in 0 .. Len(bb) :
        /\ Length(SubSeq(bb, 1, n)) <= k
        /\ n < Len(bb) => Length(SubSeq(bb, 1, n + 1)) > k
        /\ n = Len(bb) => Length(bb) <= k

\* apr_brigade_partition finds the position: one bucket more would be too long.
LEMMA CutAtFacts ==
  ASSUME NEW n \in Nat, NEW bb \in Seq(BucketsOn(n)), NEW k \in Nat
  PROVE  /\ CutAt(bb, k) \in 0 .. Len(bb)
         /\ Length(SubSeq(bb, 1, CutAt(bb, k))) <= k
         /\ CutAt(bb, k) < Len(bb) => Length(SubSeq(bb, 1, CutAt(bb, k) + 1)) > k
<1> DEFINE t == [m \in 0 .. Len(bb) |-> Length(SubSeq(bb, 1, m))]
<1>1. Len(bb) \in Nat
  BY LenProperties
<1>2. ASSUME NEW m \in 0 .. Len(bb) PROVE Length(SubSeq(bb, 1, m)) \in Nat
  <2>1. SubSeq(bb, 1, m) \in Seq(BucketsOn(n))
    BY Parts
  <2> QED
    BY <2>1, LengthFacts
<1>3. t \in [0 .. Len(bb) -> Nat] /\ t[0] = 0
  <2>1. SubSeq(bb, 1, 0) = << >>
    BY SubSeqEmpty
  <2>2. t[0] = 0
    <3>1. 0 \in 0 .. Len(bb)
      BY <1>1
    <3> QED
      BY <2>1, <3>1, LengthEmpty
  <2> QED
    BY <1>2, <2>2
<1>4. \E m \in 0 .. Len(bb) : t[m] <= k /\ (m < Len(bb) => t[m + 1] > k)
  <2> HIDE DEF t
  <2>1. PICK l \in Nat : l = Len(bb)
    BY <1>1
  <2>2. t \in [0 .. l -> Nat] /\ t[0] <= k
    BY <1>3, <2>1
  <2>3. \E m \in 0 .. l : t[m] <= k /\ (m < l => t[m + 1] > k)
    BY ONLY <2>2, Crossing, l \in Nat, k \in Nat
  <2> QED
    BY ONLY <2>1, <2>3
<1>5. PICK m \in 0 .. Len(bb) : t[m] <= k /\ (m < Len(bb) => t[m + 1] > k)
  BY <1>4
<1>6. /\ Length(SubSeq(bb, 1, m)) <= k
      /\ m < Len(bb) => Length(SubSeq(bb, 1, m + 1)) > k
      /\ m = Len(bb) => Length(bb) <= k
  <2>1. m < Len(bb) => m + 1 \in 0 .. Len(bb)
    BY <1>1
  <2>2. SubSeq(bb, 1, Len(bb)) = bb
    BY SubSeqFull
  <2> QED
    BY <1>5, <2>1, <2>2
<1> QED
  BY <1>6 DEF CutAt

\* A cut falls between two buckets, or splits one.
LEMMA FrontParts ==
  ASSUME NEW n \in Nat, NEW bb \in Seq(BucketsOn(n)), NEW k \in Nat
  PROVE  \/ \E p \in Seq(BucketsOn(n)), q \in Seq(BucketsOn(n)) :
              bb = p \o q /\ Front_(bb, k) = <<p, q>>
         \/ \E p \in Seq(BucketsOn(n)), q \in Seq(BucketsOn(n)), e \in BucketsOn(n), over \in Nat :
              /\ bb = p \o (<<e>> \o q) /\ 0 < over /\ over < BucketLen(e)
              /\ Front_(bb, k) = <<p \o <<SplitFront(e, over)>>, <<SplitBack(e, over)>> \o q>>
<1> DEFINE m == CutAt(bb, k)
           over == k - Length(SubSeq(bb, 1, m))
<1>1. m \in 0 .. Len(bb) /\ Len(bb) \in Nat
  BY CutAtFacts, LenProperties
<1>2. over \in Nat
  <2>1. Length(SubSeq(bb, 1, m)) \in Nat
    <3>1. SubSeq(bb, 1, m) \in Seq(BucketsOn(n))
      BY <1>1, Parts
    <3> QED
      BY <3>1, LengthFacts
  <2>2. Length(SubSeq(bb, 1, m)) <= k
    BY CutAtFacts
  <2> HIDE DEF m
  <2> QED
    BY <2>1, <2>2
<1>3. Front_(bb, k) = IF m = Len(bb) \/ over = 0
                      THEN <<SubSeq(bb, 1, m), SubSeq(bb, m + 1, Len(bb))>>
                      ELSE <<Append(SubSeq(bb, 1, m), SplitFront(bb[m + 1], over)),
                             <<SplitBack(bb[m + 1], over)>> \o SubSeq(bb, m + 2, Len(bb))>>
  BY DEF Front_, CutAt
<1>4. CASE m = Len(bb) \/ over = 0
  <2>1. Front_(bb, k) = <<SubSeq(bb, 1, m), SubSeq(bb, m + 1, Len(bb))>>
    BY <1>3, <1>4
  <2> HIDE DEF m, over
  <2>2. SubSeq(bb, 1, m) \in Seq(BucketsOn(n)) /\ SubSeq(bb, m + 1, Len(bb)) \in Seq(BucketsOn(n))
    BY <1>1, SubSeqType
  <2>3. bb = SubSeq(bb, 1, m) \o SubSeq(bb, m + 1, Len(bb))
    BY <1>1, InTwo
  <2> QED
    BY <2>1, <2>2, <2>3
<1>5. CASE ~(m = Len(bb) \/ over = 0)
  <2>1. m + 1 \in 1 .. Len(bb) /\ m < Len(bb) /\ over \in Nat /\ 0 < over
    BY <1>1, <1>2, <1>5
  <2>2. PICK p \in Seq(BucketsOn(n)) : p = SubSeq(bb, 1, m)
    <3>1. SubSeq(bb, 1, m) \in Seq(BucketsOn(n))
      BY <1>1, Parts
    <3> QED
      BY <3>1
  <2>3. PICK q \in Seq(BucketsOn(n)) : q = SubSeq(bb, m + 2, Len(bb))
    <3>1. m + 1 \in 0 .. Len(bb) /\ (m + 1) + 1 = m + 2
      BY <1>1, <2>1
    <3> HIDE DEF m
    <3>2. SubSeq(bb, (m + 1) + 1, Len(bb)) \in Seq(BucketsOn(n))
      BY <3>1, Parts
    <3> QED
      BY <3>1, <3>2
  <2>4. PICK e \in BucketsOn(n) : e = bb[m + 1]
    BY <2>1, ElementOfSeq
  <2>5. bb = p \o (<<e>> \o q)
    <3>1. (m + 1) - 1 = m /\ (m + 1) + 1 = m + 2
      BY <1>1
    <3> HIDE DEF m
    <3>2. bb = SubSeq(bb, 1, (m + 1) - 1) \o (<<bb[m + 1]>> \o SubSeq(bb, (m + 1) + 1, Len(bb)))
      BY <2>1, SplitAt
    <3> QED
      BY ONLY <2>2, <2>3, <2>4, <3>1, <3>2
  <2>6. over < BucketLen(e)
    <3>1. SubSeq(bb, 1, m + 1) = p \o <<e>>
      <4>1. 1 \in 1 .. Len(bb) /\ (m + 1) - 1 = m
        <5> HIDE DEF m
        <5> QED
          BY <1>1, <2>1
      <4> HIDE DEF m
      <4> QED
        BY <2>1, <2>2, <2>4, <4>1, SubSeqRecursiveSecond
    <3>2. Length(p \o <<e>>) = Length(p) + BucketLen(e)
      <4>1. <<e>> \in Seq(BucketsOn(n)) /\ Length(<<e>>) = BucketLen(e)
        BY LengthOne
      <4> QED
        BY <4>1, LengthFacts
    <3>3. Length(p \o <<e>>) > k
      BY <2>1, <3>1, CutAtFacts
    <3>4. Length(p) \in Nat /\ BucketLen(e) \in Nat
      BY LengthFacts, BucketLenNat
    <3>5. over = k - Length(p)
      BY <2>2
    <3> HIDE DEF over
    <3> QED
      BY <3>2, <3>3, <3>4, <3>5
  <2>7. Front_(bb, k) = <<p \o <<SplitFront(e, over)>>, <<SplitBack(e, over)>> \o q>>
    <3>1. Front_(bb, k) = <<Append(p, SplitFront(e, over)), <<SplitBack(e, over)>> \o q>>
      BY <1>3, <1>5, <2>2, <2>3, <2>4
    <3> HIDE DEF over
    <3>2. SplitFront(e, over) \in BucketsOn(n)
      BY <1>2, <2>6, SplitType
    <3>3. Append(p, SplitFront(e, over)) = p \o <<SplitFront(e, over)>>
      BY <3>2, AppendIsConcat
    <3> QED
      BY <3>1, <3>3
  <2> HIDE DEF over
  <2> QED
    BY <1>2, <2>1, <2>5, <2>6, <2>7
<1> QED
  BY <1>4, <1>5

\* A bucket in the middle of a brigade, replaced by two.
LEMMA LighterInside ==
  ASSUME NEW n \in Nat, NEW p \in Seq(BucketsOn(n)), NEW s \in Seq(BucketsOn(n)),
         NEW t \in Seq(BucketsOn(n)), NEW q \in Seq(BucketsOn(n)),
         NEW u \in Seq(BucketsOn(n)), Lighter(s \o t, u)
  PROVE  Lighter((p \o s) \o (t \o q), p \o (u \o q))
<1>1. PICK y \in Seq(BucketsOn(n)) : y = t \o q
  BY ConcatProperties
<1>2. (p \o s) \o y = p \o (s \o y)
  BY SMTT(30)
<1>3. (s \o t) \o q = s \o (t \o q)
  BY SMTT(30)
<1>4. PICK st \in Seq(BucketsOn(n)), stq \in Seq(BucketsOn(n)), uq \in Seq(BucketsOn(n)) :
          st = s \o t /\ stq = st \o q /\ uq = u \o q
  BY ConcatProperties
<1>5. Lighter(q, q) /\ Lighter(p, p) /\ Lighter(st, u)
  BY <1>4, LighterRefl
<1>6. Lighter(stq, uq)
  BY <1>4, <1>5, LighterConcat
<1>7. Lighter(p \o stq, p \o uq)
  BY <1>5, <1>6, LighterConcat
<1> QED
  BY ONLY <1>1, <1>2, <1>3, <1>4, <1>7

\* What a cut makes of a brigade, put together again.
LEMMA FrontLighter ==
  ASSUME NEW n \in Nat, NEW bb \in Seq(BucketsOn(n)), NEW k \in Nat
  PROVE  \E x \in Seq(BucketsOn(n)), y \in Seq(BucketsOn(n)) :
            Front_(bb, k) = <<x, y>> /\ Lighter(x \o y, bb)
<1>1. CASE \E p \in Seq(BucketsOn(n)), q \in Seq(BucketsOn(n)) :
              bb = p \o q /\ Front_(bb, k) = <<p, q>>
  <2>1. PICK p \in Seq(BucketsOn(n)), q \in Seq(BucketsOn(n)) :
              bb = p \o q /\ Front_(bb, k) = <<p, q>>
    BY <1>1
  <2>2. Lighter(bb, bb)
    BY LighterRefl
  <2> QED
    BY <2>1, <2>2
<1>2. CASE \E p \in Seq(BucketsOn(n)), q \in Seq(BucketsOn(n)), e \in BucketsOn(n), over \in Nat :
              /\ bb = p \o (<<e>> \o q) /\ 0 < over /\ over < BucketLen(e)
              /\ Front_(bb, k) = <<p \o <<SplitFront(e, over)>>, <<SplitBack(e, over)>> \o q>>
  <2>1. PICK p \in Seq(BucketsOn(n)), q \in Seq(BucketsOn(n)), e \in BucketsOn(n), over \in Nat :
              /\ bb = p \o (<<e>> \o q) /\ 0 < over /\ over < BucketLen(e)
              /\ Front_(bb, k) = <<p \o <<SplitFront(e, over)>>, <<SplitBack(e, over)>> \o q>>
    BY <1>2
  <2>2. PICK s \in Seq(BucketsOn(n)), t \in Seq(BucketsOn(n)), u \in Seq(BucketsOn(n)) :
          /\ s = <<SplitFront(e, over)>> /\ t = <<SplitBack(e, over)>> /\ u = <<e>>
          /\ Lighter(s \o t, u)
    <3>1. /\ SplitFront(e, over) \in BucketsOn(n) /\ SplitBack(e, over) \in BucketsOn(n)
          /\ Lighter(<<SplitFront(e, over)>> \o <<SplitBack(e, over)>>, <<e>>)
      BY <2>1, SplitType
    <3>2. /\ <<SplitFront(e, over)>> \in Seq(BucketsOn(n)) /\ <<SplitBack(e, over)>> \in Seq(BucketsOn(n))
          /\ <<e>> \in Seq(BucketsOn(n))
      BY <3>1
    <3> QED
      BY <3>1, <3>2
  <2>3. PICK x \in Seq(BucketsOn(n)), y \in Seq(BucketsOn(n)) : x = p \o s /\ y = t \o q
    BY ConcatProperties
  <2>4. Front_(bb, k) = <<x, y>> /\ bb = p \o (u \o q)
    BY ONLY <2>1, <2>2, <2>3
  <2>5. Lighter((p \o s) \o (t \o q), p \o (u \o q))
    BY <2>2, LighterInside
  <2> QED
    BY <2>3, <2>4, <2>5
<1> QED
  BY <1>1, <1>2, FrontParts

------------------------------------------------------------------------------
(* A file bucket that is read. *)

\* The bucket is in place of what it was made of: what was read, and the rest.
ReadInto(e) ==
    LET k == Least(e.length, ReadSize)
    IN  <<Heap(SubSeq(Data(e), 1, Least(k, Len(Data(e)))))>>
        \o (IF k < e.length THEN <<FileBucket(e.fd, e.start + k, e.length - k)>> ELSE << >>)

\* A bucket that was read is on the same file, with nothing of the limit's in
\* memory.
LEMMA ReadIntoType ==
  ASSUME file \in FileType, NEW e \in FileBuckets(Len(file))
  PROVE  ReadInto(e) \in Seq(Bucket) /\ Lighter(ReadInto(e), <<e>>)
<1> DEFINE k == Least(e.length, ReadSize)
           h == Heap(SubSeq(Data(e), 1, Least(k, Len(Data(e)))))
           g == FileBucket(e.fd, e.start + k, e.length - k)
           r == IF k < e.length THEN <<g>> ELSE << >>
<1>1. Len(file) \in Nat /\ e \in Bucket
  BY FilesNat DEF Bucket, BucketsOn
<1>2. k \in Nat /\ e.start \in Nat /\ e.length \in Nat /\ e.fd \in 1 .. Len(file)
  BY <1>1, FileBucketFacts, SizeAssumption, LeastFacts
<1>3. h \in Bucket /\ h.type = "heap"
  <2>1. PICK d \in Seq(Int) : d = Data(e)
    BY <1>1, DataType
  <2>2. Len(d) \in Nat
    BY LenProperties
  <2>3. PICK m \in Nat : m = Least(k, Len(d)) /\ m <= Len(d)
    BY <1>2, <2>2, LeastFacts
  <2>4. SubSeq(d, 1, m) \in Seq(Int)
    BY <2>2, <2>3, Parts, m \in 0 .. Len(d)
  <2>5. h = Heap(SubSeq(d, 1, m))
    BY <2>1, <2>3
  <2> HIDE DEF h
  <2> QED
    BY <2>4, <2>5 DEF Heap, MemBucket, Bucket, BucketsOn
<1>4. r \in Seq(Bucket) /\ Spools(r) = {} /\ OneSpool(r) /\ ~HasMem(r)
  <2>1. CASE k < e.length
    <3>1. e.length - k \in Nat /\ e.start + k \in Nat
      BY <1>2, <2>1
    <3>2. g \in Bucket /\ g.type = "file"
      BY <1>2, <3>1 DEF FileBucket, FileBuckets, Bucket, BucketsOn
    <3> HIDE DEF g, k
    <3>3. r = <<g>>
      BY <2>1
    <3>4. <<g>> \in Seq(Bucket)
      BY <3>2
    <3>5. Spools(<<g>>) = {} /\ OneSpool(<<g>>) /\ ~HasMem(<<g>>)
      BY <3>2, SpoolsOne
    <3> HIDE DEF r
    <3> QED
      BY <3>3, <3>4, <3>5
  <2>2. CASE ~(k < e.length)
    <3>1. r = << >> /\ << >> \in Seq(Bucket)
      BY <2>2
    <3> HIDE DEF r
    <3> QED
      BY <3>1, SpoolsEmpty
  <2> QED
    BY <2>1, <2>2
<1>5. ReadInto(e) = <<h>> \o r
  BY DEF ReadInto
<1> HIDE DEF h, r
<1>6. PICK s \in Seq(Bucket), t \in Seq(Bucket), u \in Seq(Bucket) : s = <<h>> /\ t = r /\ u = <<e>>
  <2>1. <<h>> \in Seq(Bucket) /\ <<e>> \in Seq(Bucket)
    BY <1>1, <1>3
  <2> QED
    BY <1>4, <2>1
<1>7. PICK st \in Seq(Bucket) : st = s \o t
  BY ConcatProperties
<1>8. Spools(s) = {} /\ OneSpool(s) /\ ~HasMem(s)
  BY <1>3, <1>6, SpoolsOne
<1>9. Spools(st) = {} /\ OneSpool(st) /\ ~HasMem(st)
  <2>1. /\ Spools(st) = Spools(s) \cup Spools(t)
        /\ OneSpool(st) <=> OneSpool(s) /\ OneSpool(t) /\ Spools(s) \cap Spools(t) = {}
        /\ HasMem(st) <=> HasMem(s) \/ HasMem(t)
    BY <1>1, <1>7, SpoolsConcat DEF Bucket
  <2> QED
    BY <1>4, <1>6, <1>8, <2>1
<1>10. Lighter(st, u)
  BY <1>1, <1>9, LighterOnFile DEF Bucket
<1> QED
  BY <1>5, <1>6, <1>7, <1>10

\* What reading the i-th bucket leaves around it.
LEMMA ReadParts ==
  ASSUME file \in FileType, NEW bb \in Seq(Bucket), NEW i \in DOMAIN bb, OnFile(bb[i])
  PROVE  \E p \in Seq(Bucket), q \in Seq(Bucket) :
            /\ bb = p \o (<<bb[i]>> \o q)
            /\ AfterRead(bb, i) = p \o (ReadInto(bb[i]) \o q)
<1>1. i \in 1 .. Len(bb) /\ Len(bb) \in Nat
  BY LenProperties
<1>2. PICK p \in Seq(Bucket), q \in Seq(Bucket) :
         p = SubSeq(bb, 1, i - 1) /\ q = SubSeq(bb, i + 1, Len(bb))
  <2>1. SubSeq(bb, 1, i - 1) \in Seq(Bucket)
    BY <1>1, Parts, i - 1 \in 0 .. Len(bb)
  <2>2. SubSeq(bb, i + 1, Len(bb)) \in Seq(Bucket)
    BY <1>1, Parts, i \in 0 .. Len(bb)
  <2> QED
    BY <2>1, <2>2
<1>3. bb = p \o (<<bb[i]>> \o q)
  BY <1>1, <1>2, SplitAt
<1>4. PICK e \in FileBuckets(Len(file)) : e = bb[i]
  <2>1. bb[i] \in BucketsOn(Len(file))
    BY <1>1, ElementOfSeq DEF Bucket
  <2>2. bb[i] \in FileBuckets(Len(file))
    BY <2>1, FilesNat, BucketFacts
  <2> QED
    BY <2>2
<1> DEFINE k == Least(e.length, ReadSize)
           h == <<Heap(SubSeq(Data(e), 1, Least(k, Len(Data(e)))))>>
           r == IF k < e.length THEN <<FileBucket(e.fd, e.start + k, e.length - k)>> ELSE << >>
<1>5. AfterRead(bb, i) = ((p \o h) \o r) \o q
  BY <1>2, <1>4 DEF AfterRead
<1>6. ReadInto(e) = h \o r
  BY DEF ReadInto
<1>7. h \in Seq(Bucket) /\ r \in Seq(Bucket)
  <2>1. PICK d \in Seq(Int) : d = Data(e)
    BY <1>4, DataType, FilesNat DEF Bucket, BucketsOn
  <2>2. Len(d) \in Nat /\ e.length \in Nat /\ e.start \in Nat /\ e.fd \in 1 .. Len(file)
    BY LenProperties, FileBucketFacts, FilesNat
  <2>3. k \in Nat
    <3>1. e.length \in Int /\ ReadSize \in Int /\ e.length \in Nat /\ ReadSize \in Nat
      BY <2>2, SizeAssumption
    <3>2. k \in {e.length, ReadSize}
      BY <3>1, LeastFacts
    <3> HIDE DEF k
    <3> QED
      BY <3>1, <3>2
  <2>4. PICK m \in 0 .. Len(d) : m = Least(k, Len(d))
    <3>1. Least(k, Len(d)) \in {k, Len(d)} /\ Least(k, Len(d)) <= Len(d)
      BY <2>2, <2>3, LeastFacts
    <3> HIDE DEF k
    <3> QED
      BY <2>2, <2>3, <3>1
  <2>5. SubSeq(d, 1, m) \in Seq(Int)
    BY Parts
  <2>6. Heap(SubSeq(d, 1, m)) \in Bucket
    BY <2>5 DEF Heap, MemBucket, Bucket, BucketsOn
  <2>7. h \in Seq(Bucket)
    BY <2>1, <2>4, <2>6
  <2>8. r \in Seq(Bucket)
    <3> HIDE DEF k
    <3>1. CASE k < e.length
      <4>1. e.length - k \in Nat /\ e.start + k \in Nat
        BY SMTT(30), <2>2, <2>3, <3>1
      <4>2. FileBucket(e.fd, e.start + k, e.length - k) \in Bucket
        BY <2>2, <4>1 DEF FileBucket, FileBuckets, Bucket, BucketsOn
      <4> QED
        BY <3>1, <4>2
    <3>2. CASE ~(k < e.length)
      BY <3>2
    <3> QED
      BY <3>1, <3>2
  <2> QED
    BY <2>7, <2>8
<1> HIDE DEF h, r
<1>8. ((p \o h) \o r) \o q = p \o ((h \o r) \o q)
  <2>1. (p \o h) \o r = p \o (h \o r)
    BY SMTT(30), <1>7
  <2>2. (p \o (h \o r)) \o q = p \o ((h \o r) \o q)
    BY <1>7, SMT
  <2> QED
    BY <2>1, <2>2
<1> QED
  BY <1>3, <1>4, <1>5, <1>6, <1>8

\* Reading a bucket of a brigade leaves a brigade made of what was there.
LEMMA AfterReadType ==
  ASSUME file \in FileType, NEW bb \in Seq(Bucket), NEW i \in DOMAIN bb, OnFile(bb[i])
  PROVE  AfterRead(bb, i) \in Seq(Bucket) /\ Lighter(AfterRead(bb, i), bb)
<1>1. PICK p \in Seq(Bucket), q \in Seq(Bucket) :
            /\ bb = p \o (<<bb[i]>> \o q)
            /\ AfterRead(bb, i) = p \o (ReadInto(bb[i]) \o q)
  BY ReadParts
<1>2. Len(file) \in Nat
  BY FilesNat
<1>3. PICK e \in FileBuckets(Len(file)) : e = bb[i] /\ e \in Bucket
  <2>1. bb[i] \in BucketsOn(Len(file))
    BY ElementOfSeq, LenProperties DEF Bucket
  <2> QED
    BY <1>2, <2>1, BucketFacts DEF Bucket
<1>4. PICK r \in Seq(Bucket), u \in Seq(Bucket) : r = ReadInto(e) /\ u = <<e>> /\ Lighter(r, u)
  <2>1. ReadInto(e) \in Seq(Bucket) /\ <<e>> \in Seq(Bucket) /\ Lighter(ReadInto(e), <<e>>)
    BY <1>3, ReadIntoType
  <2> QED
    BY <2>1
<1>5. PICK rq \in Seq(Bucket), uq \in Seq(Bucket), x \in Seq(Bucket) :
         rq = r \o q /\ uq = u \o q /\ x = p \o rq
  BY ConcatProperties
<1>6. bb = p \o uq /\ AfterRead(bb, i) = x
  BY ONLY <1>1, <1>3, <1>4, <1>5
<1>7. Lighter(p, p) /\ Lighter(q, q)
  BY <1>2, LighterRefl DEF Bucket
<1>8. Lighter(rq, uq)
  BY <1>2, <1>4, <1>5, <1>7, LighterConcat DEF Bucket
<1>9. Lighter(x, bb)
  BY ZenonT(40), <1>2, <1>5, <1>6, <1>7, <1>8, LighterConcat DEF Bucket
<1> QED
  BY <1>6, <1>9

\* Without a spool bucket, nothing may be written behind.
LEMMA NoSpools ==
  ASSUME NEW bb, \A i \in DOMAIN bb : bb[i].type # "spool"
  PROVE  Spools(bb) = {} /\ OneSpool(bb)
BY SpoolsHas DEF OneSpool

\* One spool bucket, alone.
LEMMA SpoolAlone ==
  ASSUME NEW n \in Nat, NEW e \in BucketsOn(n), e.type = "spool"
  PROVE  <<e>> \in Seq(BucketsOn(n)) /\ Spools(<<e>>) = {e.fd} /\ OneSpool(<<e>>) /\ ~HasMem(<<e>>)
<1>1. <<e>> \in Seq(BucketsOn(n))
  OBVIOUS
<1>2. Spools(<<e>>) = IF e.type = "spool" THEN {e.fd} ELSE {}
  BY SpoolsOne
<1>3. OneSpool(<<e>>) /\ (HasMem(<<e>>) <=> e.type = "mem")
  BY SpoolsOne
<1> QED
  BY <1>1, <1>2, <1>3

\* What an apr_size_t makes of a number is a number.
LEMMA SizeTNat == ASSUME NEW k \in Int PROVE SizeT(k) \in Nat
BY SizeAssumption DEF SizeT

\* The spool bucket that grew is file buckets and one spool bucket on the same
\* file.
LEMMA ExtendedType ==
  ASSUME NEW n \in Nat, NEW e \in FileBuckets(n), e.type = "spool", NEW wlen \in Nat
  PROVE  Extended(e, wlen) \in Seq(BucketsOn(n)) /\ Lighter(Extended(e, wlen), <<e>>)
<1> DEFINE k == (e.length + wlen - 1) \div BucketLimit
           end == e.start + e.length + wlen
           one == SpoolBucket(e.fd, e.start, SizeT(e.length + wlen))
           full == [i \in 1 .. k |-> FileBucket(e.fd, e.start + (i - 1) * BucketLimit, BucketLimit)]
           last == SpoolBucket(e.fd, e.start + k * BucketLimit, end - (e.start + k * BucketLimit))
<1>0. e.fd \in 1 .. n /\ e.start \in Nat /\ e.length \in Nat /\ BucketLimit \in Nat \ {0}
  BY FileBucketFacts, SizeAssumption
<1>1. <<e>> \in Seq(BucketsOn(n)) /\ Spools(<<e>>) = {e.fd} /\ OneSpool(<<e>>)
  BY SpoolAlone DEF BucketsOn
<1>2. CASE wlen <= SizeT(BucketLimit - e.length)
  <2>1. Extended(e, wlen) = <<one>>
    BY <1>2 DEF Extended
  <2>2. SizeT(e.length + wlen) \in Nat
    BY <1>0, SizeTNat
  <2>3. one \in BucketsOn(n) /\ one.type = "spool" /\ one.fd = e.fd
    BY <1>0, <2>2 DEF SpoolBucket, FileBuckets, BucketsOn
  <2> HIDE DEF one
  <2>4. <<one>> \in Seq(BucketsOn(n)) /\ Spools(<<one>>) = {e.fd} /\ OneSpool(<<one>>) /\ ~HasMem(<<one>>)
    BY <2>3, SpoolAlone
  <2>5. Lighter(<<one>>, <<e>>)
    BY <1>1, <2>4, LighterOnFile
  <2> QED
    BY <2>1, <2>4, <2>5
<1>3. CASE ~(wlen <= SizeT(BucketLimit - e.length))
  <2>1. wlen > 0
    <3>1. SizeT(BucketLimit - e.length) \in Nat
      BY <1>0, SizeTNat
    <3> QED
      BY <1>3, <3>1
  <2>2. k \in Nat /\ k * BucketLimit <= e.length + wlen - 1
    <3>1. e.length + wlen - 1 \in Nat
      BY <1>0, <2>1
    <3> QED
      BY <1>0, <3>1, Division
  <2>3. k * BucketLimit \in Nat
    <3> HIDE DEF k
    <3> QED
      BY <1>0, <2>2
  <2>4. last \in BucketsOn(n) /\ last.type = "spool" /\ last.fd = e.fd
    <3>1. PICK x \in Nat : x = k * BucketLimit
      BY <2>3
    <3>2. x <= e.length + wlen - 1
      BY <2>2, <3>1
    <3>3. e.start + x \in Nat /\ end - (e.start + x) \in Nat
      BY <1>0, <3>2
    <3>4. last = SpoolBucket(e.fd, e.start + x, end - (e.start + x))
      BY <3>1
    <3> HIDE DEF last, end
    <3> QED
      BY <1>0, <3>3, <3>4 DEF SpoolBucket, FileBuckets, BucketsOn
  <2>5. /\ full \in Seq(BucketsOn(n)) /\ DOMAIN full = 1 .. k
        /\ \A i \in 1 .. k : full[i].type = "file"
    <3> HIDE DEF k
    <3>1. ASSUME NEW i \in 1 .. k
          PROVE  /\ FileBucket(e.fd, e.start + (i - 1) * BucketLimit, BucketLimit) \in BucketsOn(n)
                 /\ FileBucket(e.fd, e.start + (i - 1) * BucketLimit, BucketLimit).type = "file"
      <4>1. (i - 1) * BucketLimit \in Nat
        BY <1>0, <2>2, i - 1 \in Nat
      <4> QED
        BY <1>0, <4>1 DEF FileBucket, FileBuckets, BucketsOn
    <3> QED
      BY <2>2, <3>1
  <2>6. Extended(e, wlen) = full \o <<last>>
    BY <1>3 DEF Extended
  <2> HIDE DEF full, last, k
  <2>7. Spools(full) = {} /\ OneSpool(full) /\ ~HasMem(full)
    BY <2>5, NoSpools DEF HasMem
  <2>8. <<last>> \in Seq(BucketsOn(n)) /\ Spools(<<last>>) = {e.fd} /\ OneSpool(<<last>>) /\ ~HasMem(<<last>>)
    BY <2>4, SpoolAlone
  <2>9. PICK s \in Seq(BucketsOn(n)), t \in Seq(BucketsOn(n)) : s = full /\ t = <<last>>
    BY <2>5, <2>8
  <2>10. PICK st \in Seq(BucketsOn(n)) : st = s \o t
    BY ConcatProperties
  <2>11. Spools(st) = {e.fd} /\ OneSpool(st) /\ ~HasMem(st)
    <3>1. /\ Spools(st) = Spools(s) \cup Spools(t)
          /\ OneSpool(st) <=> OneSpool(s) /\ OneSpool(t) /\ Spools(s) \cap Spools(t) = {}
          /\ HasMem(st) <=> HasMem(s) \/ HasMem(t)
      BY <2>10, SpoolsConcat
    <3> QED
      BY <2>7, <2>8, <2>9, <3>1
  <2>12. Lighter(st, <<e>>)
    BY <1>1, <2>11, LighterOnFile
  <2> QED
    BY <2>6, <2>9, <2>10, <2>12
<1> QED
  BY <1>2, <1>3

\* A new input is all in memory.
LEMMA NewBucketsType ==
  ASSUME NEW n \in Nat, made \in Nat, NEW input \in InputType
  PROVE  /\ NewBuckets(input) \in Seq(BucketsOn(n))
         /\ Spools(NewBuckets(input)) = {} /\ OneSpool(NewBuckets(input))
<1> DEFINE before(i) == made + Total(SubSeq(input.lengths, 1, i - 1))
           p == [i \in DOMAIN input.lengths |-> Mem([j \in 1 .. input.lengths[i] |-> before(i) + j])]
           q == IF input.eos THEN <<EosBucket>> ELSE << >>
<1>1. PICK l \in Seq(Nat) : l = input.lengths
  BY DEF InputType
<1>2. Len(l) \in Nat /\ DOMAIN l = 1 .. Len(l)
  BY LenProperties
<1>3. /\ p \in Seq(BucketsOn(n)) /\ DOMAIN p = 1 .. Len(l)
      /\ \A i \in 1 .. Len(l) : p[i].type = "mem"
  <2>1. ASSUME NEW i \in 1 .. Len(l)
        PROVE  /\ Mem([j \in 1 .. l[i] |-> before(i) + j]) \in BucketsOn(n)
               /\ Mem([j \in 1 .. l[i] |-> before(i) + j]).type = "mem"
    <3>1. PICK m \in Nat : m = l[i]
      BY ElementOfSeq
    <3>2. PICK b \in Nat : b = before(i)
      <4>1. SubSeq(l, 1, i - 1) \in Seq(Nat)
        BY <1>2, Parts, i - 1 \in 0 .. Len(l)
      <4>2. Total(SubSeq(l, 1, i - 1)) \in Nat
        BY <4>1, TotalNat
      <4> QED
        BY <1>1, <4>2
    <3>3. [j \in 1 .. m |-> b + j] \in Seq(Int)
      OBVIOUS
    <3>4. Mem([j \in 1 .. m |-> b + j]) \in BucketsOn(n)
      BY <3>3 DEF Mem, MemBucket, BucketsOn
    <3>5. Mem([j \in 1 .. l[i] |-> before(i) + j]) = Mem([j \in 1 .. m |-> b + j])
      BY <3>1, <3>2
    <3> QED
      BY <3>4, <3>5 DEF Mem
  <2>2. p = [i \in 1 .. Len(l) |-> Mem([j \in 1 .. l[i] |-> before(i) + j])]
    BY <1>1, <1>2
  <2> HIDE DEF p, before
  <2> QED
    BY <1>2, <2>1, <2>2
<1>4. q \in Seq(BucketsOn(n)) /\ Spools(q) = {} /\ OneSpool(q)
  <2>1. CASE input.eos
    <3>1. q = <<EosBucket>> /\ EosBucket \in BucketsOn(n) /\ EosBucket.type # "spool"
      BY <2>1 DEF BucketsOn, EosBucket
    <3>2. <<EosBucket>> \in Seq(BucketsOn(n))
      BY <3>1
    <3> HIDE DEF q
    <3> QED
      BY <3>1, <3>2, SpoolsOne
  <2>2. CASE ~input.eos
    <3>1. q = << >> /\ << >> \in Seq(BucketsOn(n))
      BY <2>2
    <3> HIDE DEF q
    <3> QED
      BY <3>1, SpoolsEmpty
  <2> QED
    BY <2>1, <2>2
<1>5. NewBuckets(input) = p \o q
  BY DEF NewBuckets
<1> HIDE DEF p, q
<1>6. Spools(p) = {} /\ OneSpool(p)
  BY <1>3, NoSpools
<1>7. PICK s \in Seq(BucketsOn(n)), t \in Seq(BucketsOn(n)), st \in Seq(BucketsOn(n)) :
         s = p /\ t = q /\ st = s \o t
  BY <1>3, <1>4, ConcatProperties
<1>8. /\ Spools(st) = Spools(s) \cup Spools(t)
      /\ OneSpool(st) <=> OneSpool(s) /\ OneSpool(t) /\ Spools(s) \cap Spools(t) = {}
  BY <1>7, SpoolsConcat
<1> QED
  BY <1>4, <1>5, <1>6, <1>7, <1>8

\* A copy has what it was copied from in memory, and no spool bucket.
CopyAll(bb) == [i \in DOMAIN bb |-> CopyOf(bb[i])]

\* apreq_brigade_copy: what is in memory stays so, and no copy is a spool bucket.
LEMMA CopyType ==
  ASSUME NEW n \in Nat, NEW bb \in Seq(BucketsOn(n))
  PROVE  /\ CopyAll(bb) \in Seq(BucketsOn(n))
         /\ Spools(CopyAll(bb)) = {} /\ OneSpool(CopyAll(bb))
         /\ InMemory(CopyAll(bb)) = InMemory(bb)
         /\ HasMem(CopyAll(bb)) <=> HasMem(bb)
<1>1. DOMAIN bb = 1 .. Len(bb) /\ Len(bb) \in Nat
  BY LenProperties
<1>2. ASSUME NEW i \in DOMAIN bb
      PROVE  /\ CopyOf(bb[i]) \in BucketsOn(n) /\ CopyOf(bb[i]).type # "spool"
             /\ CopyOf(bb[i]).type = "mem" <=> bb[i].type = "mem"
             /\ MemLen(CopyOf(bb[i])) = MemLen(bb[i])
  <2>1. PICK e \in BucketsOn(n) : e = bb[i]
    BY <1>1, ElementOfSeq
  <2>2. CASE e.type = "spool"
    <3>1. e \in FileBuckets(n)
      BY <2>2, BucketFacts DEF OnFile
    <3>2. CopyOf(e) \in FileBuckets(n) /\ CopyOf(e).type = "file"
      BY <2>2, <3>1 DEF CopyOf, FileBuckets
    <3> QED
      BY <2>1, <2>2, <3>2 DEF MemLen, BucketsOn
  <2>3. CASE e.type # "spool"
    BY <2>1, <2>3 DEF CopyOf
  <2> QED
    BY <2>2, <2>3
<1>3. PICK c : c = CopyAll(bb)
  OBVIOUS
<1>4. DOMAIN c = DOMAIN bb /\ \A i \in DOMAIN bb : c[i] = CopyOf(bb[i])
  BY <1>3 DEF CopyAll
<1>5. c \in Seq(BucketsOn(n))
  BY <1>1, <1>2, <1>3 DEF CopyAll
<1>6. Spools(c) = {} /\ OneSpool(c)
  BY <1>2, <1>4, NoSpools
<1>7. HasMem(c) <=> HasMem(bb)
  BY <1>2, <1>4 DEF HasMem
<1>8. [i \in DOMAIN c |-> MemLen(c[i])] = [i \in DOMAIN bb |-> MemLen(bb[i])]
  BY <1>2, <1>4
<1>9. InMemory(c) = InMemory(bb)
  <2>1. InMemory(c) = Total([i \in DOMAIN c |-> MemLen(c[i])])
    BY DEF InMemory, MemLen
  <2>2. InMemory(bb) = Total([i \in DOMAIN bb |-> MemLen(bb[i])])
    BY DEF InMemory, MemLen
  <2> QED
    BY ONLY <1>8, <2>1, <2>2
<1> QED
  BY <1>3, <1>5, <1>6, <1>7, <1>9

------------------------------------------------------------------------------
(* Where the buckets of a brigade may be. *)

\* Two brigades in a row are over a set when both are.
LEMMA ConcatIn ==
  ASSUME NEW T, NEW a \in Seq(T), NEW b \in Seq(T), NEW S
  PROVE  a \o b \in Seq(S) <=> a \in Seq(S) /\ b \in Seq(S)
<1>1. /\ Len(a) \in Nat /\ Len(b) \in Nat /\ Len(a \o b) = Len(a) + Len(b)
      /\ a \o b \in Seq(T)
      /\ \A i \in 1 .. Len(a) + Len(b) : (a \o b)[i] = IF i <= Len(a) THEN a[i] ELSE b[i - Len(a)]
  BY ConcatProperties, LenProperties
<1>2. ASSUME a \o b \in Seq(S) PROVE a \in Seq(S) /\ b \in Seq(S)
  <2>1. PICK c \in Seq(S) : c = a \o b
    BY <1>2
  <2>2. \A i \in 1 .. Len(a) : a[i] \in S
    <3>1. ASSUME NEW i \in 1 .. Len(a) PROVE a[i] \in S
      <4>1. i \in 1 .. Len(c) /\ c[i] = a[i]
        BY <1>1, <2>1
      <4> QED
        BY <4>1, ElementOfSeq
    <3> QED
      BY <3>1
  <2>3. \A i \in 1 .. Len(b) : b[i] \in S
    <3>1. ASSUME NEW i \in 1 .. Len(b) PROVE b[i] \in S
      <4>1. i + Len(a) \in 1 .. Len(c) /\ c[i + Len(a)] = b[i]
        BY <1>1, <2>1
      <4> QED
        BY <4>1, ElementOfSeq
    <3> QED
      BY <3>1
  <2>4. a \in [1 .. Len(a) -> T] /\ b \in [1 .. Len(b) -> T]
    BY LenProperties
  <2>5. a \in [1 .. Len(a) -> S] /\ b \in [1 .. Len(b) -> S]
    BY <2>2, <2>3, <2>4
  <2>6. PICK m \in Nat, n \in Nat : m = Len(a) /\ n = Len(b)
    BY <1>1
  <2>7. a \in [1 .. m -> S] /\ b \in [1 .. n -> S]
    BY <2>5, <2>6
  <2> QED
    BY ONLY <2>7, m \in Nat, n \in Nat, SeqDef
<1> QED
  BY <1>2, ConcatProperties

\* One bucket is over the set it is in.
LEMMA OneIn == ASSUME NEW e, NEW S PROVE <<e>> \in Seq(S) <=> e \in S
<1>1. ASSUME <<e>> \in Seq(S) PROVE e \in S
  <2>1. PICK s \in Seq(S) : s = <<e>>
    BY <1>1
  <2>2. 1 \in 1 .. Len(s) /\ s[1] = e
    BY <2>1
  <2> QED
    BY <2>2, ElementOfSeq
<1> QED
  BY <1>1

\* A bucket, on any files.
AnyBucket == UNION {BucketsOn(n) : n \in Nat}

\* Sets of buckets: all but the end of a stream; spool buckets that one file
\* bucket may refer to; buckets that end at k in f or before; and buckets that are
\* no spool bucket ending at k in f, which what is written there would extend.
NotEos         == {e \in AnyBucket : e.type # "eos"}
ShortSpools    == {e \in AnyBucket : e.type = "spool" => e.length <= BucketLimit}
Reaching(f, k) == {e \in AnyBucket : OnFile(e) /\ e.fd = f => e.start + e.length <= k}
NotTip(f, k)   == {e \in AnyBucket : ~(e.type = "spool" /\ e.fd = f /\ e.start + e.length = k)}

\* The sets that the steps keep brigades in.
Limits ==
    {NotEos, ShortSpools} \cup {Reaching(f, k) : f \in Nat, k \in Int}
    \cup {NotTip(f, k) : f \in Nat, k \in Int}

\* a is within all the limits b is within.
Shorter(a, b) == \A S \in Limits : b \in Seq(S) => a \in Seq(S)

\* Each of these sets is a limit.
LEMMA InLimits ==
  /\ NotEos \in Limits /\ ShortSpools \in Limits
  /\ \A f \in Nat, k \in Int : Reaching(f, k) \in Limits /\ NotTip(f, k) \in Limits
BY DEF Limits

\* Buckets on some files are buckets.
LEMMA BucketsAny ==
  ASSUME NEW n \in Nat
  PROVE  /\ BucketsOn(n) \subseteq AnyBucket
         /\ Seq(BucketsOn(n)) \subseteq Seq(AnyBucket)
<1>1. BucketsOn(n) \subseteq AnyBucket
  BY DEF AnyBucket
<1> QED
  BY <1>1, SeqMonotonic

\* A limit is a set of buckets.
LEMMA LimitsAny == ASSUME NEW S \in Limits PROVE S \subseteq AnyBucket
BY DEF Limits, NotEos, ShortSpools, Reaching, NotTip

\* Two brigades in a row, each within the limits of another.
LEMMA ShorterConcat ==
  ASSUME NEW n \in Nat, NEW a \in Seq(BucketsOn(n)), NEW b \in Seq(BucketsOn(n)),
         NEW c \in Seq(BucketsOn(n)), NEW d \in Seq(BucketsOn(n)),
         Shorter(a, c), Shorter(b, d)
  PROVE  Shorter(a \o b, c \o d)
<1>1. ASSUME NEW S \in Limits, c \o d \in Seq(S) PROVE a \o b \in Seq(S)
  <2>1. c \in Seq(S) /\ d \in Seq(S)
    BY <1>1, ConcatIn
  <2>2. a \in Seq(S) /\ b \in Seq(S)
    BY <2>1 DEF Shorter
  <2> QED
    BY <2>2, ConcatProperties
<1> QED
  BY <1>1 DEF Shorter

\* Parts of a brigade are within the limits it is within.
LEMMA ShorterParts ==
  ASSUME NEW n \in Nat, NEW a \in Seq(BucketsOn(n)), NEW b \in Seq(BucketsOn(n)), NEW c,
         Shorter(a \o b, c)
  PROVE  Shorter(a, c) /\ Shorter(b, c)
BY ConcatIn DEF Shorter

\* A brigade is within its own limits.
LEMMA ShorterRefl == ASSUME NEW a PROVE Shorter(a, a)
BY DEF Shorter

\* Within the limits of what is within limits.
LEMMA ShorterTrans ==
  ASSUME NEW a, NEW b, NEW c, Shorter(a, b), Shorter(b, c) PROVE Shorter(a, c)
BY DEF Shorter

\* No bucket is within any limits.
LEMMA ShorterEmpty == ASSUME NEW a PROVE Shorter(<< >>, a)
BY DEF Shorter

------------------------------------------------------------------------------
(* The end of the stream *)

\* An end of stream is the last bucket, if there is one.
EosLast(bb) == Cut(bb) \in Seq(NotEos)

\* A sequence and one more behind it: what is last, and what is before.
LEMMA EndOf ==
  ASSUME NEW S, NEW r \in Seq(S), NEW e \in S
  PROVE  /\ r \o <<e>> \in Seq(S) /\ r \o <<e>> # << >>
         /\ Front(r \o <<e>>) = r /\ Last(r \o <<e>>) = e
<1>1. <<e>> \in Seq(S) /\ Len(<<e>>) = 1 /\ <<e>>[1] = e
  OBVIOUS
<1>2. PICK x \in Seq(S) : x = r \o <<e>>
  BY <1>1, ConcatProperties
<1>3. Len(r) \in Nat /\ Len(x) = Len(r) + 1
  BY <1>1, <1>2, ConcatProperties, LenProperties
<1>4. x[Len(r) + 1] = e
  BY <1>1, <1>2, <1>3, ConcatProperties
<1>5. \A i \in 1 .. Len(r) : x[i] = r[i]
  BY <1>1, <1>2, <1>3, ConcatProperties
<1>6. x # << >>
  BY <1>3, EmptySeq
<1>7. Last(x) = e
  BY <1>3, <1>4 DEF Last
<1>8. PICK y \in Seq(S) : y = Front(x) /\ Len(y) = Len(r) /\ \A i \in 1 .. Len(r) : y[i] = x[i]
  <2>1. PICK m \in Nat : m = Len(r)
    BY <1>3
  <2>2. /\ SubSeq(x, 1, m) \in Seq(S) /\ Len(SubSeq(x, 1, m)) = m
        /\ \A i \in 1 .. m : SubSeq(x, 1, m)[i] = x[i]
    BY <1>3, <2>1, SubSeqType
  <2>3. Front(x) = SubSeq(x, 1, m)
    BY <1>3, <2>1 DEF Front
  <2> QED
    BY <2>1, <2>2, <2>3
<1>9. y = r
  BY <1>5, <1>8, SeqEqual
<1> QED
  BY <1>2, <1>6, <1>7, <1>8, <1>9

\* What is cut off behind is the end-of-stream bucket, where it is last.
LEMMA CutSnoc ==
  ASSUME NEW n \in Nat, NEW r \in Seq(BucketsOn(n)), NEW e \in BucketsOn(n)
  PROVE  /\ Cut(r \o <<e>>) = IF e.type = "eos" THEN r ELSE r \o <<e>>
         /\ \A t : EndsWith(r \o <<e>>, t) <=> e.type = t
         /\ EosLast(r \o <<e>>) <=> r \in Seq(NotEos)
<1>1. /\ r \o <<e>> # << >> /\ r \o <<e>> \in Seq(BucketsOn(n))
      /\ Front(r \o <<e>>) = r /\ Last(r \o <<e>>) = e
  BY EndOf
<1>2. \A t : EndsWith(r \o <<e>>, t) <=> e.type = t
  BY <1>1 DEF EndsWith
<1>3. Cut(r \o <<e>>) = IF e.type = "eos" THEN r ELSE r \o <<e>>
  BY <1>1, <1>2 DEF Cut
<1>4. CASE e.type = "eos"
  BY <1>2, <1>3, <1>4 DEF EosLast
<1>5. CASE e.type # "eos"
  <2>1. e \in NotEos
    BY <1>5, BucketsAny DEF NotEos
  <2>2. <<e>> \in Seq(NotEos)
    BY <2>1
  <2>3. <<e>> \in Seq(BucketsOn(n))
    OBVIOUS
  <2>4. r \o <<e>> \in Seq(NotEos) <=> r \in Seq(NotEos) /\ <<e>> \in Seq(NotEos)
    BY <2>3, ConcatIn
  <2> QED
    BY <1>2, <1>3, <1>5, <2>2, <2>4 DEF EosLast
<1> QED
  BY <1>4, <1>5

\* Nothing is cut off of nothing.
LEMMA CutEmpty == Cut(<< >>) = << >> /\ EosLast(<< >>)
BY DEF Cut, EndsWith, EosLast

\* Of two brigades in a row, the end of the second is cut off.
LEMMA CutConcat ==
  ASSUME NEW n \in Nat, NEW p \in Seq(BucketsOn(n)), NEW q \in Seq(BucketsOn(n)), q # << >>
  PROVE  /\ Cut(p \o q) = p \o Cut(q)
         /\ \A t : EndsWith(p \o q, t) <=> EndsWith(q, t)
         /\ EosLast(p \o q) <=> p \in Seq(NotEos) /\ EosLast(q)
<1>1. PICK r \in Seq(BucketsOn(n)), e \in BucketsOn(n) : q = r \o <<e>>
  BY SomeSnoc
<1>2. PICK o \in Seq(BucketsOn(n)) : o = <<e>>
  BY OneIn
<1>3. p \o q = (p \o r) \o o
  <2>1. p \o (r \o o) = (p \o r) \o o
    BY SMT
  <2> QED
    BY ONLY <1>1, <1>2, <2>1
<1>4. PICK pr \in Seq(BucketsOn(n)) : pr = p \o r
  BY ConcatProperties
<1>5. p \o q = pr \o <<e>>
  BY ONLY <1>2, <1>3, <1>4
<1>6. /\ Cut(pr \o <<e>>) = IF e.type = "eos" THEN pr ELSE pr \o <<e>>
      /\ \A t : EndsWith(pr \o <<e>>, t) <=> e.type = t
      /\ EosLast(pr \o <<e>>) <=> pr \in Seq(NotEos)
  BY CutSnoc
<1>7. /\ Cut(r \o <<e>>) = IF e.type = "eos" THEN r ELSE r \o <<e>>
      /\ \A t : EndsWith(r \o <<e>>, t) <=> e.type = t
      /\ EosLast(r \o <<e>>) <=> r \in Seq(NotEos)
  BY CutSnoc
<1>8. pr \in Seq(NotEos) <=> p \in Seq(NotEos) /\ r \in Seq(NotEos)
  BY <1>4, ConcatIn
<1>9. Cut(p \o q) = p \o Cut(q)
  <2>1. CASE e.type = "eos"
    BY ONLY <1>1, <1>4, <1>5, <1>6, <1>7, <2>1
  <2>2. CASE e.type # "eos"
    <3>1. Cut(q) = q /\ Cut(p \o q) = p \o q
      BY ONLY <1>1, <1>5, <1>6, <1>7, <2>2
    <3> QED
      BY ONLY <3>1
  <2> QED
    BY <2>1, <2>2
<1> QED
  BY ONLY <1>1, <1>5, <1>6, <1>7, <1>8, <1>9

\* Without an end of stream at its end, nothing is cut off a brigade.
LEMMA EosLastCut ==
  ASSUME NEW bb
  PROVE  /\ EosLast(bb) <=> Cut(bb) \in Seq(NotEos)
         /\ ~EndsWith(bb, "eos") => Cut(bb) = bb
BY DEF EosLast, Cut

\* What is behind in a brigade ends as the brigade does.
LEMMA EosLastTail ==
  ASSUME NEW n \in Nat, NEW p \in Seq(BucketsOn(n)), NEW q \in Seq(BucketsOn(n)), EosLast(p \o q)
  PROVE  EosLast(q)
<1>1. CASE q = << >>
  BY <1>1, CutEmpty
<1>2. CASE q # << >>
  BY <1>2, CutConcat
<1> QED
  BY <1>1, <1>2

\* A brigade that has no end of stream ends in none.
LEMMA NotEosLast ==
  ASSUME NEW n \in Nat, NEW bb \in Seq(BucketsOn(n)), bb \in Seq(NotEos)
  PROVE  EosLast(bb) /\ Cut(bb) = bb /\ ~EndsWith(bb, "eos")
<1>1. CASE bb = << >>
  BY <1>1, CutEmpty DEF EndsWith
<1>2. CASE bb # << >>
  <2>1. PICK r \in Seq(BucketsOn(n)), e \in BucketsOn(n) : bb = r \o <<e>>
    BY <1>2, SomeSnoc
  <2>2. r \in Seq(NotEos) /\ <<e>> \in Seq(NotEos)
    <3>1. <<e>> \in Seq(BucketsOn(n))
      OBVIOUS
    <3> QED
      BY <2>1, <3>1, ConcatIn
  <2>3. e.type # "eos"
    BY <2>2, OneIn DEF NotEos
  <2> QED
    BY <2>1, <2>2, <2>3, CutSnoc
<1> QED
  BY <1>1, <1>2

\* Buckets within a brigade that are replaced by others.
LEMMA EosLastInside ==
  ASSUME NEW n \in Nat, NEW p \in Seq(BucketsOn(n)), NEW u \in Seq(BucketsOn(n)),
         NEW w \in Seq(BucketsOn(n)), NEW q \in Seq(BucketsOn(n)),
         EosLast(p \o (u \o q)), w \in Seq(NotEos), u # << >>
  PROVE  EosLast(p \o (w \o q))
<1>1. CASE q = << >>
  <2>1. EosLast(p \o u)
    <3>1. u \o << >> = u
      OBVIOUS
    <3> QED
      BY ONLY <1>1, <3>1, EosLast(p \o (u \o q))
  <2>2. p \in Seq(NotEos)
    BY <2>1, CutConcat
  <2>3. PICK x \in Seq(BucketsOn(n)) : x = p \o w
    BY ConcatProperties
  <2>4. x \in Seq(NotEos)
    BY <2>2, <2>3, ConcatProperties
  <2>5. EosLast(x)
    BY <2>4, NotEosLast
  <2>6. w \o << >> = w
    OBVIOUS
  <2> QED
    BY ONLY <1>1, <2>3, <2>5, <2>6
<1>2. CASE q # << >>
  <2>1. PICK uq \in Seq(BucketsOn(n)), wq \in Seq(BucketsOn(n)) : uq = u \o q /\ wq = w \o q
    BY ConcatProperties
  <2>2. uq # << >> /\ wq # << >>
    BY <1>2, <2>1, ConcatEqualIffEmpty
  <2>3. p \in Seq(NotEos) /\ EosLast(uq)
    BY <2>1, <2>2, CutConcat
  <2>4. EosLast(q)
    BY <2>1, <2>3, EosLastTail
  <2>5. EosLast(wq)
    BY <1>2, <2>1, <2>4, CutConcat
  <2> QED
    BY <2>1, <2>2, <2>3, <2>5, CutConcat
<1> QED
  BY <1>1, <1>2

------------------------------------------------------------------------------
(* Sequences that grow by one, and functions of their members. *)

\* A function of each member.
Map(g, s) == [i \in DOMAIN s |-> g[s[i]]]

\* g takes the members of S to T.
IsMap(g, S, T) == g \in [S -> T]

\* A function applied to each member of a sequence.
LEMMA MapType ==
  ASSUME NEW S, NEW T, NEW g, IsMap(g, S, T), NEW s \in Seq(S)
  PROVE  /\ Map(g, s) \in Seq(T) /\ Len(Map(g, s)) = Len(s) /\ Len(s) \in Nat
         /\ \A i \in 1 .. Len(s) : Map(g, s)[i] = g[s[i]]
<1>1. PICK m \in Nat : m = Len(s) /\ DOMAIN s = 1 .. m
  BY LenProperties
<1>2. \A i \in 1 .. m : s[i] \in S
  BY <1>1, ElementOfSeq
<1>3. Map(g, s) \in [1 .. m -> T] /\ \A i \in 1 .. m : Map(g, s)[i] = g[s[i]]
  BY <1>1, <1>2 DEF Map, IsMap
<1>4. Map(g, s) \in Seq(T)
  BY ONLY <1>3, m \in Nat, SeqDef
<1>5. Len(Map(g, s)) = m
  BY <1>3, <1>4, LenProperties
<1> QED
  BY <1>1, <1>3, <1>4, <1>5

\* It goes through concatenation.
LEMMA MapConcat ==
  ASSUME NEW S, NEW T, NEW g, IsMap(g, S, T), NEW a \in Seq(S), NEW b \in Seq(S)
  PROVE  Map(g, a \o b) = Map(g, a) \o Map(g, b)
<1>1. PICK c \in Seq(S) : c = a \o b
  BY ConcatProperties
<1>2. /\ Len(a) \in Nat /\ Len(b) \in Nat /\ Len(c) = Len(a) + Len(b)
      /\ \A i \in 1 .. Len(a) + Len(b) : c[i] = IF i <= Len(a) THEN a[i] ELSE b[i - Len(a)]
  BY <1>1, ConcatProperties, LenProperties
<1>3. PICK x \in Seq(T) : x = Map(g, a) /\ Len(x) = Len(a) /\ \A i \in 1 .. Len(a) : x[i] = g[a[i]]
  BY MapType
<1>4. PICK y \in Seq(T) : y = Map(g, b) /\ Len(y) = Len(b) /\ \A i \in 1 .. Len(b) : y[i] = g[b[i]]
  BY MapType
<1>5. PICK z \in Seq(T) : z = Map(g, c) /\ Len(z) = Len(c) /\ \A i \in 1 .. Len(c) : z[i] = g[c[i]]
  BY MapType
<1>6. /\ x \o y \in Seq(T) /\ Len(x \o y) = Len(x) + Len(y)
      /\ \A i \in 1 .. Len(x) + Len(y) : (x \o y)[i] = IF i <= Len(x) THEN x[i] ELSE y[i - Len(x)]
  BY ONLY x \in Seq(T), y \in Seq(T), ConcatProperties
<1>7. ASSUME NEW i \in 1 .. Len(z) PROVE z[i] = (x \o y)[i]
  <2>1. i \in Int /\ i \in 1 .. Len(a) + Len(b) /\ z[i] = g[c[i]]
    BY <1>2, <1>5
  <2>2. CASE i <= Len(a)
    BY <1>2, <1>3, <1>4, <1>6, <2>1, <2>2
  <2>3. CASE ~(i <= Len(a))
    <3>1. i - Len(a) \in 1 .. Len(b)
      BY <1>2, <2>1, <2>3
    <3>2. c[i] = b[i - Len(a)] /\ (x \o y)[i] = y[i - Len(a)]
      BY <1>2, <1>3, <1>4, <1>6, <2>1, <2>3
    <3> QED
      BY <1>4, <2>1, <3>1, <3>2
  <2> QED
    BY <2>2, <2>3
<1>8. z = x \o y
  BY <1>2, <1>3, <1>4, <1>5, <1>6, <1>7, SeqEqual
<1> QED
  BY <1>1, <1>3, <1>4, <1>5, <1>8

\* Applied to one member.
LEMMA MapOne ==
  ASSUME NEW g, NEW e PROVE Map(g, <<e>>) = <<g[e]>>
BY DEF Map

\* Applied to none.
LEMMA MapEmpty == ASSUME NEW g PROVE Map(g, << >>) = << >>
BY DEF Map

\* Applied to one member more.
LEMMA MapSnoc ==
  ASSUME NEW S, NEW T, NEW g, IsMap(g, S, T), NEW r \in Seq(S), NEW e \in S
  PROVE  Map(g, r \o <<e>>) = Map(g, r) \o <<g[e]>>
<1>1. PICK o \in Seq(S) : o = <<e>>
  BY OneIn
<1>2. Map(g, r \o o) = Map(g, r) \o Map(g, o)
  BY MapConcat
<1> QED
  BY <1>1, <1>2, MapOne

(* What is made of buckets reaches no further than they did. *)

NoMore(d, e) ==
    /\ d.type = "eos" => e.type = "eos"
    /\ OnFile(d) => /\ OnFile(e) /\ d.fd = e.fd
                    /\ d.start + d.length <= e.start + e.length
    /\ d.type = "spool" => /\ e.type = "spool"
                           /\ d.length <= e.length
                           /\ d.start + d.length = e.start + e.length

\* What is no more than a bucket is in every limit the bucket is in.
LEMMA NoMoreLimits ==
  ASSUME NEW n \in Nat, NEW d \in BucketsOn(n), NEW e \in BucketsOn(n), NoMore(d, e),
         NEW S \in Limits, e \in S
  PROVE  d \in S
<1>1. d \in AnyBucket /\ e \in AnyBucket
  BY BucketsAny
<1>2. OnFile(d) => /\ d.start \in Nat /\ d.length \in Nat /\ d.start + d.length \in Nat
                   /\ e.start \in Nat /\ e.length \in Nat /\ e.start + e.length \in Nat
  BY BucketFacts, FileBucketFacts DEF NoMore
<1>3. d.type = "spool" => OnFile(d)
  BY DEF OnFile
<1>4. CASE S = NotEos
  BY <1>1, <1>4 DEF NotEos, NoMore
<1>5. CASE S = ShortSpools
  <2>1. BucketLimit \in Nat
    BY SizeAssumption
  <2> QED
    BY <1>1, <1>2, <1>3, <1>5, <2>1 DEF ShortSpools, NoMore
<1>6. ASSUME NEW f \in Nat, NEW k \in Int, S = Reaching(f, k) PROVE d \in S
  BY <1>1, <1>2, <1>6 DEF Reaching, NoMore
<1>7. ASSUME NEW f \in Nat, NEW k \in Int, S = NotTip(f, k) PROVE d \in S
  <2>1. ~(e.type = "spool" /\ e.fd = f /\ e.start + e.length = k)
    BY <1>7 DEF NotTip
  <2>2. ~(d.type = "spool" /\ d.fd = f /\ d.start + d.length = k)
    BY <1>3, <2>1 DEF NoMore
  <2> QED
    BY <1>1, <1>7, <2>2 DEF NotTip
<1> QED
  BY <1>4, <1>5, <1>6, <1>7 DEF Limits

\* So is one such bucket instead of it.
LEMMA ShorterSingle ==
  ASSUME NEW n \in Nat, NEW d \in BucketsOn(n), NEW e \in BucketsOn(n), NoMore(d, e)
  PROVE  Shorter(<<d>>, <<e>>)
BY OneIn, NoMoreLimits DEF Shorter

\* Two brigades in a row within the same limits.
LEMMA ShorterBoth ==
  ASSUME NEW n \in Nat, NEW a \in Seq(BucketsOn(n)), NEW b \in Seq(BucketsOn(n)), NEW c,
         Shorter(a, c), Shorter(b, c)
  PROVE  Shorter(a \o b, c)
BY ConcatIn DEF Shorter

\* apr_bucket_split.
LEMMA SplitNoMore ==
  ASSUME NEW n \in Nat, NEW e \in BucketsOn(n), NEW k \in Nat, k < BucketLen(e)
  PROVE  /\ NoMore(SplitFront(e, k), e) /\ NoMore(SplitBack(e, k), e)
         /\ SplitBack(e, k) \in NotEos
<1>0. PICK x, y : x = SplitFront(e, k) /\ y = SplitBack(e, k)
  OBVIOUS
<1>1. CASE OnFile(e)
  <2>1. e \in FileBuckets(n) /\ k < e.length
    BY <1>1, BucketFacts DEF BucketLen, OnFile
  <2>2. e.start \in Nat /\ e.length \in Nat /\ e.type \in {"file", "spool"}
    BY <2>1, FileBucketFacts
  <2>3. x = FileBucket(e.fd, e.start, k)
    BY <1>0, <1>1 DEF SplitFront
  <2>4. y = [e EXCEPT !.start = @ + k, !.length = @ - k]
    BY <1>0, <1>1 DEF SplitBack
  <2>5. NoMore(x, e)
    BY <1>1, <2>1, <2>2, <2>3 DEF NoMore, FileBucket, OnFile
  <2>6. y.type = e.type /\ y.fd = e.fd /\ y.start = e.start + k /\ y.length = e.length - k
    BY <2>1, <2>4 DEF FileBuckets
  <2>7. NoMore(y, e)
    BY <1>1, <2>1, <2>2, <2>6 DEF NoMore, OnFile
  <2> QED
    BY <1>0, <2>2, <2>5, <2>6, <2>7, SplitType, BucketsAny DEF NotEos
<1>2. CASE ~OnFile(e)
  <2>1. e \in MemBucket
    <3>1. e.type # "eos"
      BY <1>2 DEF BucketLen
    <3> QED
      BY <1>2, <3>1, BucketFacts DEF OnFile
  <2>2. x = [e EXCEPT !.data = SubSeq(e.data, 1, k)]
    BY <1>0, <1>2 DEF SplitFront
  <2>3. y = [e EXCEPT !.data = SubSeq(e.data, k + 1, Len(e.data))]
    BY <1>0, <1>2 DEF SplitBack
  <2>4. x.type = e.type /\ y.type = e.type /\ e.type \in {"mem", "heap"}
    BY <2>1, <2>2, <2>3 DEF MemBucket
  <2>5. NoMore(x, e) /\ NoMore(y, e)
    BY <2>4 DEF NoMore, OnFile
  <2> QED
    BY <1>0, <2>4, <2>5, SplitType, BucketsAny DEF NotEos
<1> QED
  BY <1>1, <1>2

\* apr_bucket_read.
LEMMA ReadNoMore ==
  ASSUME file \in FileType, NEW e \in FileBuckets(Len(file))
  PROVE  /\ Shorter(ReadInto(e), <<e>>)
         /\ ReadInto(e) \in Seq(NotEos)
<1> DEFINE k == Least(e.length, ReadSize)
           h == Heap(SubSeq(Data(e), 1, Least(k, Len(Data(e)))))
           g == FileBucket(e.fd, e.start + k, e.length - k)
<1>1. PICK n \in Nat : n = Len(file) /\ e \in BucketsOn(n)
  BY FilesNat DEF BucketsOn
<1>2. k \in Nat /\ k <= e.length /\ e.start \in Nat /\ e.length \in Nat /\ e.type \in {"file", "spool"}
  <2>1. e.start \in Nat /\ e.length \in Nat /\ e.type \in {"file", "spool"} /\ ReadSize \in Nat
    BY <1>1, FileBucketFacts, SizeAssumption
  <2>2. k \in {e.length, ReadSize} /\ k <= e.length
    BY <2>1, LeastFacts, e.length \in Int, ReadSize \in Int
  <2> HIDE DEF k
  <2> QED
    BY <2>1, <2>2
<1>3. h.type = "heap" /\ NoMore(h, e)
  BY DEF Heap, NoMore, OnFile
<1>4. g.type = "file" /\ NoMore(g, e)
  <2> HIDE DEF k
  <2> QED
    BY <1>2 DEF FileBucket, NoMore, OnFile
<1>5. ReadInto(e) = IF k < e.length THEN <<h>> \o <<g>> ELSE <<h>> \o << >>
  BY DEF ReadInto
<1>6. h \in BucketsOn(n) /\ g \in BucketsOn(n)
  <2>1. Data(e) \in Seq(Int)
    BY <1>1, DataType DEF Bucket
  <2>2. PICK d \in Seq(Int) : d = Data(e)
    BY <2>1
  <2>3. PICK m \in Int : m = Least(k, Len(d)) /\ m <= Len(d)
    BY <1>2, LenProperties, LeastFacts
  <2>4. SubSeq(d, 1, m) \in Seq(Int)
    BY <2>3, SubSeqType
  <2>5. h \in MemBucket
    BY <2>2, <2>3, <2>4 DEF MemBucket, Heap
  <2>6. g \in FileBuckets(n)
    <3> HIDE DEF k
    <3>1. e.fd \in 1 .. n /\ e.start + k \in Nat /\ e.length - k \in Nat
      BY <1>1, <1>2, FileBucketFacts
    <3> QED
      BY <3>1 DEF FileBucket, FileBuckets
  <2> QED
    BY <2>5, <2>6 DEF BucketsOn
<1> HIDE DEF h, g, k
<1>7. PICK a \in Seq(BucketsOn(n)) : a = ReadInto(e)
  BY <1>1, ReadIntoType DEF Bucket
<1>8. Shorter(<<h>>, <<e>>) /\ Shorter(<<g>>, <<e>>)
  BY <1>1, <1>3, <1>4, <1>6, ShorterSingle
<1>9. Shorter(a, <<e>>)
  <2>1. <<h>> \in Seq(BucketsOn(n)) /\ <<g>> \in Seq(BucketsOn(n)) /\ << >> \in Seq(BucketsOn(n))
    BY <1>6, OneIn
  <2>2. Shorter(<<h>> \o <<g>>, <<e>>) /\ Shorter(<<h>> \o << >>, <<e>>)
    BY <1>8, <2>1, ShorterBoth, ShorterEmpty
  <2> QED
    BY <1>5, <1>7, <2>2
<1>10. e \in NotEos
  BY <1>1, <1>2, BucketsAny DEF NotEos
<1>11. a \in Seq(NotEos)
  <2>1. <<e>> \in Seq(NotEos)
    BY <1>10
  <2> QED
    BY <1>9, <2>1, InLimits DEF Shorter
<1> QED
  BY <1>7, <1>9, <1>11

\* spool_bucket_copy.
LEMMA CopyNoMore ==
  ASSUME NEW n \in Nat, NEW e \in BucketsOn(n)
  PROVE  /\ NoMore(CopyOf(e), e) /\ CopyOf(e) \in BucketsOn(n)
         /\ CopyOf(e).type # "spool" /\ (CopyOf(e).type = "eos" <=> e.type = "eos")
<1>1. CASE e.type = "spool"
  <2>1. e \in FileBuckets(n)
    BY <1>1, BucketFacts DEF OnFile
  <2>2. e.start + e.length \in Nat
    BY <2>1, FileBucketFacts
  <2>3. PICK d \in FileBuckets(n) : d = CopyOf(e) /\ d.type = "file" /\ d.fd = e.fd
                                    /\ d.start = e.start /\ d.length = e.length
    <3>1. CopyOf(e) = [e EXCEPT !.type = "file"]
      BY <1>1 DEF CopyOf
    <3>2. [e EXCEPT !.type = "file"] \in FileBuckets(n)
      BY <2>1 DEF FileBuckets
    <3>3. PICK d \in FileBuckets(n) : d = [e EXCEPT !.type = "file"]
      BY <3>2
    <3>4. d.type = "file" /\ d.fd = e.fd /\ d.start = e.start /\ d.length = e.length
      BY <2>1, <3>3 DEF FileBuckets
    <3> QED
      BY <3>1, <3>3, <3>4
  <2>4. d.start + d.length <= e.start + e.length
    BY <2>2, <2>3
  <2>4a. OnFile(e)
    BY <1>1 DEF OnFile
  <2>4b. NoMore(d, e)
    BY <2>3, <2>4, <2>4a DEF NoMore
  <2>5. d \in BucketsOn(n)
    BY DEF BucketsOn
  <2> QED
    BY <1>1, <2>3, <2>4b, <2>5
<1>2. CASE e.type # "spool"
  <2>1. CopyOf(e) = e
    BY <1>2 DEF CopyOf
  <2>2. OnFile(e) => e.start + e.length \in Nat
    BY BucketFacts, FileBucketFacts
  <2> QED
    BY <1>2, <2>1, <2>2 DEF NoMore
<1> QED
  BY <1>1, <1>2

\* apreq_brigade_copy: the copy is within the limits of what was copied.
LEMMA CopyShorter ==
  ASSUME NEW n \in Nat, NEW bb \in Seq(BucketsOn(n))
  PROVE  Shorter(CopyAll(bb), bb)
<1>1. DOMAIN bb = 1 .. Len(bb) /\ Len(bb) \in Nat
  BY LenProperties
<1>2. ASSUME NEW S \in Limits, bb \in Seq(S) PROVE CopyAll(bb) \in Seq(S)
  <2>1. \A i \in 1 .. Len(bb) : CopyOf(bb[i]) \in S
    <3>1. ASSUME NEW i \in 1 .. Len(bb) PROVE CopyOf(bb[i]) \in S
      <4>1. PICK e \in BucketsOn(n) : e = bb[i] /\ e \in S
        <5>1. PICK s \in Seq(S) : s = bb
          BY <1>2
        <5>2. bb[i] \in BucketsOn(n) /\ s[i] \in S
          BY <5>1, ElementOfSeq
        <5> QED
          BY <5>1, <5>2
      <4> QED
        BY <4>1, CopyNoMore, NoMoreLimits
    <3> QED
      BY <3>1
  <2> QED
    BY <1>1, <2>1 DEF CopyAll
<1> QED
  BY <1>2 DEF Shorter

\* A copy is made bucket by bucket.
LEMMA CopySnoc ==
  ASSUME NEW n \in Nat, NEW r \in Seq(BucketsOn(n)), NEW e \in BucketsOn(n)
  PROVE  CopyAll(r \o <<e>>) = CopyAll(r) \o <<CopyOf(e)>>
<1>1. PICK B, g : B = BucketsOn(n) /\ g = [x \in BucketsOn(n) |-> CopyOf(x)]
  OBVIOUS
<1>2. IsMap(g, B, B) /\ g[e] = CopyOf(e) /\ e \in B /\ r \in Seq(B)
  BY <1>1, CopyNoMore DEF IsMap
<1>3. ASSUME NEW bb \in Seq(B) PROVE CopyAll(bb) = Map(g, bb)
  <2>1. \A i \in DOMAIN bb : bb[i] \in B
    BY ElementOfSeq, LenProperties
  <2> QED
    BY <1>1, <2>1 DEF CopyAll, Map
<1>4. Map(g, r \o <<e>>) = Map(g, r) \o <<g[e]>>
  <2>1. PICK o \in Seq(B) : o = <<e>>
    BY <1>2, OneIn
  <2>2. Map(g, r \o o) = Map(g, r) \o Map(g, o)
    BY <1>2, MapConcat
  <2>3. Map(g, o) = <<g[e]>>
    BY <2>1, MapOne
  <2> QED
    BY ONLY <2>1, <2>2, <2>3
<1>5. CopyAll(r) = Map(g, r) /\ CopyAll(r \o <<e>>) = Map(g, r \o <<e>>)
  BY <1>2, <1>3, SnocFacts
<1> QED
  BY ONLY <1>2, <1>4, <1>5

\* The end of the stream is last in a copy as it was.
LEMMA CopyEosLast ==
  ASSUME NEW n \in Nat, NEW bb \in Seq(BucketsOn(n)), EosLast(bb)
  PROVE  EosLast(CopyAll(bb))
<1>1. CASE bb = << >>
  <2>1. CopyAll(bb) = << >>
    BY <1>1 DEF CopyAll
  <2> QED
    BY <2>1, CutEmpty
<1>2. CASE bb # << >>
  <2>1. PICK r \in Seq(BucketsOn(n)), e \in BucketsOn(n) : bb = r \o <<e>>
    BY <1>2, SomeSnoc
  <2>2. r \in Seq(NotEos)
    BY <2>1, CutSnoc
  <2>3. PICK c \in Seq(BucketsOn(n)), d \in BucketsOn(n) : c = CopyAll(r) /\ d = CopyOf(e)
    BY CopyType, CopyNoMore
  <2>4. c \in Seq(NotEos)
    BY <2>2, <2>3, CopyShorter, InLimits DEF Shorter
  <2>5. EosLast(c \o <<d>>)
    BY <2>4, CutSnoc
  <2>6. CopyAll(bb) = c \o <<d>>
    BY <2>1, <2>3, CopySnoc
  <2> QED
    BY <2>5, <2>6
<1> QED
  BY <1>1, <1>2

(* Bytes a to b of a sequence, counted from 0. *)

Bytes(s, a, b) == SubSeq(s, a + 1, b)

\* So many bytes, and where each was.
LEMMA BytesType ==
  ASSUME NEW s \in Seq(Int), NEW a \in Nat, NEW b \in Nat, a <= b, b <= Len(s)
  PROVE  /\ Bytes(s, a, b) \in Seq(Int) /\ Len(Bytes(s, a, b)) = b - a
         /\ \A i \in 1 .. b - a : Bytes(s, a, b)[i] = s[a + i]
<1>1. /\ SubSeq(s, a + 1, b) \in Seq(Int)
      /\ Len(SubSeq(s, a + 1, b)) = IF a + 1 <= b THEN b - (a + 1) + 1 ELSE 0
      /\ \A i \in 1 .. b - (a + 1) + 1 : SubSeq(s, a + 1, b)[i] = s[a + 1 + i - 1]
  BY SMTT(30), SubSeqType, a + 1 \in Nat \ {0}, b \in Int
<1>2. b - (a + 1) + 1 = b - a /\ \A i \in 1 .. b - a : a + 1 + i - 1 = a + i
  OBVIOUS
<1>3. (IF a + 1 <= b THEN b - (a + 1) + 1 ELSE 0) = b - a
  OBVIOUS
<1> QED
  BY <1>1, <1>2, <1>3 DEF Bytes

\* Bytes a to b and b to c are bytes a to c.
LEMMA BytesJoin ==
  ASSUME NEW s \in Seq(Int), NEW a \in Nat, NEW b \in Nat, NEW c \in Nat,
         a <= b, b <= c, c <= Len(s)
  PROVE  Bytes(s, a, b) \o Bytes(s, b, c) = Bytes(s, a, c)
<1>1. a + 1 \in 1 .. Len(s) + 1 /\ b \in a + 1 - 1 .. Len(s) /\ c \in b .. Len(s)
  BY LenProperties
<1> QED
  BY <1>1, ConcatAdjacentSubSeq DEF Bytes

\* All the bytes.
LEMMA BytesFull ==
  ASSUME NEW s \in Seq(Int) PROVE Bytes(s, 0, Len(s)) = s
BY SubSeqFull DEF Bytes

\* No byte.
LEMMA BytesNone ==
  ASSUME NEW s, NEW a \in Nat PROVE Bytes(s, a, a) = << >>
BY SubSeqEmpty, a + 1 \in Int, a \in Int, a < a + 1 DEF Bytes

\* Bytes of a part are bytes of the whole.
LEMMA BytesOfBytes ==
  ASSUME NEW s \in Seq(Int), NEW a \in Nat, NEW b \in Nat, a <= b, b <= Len(s),
         NEW c \in Nat, NEW d \in Nat, c <= d, d <= b - a
  PROVE  Bytes(Bytes(s, a, b), c, d) = Bytes(s, a + c, a + d)
<1>1. PICK t \in Seq(Int) : t = Bytes(s, a, b) /\ Len(t) = b - a /\ \A i \in 1 .. b - a : t[i] = s[a + i]
  BY BytesType
<1>2. PICK u \in Seq(Int) : u = Bytes(t, c, d) /\ Len(u) = d - c /\ \A i \in 1 .. d - c : u[i] = t[c + i]
  <2>1. d <= Len(t)
    BY <1>1
  <2>2. /\ Bytes(t, c, d) \in Seq(Int) /\ Len(Bytes(t, c, d)) = d - c
        /\ \A i \in 1 .. d - c : Bytes(t, c, d)[i] = t[c + i]
    BY ONLY <2>1, c \in Nat, d \in Nat, c <= d, t \in Seq(Int), BytesType
  <2> QED
    BY <2>2
<1>3. PICK v \in Seq(Int) : v = Bytes(s, a + c, a + d) /\ Len(v) = d - c
                            /\ \A i \in 1 .. d - c : v[i] = s[a + c + i]
  <2>1. a + c \in Nat /\ a + d \in Nat /\ a + c <= a + d /\ a + d <= Len(s) /\ (a + d) - (a + c) = d - c
    BY LenProperties
  <2>2. PICK p \in Nat, q \in Nat : p = a + c /\ q = a + d /\ p <= q /\ q <= Len(s)
    BY <2>1
  <2>3. /\ Bytes(s, p, q) \in Seq(Int) /\ Len(Bytes(s, p, q)) = q - p
        /\ \A i \in 1 .. q - p : Bytes(s, p, q)[i] = s[p + i]
    <3>1. p <= q /\ q <= Len(s)
      BY <2>2
    <3> QED
      BY ONLY ZenonT(40), <3>1, p \in Nat, q \in Nat, s \in Seq(Int), BytesType
  <2> QED
    BY <2>1, <2>2, <2>3
<1>4. \A i \in 1 .. d - c : u[i] = v[i]
  <2>1. ASSUME NEW i \in 1 .. d - c PROVE u[i] = v[i]
    <3>1. c + i \in 1 .. b - a /\ a + (c + i) = a + c + i
      OBVIOUS
    <3> QED
      BY ZenonT(40), <1>1, <1>2, <1>3, <3>1
  <2> QED
    BY <2>1
<1>5. u = v
  BY <1>2, <1>3, <1>4, SeqEqual
<1> QED
  BY <1>1, <1>2, <1>3, <1>5

\* Bytes of the first of two sequences put together.
LEMMA BytesOfFirst ==
  ASSUME NEW s \in Seq(Int), NEW t \in Seq(Int), NEW a \in Nat, NEW b \in Nat, a <= b, b <= Len(s)
  PROVE  Bytes(s \o t, a, b) = Bytes(s, a, b)
<1>1. PICK st \in Seq(Int) : /\ st = s \o t /\ Len(st) = Len(s) + Len(t)
        /\ \A i \in 1 .. Len(s) + Len(t) : st[i] = IF i <= Len(s) THEN s[i] ELSE t[i - Len(s)]
  <2>1. /\ s \o t \in Seq(Int) /\ Len(s \o t) = Len(s) + Len(t)
        /\ \A i \in 1 .. Len(s) + Len(t) : (s \o t)[i] = IF i <= Len(s) THEN s[i] ELSE t[i - Len(s)]
    BY ConcatProperties
  <2>2. PICK st \in Seq(Int) : st = s \o t
    BY <2>1
  <2> QED
    BY <2>1, <2>2
<1>2. Len(s) \in Nat /\ Len(t) \in Nat /\ b <= Len(st)
  BY <1>1, LenProperties
<1>3. PICK u \in Seq(Int) : u = Bytes(st, a, b) /\ Len(u) = b - a /\ \A i \in 1 .. b - a : u[i] = st[a + i]
  BY ZenonT(40), <1>2, BytesType
<1>4. PICK v \in Seq(Int) : v = Bytes(s, a, b) /\ Len(v) = b - a /\ \A i \in 1 .. b - a : v[i] = s[a + i]
  BY ZenonT(40), BytesType
<1>5. \A i \in 1 .. b - a : u[i] = v[i]
  <2>1. ASSUME NEW i \in 1 .. b - a PROVE u[i] = v[i]
    <3>1. a + i \in 1 .. Len(s) + Len(t) /\ a + i <= Len(s)
      BY <1>2
    <3> QED
      BY <1>1, <1>3, <1>4, <3>1
  <2> QED
    BY <2>1
<1>6. u = v
  BY <1>3, <1>4, <1>5, SeqEqual
<1> QED
  BY <1>1, <1>3, <1>4, <1>6

\* The bytes of the second of two sequences put together.
LEMMA BytesOfSecond ==
  ASSUME NEW s \in Seq(Int), NEW t \in Seq(Int)
  PROVE  Bytes(s \o t, Len(s), Len(s) + Len(t)) = t
<1>1. PICK st \in Seq(Int) : /\ st = s \o t /\ Len(st) = Len(s) + Len(t)
        /\ \A i \in 1 .. Len(s) + Len(t) : st[i] = IF i <= Len(s) THEN s[i] ELSE t[i - Len(s)]
  <2>1. /\ s \o t \in Seq(Int) /\ Len(s \o t) = Len(s) + Len(t)
        /\ \A i \in 1 .. Len(s) + Len(t) : (s \o t)[i] = IF i <= Len(s) THEN s[i] ELSE t[i - Len(s)]
    BY ConcatProperties
  <2>2. PICK st \in Seq(Int) : st = s \o t
    BY <2>1
  <2> QED
    BY <2>1, <2>2
<1>2. PICK a \in Nat, b \in Nat : a = Len(s) /\ b = Len(s) + Len(t) /\ b - a = Len(t)
  BY LenProperties
<1>3. PICK u \in Seq(Int) : u = Bytes(st, a, b) /\ Len(u) = b - a /\ \A i \in 1 .. b - a : u[i] = st[a + i]
  <2>1. a <= b /\ b <= Len(st)
    BY <1>1, <1>2, LenProperties
  <2> QED
    BY <2>1, BytesType
<1>4. \A i \in 1 .. Len(t) : u[i] = t[i]
  <2>1. ASSUME NEW i \in 1 .. Len(t) PROVE u[i] = t[i]
    <3>1. a + i \in 1 .. Len(s) + Len(t) /\ ~(a + i <= Len(s)) /\ (a + i) - Len(s) = i
      BY <1>2, LenProperties
    <3> QED
      BY <1>1, <1>2, <1>3, <3>1
  <2> QED
    BY <2>1
<1>5. u = t
  BY <1>2, <1>3, <1>4, SeqEqual
<1> QED
  BY <1>1, <1>2, <1>3, <1>5

\* Sequences that begin with the same bytes have the same bytes there.
LEMMA BytesSame ==
  ASSUME NEW s \in Seq(Int), NEW t \in Seq(Int), NEW k \in Nat, k <= Len(s), k <= Len(t),
         Bytes(s, 0, k) = Bytes(t, 0, k), NEW a \in Nat, NEW b \in Nat, a <= b, b <= k
  PROVE  Bytes(s, a, b) = Bytes(t, a, b)
<1>1. /\ 0 \in Nat /\ 0 <= k /\ b <= k - 0 /\ 0 + a = a /\ 0 + b = b
  OBVIOUS
<1>2. Bytes(Bytes(s, 0, k), a, b) = Bytes(s, 0 + a, 0 + b)
  BY <1>1, BytesOfBytes
<1>3. Bytes(Bytes(t, 0, k), a, b) = Bytes(t, 0 + a, 0 + b)
  BY <1>1, BytesOfBytes
<1> QED
  BY <1>1, <1>2, <1>3

(* What a bucket holds when the files are fs. *)

DataIn(fs, e) ==
    CASE e.type = "eos" -> <<EOS>>
      [] OnFile(e) -> SubSeq(fs[e.fd].data, e.start + 1,
                             Least(e.start + e.length, Len(fs[e.fd].data)))
      [] OTHER -> e.data

\* What a brigade holds when the files are fs.
ContentIn(fs, bb) == FlattenSeq([i \in DOMAIN bb |-> DataIn(fs, bb[i])])

\* All file buckets are within their files.
Within(fs, bb) == \A f \in 1 .. Len(fs) : bb \in Seq(Reaching(f, Len(fs[f].data)))

\* What a brigade holds now is what it holds in the files as they are.
LEMMA ContentNow ==
  /\ \A bb : Content(bb) = ContentIn(file, bb)
  /\ \A e : Data(e) = DataIn(file, e)
BY DEF Content, ContentIn, Data, DataIn

\* What a file holds is bytes.
LEMMA FileDataType ==
  ASSUME NEW fs \in FileType, NEW f \in 1 .. Len(fs)
  PROVE  fs[f].data \in Seq(Int) /\ Len(fs[f].data) \in Nat
<1>1. fs[f] \in [data : Seq(Int), at : Nat]
  BY ElementOfSeq DEF FileType
<1> QED
  BY <1>1, LenProperties

\* What a bucket in memory holds, in any files.
LEMMA DataInMem ==
  ASSUME NEW fs, NEW e \in MemBucket
  PROVE  /\ DataIn(fs, e) = e.data /\ e.data \in Seq(Int)
         /\ BucketLen(e) = Len(e.data) /\ Len(e.data) \in Nat
         /\ ~OnFile(e)
<1>1. e.type \in {"mem", "heap"} /\ e.data \in Seq(Int)
  BY DEF MemBucket
<1> QED
  BY <1>1, LenProperties DEF DataIn, BucketLen, OnFile

\* What a bucket on a file holds: the bytes of the file it refers to, as long as
\* the file has them.
LEMMA DataInFile ==
  ASSUME NEW fs \in FileType, NEW e \in FileBuckets(Len(fs))
  PROVE  /\ DataIn(fs, e) \in Seq(Int) /\ Len(DataIn(fs, e)) <= e.length
         /\ BucketLen(e) = e.length
         /\ e.start + e.length <= Len(fs[e.fd].data)
              => /\ DataIn(fs, e) = Bytes(fs[e.fd].data, e.start, e.start + e.length)
                 /\ Len(DataIn(fs, e)) = e.length
<1>1. Len(fs) \in Nat
  BY LenProperties DEF FileType
<1>2. /\ e.fd \in 1 .. Len(fs) /\ e.start \in Nat /\ e.length \in Nat
      /\ e.type \in {"file", "spool"} /\ OnFile(e)
  BY <1>1, FileBucketFacts
<1>3. PICK d \in Seq(Int) : d = fs[e.fd].data /\ Len(d) \in Nat
  BY <1>2, FileDataType
<1>4. PICK m \in Nat : m = Least(e.start + e.length, Len(d)) /\ m <= Len(d)
                       /\ m <= e.start + e.length
                       /\ (e.start + e.length <= Len(d) => m = e.start + e.length)
  <2>1. PICK p \in Nat, q \in Nat : p = e.start + e.length /\ q = Len(d)
    BY <1>2, <1>3
  <2>2. Least(p, q) \in Nat /\ Least(p, q) <= q /\ Least(p, q) <= p /\ (p <= q => Least(p, q) = p)
    BY DEF Least
  <2> QED
    BY <2>1, <2>2
<1>5. DataIn(fs, e) = SubSeq(d, e.start + 1, m)
  BY <1>2, <1>3, <1>4 DEF DataIn
<1>6. /\ SubSeq(d, e.start + 1, m) \in Seq(Int)
      /\ Len(SubSeq(d, e.start + 1, m)) = IF e.start + 1 <= m THEN m - (e.start + 1) + 1 ELSE 0
  <2>1. PICK p \in Nat \ {0} : p = e.start + 1
    BY <1>2
  <2>2. /\ SubSeq(d, p, m) \in Seq(Int)
        /\ Len(SubSeq(d, p, m)) = IF p <= m THEN m - p + 1 ELSE 0
    BY <1>4, SubSeqType, m \in Int
  <2> QED
    BY <2>1, <2>2
<1>7. Len(SubSeq(d, e.start + 1, m)) <= e.length
  <2>1. PICK x, l, z : x \in Nat /\ l \in Nat /\ x = e.start /\ l = e.length /\ z = Len(SubSeq(d, e.start + 1, m))
    BY <1>2
  <2>2. m <= x + l /\ z = IF x + 1 <= m THEN m - (x + 1) + 1 ELSE 0
    BY <1>4, <1>6, <2>1
  <2>3. z <= l
    BY ONLY SMTT(30), <2>1, <2>2, m \in Nat
  <2> QED
    BY <2>1, <2>3
<1>8. BucketLen(e) = e.length
  BY <1>2 DEF BucketLen
<1>9. ASSUME e.start + e.length <= Len(d)
      PROVE  /\ DataIn(fs, e) = Bytes(d, e.start, e.start + e.length)
             /\ Len(DataIn(fs, e)) = e.length
  <2>1. m = e.start + e.length
    BY <1>4, <1>9
  <2>2. DataIn(fs, e) = Bytes(d, e.start, e.start + e.length)
    BY <1>5, <2>1 DEF Bytes
  <2>3. Len(DataIn(fs, e)) = e.length
    BY SMTT(30), <1>2, <1>5, <1>6, <2>1
  <2> QED
    BY <2>2, <2>3
<1> QED
  BY <1>3, <1>5, <1>6, <1>7, <1>8, <1>9

\* What a bucket holds is bytes.
LEMMA DataInType ==
  ASSUME NEW fs \in FileType, NEW e \in BucketsOn(Len(fs))
  PROVE  DataIn(fs, e) \in Seq(Int)
<1>1. CASE e.type \in {"mem", "heap"}
  BY <1>1, BucketFacts, DataInMem, LenProperties DEF FileType
<1>2. CASE OnFile(e)
  BY <1>2, BucketFacts, DataInFile, LenProperties DEF FileType
<1>3. CASE e.type = "eos"
  BY <1>3 DEF DataIn, EOS, OnFile
<1> QED
  BY <1>1, <1>2, <1>3, BucketFacts, LenProperties DEF OnFile, FileType

\* The content of a brigade is made of a function of each bucket.
LEMMA ContentAsMap ==
  ASSUME NEW fs \in FileType
  PROVE  \E g : /\ IsMap(g, BucketsOn(Len(fs)), Seq(Int))
                /\ \A e \in BucketsOn(Len(fs)) : g[e] = DataIn(fs, e)
                /\ \A bb \in Seq(BucketsOn(Len(fs))) : ContentIn(fs, bb) = FlattenSeq(Map(g, bb))
<1>1. PICK B, g : B = BucketsOn(Len(fs)) /\ g = [x \in B |-> DataIn(fs, x)]
  OBVIOUS
<1>2. IsMap(g, B, Seq(Int)) /\ \A e \in B : g[e] = DataIn(fs, e)
  BY <1>1, DataInType DEF IsMap
<1>3. ASSUME NEW bb \in Seq(B) PROVE ContentIn(fs, bb) = FlattenSeq(Map(g, bb))
  <2>1. \A i \in DOMAIN bb : bb[i] \in B
    BY ElementOfSeq, LenProperties
  <2>2. [i \in DOMAIN bb |-> DataIn(fs, bb[i])] = Map(g, bb)
    BY <1>2, <2>1 DEF Map
  <2> QED
    BY <2>2 DEF ContentIn
<1> QED
  BY <1>1, <1>2, <1>3

\* What a brigade holds is bytes, and goes through concatenation.
LEMMA ContentInFacts ==
  ASSUME NEW fs \in FileType, NEW a \in Seq(BucketsOn(Len(fs))), NEW b \in Seq(BucketsOn(Len(fs)))
  PROVE  /\ ContentIn(fs, a) \in Seq(Int)
         /\ ContentIn(fs, a \o b) = ContentIn(fs, a) \o ContentIn(fs, b)
<1>1. PICK g : /\ IsMap(g, BucketsOn(Len(fs)), Seq(Int))
               /\ \A bb \in Seq(BucketsOn(Len(fs))) : ContentIn(fs, bb) = FlattenSeq(Map(g, bb))
  BY ContentAsMap
<1>2. PICK c \in Seq(BucketsOn(Len(fs))) : c = a \o b
  BY ConcatProperties
<1>3. PICK x \in Seq(Seq(Int)), y \in Seq(Seq(Int)) : x = Map(g, a) /\ y = Map(g, b)
  BY <1>1, MapType
<1>4. Map(g, c) = x \o y
  <2>1. Map(g, a \o b) = Map(g, a) \o Map(g, b)
    <3>1. PICK B : B = BucketsOn(Len(fs)) /\ a \in Seq(B) /\ b \in Seq(B) /\ IsMap(g, B, Seq(Int))
      BY <1>1
    <3> QED
      BY ONLY <3>1, MapConcat
  <2> QED
    BY ONLY <1>2, <1>3, <2>1
<1>5. FlattenSeq(x \o y) = FlattenSeq(x) \o FlattenSeq(y) /\ FlattenSeq(x) \in Seq(Int)
  BY FlattenConcat, FlattenType
<1> QED
  BY <1>1, <1>2, <1>3, <1>4, <1>5

\* What one bucket holds.
LEMMA ContentInOne ==
  ASSUME NEW fs \in FileType, NEW e \in BucketsOn(Len(fs))
  PROVE  ContentIn(fs, <<e>>) = DataIn(fs, e)
<1>1. [i \in DOMAIN <<e>> |-> DataIn(fs, <<e>>[i])] = <<DataIn(fs, e)>>
  OBVIOUS
<1>2. PICK d \in Seq(Int) : d = DataIn(fs, e)
  BY DataInType
<1> QED
  BY <1>1, <1>2, FlattenOne DEF ContentIn

\* What no bucket holds.
LEMMA ContentInEmpty == ASSUME NEW fs PROVE ContentIn(fs, << >>) = << >>
<1>1. [i \in DOMAIN << >> |-> DataIn(fs, << >>[i])] = << >>
  OBVIOUS
<1> QED
  BY <1>1, FlattenEmpty DEF ContentIn

------------------------------------------------------------------------------
(* What stays when a file is written. *)

\* Two brigades in a row are within their files when both are.
LEMMA WithinConcat ==
  ASSUME NEW fs \in FileType, NEW a \in Seq(BucketsOn(Len(fs))), NEW b \in Seq(BucketsOn(Len(fs)))
  PROVE  Within(fs, a \o b) <=> Within(fs, a) /\ Within(fs, b)
<1>1. ASSUME NEW S PROVE a \o b \in Seq(S) <=> a \in Seq(S) /\ b \in Seq(S)
  BY ConcatIn
<1> QED
  BY <1>1 DEF Within

\* Within the limits of what is within its files.
LEMMA WithinShorter ==
  ASSUME NEW fs \in FileType, NEW a, NEW b, Shorter(a, b), Within(fs, b)
  PROVE  Within(fs, a)
<1>1. ASSUME NEW f \in 1 .. Len(fs) PROVE Reaching(f, Len(fs[f].data)) \in Limits
  BY FileDataType, InLimits, LenProperties DEF FileType
<1> QED
  BY <1>1 DEF Within, Shorter

\* One bucket is within its files.
LEMMA WithinOne ==
  ASSUME NEW fs \in FileType, NEW e \in BucketsOn(Len(fs))
  PROVE  Within(fs, <<e>>) <=> (OnFile(e) => e.start + e.length <= Len(fs[e.fd].data))
<1>1. Len(fs) \in Nat
  BY LenProperties DEF FileType
<1>2. OnFile(e) => e.fd \in 1 .. Len(fs)
  BY <1>1, BucketFacts, FileBucketFacts
<1>3. e \in AnyBucket
  BY <1>1, BucketsAny
<1>4. ASSUME NEW f \in 1 .. Len(fs)
      PROVE  <<e>> \in Seq(Reaching(f, Len(fs[f].data)))
               <=> (OnFile(e) /\ e.fd = f => e.start + e.length <= Len(fs[f].data))
  <2>1. <<e>> \in Seq(Reaching(f, Len(fs[f].data))) <=> e \in Reaching(f, Len(fs[f].data))
    BY OneIn
  <2> QED
    BY <1>3, <2>1 DEF Reaching
<1> QED
  BY <1>2, <1>4 DEF Within

\* No bucket is.
LEMMA WithinEmpty == ASSUME NEW fs PROVE Within(fs, << >>)
BY DEF Within

\* What a bucket holds is as long as it says.
LEMMA DataInLen ==
  ASSUME NEW fs \in FileType, NEW e \in BucketsOn(Len(fs)), e.type # "eos"
  PROVE  /\ Len(DataIn(fs, e)) \in Nat /\ Len(DataIn(fs, e)) <= BucketLen(e)
         /\ Within(fs, <<e>>) => Len(DataIn(fs, e)) = BucketLen(e)
<1>1. Len(fs) \in Nat /\ DataIn(fs, e) \in Seq(Int)
  BY LenProperties, DataInType DEF FileType
<1>2. Len(DataIn(fs, e)) \in Nat
  BY <1>1, LenProperties
<1>3. CASE OnFile(e)
  <2>1. e \in FileBuckets(Len(fs))
    BY <1>1, <1>3, BucketFacts
  <2>2. Within(fs, <<e>>) => e.start + e.length <= Len(fs[e.fd].data)
    BY <1>3, WithinOne
  <2> QED
    BY <1>2, <2>1, <2>2, DataInFile
<1>4. CASE ~OnFile(e)
  <2>1. e \in MemBucket
    BY <1>1, <1>4, BucketFacts DEF OnFile
  <2> QED
    BY SMTT(30), <2>1, DataInMem
<1> QED
  BY <1>3, <1>4

\* apr_brigade_length counts what a brigade holds, unless a file is shorter than
\* a bucket says.
LEMMA ContentLen ==
  ASSUME NEW fs \in FileType, NEW bb \in Seq(BucketsOn(Len(fs))), bb \in Seq(NotEos)
  PROVE  /\ Len(ContentIn(fs, bb)) <= Length(bb)
         /\ Within(fs, bb) => Len(ContentIn(fs, bb)) = Length(bb)
<1> DEFINE T == {s \in Seq(BucketsOn(Len(fs))) :
                    s \in Seq(NotEos) =>
                      /\ Len(ContentIn(fs, s)) <= Length(s)
                      /\ Within(fs, s) => Len(ContentIn(fs, s)) = Length(s)}
<1>1. << >> \in T
  BY ContentInEmpty, LengthEmpty, Len(<< >>) = 0
<1>2. ASSUME NEW r \in Seq(BucketsOn(Len(fs))), r \in T, NEW e \in BucketsOn(Len(fs))
      PROVE  r \o <<e>> \in T
  <2>1. PICK o \in Seq(BucketsOn(Len(fs))) : o = <<e>>
    BY OneIn
  <2>2. r \o o \in Seq(BucketsOn(Len(fs)))
    BY ConcatProperties
  <2>3. ASSUME r \o o \in Seq(NotEos)
        PROVE  /\ Len(ContentIn(fs, r \o o)) <= Length(r \o o)
               /\ Within(fs, r \o o) => Len(ContentIn(fs, r \o o)) = Length(r \o o)
    <3>1. r \in Seq(NotEos) /\ o \in Seq(NotEos)
      BY <2>3, ConcatIn
    <3>2. e.type # "eos"
      BY <2>1, <3>1, OneIn DEF NotEos
    <3>3. Len(fs) \in Nat
      BY LenProperties DEF FileType
    <3>4. Length(r \o o) = Length(r) + BucketLen(e) /\ Length(r) \in Nat /\ BucketLen(e) \in Nat
      BY ZenonT(40), <2>1, <3>3, LengthFacts, LengthOne, BucketLenNat
    <3>5. PICK x \in Seq(Int), y \in Seq(Int) :
              x = ContentIn(fs, r) /\ y = DataIn(fs, e) /\ ContentIn(fs, r \o o) = x \o y
      BY <2>1, ContentInFacts, ContentInOne, DataInType
    <3>6. Len(x \o y) = Len(x) + Len(y) /\ Len(x) \in Nat /\ Len(y) \in Nat
      BY ConcatProperties, LenProperties
    <3>7. Within(fs, r \o o) => Within(fs, r) /\ Within(fs, <<e>>)
      BY <2>1, WithinConcat
    <3>8. Len(x) <= Length(r) /\ (Within(fs, r) => Len(x) = Length(r))
      BY <1>2, <3>1, <3>5
    <3>9. Len(y) <= BucketLen(e) /\ (Within(fs, <<e>>) => Len(y) = BucketLen(e))
      BY <3>2, <3>5, DataInLen
    <3> QED
      BY <3>4, <3>5, <3>6, <3>7, <3>8, <3>9
  <2> QED
    BY <2>1, <2>2, <2>3
<1> HIDE DEF T
<1>3. Seq(BucketsOn(Len(fs))) \subseteq T
  BY <1>1, <1>2, SnocInduction
<1>4. bb \in T
  BY <1>3
<1> QED
  BY <1>4 DEF T

\* The files keep their contents but for what is behind the first k bytes of f.
Kept(fs, gs, f, k) ==
    /\ Len(fs) <= Len(gs)
    /\ \A h \in 1 .. Len(fs) :
          IF h = f THEN /\ k <= Len(fs[f].data) /\ k <= Len(gs[f].data)
                        /\ Bytes(fs[f].data, 0, k) = Bytes(gs[f].data, 0, k)
          ELSE gs[h].data = fs[h].data

\* A bucket that ends before what was changed holds what it held.
LEMMA DataStays ==
  ASSUME NEW fs \in FileType, NEW gs \in FileType, NEW f \in Nat, NEW k \in Nat,
         Kept(fs, gs, f, k), NEW e \in BucketsOn(Len(fs)),
         e \in Reaching(f, k), Within(fs, <<e>>)
  PROVE  /\ DataIn(gs, e) = DataIn(fs, e) /\ e \in BucketsOn(Len(gs)) /\ Within(gs, <<e>>)
<1>1. Len(fs) \in Nat /\ Len(gs) \in Nat /\ Len(fs) <= Len(gs)
  BY LenProperties DEF FileType, Kept
<1>2. e \in BucketsOn(Len(gs))
  BY <1>1, BucketsGrow
<1>3. CASE ~OnFile(e)
  BY <1>2, <1>3, WithinOne DEF DataIn
<1>4. CASE OnFile(e)
  <2>1. e \in FileBuckets(Len(fs)) /\ e \in FileBuckets(Len(gs))
    BY <1>1, <1>2, <1>4, BucketFacts
  <2>2. e.fd \in 1 .. Len(fs) /\ e.fd \in 1 .. Len(gs)
    BY <1>1, <2>1, FileBucketFacts
  <2>3. PICK a \in Nat, b \in Nat : a = e.start /\ b = e.start + e.length /\ a <= b
    BY <1>1, <2>1, FileBucketFacts
  <2>4. PICK s \in Seq(Int), t \in Seq(Int) : s = fs[e.fd].data /\ t = gs[e.fd].data
    BY <2>2, FileDataType
  <2>5. b <= Len(s)
    BY <1>4, <2>3, <2>4, WithinOne
  <2>6. CASE e.fd # f
    <3>1. s = t
      BY <2>2, <2>4, <2>6 DEF Kept
    <3>2. DataIn(fs, e) = Bytes(s, a, b) /\ DataIn(gs, e) = Bytes(t, a, b)
      BY <2>1, <2>3, <2>4, <2>5, <3>1, DataInFile
    <3>3. Within(gs, <<e>>)
      BY <1>2, <2>3, <2>4, <2>5, <3>1, WithinOne
    <3> QED
      BY <1>2, <3>1, <3>2, <3>3
  <2>7. CASE e.fd = f
    <3>1. k <= Len(s) /\ k <= Len(t) /\ Bytes(s, 0, k) = Bytes(t, 0, k)
      BY <2>2, <2>4, <2>7 DEF Kept
    <3>2. b <= k
      BY <1>4, <2>3, <2>7 DEF Reaching
    <3>3. b <= Len(t)
      BY <3>1, <3>2, LenProperties
    <3>4. DataIn(fs, e) = Bytes(s, a, b) /\ DataIn(gs, e) = Bytes(t, a, b)
      BY <2>1, <2>3, <2>4, <2>5, <3>3, DataInFile
    <3>5. Bytes(s, a, b) = Bytes(t, a, b)
      BY <2>3, <3>1, <3>2, BytesSame
    <3>6. Within(gs, <<e>>)
      BY <1>2, <2>3, <2>4, <3>3, WithinOne
    <3> QED
      BY <1>2, <3>4, <3>5, <3>6
  <2> QED
    BY <2>6, <2>7
<1> QED
  BY <1>3, <1>4

\* A brigade that ends before what was changed holds what it held.
LEMMA ContentStays ==
  ASSUME NEW fs \in FileType, NEW gs \in FileType, NEW f \in Nat, NEW k \in Nat,
         Kept(fs, gs, f, k), NEW bb \in Seq(BucketsOn(Len(fs))),
         bb \in Seq(Reaching(f, k)), Within(fs, bb)
  PROVE  ContentIn(gs, bb) = ContentIn(fs, bb) /\ bb \in Seq(BucketsOn(Len(gs))) /\ Within(gs, bb)
<1> DEFINE T == {s \in Seq(BucketsOn(Len(fs))) :
                    s \in Seq(Reaching(f, k)) /\ Within(fs, s) =>
                      /\ ContentIn(gs, s) = ContentIn(fs, s)
                      /\ s \in Seq(BucketsOn(Len(gs)))
                      /\ Within(gs, s)}
<1>1. << >> \in T
  BY ContentInEmpty, WithinEmpty
<1>2. ASSUME NEW r \in Seq(BucketsOn(Len(fs))), r \in T, NEW e \in BucketsOn(Len(fs))
      PROVE  r \o <<e>> \in T
  <2>1. PICK o \in Seq(BucketsOn(Len(fs))) : o = <<e>>
    BY OneIn
  <2>2. r \o o \in Seq(BucketsOn(Len(fs)))
    BY ConcatProperties
  <2>3. ASSUME r \o o \in Seq(Reaching(f, k)), Within(fs, r \o o)
        PROVE  /\ ContentIn(gs, r \o o) = ContentIn(fs, r \o o)
               /\ r \o o \in Seq(BucketsOn(Len(gs)))
               /\ Within(gs, r \o o)
    <3>1. r \in Seq(Reaching(f, k)) /\ o \in Seq(Reaching(f, k))
      BY <2>3, ConcatIn
    <3>2. Within(fs, r) /\ Within(fs, o)
      BY <2>3, WithinConcat
    <3>3. ContentIn(gs, r) = ContentIn(fs, r) /\ r \in Seq(BucketsOn(Len(gs))) /\ Within(gs, r)
      BY <1>2, <3>1, <3>2
    <3>4. e \in Reaching(f, k)
      BY <2>1, <3>1, OneIn
    <3>5. DataIn(gs, e) = DataIn(fs, e) /\ e \in BucketsOn(Len(gs)) /\ Within(gs, <<e>>)
      BY <2>1, <3>2, <3>4, DataStays
    <3>6. o \in Seq(BucketsOn(Len(gs)))
      BY <2>1, <3>5, OneIn
    <3>7. ContentIn(gs, o) = ContentIn(fs, o)
      BY <2>1, <3>5, ContentInOne
    <3>8. ContentIn(gs, r \o o) = ContentIn(gs, r) \o ContentIn(gs, o)
      BY <3>3, <3>6, ContentInFacts
    <3>9. ContentIn(fs, r \o o) = ContentIn(fs, r) \o ContentIn(fs, o)
      BY ContentInFacts
    <3>10. r \o o \in Seq(BucketsOn(Len(gs)))
      BY <3>3, <3>6, ConcatProperties
    <3>11. Within(gs, r \o o)
      BY <2>1, <3>3, <3>5, <3>6, WithinConcat
    <3> QED
      BY <3>3, <3>7, <3>8, <3>9, <3>10, <3>11
  <2> QED
    BY <2>1, <2>2, <2>3
<1> HIDE DEF T
<1>3. Seq(BucketsOn(Len(fs))) \subseteq T
  BY <1>1, <1>2, SnocInduction
<1>4. bb \in T
  BY <1>3
<1> QED
  BY <1>4 DEF T

\* The two parts of a bucket hold what it held.
LEMMA SplitContent ==
  ASSUME NEW fs \in FileType, NEW e \in BucketsOn(Len(fs)), NEW k \in Nat, k < BucketLen(e),
         Within(fs, <<e>>)
  PROVE  DataIn(fs, SplitFront(e, k)) \o DataIn(fs, SplitBack(e, k)) = DataIn(fs, e)
<1>0. Len(fs) \in Nat
  BY LenProperties DEF FileType
<1>1. PICK x, y : x = SplitFront(e, k) /\ y = SplitBack(e, k)
  OBVIOUS
<1>2. CASE OnFile(e)
  <2>1. e \in FileBuckets(Len(fs)) /\ k < e.length
    BY <1>0, <1>2, BucketFacts DEF BucketLen, OnFile
  <2>2. e.fd \in 1 .. Len(fs) /\ e.start \in Nat /\ e.length \in Nat /\ e.type \in {"file", "spool"}
    BY <1>0, <2>1, FileBucketFacts
  <2>3. x = FileBucket(e.fd, e.start, k)
    BY <1>1, <1>2 DEF SplitFront
  <2>4. y = [e EXCEPT !.start = @ + k, !.length = @ - k]
    BY <1>1, <1>2 DEF SplitBack
  <2>5. x \in FileBuckets(Len(fs)) /\ x.fd = e.fd /\ x.start = e.start /\ x.length = k
    BY <2>2, <2>3 DEF FileBucket, FileBuckets
  <2>6. y \in FileBuckets(Len(fs)) /\ y.fd = e.fd /\ y.start = e.start + k /\ y.length = e.length - k
    <3>1. e.start + k \in Nat /\ e.length - k \in Nat
      BY <2>1, <2>2
    <3> QED
      BY <2>1, <2>4, <3>1 DEF FileBuckets
  <2>7. PICK a \in Nat, b \in Nat, c \in Nat :
          a = e.start /\ b = e.start + k /\ c = e.start + e.length /\ a <= b /\ b <= c
    BY <2>1, <2>2
  <2>8. PICK d \in Seq(Int) : d = fs[e.fd].data
    BY <2>2, FileDataType
  <2>9. c <= Len(d)
    BY <1>2, <2>7, <2>8, WithinOne
  <2>10. Len(d) \in Nat
    BY LenProperties
  <2>11. DataIn(fs, e) = Bytes(d, a, c)
    BY <2>1, <2>7, <2>8, <2>9, DataInFile
  <2>12. DataIn(fs, x) = Bytes(d, a, b)
    <3>1. x.start + x.length = b /\ b <= Len(d)
      BY <2>5, <2>7, <2>9, <2>10
    <3> QED
      BY <2>5, <2>7, <2>8, <3>1, DataInFile
  <2>13. DataIn(fs, y) = Bytes(d, b, c)
    <3>1. y.start + y.length = c /\ y.start = b
      BY <2>2, <2>6, <2>7
    <3> QED
      BY <2>6, <2>8, <2>9, <3>1, DataInFile
  <2>14. Bytes(d, a, b) \o Bytes(d, b, c) = Bytes(d, a, c)
    <3>1. a <= b /\ b <= c /\ c <= Len(d)
      BY <2>7, <2>9
    <3> QED
      BY ONLY <3>1, a \in Nat, b \in Nat, c \in Nat, d \in Seq(Int), BytesJoin
  <2> QED
    BY <1>1, <2>11, <2>12, <2>13, <2>14
<1>3. CASE ~OnFile(e)
  <2>1. e \in MemBucket
    <3>1. e.type # "eos"
      BY <1>3 DEF BucketLen
    <3> QED
      BY <1>0, <1>3, <3>1, BucketFacts DEF OnFile
  <2>2. e.data \in Seq(Int) /\ DataIn(fs, e) = e.data /\ k < Len(e.data) /\ Len(e.data) \in Nat
    BY <2>1, DataInMem
  <2>3. PICK d \in Seq(Int) : d = e.data
    BY <2>2
  <2>4. x = [e EXCEPT !.data = SubSeq(d, 1, k)] /\ y = [e EXCEPT !.data = SubSeq(d, k + 1, Len(d))]
    BY <1>1, <1>3, <2>3 DEF SplitFront, SplitBack
  <2>5. SubSeq(d, 1, k) \in Seq(Int) /\ SubSeq(d, k + 1, Len(d)) \in Seq(Int)
    BY <2>2, <2>3, Parts, k \in 0 .. Len(d)
  <2>6. /\ x \in MemBucket /\ x.data = SubSeq(d, 1, k)
        /\ y \in MemBucket /\ y.data = SubSeq(d, k + 1, Len(d))
    BY <2>1, <2>4, <2>5 DEF MemBucket
  <2>7. d = SubSeq(d, 1, k) \o SubSeq(d, k + 1, Len(d))
    BY <2>2, <2>3, InTwo, k \in 0 .. Len(d)
  <2>8. DataIn(fs, x) = SubSeq(d, 1, k) /\ DataIn(fs, y) = SubSeq(d, k + 1, Len(d))
    BY <2>6, DataInMem
  <2> QED
    BY ONLY <1>1, <2>2, <2>3, <2>7, <2>8
<1> QED
  BY <1>2, <1>3

\* The copy of a bucket holds what the bucket does.
LEMMA CopyData ==
  ASSUME NEW fs \in FileType, NEW e \in BucketsOn(Len(fs))
  PROVE  DataIn(fs, CopyOf(e)) = DataIn(fs, e)
<1>1. CASE e.type # "spool"
  BY <1>1 DEF CopyOf
<1>2. CASE e.type = "spool"
  <2>1. e \in FileBuckets(Len(fs))
    BY <1>2, BucketFacts, LenProperties DEF OnFile, FileType
  <2>2. CopyOf(e) = [e EXCEPT !.type = "file"]
    BY <1>2 DEF CopyOf
  <2>3. PICK d : d = CopyOf(e)
    OBVIOUS
  <2>4. d.type = "file" /\ d.fd = e.fd /\ d.start = e.start /\ d.length = e.length
    BY <2>1, <2>2, <2>3 DEF FileBuckets
  <2>5. OnFile(d) /\ OnFile(e) /\ d.type # "eos" /\ e.type # "eos"
    BY <1>2, <2>4 DEF OnFile
  <2>6. DataIn(fs, d) = DataIn(fs, e)
    BY <2>4, <2>5 DEF DataIn
  <2> QED
    BY <2>3, <2>6
<1> QED
  BY <1>1, <1>2

\* The copy of a brigade holds what the brigade does.
LEMMA CopyContent ==
  ASSUME NEW fs \in FileType, NEW bb \in Seq(BucketsOn(Len(fs)))
  PROVE  ContentIn(fs, CopyAll(bb)) = ContentIn(fs, bb)
<1>1. \A i \in DOMAIN bb : DataIn(fs, CopyOf(bb[i])) = DataIn(fs, bb[i])
  BY CopyData, ElementOfSeq, LenProperties
<1>2. [i \in DOMAIN CopyAll(bb) |-> DataIn(fs, CopyAll(bb)[i])] = [i \in DOMAIN bb |-> DataIn(fs, bb[i])]
  BY <1>1 DEF CopyAll
<1> QED
  BY <1>2 DEF ContentIn

------------------------------------------------------------------------------
(* Buckets in a row on a file, and a bucket read. *)

\* Buckets none of which is more than another one.
LEMMA ShorterAll ==
  ASSUME NEW n \in Nat, NEW e \in BucketsOn(n), NEW a \in Seq(BucketsOn(n)),
         \A i \in 1 .. Len(a) : NoMore(a[i], e)
  PROVE  Shorter(a, <<e>>)
<1>1. Len(a) \in Nat /\ a \in [1 .. Len(a) -> BucketsOn(n)]
  BY LenProperties
<1>2. ASSUME NEW S \in Limits, <<e>> \in Seq(S) PROVE a \in Seq(S)
  <2>1. e \in S
    BY <1>2, OneIn
  <2>2. \A i \in 1 .. Len(a) : a[i] \in S
    BY SMTT(30), <1>1, <2>1, NoMoreLimits
  <2>3. PICK m \in Nat : m = Len(a)
    BY <1>1
  <2>4. a \in [1 .. m -> S]
    BY <1>1, <2>2, <2>3
  <2> QED
    BY ONLY <2>4, m \in Nat, SeqDef
<1> QED
  BY <1>2 DEF Shorter

\* Buckets that are one after the other on a file, cut at the positions c.
Run(fs, s, c, d) ==
    \A i \in 1 .. Len(s) :
        /\ c[i - 1] <= c[i] /\ c[i] <= Len(d)
        /\ DataIn(fs, s[i]) = Bytes(d, c[i - 1], c[i])

\* Buckets in a row on a file hold what the file has from the first to the last.
LEMMA RunContent ==
  ASSUME NEW fs \in FileType, NEW bb \in Seq(BucketsOn(Len(fs))), NEW d \in Seq(Int),
         NEW c, \A i \in Nat : c[i] \in Nat, Run(fs, bb, c, d)
  PROVE  ContentIn(fs, bb) = Bytes(d, c[0], c[Len(bb)]) /\ c[0] <= c[Len(bb)]
<1> DEFINE T == {s \in Seq(BucketsOn(Len(fs))) :
                    Run(fs, s, c, d) =>
                      /\ ContentIn(fs, s) = Bytes(d, c[0], c[Len(s)])
                      /\ c[0] <= c[Len(s)]}
<1>1. << >> \in T
  <2>1. Len(<< >>) = 0 /\ c[0] \in Nat
    OBVIOUS
  <2>2. Bytes(d, c[0], c[0]) = << >>
    BY <2>1, BytesNone
  <2>3. << >> \in Seq(BucketsOn(Len(fs))) /\ c[0] <= c[0]
    BY <2>1
  <2>4. ContentIn(fs, << >>) = Bytes(d, c[0], c[Len(<< >>)]) /\ c[0] <= c[Len(<< >>)]
    BY <2>1, <2>2, <2>3, ContentInEmpty
  <2> QED
    BY <2>3, <2>4
<1>2. ASSUME NEW r \in Seq(BucketsOn(Len(fs))), r \in T, NEW e \in BucketsOn(Len(fs))
      PROVE  r \o <<e>> \in T
  <2>1. PICK s \in Seq(BucketsOn(Len(fs))), m \in Nat :
          /\ s = r \o <<e>> /\ m = Len(r) /\ Len(s) = m + 1
          /\ \A i \in 1 .. m + 1 : s[i] = IF i <= m THEN r[i] ELSE e
    <3>1. /\ r \o <<e>> \in Seq(BucketsOn(Len(fs))) /\ Len(r) \in Nat
          /\ Len(r \o <<e>>) = Len(r) + 1
          /\ \A i \in 1 .. Len(r) + 1 : (r \o <<e>>)[i] = IF i <= Len(r) THEN r[i] ELSE e
      BY SnocFacts
    <3>2. PICK s \in Seq(BucketsOn(Len(fs))), m \in Nat : s = r \o <<e>> /\ m = Len(r)
      BY <3>1
    <3> QED
      BY ONLY <3>1, <3>2
  <2>2. ASSUME Run(fs, s, c, d)
        PROVE  ContentIn(fs, s) = Bytes(d, c[0], c[m + 1]) /\ c[0] <= c[m + 1]
    <3>1. c[0] \in Nat /\ c[m] \in Nat /\ c[m + 1] \in Nat
      BY 0 \in Nat, m + 1 \in Nat
    <3>2. Run(fs, r, c, d)
      <4>1. ASSUME NEW i \in 1 .. m
            PROVE  /\ c[i - 1] <= c[i] /\ c[i] <= Len(d)
                   /\ DataIn(fs, r[i]) = Bytes(d, c[i - 1], c[i])
        <5>1. i \in 1 .. Len(s) /\ s[i] = r[i]
          BY <2>1
        <5> QED
          BY <2>2, <5>1 DEF Run
      <4> QED
        BY <2>1, <4>1 DEF Run
    <3>3. ContentIn(fs, r) = Bytes(d, c[0], c[m]) /\ c[0] <= c[m]
      BY <1>2, <2>1, <3>2
    <3>4. c[m] <= c[m + 1] /\ c[m + 1] <= Len(d) /\ DataIn(fs, e) = Bytes(d, c[m], c[m + 1])
      <4>1. m + 1 \in 1 .. Len(s) /\ (m + 1) - 1 = m /\ s[m + 1] = e
        BY <2>1
      <4> QED
        BY <2>2, <4>1 DEF Run
    <3>5. PICK p \in Nat, q \in Nat, k \in Nat : p = c[0] /\ q = c[m] /\ k = c[m + 1]
      BY <3>1
    <3>6. p <= q /\ q <= k /\ k <= Len(d)
      BY <3>3, <3>4, <3>5
    <3>7. Bytes(d, p, q) \o Bytes(d, q, k) = Bytes(d, p, k)
      BY ONLY <3>6, p \in Nat, q \in Nat, k \in Nat, d \in Seq(Int), BytesJoin
    <3>8. ContentIn(fs, s) = ContentIn(fs, r) \o DataIn(fs, e)
      <4>1. PICK o \in Seq(BucketsOn(Len(fs))) : o = <<e>>
        BY OneIn
      <4>2. ContentIn(fs, r \o o) = ContentIn(fs, r) \o ContentIn(fs, o)
        BY ContentInFacts
      <4> QED
        BY <2>1, <4>1, <4>2, ContentInOne
    <3>9. p <= k
      BY <3>6
    <3> QED
      BY <3>3, <3>4, <3>5, <3>7, <3>8, <3>9
  <2> QED
    BY <2>1, <2>2
<1> HIDE DEF T
<1>3. Seq(BucketsOn(Len(fs))) \subseteq T
  BY <1>1, <1>2, SnocInduction
<1>4. bb \in T
  BY <1>3
<1> QED
  BY <1>4 DEF T

\* A bucket that was read, and the rest behind it, hold what it held.
LEMMA ReadContent ==
  ASSUME file \in FileType, NEW e \in FileBuckets(Len(file)), e.length > 0, Within(file, <<e>>)
  PROVE  /\ ContentIn(file, ReadInto(e)) = DataIn(file, e)
         /\ Shorter(ReadInto(e), <<e>>)
         /\ ReadInto(e) \in Seq(NotEos) /\ ReadInto(e) \in Seq(BucketsOn(Len(file)))
<1> DEFINE n == Len(file)
           k == Least(e.length, ReadSize)
<1>0. Len(file) \in Nat /\ e \in BucketsOn(Len(file)) /\ OnFile(e)
  BY FilesNat, FileBucketFacts DEF BucketsOn
<1>1. e.fd \in 1 .. n /\ e.start \in Nat /\ e.length \in Nat /\ e.type \in {"file", "spool"}
  BY <1>0, FileBucketFacts
<1>2. PICK j \in Nat : j = k /\ j <= e.length
  <2>1. PICK x \in Nat, y \in Nat : x = e.length /\ y = ReadSize
    BY <1>1, SizeAssumption
  <2>2. Least(x, y) \in Nat /\ Least(x, y) <= x
    BY DEF Least
  <2> QED
    BY <2>1, <2>2
<1>3. PICK d \in Seq(Int) : d = file[e.fd].data /\ e.start + e.length <= Len(d)
  <2>1. e.start + e.length <= Len(file[e.fd].data)
    BY <1>0, WithinOne
  <2> QED
    BY <1>1, <2>1, FileDataType
<1>4. PICK a \in Nat, b \in Nat, c \in Nat :
        /\ a = e.start /\ b = e.start + j /\ c = e.start + e.length
        /\ a <= b /\ b <= c /\ c <= Len(d) /\ b + (e.length - j) = c /\ a + j = b /\ j <= c - a
  <2>1. PICK x \in Nat, y \in Nat : x = e.start /\ y = e.length
    BY <1>1
  <2>2. j <= y /\ x + y <= Len(d)
    BY <1>2, <1>3, <2>1
  <2>3. /\ x \in Nat /\ x + j \in Nat /\ x + y \in Nat /\ x <= x + j /\ x + j <= x + y
        /\ x + j + (y - j) = x + y /\ j <= (x + y) - x
    BY ONLY <2>2, x \in Nat, y \in Nat, j \in Nat
  <2> QED
    BY ONLY <2>1, <2>2, <2>3
<1>5. PICK t \in Seq(Int) : t = Data(e) /\ t = Bytes(d, a, c) /\ Len(t) = e.length
  <2>1. DataIn(file, e) = Bytes(d, a, c) /\ DataIn(file, e) \in Seq(Int) /\ Len(DataIn(file, e)) = e.length
    BY <1>3, <1>4, DataInFile
  <2> QED
    BY <2>1, ContentNow
<1>6. ReadInto(e) \in Seq(BucketsOn(n)) /\ Shorter(ReadInto(e), <<e>>) /\ ReadInto(e) \in Seq(NotEos)
  BY ReadIntoType, ReadNoMore DEF Bucket
<1>7. PICK h : h = Heap(SubSeq(Data(e), 1, Least(k, Len(Data(e)))))
  OBVIOUS
<1>8. h \in MemBucket /\ h \in BucketsOn(n) /\ h.data = Bytes(d, a, b)
  <2>1. Least(k, Len(Data(e))) = j
    BY <1>1, <1>2, <1>5 DEF Least
  <2>2. h = Heap(Bytes(t, 0, j))
    <3>1. h = Heap(SubSeq(t, 1, j))
      BY <1>5, <1>7, <2>1
    <3>2. SubSeq(t, 1, j) = Bytes(t, 0, j)
      BY DEF Bytes
    <3> QED
      BY <3>1, <3>2
  <2>3. Bytes(t, 0, j) = Bytes(d, a, b)
    <3>1. a <= c /\ c <= Len(d) /\ 0 \in Nat /\ 0 <= j /\ j <= c - a /\ a + 0 = a /\ a + j = b
      BY <1>4, LenProperties
    <3>2. Bytes(Bytes(d, a, c), 0, j) = Bytes(d, a + 0, a + j)
      BY ONLY <3>1, a \in Nat, c \in Nat, j \in Nat, d \in Seq(Int), BytesOfBytes
    <3> QED
      BY <1>5, <3>1, <3>2
  <2>4. PICK u \in Seq(Int) : u = Bytes(d, a, b)
    <3>1. a <= b /\ b <= Len(d)
      BY <1>4, LenProperties
    <3> QED
      BY ONLY <3>1, a \in Nat, b \in Nat, d \in Seq(Int), BytesType
  <2>5. h = Heap(u)
    BY <2>2, <2>3, <2>4
  <2> QED
    BY <2>4, <2>5 DEF Heap, MemBucket, BucketsOn
<1>9. ContentIn(file, <<h>>) = Bytes(d, a, b)
  BY <1>8, ContentInOne, DataInMem
<1>10. CASE ~(k < e.length)
  <2>1. b = c
    BY <1>1, <1>2, <1>4, <1>10
  <2>2. PICK o \in Seq(BucketsOn(n)) : o = <<h>> /\ o \o << >> = o
    BY <1>8, OneIn, ConcatEmptySeq
  <2>3. ReadInto(e) = o \o << >>
    BY <1>7, <1>10, <2>2 DEF ReadInto
  <2>4. ContentIn(file, ReadInto(e)) = Bytes(d, a, c)
    BY <1>9, <2>1, <2>2, <2>3
  <2> QED
    BY <1>5, <1>6, <2>4, ContentNow
<1>11. CASE k < e.length
  <2>1. PICK g : g = FileBucket(e.fd, e.start + k, e.length - k)
    OBVIOUS
  <2>2. g \in FileBuckets(n) /\ g \in BucketsOn(n) /\ g.fd = e.fd /\ g.start = b /\ g.start + g.length = c
    <3>1. PICK l \in Nat : l = e.length - j
      BY <1>1, <1>2
    <3>2. g = FileBucket(e.fd, b, l)
      BY <1>2, <1>4, <2>1, <3>1
    <3>3. b + l = c
      BY <1>4, <3>1
    <3> QED
      BY <1>1, <3>2, <3>3 DEF FileBucket, FileBuckets, BucketsOn
  <2>3. ContentIn(file, <<g>>) = Bytes(d, b, c)
    BY <1>3, <1>4, <2>2, ContentInOne, DataInFile
  <2>4. PICK o \in Seq(BucketsOn(n)), q \in Seq(BucketsOn(n)) : o = <<h>> /\ q = <<g>>
    BY <1>8, <2>2, OneIn
  <2>5. ReadInto(e) = o \o q
    BY <1>7, <1>11, <2>1, <2>4 DEF ReadInto
  <2>6. ContentIn(file, o \o q) = ContentIn(file, o) \o ContentIn(file, q)
    BY ContentInFacts
  <2>7. Bytes(d, a, b) \o Bytes(d, b, c) = Bytes(d, a, c)
    <3>1. a <= b /\ b <= c /\ c <= Len(d)
      BY <1>4
    <3> QED
      BY ONLY <3>1, a \in Nat, b \in Nat, c \in Nat, d \in Seq(Int), BytesJoin
  <2>8. ContentIn(file, ReadInto(e)) = Bytes(d, a, c)
    BY <1>9, <2>3, <2>4, <2>5, <2>6, <2>7
  <2> QED
    BY <1>5, <1>6, <2>8, ContentNow
<1> QED
  BY <1>10, <1>11

\* How many pieces a file bucket is read in, and the k-th of them.
NumPieces(e) == (e.length + ReadSize - 1) \div ReadSize
PieceNo(e, k) ==
    FileBucket(e.fd, e.start + (k - 1) * ReadSize, Least(ReadSize, e.length - (k - 1) * ReadSize))
\* Where the pieces of e end.
PieceCut(e) == [i \in Nat |-> e.start + Least(i * ReadSize, e.length)]

\* A piece of a file bucket goes from one cut to the next.
LEMMA PieceFacts ==
  ASSUME NEW n \in Nat, NEW e \in FileBuckets(n), e.length # 0, NEW k \in 1 .. NumPieces(e)
  PROVE  \E x \in Nat, z \in Nat :
            /\ PieceNo(e, k) = FileBucket(e.fd, e.start + x, z) /\ PieceNo(e, k) \in FileBuckets(n)
            /\ PieceCut(e)[k - 1] = e.start + x
            /\ PieceCut(e)[k] = e.start + (x + z)
            /\ x + z <= e.length
<1>1. /\ (k - 1) * ReadSize \in Nat /\ (k - 1) * ReadSize < e.length
      /\ PieceNo(e, k) \in FileBuckets(n)
  BY PieceType DEF PieceNo, NumPieces
<1>2. e.length \in Nat /\ e.start \in Nat /\ ReadSize \in Nat \ {0} /\ k - 1 \in Nat /\ k \in Nat
  <2>1. NumPieces(e) \in Int
    BY SizeAssumption, FileBucketFacts DEF NumPieces
  <2> QED
    BY <2>1, SizeAssumption, FileBucketFacts
<1>3. PICK x \in Nat, l \in Nat, r \in Nat \ {0} : x = (k - 1) * ReadSize /\ l = e.length /\ r = ReadSize
  BY <1>1, <1>2
<1>4. k * ReadSize = x + r
  BY <1>2, <1>3
<1>5. x < l
  BY <1>1, <1>3
<1>6. PICK z \in Nat : z = Least(r, l - x) /\ x + z <= l /\ Least(x, l) = x /\ Least(x + r, l) = x + z
  <2>1. /\ Least(r, l - x) \in Nat /\ x + Least(r, l - x) <= l /\ Least(x, l) = x
        /\ Least(x + r, l) = x + Least(r, l - x)
    BY <1>5 DEF Least
  <2> QED
    BY <2>1
<1>7. PieceNo(e, k) = FileBucket(e.fd, e.start + x, z)
  BY <1>3, <1>6 DEF PieceNo
<1>8. PieceCut(e)[k - 1] = e.start + x
  BY <1>2, <1>3, <1>6 DEF PieceCut
<1>9. PieceCut(e)[k] = e.start + (x + z)
  BY <1>2, <1>3, <1>4, <1>6 DEF PieceCut
<1> QED
  BY <1>1, <1>3, <1>6, <1>7, <1>8, <1>9

\* The first cut is where the bucket begins, the last one where it ends.
LEMMA PieceEnds ==
  ASSUME NEW n \in Nat, NEW e \in FileBuckets(n), e.length # 0
  PROVE  /\ NumPieces(e) \in Nat
         /\ \A i \in Nat : PieceCut(e)[i] \in Nat
         /\ PieceCut(e)[0] = e.start
         /\ PieceCut(e)[NumPieces(e)] = e.start + e.length
<1>1. PICK l \in Nat, s \in Nat, r \in Nat \ {0} : l = e.length /\ s = e.start /\ r = ReadSize
  BY SizeAssumption, FileBucketFacts
<1>2. PICK q \in Nat : q = NumPieces(e) /\ l <= q * r
  <2>1. l + r - 1 \in Nat
    OBVIOUS
  <2>2. PICK q \in Nat : q = (l + r - 1) \div r /\ l + r - 1 < q * r + r
    BY <2>1, Division
  <2>3. PICK y \in Nat : y = q * r
    OBVIOUS
  <2>4. l <= y
    BY <2>2, <2>3
  <2> QED
    BY <1>1, <2>2, <2>3, <2>4 DEF NumPieces
<1>3. ASSUME NEW i \in Nat PROVE PieceCut(e)[i] = s + Least(i * r, l) /\ i * r \in Nat
  BY <1>1 DEF PieceCut
<1>4. ASSUME NEW i \in Nat PROVE PieceCut(e)[i] \in Nat
  <2>1. PICK y \in Nat : y = i * r
    BY <1>3
  <2>2. Least(y, l) \in Nat
    BY DEF Least
  <2> QED
    BY <1>3, <2>1, <2>2
<1>5. Least(0, l) = 0 /\ 0 * r = 0
  BY DEF Least
<1>6. Least(q * r, l) = l
  <2>1. PICK y \in Nat : y = q * r
    BY <1>3
  <2> QED
    BY <1>2, <2>1 DEF Least
<1>7. PieceCut(e)[0] = s
  BY <1>3, <1>5
<1>8. PieceCut(e)[q] = s + l
  BY <1>3, <1>6
<1> QED
  BY <1>1, <1>2, <1>4, <1>7, <1>8

\* The pieces of a bucket hold what it held.
LEMMA PiecesOfFacts ==
  ASSUME NEW fs \in FileType, NEW e \in BucketsOn(Len(fs))
  PROVE  /\ PiecesOf(e) \in Seq(BucketsOn(Len(fs))) /\ Shorter(PiecesOf(e), <<e>>)
         /\ Within(fs, <<e>>) => ContentIn(fs, PiecesOf(e)) = DataIn(fs, e)
<1>0. Len(fs) \in Nat /\ PiecesOf(e) \in Seq(BucketsOn(Len(fs)))
  BY PiecesOfType, LenProperties DEF FileType
<1>1. CASE ~OnFile(e) \/ e.length = 0
  <2>1. PiecesOf(e) = <<e>>
    BY <1>1 DEF PiecesOf
  <2> QED
    BY <1>0, <2>1, ContentInOne, ShorterRefl
<1>2. CASE OnFile(e) /\ e.length # 0
  <2>1. e \in FileBuckets(Len(fs))
    BY <1>0, <1>2, BucketFacts
  <2>2. PICK p \in Seq(BucketsOn(Len(fs))), q \in Nat :
          /\ p = PiecesOf(e) /\ q = NumPieces(e) /\ Len(p) = q
          /\ \A k \in 1 .. q : p[k] = PieceNo(e, k)
    <3>1. PiecesOf(e) = [k \in 1 .. NumPieces(e) |-> PieceNo(e, k)]
      BY <1>2 DEF PiecesOf, NumPieces, PieceNo
    <3>2. PICK p \in Seq(BucketsOn(Len(fs))), q \in Nat : p = PiecesOf(e) /\ q = NumPieces(e)
      BY <1>0, <1>2, <2>1, PieceEnds
    <3>3. p = [k \in 1 .. q |-> PieceNo(e, k)]
      BY <3>1, <3>2
    <3>4. Len(p) = q
      BY <3>3, LenProperties
    <3> QED
      BY <3>2, <3>3, <3>4
  <2>3. e.start \in Nat /\ e.length \in Nat /\ e.fd \in 1 .. Len(fs) /\ e.type \in {"file", "spool"}
    BY <1>0, <2>1, FileBucketFacts
  <2>4. ASSUME NEW k \in 1 .. Len(p) PROVE NoMore(p[k], e)
    <3>9. Len(fs) \in Nat /\ e \in FileBuckets(Len(fs)) /\ e.length # 0 /\ k \in 1 .. NumPieces(e)
      BY <1>0, <1>2, <2>1, <2>2
    <3>10. PICK x \in Nat, z \in Nat : PieceNo(e, k) = FileBucket(e.fd, e.start + x, z) /\ x + z <= e.length
      BY ONLY <3>9, PieceFacts
    <3>1. p[k] = FileBucket(e.fd, e.start + x, z) /\ x + z <= e.length
      BY <2>2, <3>10
    <3>2. PICK s \in Nat, l \in Nat : s = e.start /\ l = e.length
      BY <2>3
    <3>3. s + x + z <= s + l
      BY <3>1, <3>2
    <3>4. p[k].type = "file" /\ p[k].fd = e.fd /\ p[k].start = s + x /\ p[k].length = z
      BY <3>1, <3>2 DEF FileBucket
    <3> QED
      BY <1>2, <3>2, <3>3, <3>4 DEF NoMore
  <2>5. Shorter(p, <<e>>)
    BY <1>0, <2>4, ShorterAll
  <2>6. ASSUME Within(fs, <<e>>) PROVE ContentIn(fs, p) = DataIn(fs, e)
    <3>1. PICK d \in Seq(Int) : d = fs[e.fd].data /\ e.start + e.length <= Len(d) /\ Len(d) \in Nat
      BY <1>2, <2>3, <2>6, WithinOne, FileDataType
    <3>2. PICK c : c = PieceCut(e)
      OBVIOUS
    <3>3. (\A i \in Nat : c[i] \in Nat) /\ c[0] = e.start /\ c[q] = e.start + e.length
      BY <1>0, <1>2, <2>1, <2>2, <3>2, PieceEnds
    <3>4. ASSUME NEW k \in 1 .. Len(p)
          PROVE  /\ c[k - 1] <= c[k] /\ c[k] <= Len(d)
                 /\ DataIn(fs, p[k]) = Bytes(d, c[k - 1], c[k])
      <4>1. PICK x \in Nat, z \in Nat :
              /\ p[k] = FileBucket(e.fd, e.start + x, z) /\ p[k] \in FileBuckets(Len(fs))
              /\ c[k - 1] = e.start + x /\ c[k] = e.start + (x + z) /\ x + z <= e.length
        <5>1. k \in 1 .. NumPieces(e) /\ p[k] = PieceNo(e, k) /\ e.length # 0
          BY <1>2, <2>2
        <5>2. \E x \in Nat, z \in Nat :
                 /\ PieceNo(e, k) = FileBucket(e.fd, e.start + x, z)
                 /\ PieceNo(e, k) \in FileBuckets(Len(fs))
                 /\ PieceCut(e)[k - 1] = e.start + x
                 /\ PieceCut(e)[k] = e.start + (x + z)
                 /\ x + z <= e.length
          BY <1>0, <2>1, <5>1, PieceFacts
        <5> QED
          BY ONLY <3>2, <5>1, <5>2
      <4>2. PICK s \in Nat, l \in Nat, m \in Nat : s = e.start /\ l = e.length /\ m = Len(d)
        BY <2>3, <3>1
      <4>3. s + l <= m /\ x + z <= l
        BY <3>1, <4>1, <4>2
      <4>4. s + x <= s + (x + z) /\ s + (x + z) <= m /\ s + x + z = s + (x + z)
        BY ONLY <4>3, s \in Nat, x \in Nat, z \in Nat, l \in Nat, m \in Nat
      <4>5. p[k].fd = e.fd /\ p[k].start = s + x /\ p[k].length = z
        BY <4>1, <4>2 DEF FileBucket
      <4>6. DataIn(fs, p[k]) = Bytes(d, s + x, s + x + z)
        BY <3>1, <4>1, <4>2, <4>4, <4>5, DataInFile
      <4> QED
        BY <4>1, <4>2, <4>4, <4>6
    <3>5. Run(fs, p, c, d)
      BY <3>4 DEF Run
    <3>6. ContentIn(fs, p) = Bytes(d, c[0], c[Len(p)])
      BY <3>3, <3>5, RunContent
    <3>7. DataIn(fs, e) = Bytes(d, e.start, e.start + e.length)
      BY <2>1, <3>1, DataInFile
    <3> QED
      BY <2>2, <3>3, <3>6, <3>7
  <2> QED
    BY <1>0, <2>2, <2>5, <2>6
<1> QED
  BY <1>1, <1>2

\* A brigade is cut into pieces bucket by bucket.
LEMMA PiecesSnoc ==
  ASSUME NEW n \in Nat, NEW r \in Seq(BucketsOn(n)), NEW e \in BucketsOn(n)
  PROVE  Pieces(r \o <<e>>) = Pieces(r) \o PiecesOf(e)
<1>1. PICK B, g : B = BucketsOn(n) /\ g = [x \in B |-> PiecesOf(x)]
  OBVIOUS
<1>2. IsMap(g, B, Seq(B)) /\ \A x \in B : g[x] = PiecesOf(x)
  BY <1>1, PiecesOfType DEF IsMap
<1>3. ASSUME NEW bb \in Seq(B) PROVE Pieces(bb) = FlattenSeq(Map(g, bb))
  <2>1. \A i \in DOMAIN bb : bb[i] \in B
    BY ElementOfSeq, LenProperties
  <2>2. [i \in DOMAIN bb |-> PiecesOf(bb[i])] = Map(g, bb)
    BY <1>2, <2>1 DEF Map
  <2> QED
    BY <2>2 DEF Pieces, PiecesOf
<1>4. PICK o \in Seq(B) : o = <<e>>
  BY <1>1, OneIn
<1>5. PICK c \in Seq(B) : c = r \o o
  BY <1>1, ConcatProperties
<1>6. PICK x \in Seq(Seq(B)), y \in Seq(Seq(B)) : x = Map(g, r) /\ y = Map(g, o)
  BY <1>1, <1>2, MapType
<1>7. Map(g, c) = x \o y
  <2>1. Map(g, r \o o) = Map(g, r) \o Map(g, o)
    <3>1. r \in Seq(B) /\ o \in Seq(B) /\ IsMap(g, B, Seq(B))
      BY <1>1, <1>2
    <3> QED
      BY ONLY <3>1, MapConcat
  <2> QED
    BY ONLY <1>5, <1>6, <2>1
<1>8. FlattenSeq(x \o y) = FlattenSeq(x) \o FlattenSeq(y)
  BY FlattenConcat
<1>9. FlattenSeq(y) = PiecesOf(e)
  <2>1. Map(g, o) = <<PiecesOf(e)>>
    BY <1>1, <1>2, <1>4, MapOne
  <2>2. PICK p \in Seq(B) : p = PiecesOf(e)
    BY <1>1, PiecesOfType
  <2> QED
    BY <1>6, <2>1, <2>2, FlattenOne
<1>10. Pieces(r) = FlattenSeq(x) /\ Pieces(c) = FlattenSeq(Map(g, c))
  BY <1>1, <1>3, <1>6
<1> QED
  BY <1>4, <1>5, <1>7, <1>8, <1>9, <1>10

\* Cutting a brigade into pieces keeps its limits and what it holds.
LEMMA PiecesFacts ==
  ASSUME NEW fs \in FileType, NEW bb \in Seq(BucketsOn(Len(fs)))
  PROVE  /\ Pieces(bb) \in Seq(BucketsOn(Len(fs))) /\ Shorter(Pieces(bb), bb)
         /\ Within(fs, bb) => ContentIn(fs, Pieces(bb)) = ContentIn(fs, bb)
<1>0. Len(fs) \in Nat
  BY LenProperties DEF FileType
<1> DEFINE T == {s \in Seq(BucketsOn(Len(fs))) :
                    /\ Shorter(Pieces(s), s)
                    /\ Within(fs, s) => ContentIn(fs, Pieces(s)) = ContentIn(fs, s)}
<1>1. << >> \in T
  <2>1. Pieces(<< >>) = << >>
    <3>1. [i \in DOMAIN << >> |-> PiecesOf(<< >>[i])] = << >>
      OBVIOUS
    <3> QED
      BY <3>1, FlattenEmpty DEF Pieces, PiecesOf
  <2>2. Shorter(<< >>, << >>)
    BY ShorterRefl
  <2>3. << >> \in Seq(BucketsOn(Len(fs)))
    OBVIOUS
  <2> QED
    BY <2>1, <2>2, <2>3
<1>2. ASSUME NEW r \in Seq(BucketsOn(Len(fs))), r \in T, NEW e \in BucketsOn(Len(fs))
      PROVE  r \o <<e>> \in T
  <2>1. PICK o \in Seq(BucketsOn(Len(fs))) : o = <<e>>
    BY OneIn
  <2>2. r \o o \in Seq(BucketsOn(Len(fs)))
    BY ConcatProperties
  <2>3. PICK x \in Seq(BucketsOn(Len(fs))), y \in Seq(BucketsOn(Len(fs))) :
          x = Pieces(r) /\ y = PiecesOf(e) /\ Pieces(r \o o) = x \o y
    <3>1. Pieces(r) \in Seq(BucketsOn(Len(fs))) /\ PiecesOf(e) \in Seq(BucketsOn(Len(fs)))
      BY <1>0, PiecesType, PiecesOfType
    <3>2. Pieces(r \o o) = Pieces(r) \o PiecesOf(e)
      BY <1>0, <2>1, PiecesSnoc
    <3> QED
      BY <3>1, <3>2
  <2>4. Shorter(x, r) /\ Shorter(y, o)
    BY <1>2, <2>1, <2>3, PiecesOfFacts
  <2>5. Shorter(x \o y, r \o o)
    BY <1>0, <2>4, ShorterConcat
  <2>6. ASSUME Within(fs, r \o o) PROVE ContentIn(fs, x \o y) = ContentIn(fs, r \o o)
    <3>1. Within(fs, r) /\ Within(fs, o)
      BY <2>6, WithinConcat
    <3>2. ContentIn(fs, x) = ContentIn(fs, r)
      BY <1>2, <2>3, <3>1
    <3>3. ContentIn(fs, y) = ContentIn(fs, o)
      BY <2>1, <2>3, <3>1, PiecesOfFacts, ContentInOne
    <3>4. ContentIn(fs, x \o y) = ContentIn(fs, x) \o ContentIn(fs, y)
      BY ContentInFacts
    <3>5. ContentIn(fs, r \o o) = ContentIn(fs, r) \o ContentIn(fs, o)
      BY ContentInFacts
    <3> QED
      BY <3>2, <3>3, <3>4, <3>5
  <2> QED
    BY <2>1, <2>2, <2>3, <2>5, <2>6
<1> HIDE DEF T
<1>3. Seq(BucketsOn(Len(fs))) \subseteq T
  BY <1>1, <1>2, SnocInduction
<1>4. bb \in T /\ Pieces(bb) \in Seq(BucketsOn(Len(fs)))
  BY <1>0, <1>3, PiecesType
<1> QED
  BY <1>4 DEF T

------------------------------------------------------------------------------
(* The front of a brigade, and a bucket of it that is read. *)

\* Putting sequences of bytes together is associative.
LEMMA JoinBytes ==
  ASSUME NEW a \in Seq(Int), NEW b \in Seq(Int), NEW c \in Seq(Int)
  PROVE  (a \o b) \o c = a \o (b \o c)
BY JoinThree

\* Four sequences, put together in two ways.
FourParts(a, b, c, d) == a \o ((b \o c) \o d) = (a \o b) \o (c \o d)

\* So it is for four of them.
LEMMA JoinFour ==
  ASSUME NEW a \in Seq(Int), NEW b \in Seq(Int), NEW c \in Seq(Int), NEW d \in Seq(Int)
  PROVE  FourParts(a, b, c, d)
<1>1. PICK x \in Seq(Int) : x = c \o d
  <2>1. c \o d \in Seq(Int)
    BY ConcatProperties
  <2> QED
    BY <2>1
<1>2. (b \o c) \o d = b \o (c \o d)
  BY ZenonT(40), JoinBytes
<1>3. (a \o b) \o x = a \o (b \o x)
  BY ZenonT(40), JoinBytes
<1> QED
  BY ONLY <1>1, <1>2, <1>3 DEF FourParts

\* The first bytes and the rest hold together what the brigade held.
LEMMA FrontContent ==
  ASSUME NEW fs \in FileType, NEW bb \in Seq(BucketsOn(Len(fs))), NEW k \in Nat
  PROVE  \E x \in Seq(BucketsOn(Len(fs))), y \in Seq(BucketsOn(Len(fs))) :
            /\ Front_(bb, k) = <<x, y>>
            /\ Shorter(x, bb) /\ Shorter(y, bb)
            /\ EosLast(bb) => EosLast(y)
            /\ Within(fs, bb) => ContentIn(fs, bb) = ContentIn(fs, x) \o ContentIn(fs, y)
<1>0. Len(fs) \in Nat
  BY LenProperties DEF FileType
<1>1. PICK B : B = BucketsOn(Len(fs))
  OBVIOUS
<1>2. CASE \E p \in Seq(B), q \in Seq(B) : bb = p \o q /\ Front_(bb, k) = <<p, q>>
  <2>1. PICK p \in Seq(B), q \in Seq(B) : bb = p \o q /\ Front_(bb, k) = <<p, q>>
    BY <1>2
  <2>2. Shorter(p \o q, bb)
    BY <2>1, ShorterRefl
  <2>3. Shorter(p, bb) /\ Shorter(q, bb)
    BY <1>0, <1>1, <2>2, ShorterParts
  <2>4. EosLast(bb) => EosLast(q)
    BY <1>0, <1>1, <2>1, EosLastTail
  <2>5. ContentIn(fs, p \o q) = ContentIn(fs, p) \o ContentIn(fs, q)
    BY <1>1, ContentInFacts
  <2> QED
    BY <1>1, <2>1, <2>3, <2>4, <2>5
<1>3. CASE \E p \in Seq(B), q \in Seq(B), e \in B, over \in Nat :
              /\ bb = p \o (<<e>> \o q) /\ 0 < over /\ over < BucketLen(e)
              /\ Front_(bb, k) = <<p \o <<SplitFront(e, over)>>, <<SplitBack(e, over)>> \o q>>
  <2>1. PICK p \in Seq(B), q \in Seq(B), e \in B, over \in Nat :
              /\ bb = p \o (<<e>> \o q) /\ 0 < over /\ over < BucketLen(e)
              /\ Front_(bb, k) = <<p \o <<SplitFront(e, over)>>, <<SplitBack(e, over)>> \o q>>
    BY <1>3
  <2>2. PICK f \in B, g \in B : f = SplitFront(e, over) /\ g = SplitBack(e, over)
    BY <1>0, <1>1, <2>1, SplitType
  <2>3. PICK o \in Seq(B), s \in Seq(B), t \in Seq(B) : o = <<e>> /\ s = <<f>> /\ t = <<g>>
    BY OneIn
  <2>4. bb = p \o (o \o q) /\ Front_(bb, k) = <<p \o s, t \o q>>
    BY <2>1, <2>2, <2>3
  <2>5. o \o q \in Seq(B) /\ p \o s \in Seq(B) /\ t \o q \in Seq(B)
    BY ConcatProperties
  <2>6. Shorter(s, o) /\ Shorter(t, o) /\ t \in Seq(NotEos)
    <3>1. NoMore(f, e) /\ NoMore(g, e) /\ g \in NotEos
      BY <1>0, <1>1, <2>1, <2>2, SplitNoMore
    <3> QED
      BY <1>0, <1>1, <2>3, <3>1, ShorterSingle, OneIn
  <2>7. Shorter(p, bb) /\ Shorter(o, bb) /\ Shorter(q, bb)
    <3>1. Shorter(p \o (o \o q), bb)
      BY <2>4, ShorterRefl
    <3>2. Shorter(p, bb) /\ Shorter(o \o q, bb)
      BY <1>0, <1>1, <2>5, <3>1, ShorterParts
    <3> QED
      BY <1>0, <1>1, <3>2, ShorterParts
  <2>8. Shorter(p \o s, bb) /\ Shorter(t \o q, bb)
    <3>1. Shorter(s, bb) /\ Shorter(t, bb)
      BY <2>6, <2>7, ShorterTrans
    <3> QED
      BY <1>0, <1>1, <2>7, <3>1, ShorterBoth
  <2>9. ASSUME EosLast(bb) PROVE EosLast(t \o q)
    <3>1. EosLast(o \o q)
      BY <1>0, <1>1, <2>4, <2>5, <2>9, EosLastTail
    <3>2. PICK z \in Seq(B) : z = << >> /\ z \o (o \o q) = o \o q /\ z \o (t \o q) = t \o q
      <4>1. PICK u \in Seq(B), v \in Seq(B) : u = o \o q /\ v = t \o q
        BY <2>5
      <4>2. << >> \o u = u /\ << >> \o v = v /\ << >> \in Seq(B)
        BY ConcatEmptySeq
      <4> QED
        BY <4>1, <4>2
    <3>3. EosLast(z \o (o \o q)) /\ o # << >>
      BY <2>3, <3>1, <3>2
    <3>4. EosLast(z \o (t \o q))
      BY <1>0, <1>1, <2>6, <3>3, EosLastInside
    <3> QED
      BY <3>2, <3>4
  <2>10. ASSUME Within(fs, bb) PROVE ContentIn(fs, o) = ContentIn(fs, s) \o ContentIn(fs, t)
    <3>1. Within(fs, o)
      <4>1. Within(fs, p \o (o \o q))
        BY <2>4, <2>10
      <4>2. Within(fs, o \o q)
        BY <1>1, <2>5, <4>1, WithinConcat
      <4> QED
        BY <1>1, <4>2, WithinConcat
    <3>2. DataIn(fs, SplitFront(e, over)) \o DataIn(fs, SplitBack(e, over)) = DataIn(fs, e)
      BY <1>1, <2>1, <2>3, <3>1, SplitContent
    <3> QED
      BY <1>1, <2>2, <2>3, <3>2, ContentInOne
  <2>11. PICK cp \in Seq(Int), cs \in Seq(Int), ct \in Seq(Int), cq \in Seq(Int), co \in Seq(Int) :
            /\ cp = ContentIn(fs, p) /\ cs = ContentIn(fs, s) /\ ct = ContentIn(fs, t)
            /\ cq = ContentIn(fs, q) /\ co = ContentIn(fs, o)
    BY <1>1, ContentInFacts
  <2>12. /\ ContentIn(fs, p \o s) = cp \o cs /\ ContentIn(fs, t \o q) = ct \o cq
         /\ ContentIn(fs, o \o q) = co \o cq
         /\ ContentIn(fs, p \o (o \o q)) = cp \o ContentIn(fs, o \o q)
    BY <1>1, <2>5, <2>11, ContentInFacts
  <2>13. Within(fs, bb) => co = cs \o ct
    BY <2>10, <2>11
  <2>14. cp \o ((cs \o ct) \o cq) = (cp \o cs) \o (ct \o cq)
    <3>1. FourParts(cp, cs, ct, cq)
      BY JoinFour
    <3> QED
      BY ONLY <3>1 DEF FourParts
  <2>15. Within(fs, bb) => ContentIn(fs, bb) = ContentIn(fs, p \o s) \o ContentIn(fs, t \o q)
    BY ONLY <2>4, <2>12, <2>13, <2>14
  <2> QED
    BY <1>1, <2>4, <2>5, <2>8, <2>9, <2>15
<1>4. \/ \E p \in Seq(B), q \in Seq(B) : bb = p \o q /\ Front_(bb, k) = <<p, q>>
      \/ \E p \in Seq(B), q \in Seq(B), e \in B, over \in Nat :
              /\ bb = p \o (<<e>> \o q) /\ 0 < over /\ over < BucketLen(e)
              /\ Front_(bb, k) = <<p \o <<SplitFront(e, over)>>, <<SplitBack(e, over)>> \o q>>
  <2>1. PICK n \in Nat : n = Len(fs)
    BY <1>0
  <2>2. B = BucketsOn(n) /\ bb \in Seq(BucketsOn(n))
    BY <1>1, <2>1
  <2>3. \/ \E p \in Seq(BucketsOn(n)), q \in Seq(BucketsOn(n)) :
              bb = p \o q /\ Front_(bb, k) = <<p, q>>
        \/ \E p \in Seq(BucketsOn(n)), q \in Seq(BucketsOn(n)), e \in BucketsOn(n), over \in Nat :
              /\ bb = p \o (<<e>> \o q) /\ 0 < over /\ over < BucketLen(e)
              /\ Front_(bb, k) = <<p \o <<SplitFront(e, over)>>, <<SplitBack(e, over)>> \o q>>
    BY <2>2, FrontParts
  <2> QED
    BY ONLY <2>2, <2>3
<1> QED
  BY <1>2, <1>3, <1>4

\* Reading a bucket changes nothing that a brigade holds.
LEMMA AfterReadContent ==
  ASSUME file \in FileType, NEW bb \in Seq(Bucket), NEW i \in DOMAIN bb, OnFile(bb[i]),
         bb[i].length > 0
  PROVE  /\ AfterRead(bb, i) \in Seq(Bucket)
         /\ Shorter(AfterRead(bb, i), bb)
         /\ EosLast(bb) => EosLast(AfterRead(bb, i))
         /\ Within(file, bb) => ContentIn(file, AfterRead(bb, i)) = ContentIn(file, bb)
<1>0. Len(file) \in Nat
  BY FilesNat
<1>1. PICK B : B = BucketsOn(Len(file)) /\ B = Bucket
  BY DEF Bucket
<1>2. PICK p \in Seq(B), q \in Seq(B) :
            /\ bb = p \o (<<bb[i]>> \o q)
            /\ AfterRead(bb, i) = p \o (ReadInto(bb[i]) \o q)
  <2>1. \E p \in Seq(Bucket), q \in Seq(Bucket) :
            /\ bb = p \o (<<bb[i]>> \o q)
            /\ AfterRead(bb, i) = p \o (ReadInto(bb[i]) \o q)
    BY ReadParts
  <2> QED
    BY ONLY <1>1, <2>1
<1>3. PICK e \in B : e = bb[i]
  BY <1>1, ElementOfSeq, LenProperties
<1>4. e \in FileBuckets(Len(file))
  BY <1>0, <1>1, <1>3, BucketFacts
<1>5. PICK o \in Seq(B) : o = <<e>>
  BY OneIn
<1>6. o \o q \in Seq(B)
  BY ConcatProperties
<1>7. PICK r \in Seq(B) : r = ReadInto(e) /\ r \in Seq(NotEos) /\ Shorter(r, o)
  <2>1. ReadInto(e) \in Seq(B)
    BY <1>1, <1>4, ReadIntoType
  <2> QED
    BY <1>4, <1>5, <2>1, ReadNoMore
<1>8. bb = p \o (o \o q) /\ AfterRead(bb, i) = p \o (r \o q) /\ r \o q \in Seq(B)
  BY <1>2, <1>3, <1>5, <1>7, ConcatProperties
<1>9. Shorter(p \o (r \o q), p \o (o \o q))
  <2>1. Shorter(r \o q, o \o q)
    BY <1>0, <1>1, <1>7, ShorterRefl, ShorterConcat
  <2> QED
    BY <1>0, <1>1, <1>6, <1>8, <2>1, ShorterRefl, ShorterConcat
<1>10. ASSUME EosLast(bb) PROVE EosLast(p \o (r \o q))
  <2>1. EosLast(p \o (o \o q)) /\ o # << >>
    BY <1>5, <1>8, <1>10
  <2> QED
    BY <1>0, <1>1, <1>7, <2>1, EosLastInside
<1>11. ASSUME Within(file, bb)
       PROVE  ContentIn(file, p \o (r \o q)) = ContentIn(file, p \o (o \o q))
  <2>1. Within(file, o)
    <3>1. Within(file, p \o (o \o q))
      BY <1>8, <1>11
    <3>2. Within(file, o \o q)
      BY <1>1, <1>6, <3>1, WithinConcat
    <3> QED
      BY <1>1, <3>2, WithinConcat
  <2>2. ContentIn(file, r) = ContentIn(file, o)
    <3>1. ContentIn(file, o) = DataIn(file, e)
      BY <1>1, <1>5, ContentInOne
    <3>2. e.length > 0 /\ Within(file, <<e>>)
      BY <1>3, <1>5, <2>1
    <3> QED
      BY <1>4, <1>7, <3>1, <3>2, ReadContent
  <2>3. ContentIn(file, r \o q) = ContentIn(file, o \o q)
    <3>1. /\ ContentIn(file, r \o q) = ContentIn(file, r) \o ContentIn(file, q)
          /\ ContentIn(file, o \o q) = ContentIn(file, o) \o ContentIn(file, q)
      BY ZenonT(40), <1>1, ContentInFacts
    <3> QED
      BY <2>2, <3>1
  <2>4. /\ ContentIn(file, p \o (r \o q)) = ContentIn(file, p) \o ContentIn(file, r \o q)
        /\ ContentIn(file, p \o (o \o q)) = ContentIn(file, p) \o ContentIn(file, o \o q)
    BY <1>1, <1>6, <1>8, ContentInFacts
  <2> QED
    BY <2>3, <2>4
<1>12. p \o (r \o q) \in Seq(B)
  BY <1>8, ConcatProperties
<1> QED
  BY <1>1, <1>8, <1>9, <1>10, <1>11, <1>12

------------------------------------------------------------------------------
(* What is made for a concatenation, and what a write leaves of it. *)

\* A new input is in memory, with the end of the stream last.
LEMMA NewBucketsKept ==
  ASSUME made \in Nat, NEW input \in InputType
  PROVE  NewBuckets(input) \in Seq(BucketsOn(0)) /\ EosLast(NewBuckets(input))
<1> DEFINE p == [i \in DOMAIN input.lengths |->
                    Mem([j \in 1 .. input.lengths[i] |->
                            made + Total(SubSeq(input.lengths, 1, i - 1)) + j])]
           q == IF input.eos THEN <<EosBucket>> ELSE << >>
           T == {p[i] : i \in DOMAIN p} \cup {EosBucket}
<1>1. NewBuckets(input) \in Seq(BucketsOn(0))
  BY NewBucketsType
<1>2. NewBuckets(input) = p \o q
  BY DEF NewBuckets
<1>3. PICK l \in Seq(Nat) : l = input.lengths /\ Len(l) \in Nat /\ DOMAIN l = 1 .. Len(l)
  BY LenProperties DEF InputType
<1>4. DOMAIN p = 1 .. Len(l) /\ \A i \in 1 .. Len(l) : p[i].type = "mem"
  BY <1>3 DEF Mem
<1>5. p \in Seq(T)
  <2>1. p = [i \in 1 .. Len(l) |-> p[i]]
    BY <1>3
  <2>2. \A i \in 1 .. Len(l) : p[i] \in T
    BY <1>4
  <2>3. PICK n, r, X : n \in Nat /\ n = Len(l) /\ r = p /\ X = T
    BY <1>3
  <2> HIDE DEF p, T
  <2>4. r \in [1 .. n -> X]
    BY ONLY <2>1, <2>2, <2>3
  <2>5. r \in Seq(X)
    BY ONLY <2>3, <2>4
  <2> QED
    BY <2>3, <2>5
<1>6. q \in Seq(T)
  <2>1. EosBucket \in T
    OBVIOUS
  <2>2. << >> \in Seq(T)
    <3> HIDE DEF T
    <3> QED
      OBVIOUS
  <2> HIDE DEF T
  <2> QED
    BY <2>1, <2>2, OneIn
<1> HIDE DEF p, T
<1>7. p \in Seq(BucketsOn(0)) /\ q \in Seq(BucketsOn(0))
  <2>1. p \o q \in Seq(BucketsOn(0))
    BY <1>1, <1>2
  <2> HIDE DEF q
  <2> QED
    BY <1>5, <1>6, <2>1, ConcatIn
<1>8. p \in Seq(NotEos)
  <2>1. Len(p) = Len(l)
    BY <1>3, <1>4, <1>7, LenProperties
  <2>2. ASSUME NEW i \in 1 .. Len(p) PROVE p[i] \in NotEos
    <3>1. p[i] \in BucketsOn(0) /\ p[i].type = "mem"
      BY <1>4, <1>7, <2>1, ElementOfSeq
    <3>2. p[i] \in AnyBucket
      BY <3>1, BucketsAny
    <3> QED
      BY <3>1, <3>2 DEF NotEos
  <2>3. p = [i \in 1 .. Len(p) |-> p[i]] /\ Len(p) \in Nat
    BY <1>7, LenProperties
  <2> QED
    BY ONLY <2>2, <2>3
<1>9. PICK s \in Seq(BucketsOn(0)) : s = p
  BY <1>7
<1>10. CASE input.eos
  <2>1. EosBucket \in BucketsOn(0) /\ q = <<EosBucket>>
    BY <1>10 DEF BucketsOn
  <2>2. EosLast(s \o <<EosBucket>>)
    <3>1. s \in Seq(NotEos)
      BY <1>8, <1>9
    <3> QED
      BY <2>1, <3>1, CutSnoc
  <2> QED
    BY <1>1, <1>2, <1>9, <2>1, <2>2
<1>11. CASE ~input.eos
  <2>1. q = << >>
    BY <1>11
  <2>2. s \o << >> = s
    BY ConcatEmptySeq
  <2>3. EosLast(s)
    BY <1>8, <1>9, NotEosLast
  <2> QED
    BY <1>1, <1>2, <1>9, <2>1, <2>2, <2>3
<1> QED
  BY <1>10, <1>11

\* What is left of joined sequences when the first is gone and part of the second.
LEMMA BytesAcross ==
  ASSUME NEW a \in Seq(Int), NEW x \in Seq(Int), NEW y \in Seq(Int), NEW d \in 0 .. Len(x)
  PROVE  LET w == a \o (x \o y)
         IN  /\ Len(w) = Len(a) + Len(x) + Len(y)
             /\ Bytes(w, Len(a) + d, Len(w)) = Bytes(x, d, Len(x)) \o y
<1>0. Len(a) \in Nat /\ Len(x) \in Nat /\ Len(y) \in Nat /\ d \in Nat /\ d <= Len(x)
  BY LenProperties
<1>1. PICK s \in Seq(Int), t \in Seq(Int) :
        s = Bytes(x, 0, d) /\ t = Bytes(x, d, Len(x)) /\ Len(s) = d /\ Len(t) = Len(x) - d
  <2>1. PICK m \in Nat, k \in Nat : m = Len(x) /\ k = d /\ 0 <= k /\ k <= m
    BY <1>0
  <2>2. k <= Len(x) /\ m <= Len(x) /\ 0 \in Nat
    BY <1>0, <2>1
  <2>3. Bytes(x, 0, k) \in Seq(Int) /\ Len(Bytes(x, 0, k)) = k - 0
    BY ONLY <2>1, <2>2, x \in Seq(Int), k \in Nat, BytesType
  <2>4. Bytes(x, k, m) \in Seq(Int) /\ Len(Bytes(x, k, m)) = m - k
    BY ONLY <2>1, <2>2, x \in Seq(Int), k \in Nat, m \in Nat, BytesType
  <2>5. Len(Bytes(x, 0, k)) = k
    BY <2>3
  <2> QED
    BY ONLY <2>1, <2>3, <2>4, <2>5
<1>2. s \o t = x
  <2>1. Bytes(x, 0, d) \o Bytes(x, d, Len(x)) = Bytes(x, 0, Len(x))
    BY SMTT(30), <1>0, BytesJoin
  <2>2. Bytes(x, 0, Len(x)) = x
    BY BytesFull
  <2> QED
    BY ONLY <1>1, <2>1, <2>2
<1>3. FourParts(a, s, t, y)
  BY JoinFour
<1>4. PICK p \in Seq(Int), q \in Seq(Int) : p = a \o s /\ q = t \o y
  <2>1. a \o s \in Seq(Int) /\ t \o y \in Seq(Int)
    BY ConcatProperties
  <2> QED
    BY <2>1
<1>5. a \o (x \o y) = p \o q
  BY ONLY <1>2, <1>3, <1>4 DEF FourParts
<1>6. Len(p) = Len(a) + d /\ Len(q) = Len(x) - d + Len(y) /\ Len(p \o q) = Len(p) + Len(q)
  <2>1. Len(a \o s) = Len(a) + Len(s)
    BY ConcatProperties
  <2>2. Len(t \o y) = Len(t) + Len(y)
    BY ConcatProperties
  <2>3. Len(p \o q) = Len(p) + Len(q)
    BY ConcatProperties
  <2> QED
    BY ONLY <1>1, <1>4, <2>1, <2>2, <2>3
<1>7. Bytes(p \o q, Len(p), Len(p) + Len(q)) = q
  BY BytesOfSecond
<1>8. Len(p \o q) = Len(a) + Len(x) + Len(y)
  BY <1>0, <1>6
<1> QED
  BY <1>1, <1>4, <1>5, <1>6, <1>7, <1>8

\* apreq_fwritev leaves in the array what was not written, an entry less for
\* every one used up.
LEMMA ShiftedFacts ==
  ASSUME NEW v \in Seq(Seq(Int)), NEW len \in 0 .. Len(FlattenSeq(v))
  PROVE  /\ FlattenSeq(Shifted(v, len)) = Bytes(FlattenSeq(v), len, Len(FlattenSeq(v)))
         /\ Len(Shifted(v, len)) = Len(v) - UsedUp(v, len)
<1>0. Len(v) \in Nat /\ FlattenSeq(v) \in Seq(Int) /\ Len(FlattenSeq(v)) \in Nat /\ len \in Nat
  BY FlattenType, LenProperties
<1>1. PICK n \in 0 .. Len(v) :
        /\ n = UsedUp(v, len)
        /\ Prefix(v, n) <= len
        /\ n < Len(v) => Prefix(v, n + 1) > len
  BY UsedUpFacts
<1>2. CASE n = Len(v)
  <2>1. Shifted(v, len) = << >>
    BY <1>1, <1>2 DEF Shifted
  <2>2. len = Len(FlattenSeq(v))
    BY <1>0, <1>1, <1>2, PrefixFacts
  <2>3. Bytes(FlattenSeq(v), len, len) = << >>
    BY <1>0, BytesNone
  <2> QED
    BY <1>0, <1>1, <1>2, <2>1, <2>2, <2>3, FlattenEmpty
<1>3. CASE n # Len(v)
  <2>0. n + 1 \in 1 .. Len(v) /\ n < Len(v) /\ n + 1 - 1 = n
    BY SMTT(30), <1>0, <1>1, <1>3
  <2>1. PICK a \in Seq(Seq(Int)), x \in Seq(Int), y \in Seq(Seq(Int)) :
          /\ a = SubSeq(v, 1, n) /\ x = v[n + 1] /\ y = SubSeq(v, n + 2, Len(v))
          /\ Len(y) = Len(v) - n - 1
    <3>1. SubSeq(v, 1, n) \in Seq(Seq(Int))
      BY <1>0, <1>1, Parts
    <3>2. n + 2 = n + 1 + 1
      BY <1>0, <1>1
    <3>3. SubSeq(v, n + 1 + 1, Len(v)) \in Seq(Seq(Int)) /\ Len(SubSeq(v, n + 1 + 1, Len(v))) = Len(v) - (n + 1)
      BY <1>0, <2>0, Parts
    <3>4. v[n + 1] \in Seq(Int)
      BY <2>0, ElementOfSeq
    <3>5. Len(v) - (n + 1) = Len(v) - n - 1
      BY <1>0
    <3> QED
      BY ONLY ZenonT(40), <3>1, <3>2, <3>3, <3>4, <3>5
  <2>2. v = a \o (<<x>> \o y)
    <3>1. v = SubSeq(v, 1, n + 1 - 1) \o (<<v[n + 1]>> \o SubSeq(v, n + 1 + 1, Len(v)))
      <4>1. PICK m \in 1 .. Len(v) : m = n + 1
        BY <2>0
      <4>2. v = SubSeq(v, 1, m - 1) \o (<<v[m]>> \o SubSeq(v, m + 1, Len(v)))
        BY SplitAt
      <4>3. n + 1 - 1 = m - 1 /\ n + 1 + 1 = m + 1
        BY <2>0, <4>1
      <4>4. SubSeq(v, 1, n + 1 - 1) = SubSeq(v, 1, m - 1)
        BY ONLY <4>3
      <4>5. SubSeq(v, n + 1 + 1, Len(v)) = SubSeq(v, m + 1, Len(v))
        BY ONLY <4>3
      <4> QED
        BY ONLY <4>1, <4>2, <4>4, <4>5
    <3>2. n + 2 = n + 1 + 1
      BY <1>0, <1>1
    <3> QED
      BY ONLY <2>0, <2>1, <3>1, <3>2
  <2>3. PICK ox \in Seq(Seq(Int)), xy \in Seq(Seq(Int)) : ox = <<x>> /\ xy = ox \o y
    <3>1. PICK ox \in Seq(Seq(Int)) : ox = <<x>>
      <4>1. <<x>> \in Seq(Seq(Int))
        BY OneIn
      <4> QED
        BY <4>1
    <3>2. ox \o y \in Seq(Seq(Int))
      BY ConcatProperties
    <3> QED
      BY <3>1, <3>2
  <2>4. PICK fa \in Seq(Int), fy \in Seq(Int) : fa = FlattenSeq(a) /\ fy = FlattenSeq(y)
    BY FlattenType
  <2>5. FlattenSeq(v) = fa \o (x \o fy)
    <3>1. FlattenSeq(xy) = FlattenSeq(ox) \o FlattenSeq(y)
      BY <2>3, FlattenConcat
    <3>2. FlattenSeq(ox) = x
      BY <2>3, FlattenOne
    <3>3. FlattenSeq(a \o xy) = FlattenSeq(a) \o FlattenSeq(xy)
      BY FlattenConcat
    <3> QED
      BY ONLY <2>2, <2>3, <2>4, <3>1, <3>2, <3>3
  <2>6. Len(fa) = Prefix(v, n) /\ Len(fa) \in Nat /\ Len(x) \in Nat
    BY <2>1, <2>4, LenProperties DEF Prefix
  <2>7. Prefix(v, n + 1) = Prefix(v, n) + Len(x)
    <3>1. Prefix(v, n + 1) = Prefix(v, n + 1 - 1) + Len(v[n + 1])
      <4>1. PICK m \in 1 .. Len(v) : m = n + 1
        BY <2>0
      <4>2. Prefix(v, m) = Prefix(v, m - 1) + Len(v[m])
        BY PrefixFacts
      <4> QED
        BY ONLY <4>1, <4>2
    <3> QED
      BY <2>0, <2>1, <3>1
  <2>8. PICK d \in 0 .. Len(x) : d = len - Len(fa) /\ Len(fa) + d = len
    <3>1. PICK k \in Nat, z \in Nat, m \in Nat : k = Len(fa) /\ z = Len(x) /\ m = len
      BY <1>0, <2>6
    <3>2. k <= m /\ m < k + z
      BY <1>1, <2>0, <2>6, <2>7, <3>1
    <3>3. m - k \in 0 .. z /\ k + (m - k) = m
      BY ONLY <3>2, k \in Nat, z \in Nat, m \in Nat
    <3> QED
      BY ONLY <3>1, <3>3
  <2>9. PICK w \in Seq(Int) : w = FlattenSeq(v) /\ Bytes(w, len, Len(w)) = Bytes(x, d, Len(x)) \o fy
    <3>1. Bytes(fa \o (x \o fy), Len(fa) + d, Len(fa \o (x \o fy))) = Bytes(x, d, Len(x)) \o fy
      BY BytesAcross
    <3> QED
      BY <1>0, <2>5, <2>8, <3>1
  <2>10. PICK z \in Seq(Int) : z = Bytes(x, d, Len(x))
    <3>1. PICK k \in Nat, m \in Nat : k = d /\ m = Len(x) /\ k <= m /\ m <= Len(x)
      BY SMTT(30), <2>6, <2>8
    <3>2. Bytes(x, k, m) \in Seq(Int)
      BY ONLY <3>1, x \in Seq(Int), k \in Nat, m \in Nat, BytesType
    <3> QED
      BY ONLY <3>1, <3>2
  <2>11. Shifted(v, len) = <<z>> \o y
    BY <1>1, <1>3, <2>1, <2>4, <2>8, <2>10 DEF Shifted, Bytes
  <2>12. PICK oz \in Seq(Seq(Int)) : oz = <<z>> /\ Len(oz) = 1
    <3>1. <<z>> \in Seq(Seq(Int)) /\ Len(<<z>>) = 1
      BY OneIn
    <3> QED
      BY <3>1
  <2>13. FlattenSeq(oz \o y) = FlattenSeq(oz) \o FlattenSeq(y) /\ FlattenSeq(oz) = z
    BY <2>12, FlattenConcat, FlattenOne
  <2>14. Len(oz \o y) = Len(oz) + Len(y)
    BY ConcatProperties
  <2>15. FlattenSeq(Shifted(v, len)) = z \o fy
    BY ONLY <2>4, <2>11, <2>12, <2>13
  <2>16. Len(Shifted(v, len)) = Len(v) - n
    <3>1. Len(Shifted(v, len)) = 1 + Len(y)
      BY ONLY <2>11, <2>12, <2>14
    <3>2. 1 + Len(y) = Len(v) - n
      BY <1>0, <2>1
    <3> QED
      BY <3>1, <3>2
  <2> QED
    BY ONLY <1>1, <2>9, <2>10, <2>15, <2>16
<1> QED
  BY <1>2, <1>3

\* Iovecs of the same lengths hold as much.
LEMMA SameLens ==
  ASSUME NEW v \in Seq(Seq(Int)), NEW w \in Seq(Seq(Int)), Len(w) = Len(v),
         \A i \in 1 .. Len(v) : Len(w[i]) = Len(v[i])
  PROVE  Len(FlattenSeq(w)) = Len(FlattenSeq(v))
<1>0. Len(v) \in Nat
  BY LenProperties
<1> DEFINE T == {n \in Nat : n <= Len(v) => Prefix(w, n) = Prefix(v, n)}
<1>1. 0 \in T
  BY PrefixFacts
<1>2. ASSUME NEW n \in Nat, n \in T PROVE n + 1 \in T
  <2>1. ASSUME n + 1 <= Len(v) PROVE Prefix(w, n + 1) = Prefix(v, n + 1)
    <3>1. PICK m \in 1 .. Len(v) : m = n + 1 /\ m - 1 = n /\ n <= Len(v)
      BY <1>0, <2>1
    <3>2. Prefix(v, m) = Prefix(v, m - 1) + Len(v[m])
      BY PrefixFacts
    <3>3. Prefix(w, m) = Prefix(w, m - 1) + Len(w[m])
      <4>1. m \in 1 .. Len(w)
        OBVIOUS
      <4> QED
        BY <4>1, PrefixFacts
    <3>4. Prefix(w, n) = Prefix(v, n)
      BY <1>2, <3>1
    <3>5. Len(w[m]) = Len(v[m])
      OBVIOUS
    <3> QED
      BY ONLY <3>1, <3>2, <3>3, <3>4, <3>5
  <2> QED
    BY <2>1
<1> HIDE DEF T
<1>3. Nat \subseteq T
  BY <1>1, <1>2, SetInduction
<1>4. Prefix(w, Len(v)) = Prefix(v, Len(v))
  <2>1. Len(v) \in T
    BY <1>0, <1>3
  <2> QED
    BY <1>0, <2>1 DEF T
<1>5. Prefix(v, Len(v)) = Len(FlattenSeq(v)) /\ Prefix(w, Len(w)) = Len(FlattenSeq(w))
  BY PrefixFacts
<1> QED
  BY <1>4, <1>5

\* Whatever the iovecs that are left refer to, their lengths are known.
LEMMA RemainingFacts ==
  ASSUME NEW v \in Seq(Seq(Int)), NEW len \in 0 .. Len(FlattenSeq(v)), NEW w \in Remaining(v, len)
  PROVE  /\ w \in Seq(Seq(Int))
         /\ Len(w) = Len(v) - UsedUp(v, len)
         /\ Len(FlattenSeq(w)) = Len(FlattenSeq(v)) - len
<1>0. w \in Seq(Seq(Int)) /\ Len(FlattenSeq(v)) \in Nat /\ FlattenSeq(v) \in Seq(Int) /\ len \in Nat
  BY RemainingType, FlattenType, LenProperties
<1>1. PICK left \in Seq(Seq(Int)) : left = Shifted(v, len)
  BY ShiftedType
<1>2. Len(left) = Len(v) - UsedUp(v, len)
  BY <1>1, ShiftedFacts
<1>3. Len(FlattenSeq(left)) = Len(FlattenSeq(v)) - len
  <2>1. FlattenSeq(left) = Bytes(FlattenSeq(v), len, Len(FlattenSeq(v)))
    BY <1>1, ShiftedFacts
  <2>2. PICK f \in Seq(Int), m \in Nat, k \in Nat :
          f = FlattenSeq(v) /\ m = Len(f) /\ k = len /\ k <= m /\ m <= Len(f)
    BY <1>0
  <2>3. Len(Bytes(f, k, m)) = m - k
    BY ONLY <2>2, f \in Seq(Int), k \in Nat, m \in Nat, BytesType
  <2> QED
    BY ONLY <2>1, <2>2, <2>3
<1>4. Len(w) = Len(left) /\ Len(FlattenSeq(w)) = Len(FlattenSeq(left))
  <2>1. CASE w = left
    BY <2>1
  <2>2. CASE w # left
    <3>1. w = [i \in DOMAIN left |-> [j \in DOMAIN left[i] |-> Junk]]
      BY <1>1, <2>2 DEF Remaining
    <3>2. DOMAIN left = 1 .. Len(left) /\ Len(left) \in Nat
      BY LenProperties
    <3>3. Len(w) = Len(left)
      BY <1>0, <3>1, <3>2, LenProperties
    <3>4. ASSUME NEW i \in 1 .. Len(left) PROVE Len(w[i]) = Len(left[i])
      <4>1. PICK x \in Seq(Int), y \in Seq(Int) : x = w[i] /\ y = left[i]
        BY <1>0, <3>3, ElementOfSeq
      <4>2. x = [j \in DOMAIN y |-> Junk]
        BY <3>1, <3>2, <4>1
      <4>3. DOMAIN x = DOMAIN y
        BY <4>2
      <4>4. DOMAIN x = 1 .. Len(x) /\ DOMAIN y = 1 .. Len(y) /\ Len(x) \in Nat /\ Len(y) \in Nat
        BY LenProperties
      <4>5. Len(x) = Len(y)
        <5>1. PICK m \in Nat, k \in Nat : m = Len(x) /\ k = Len(y) /\ 1 .. m = 1 .. k
          BY ONLY ZenonT(40), <4>3, <4>4
        <5>2. /\ m = 0 \/ m \in 1 .. m
              /\ k = 0 \/ k \in 1 .. k
          OBVIOUS
        <5>3. m <= k /\ k <= m
          BY SMTT(30), <5>1, <5>2
        <5> QED
          BY SMTT(30), <5>1, <5>3
      <4> QED
        BY <4>1, <4>5
    <3> QED
      BY <1>0, <3>3, <3>4, SameLens
  <2> QED
    BY <2>1, <2>2
<1> QED
  BY <1>0, <1>2, <1>3, <1>4

\* What is in the array before a write.
LEMMA LoadFacts ==
  ASSUME TypeOK, call \in CallType
  PROVE  /\ FlattenSeq(Loaded) = FlattenSeq(call.v) \o ContentIn(file, ToLoad)
         /\ Len(Loaded) = Len(call.v) + Len(ToLoad)
         /\ call.v \in Seq(Seq(Int)) /\ FlattenSeq(call.v) \in Seq(Int)
         /\ FlattenSeq(Loaded) \in Seq(Int)
<1>1. call.v \in Seq(Seq(Int)) /\ file \in FileType
  BY DEF CallType, CallTypeOn, TypeOK
<1>2. ToLoad \in Seq(Bucket) /\ Loaded \in Seq(Seq(Int))
  BY LoadType
<1> DEFINE d == [i \in DOMAIN ToLoad |-> Data(ToLoad[i])]
<1>3. d \in Seq(Seq(Int)) /\ Len(d) = Len(ToLoad)
  <2>1. PICK bb \in Seq(Bucket) : bb = ToLoad
    BY <1>2
  <2>2. Len(bb) \in Nat /\ DOMAIN bb = 1 .. Len(bb)
    BY LenProperties
  <2>3. PICK n \in Nat : n = Len(bb)
    BY <2>2
  <2>4. PICK r : r = [i \in DOMAIN bb |-> Data(bb[i])]
    OBVIOUS
  <2>5. r \in [1 .. n -> Seq(Int)]
    BY <1>1, <2>2, <2>3, <2>4, ElementOfSeq, DataType
  <2>6. r \in Seq(Seq(Int)) /\ Len(r) = n
    BY ONLY <2>5, n \in Nat
  <2> QED
    BY <2>1, <2>3, <2>4, <2>6
<1>4. FlattenSeq(d) = ContentIn(file, ToLoad)
  <2>1. FlattenSeq(d) = Content(ToLoad)
    BY DEF Content
  <2> HIDE DEF d
  <2> QED
    BY <2>1, ContentNow
<1>5. Loaded = call.v \o d
  BY DEF Loaded
<1> HIDE DEF d
<1>6. PICK v \in Seq(Seq(Int)), x \in Seq(Seq(Int)) : v = call.v /\ x = d
  BY <1>1, <1>3
<1>7. FlattenSeq(v \o x) = FlattenSeq(v) \o FlattenSeq(x)
  BY FlattenConcat
<1>8. Len(v \o x) = Len(v) + Len(x)
  BY ConcatProperties
<1>9. FlattenSeq(v) \in Seq(Int) /\ FlattenSeq(Loaded) \in Seq(Int)
  BY <1>2, FlattenType
<1> QED
  BY ONLY <1>1, <1>3, <1>4, <1>5, <1>6, <1>7, <1>8, <1>9

\* Writing where the descriptor is, at or before the end of the file.
LEMMA WrittenFacts ==
  ASSUME NEW x \in [data : Seq(Int), at : Nat], x.at <= Len(x.data), NEW d \in Seq(Int)
  PROVE  LET y == Written(x, d)
         IN  /\ y \in [data : Seq(Int), at : Nat]
             /\ y.at = x.at + Len(d) /\ y.at <= Len(y.data)
             /\ Bytes(y.data, 0, x.at) = Bytes(x.data, 0, x.at)
             /\ Bytes(y.data, x.at, y.at) = d
<1>1. PICK s \in Seq(Int), a \in Nat : s = x.data /\ a = x.at /\ a <= Len(s) /\ Len(s) \in Nat
  BY LenProperties
<1>2. [i \in 1 .. a - Len(s) |-> Junk] = << >>
  <2>1. 1 .. a - Len(s) = 1 .. 0
    BY <1>1
  <2>2. PICK g : g = [i \in 1 .. 0 |-> Junk]
    OBVIOUS
  <2>3. g \in Seq(Int) /\ Len(g) = 0
    BY <2>2 DEF Junk
  <2>4. g = << >>
    BY <2>3, EmptySeq
  <2> QED
    BY ONLY <2>1, <2>2, <2>4
<1>3. s \o << >> = s
  BY ConcatEmptySeq
<1>4. PICK p \in Seq(Int) : p = Bytes(s, 0, a) /\ Len(p) = a
  <2>1. 0 <= a /\ a <= Len(s) /\ 0 \in Nat
    BY <1>1
  <2>2. Bytes(s, 0, a) \in Seq(Int) /\ Len(Bytes(s, 0, a)) = a - 0
    BY ONLY <2>1, s \in Seq(Int), a \in Nat, BytesType
  <2>3. a - 0 = a
    OBVIOUS
  <2> QED
    BY ONLY <2>2, <2>3
<1>5. PICK n \in Nat : n = Len(d)
  BY LenProperties
<1>6. PICK q \in Seq(Int) : q = SubSeq(s, a + n + 1, Len(s))
  <2>1. PICK m \in Nat \ {0} : m = a + n + 1
    OBVIOUS
  <2>2. SubSeq(s, m, Len(s)) \in Seq(Int)
    BY <1>1, SubSeqType
  <2> QED
    BY ONLY <2>1, <2>2
<1>7. PICK pd \in Seq(Int) : pd = p \o d /\ Len(pd) = a + n
  <2>1. p \o d \in Seq(Int) /\ Len(p \o d) = Len(p) + Len(d)
    BY ConcatProperties
  <2> QED
    BY <1>4, <1>5, <2>1
<1>8. PICK z \in Seq(Int) : z = pd \o q /\ a + n <= Len(z) /\ Len(z) \in Nat
  <2>1. pd \o q \in Seq(Int) /\ Len(pd \o q) = Len(pd) + Len(q) /\ Len(q) \in Nat
    BY ConcatProperties, LenProperties
  <2>2. Len(pd \o q) \in Nat /\ a + n <= Len(pd \o q)
    BY <1>7, <2>1
  <2> QED
    BY ONLY <2>1, <2>2
<1>9. Written(x, d) = [data |-> z, at |-> a + n]
  <2>1. SubSeq(s, 1, a) = p
    BY <1>4 DEF Bytes
  <2>2. Written(x, d) = [data |-> SubSeq(s \o << >>, 1, a) \o d \o SubSeq(s, a + n + 1, Len(s)),
                         at |-> a + n]
    BY <1>1, <1>2, <1>5 DEF Written
  <2> QED
    BY ONLY <1>3, <1>6, <1>7, <1>8, <2>1, <2>2
<1>10. Bytes(z, 0, a) = p
  <2>1. 0 \in Nat /\ 0 <= a /\ a <= Len(pd) /\ a <= Len(p)
    BY <1>4, <1>7
  <2>2. Bytes(pd \o q, 0, a) = Bytes(pd, 0, a)
    BY ONLY <2>1, pd \in Seq(Int), q \in Seq(Int), a \in Nat, BytesOfFirst
  <2>3. Bytes(p \o d, 0, a) = Bytes(p, 0, a)
    BY ONLY <2>1, p \in Seq(Int), d \in Seq(Int), a \in Nat, BytesOfFirst
  <2>4. Bytes(p, 0, Len(p)) = p
    BY BytesFull
  <2> QED
    BY ONLY <1>4, <1>7, <1>8, <2>2, <2>3, <2>4
<1>11. Bytes(z, a, a + n) = d
  <2>1. a + n \in Nat /\ a <= a + n /\ a + n <= Len(pd)
    BY <1>7
  <2>2. Bytes(pd \o q, a, a + n) = Bytes(pd, a, a + n)
    BY ONLY <2>1, pd \in Seq(Int), q \in Seq(Int), a \in Nat, BytesOfFirst
  <2>3. Bytes(p \o d, Len(p), Len(p) + Len(d)) = d
    BY BytesOfSecond
  <2> QED
    BY ONLY <1>4, <1>5, <1>7, <1>8, <2>2, <2>3
<1> QED
  BY <1>1, <1>4, <1>5, <1>8, <1>9, <1>10, <1>11

------------------------------------------------------------------------------
(* The spool bucket that grows. *)

\* The spool bucket e with wlen more behind it: k full file buckets, and a spool
\* bucket of the l bytes from x.
ExtendedAs(e, wlen, full, k, x, l) ==
    /\ x = k * BucketLimit /\ x + l = e.length + wlen /\ 0 < l /\ l <= BucketLimit
    /\ Len(full) = k
    /\ \A i \in 1 .. k :
          full[i] = FileBucket(e.fd, e.start + (i - 1) * BucketLimit, BucketLimit)
    /\ Extended(e, wlen) = full \o <<SpoolBucket(e.fd, e.start + x, l)>>

\* The spool bucket when more is behind it than one bucket can refer to.
LEMMA ExtendedParts ==
  ASSUME NEW n \in Nat, NEW e \in FileBuckets(n), e.type = "spool", NEW wlen \in Nat,
         ~(wlen <= SizeT(BucketLimit - e.length))
  PROVE  \E full \in Seq(BucketsOn(n)), k \in Nat, x \in Nat, l \in Nat :
            ExtendedAs(e, wlen, full, k, x, l)
<1>0. /\ e.fd \in 1 .. n /\ e.start \in Nat /\ e.length \in Nat /\ BucketLimit \in Nat \ {0}
      /\ SizeT(BucketLimit - e.length) \in Nat
  BY FileBucketFacts, SizeAssumption, SizeTNat
<1>1. PICK s \in Nat, m \in Nat, z \in Nat \ {0} :
        s = e.start /\ m = e.length + wlen /\ z = BucketLimit /\ m > 0
  <2>1. PICK y \in Nat : y = e.length
    BY <1>0
  <2>2. wlen > 0
    BY <1>0
  <2>3. y + wlen \in Nat /\ y + wlen > 0
    BY <2>2
  <2> QED
    BY <1>0, <2>1, <2>3
<1>2. PICK k \in Nat : k = (m - 1) \div z /\ k * z <= m - 1 /\ m - 1 < k * z + z
  <2>1. m - 1 \in Nat
    BY <1>1
  <2> QED
    BY <2>1, Division
<1>3. PICK x \in Nat : x = k * z
  OBVIOUS
<1>4. PICK l \in Nat : l = m - x /\ x + l = m /\ 0 < l /\ l <= z
  <2>1. x <= m - 1 /\ m - 1 < x + z
    BY <1>2, <1>3
  <2>2. m - x \in Nat /\ x + (m - x) = m /\ 0 < m - x /\ m - x <= z
    BY ONLY <2>1, m \in Nat, x \in Nat, z \in Nat
  <2> QED
    BY <2>2
<1>5. PICK full : full = [i \in 1 .. k |-> FileBucket(e.fd, s + (i - 1) * z, z)]
  OBVIOUS
<1>6. full \in Seq(BucketsOn(n)) /\ Len(full) = k
  <2>1. ASSUME NEW i \in 1 .. k PROVE FileBucket(e.fd, s + (i - 1) * z, z) \in BucketsOn(n)
    <3>1. (i - 1) * z \in Nat
      BY i - 1 \in Nat
    <3> QED
      BY <1>0, <3>1 DEF FileBucket, FileBuckets, BucketsOn
  <2>2. PICK B : B = BucketsOn(n)
    OBVIOUS
  <2>3. full \in [1 .. k -> B]
    BY <1>5, <2>1, <2>2
  <2>4. full \in Seq(B) /\ Len(full) = k
    BY ONLY <2>3, k \in Nat
  <2> QED
    BY <2>2, <2>4
<1>7. Extended(e, wlen) = full \o <<SpoolBucket(e.fd, e.start + x, l)>>
  <2>1. PICK y \in Nat : y = e.length
    BY <1>0
  <2>2. (s + y + wlen) - (s + x) = l
    BY <1>1, <1>4, <2>1
  <2>3. Extended(e, wlen) =
          [i \in 1 .. k |-> FileBucket(e.fd, s + (i - 1) * z, z)]
          \o <<SpoolBucket(e.fd, s + k * z, (s + y + wlen) - (s + k * z))>>
    <3>1. PICK q : q = (e.length + wlen - 1) \div BucketLimit
      OBVIOUS
    <3>2. Extended(e, wlen) =
            [i \in 1 .. q |-> FileBucket(e.fd, e.start + (i - 1) * BucketLimit, BucketLimit)]
            \o <<SpoolBucket(e.fd, e.start + q * BucketLimit,
                              (e.start + e.length + wlen) - (e.start + q * BucketLimit))>>
      BY ONLY <3>1, ~(wlen <= SizeT(BucketLimit - e.length)), Zenon DEF Extended
    <3>3. e.length + wlen - 1 = m - 1
      BY <1>1, <2>1
    <3>4. q = k
      <4>1. q = (m - 1) \div BucketLimit
        BY ONLY <3>1, <3>3, Zenon
      <4> QED
        BY <1>1, <1>2, <4>1
    <3> QED
      BY ONLY <1>1, <2>1, <3>2, <3>4
  <2> QED
    BY ONLY <1>1, <1>3, <1>5, <2>2, <2>3
<1>8. \A i \in 1 .. k : full[i] = FileBucket(e.fd, e.start + (i - 1) * BucketLimit, BucketLimit)
  BY <1>1, <1>5
<1>9. ExtendedAs(e, wlen, full, k, x, l)
  BY ONLY <1>1, <1>3, <1>4, <1>6, <1>7, <1>8 DEF ExtendedAs
<1> QED
  BY <1>6, <1>9

\* The spool bucket that grew is buckets on the same files, and no end of stream.
LEMMA ExtendedNotEos ==
  ASSUME NEW n \in Nat, NEW e \in FileBuckets(n), e.type = "spool", NEW wlen \in Nat
  PROVE  Extended(e, wlen) \in Seq(BucketsOn(n)) /\ Extended(e, wlen) \in Seq(NotEos)
<1>1. Extended(e, wlen) \in Seq(BucketsOn(n))
  BY ExtendedType
<1>2. CASE wlen <= SizeT(BucketLimit - e.length)
  <2>1. PICK b : b = SpoolBucket(e.fd, e.start, SizeT(e.length + wlen)) /\ Extended(e, wlen) = <<b>>
    BY <1>2 DEF Extended
  <2>2. b \in AnyBucket /\ b.type = "spool"
    <3>1. b \in BucketsOn(n)
      BY <1>1, <2>1, OneIn
    <3> QED
      BY <2>1, <3>1, BucketsAny DEF SpoolBucket
  <2>3. b \in NotEos
    BY <2>2 DEF NotEos
  <2>4. <<b>> \in Seq(NotEos)
    BY <2>3, OneIn
  <2> QED
    BY <1>1, <2>1, <2>4
<1>3. CASE ~(wlen <= SizeT(BucketLimit - e.length))
  <2>1. PICK full, k, b :
            /\ full \in Seq(BucketsOn(n)) /\ k \in Nat
            /\ Len(full) = k
            /\ \A i \in 1 .. k : full[i].type = "file"
            /\ Extended(e, wlen) = full \o <<b>> /\ b.type = "spool"
    <3>1. PICK full \in Seq(BucketsOn(n)), k \in Nat, x \in Nat, l \in Nat :
            ExtendedAs(e, wlen, full, k, x, l)
      BY <1>3, ExtendedParts
    <3>2. PICK b : b = SpoolBucket(e.fd, e.start + x, l)
      OBVIOUS
    <3>3. Len(full) = k /\ Extended(e, wlen) = full \o <<b>>
      BY <3>1, <3>2 DEF ExtendedAs
    <3>4. b.type = "spool" /\ \A i \in 1 .. k : full[i].type = "file"
      BY <3>1, <3>2 DEF ExtendedAs, FileBucket, SpoolBucket
    <3> QED
      BY <3>3, <3>4
  <2>2. full \in Seq(NotEos)
    <3>1. ASSUME NEW i \in 1 .. k PROVE full[i] \in NotEos
      <4>1. full[i] \in BucketsOn(n) /\ full[i].type = "file"
        BY <2>1, ElementOfSeq
      <4>2. full[i] \in AnyBucket
        BY <4>1, BucketsAny
      <4> QED
        BY <4>1, <4>2 DEF NotEos
    <3>2. full = [i \in 1 .. k |-> full[i]]
      BY <2>1, LenProperties
    <3> QED
      BY ONLY SMTT(30), <2>1, <3>1, <3>2
  <2>3. b \in BucketsOn(n)
    <3>1. PICK T : T = BucketsOn(n) \cup {b}
      OBVIOUS
    <3>2. full \in Seq(T) /\ <<b>> \in Seq(T)
      <4>1. full \in Seq(T)
        <5>1. PICK B : B = BucketsOn(n) /\ full \in Seq(B) /\ B \subseteq T
          BY <2>1, <3>1
        <5> QED
          BY ONLY <5>1
      <4> QED
        BY <3>1, <4>1, OneIn
    <3>3. full \o <<b>> \in Seq(BucketsOn(n))
      BY <1>1, <2>1
    <3>4. <<b>> \in Seq(BucketsOn(n))
      BY <3>2, <3>3, ConcatIn
    <3> QED
      BY <3>4, OneIn
  <2>4. <<b>> \in Seq(NotEos)
    <3>1. b \in NotEos
      BY <2>1, <2>3, BucketsAny DEF NotEos
    <3> QED
      BY <3>1, OneIn
  <2>5. PICK o : o = <<b>> /\ o \in Seq(NotEos)
    BY <2>4
  <2>6. full \o o \in Seq(NotEos)
    BY <2>2, <2>5, ConcatProperties
  <2> QED
    BY <1>1, <2>1, <2>5, <2>6
<1> QED
  BY <1>2, <1>3

------------------------------------------------------------------------------
(* The state of a concatenation. *)

\* What a concatenation in progress is made of.
LEMMA CallFacts ==
  ASSUME TypeOK, call # Idle
  PROVE  /\ call \in CallType
         /\ call.phase \in {"out", "in"} /\ call.to \in Brigades
         /\ call.fd \in 1 .. Len(file) /\ call.wlen \in Nat /\ call.again \in BOOLEAN
         /\ call.in.bb \in Seq(Bucket) /\ call.in.from \in Brigades \cup {"new"}
         /\ call.in.known \in BOOLEAN /\ call.in \in InTypeOn(Len(file))
BY DEF TypeOK, CallType, CallTypeOn, InTypeOn, Bucket

\* What a state was made of is still that when files are added.
LEMMA TypeGrows ==
  ASSUME NEW n \in Nat, NEW m \in Nat, n <= m
  PROVE  /\ Seq(BucketsOn(n)) \subseteq Seq(BucketsOn(m))
         /\ Seq(Seq(BucketsOn(n))) \subseteq Seq(Seq(BucketsOn(m)))
         /\ InTypeOn(n) \subseteq InTypeOn(m)
         /\ CallTypeOn(n) \subseteq CallTypeOn(m)
<1>0. \A S, T : S \subseteq T => Seq(S) \subseteq Seq(T)
  OBVIOUS
<1>1. BucketsOn(n) \subseteq BucketsOn(m)
  BY BucketsGrow
<1>2. Seq(BucketsOn(n)) \subseteq Seq(BucketsOn(m))
  BY <1>0, <1>1
<1>3. Seq(Seq(BucketsOn(n))) \subseteq Seq(Seq(BucketsOn(m)))
  BY <1>0, <1>2
<1>4. InTypeOn(n) \subseteq InTypeOn(m)
  BY <1>2 DEF InTypeOn
<1>5. 1 .. n \subseteq 1 .. m
  OBVIOUS
<1>6. CallTypeOn(n) \subseteq CallTypeOn(m)
  BY <1>2, <1>4, <1>5 DEF CallTypeOn
<1> QED
  BY <1>2, <1>3, <1>4, <1>6

\* The types after a step, from what each variable is after it.
LEMMA TypeAgain ==
  ASSUME TypeOK, file' \in FileType, Len(file) <= Len(file'),
         brigade' \in [Brigades -> Seq(Bucket)], taken' \in Seq(Seq(Bucket)),
         call' \in CallTypeOn(Len(file')) \cup {Idle},
         made' \in Nat, held' \in [Brigades -> Seq(Int)], takenHeld' \in Seq(Seq(Int))
  PROVE  TypeOK'
<1>1. Len(file) \in Nat /\ Len(file') \in Nat
  BY FilesNat, LenProperties DEF TypeOK, FileType
<1>2. /\ Seq(BucketsOn(Len(file))) \subseteq Seq(BucketsOn(Len(file')))
      /\ Seq(Seq(BucketsOn(Len(file)))) \subseteq Seq(Seq(BucketsOn(Len(file'))))
  BY <1>1, TypeGrows
<1>3. brigade' \in [Brigades -> Seq(BucketsOn(Len(file')))] /\ taken' \in Seq(Seq(BucketsOn(Len(file'))))
  BY <1>2 DEF Bucket
<1> QED
  BY <1>3 DEF TypeOK, Bucket, CallType, FileType

\* Spool buckets are on the files there are.
LEMMA SpoolsRange ==
  ASSUME NEW n \in Nat, NEW bb \in Seq(BucketsOn(n)) PROVE Spools(bb) \subseteq 1 .. n
<1>1. ASSUME NEW f \in Spools(bb) PROVE f \in 1 .. n
  <2>1. PICK i \in DOMAIN bb : bb[i].type = "spool" /\ bb[i].fd = f
    BY <1>1, SpoolsHas
  <2>2. bb[i] \in BucketsOn(n)
    BY ElementOfSeq, LenProperties
  <2> QED
    BY <2>1, <2>2, BucketFacts, FileBucketFacts DEF OnFile
<1> QED
  BY <1>1

------------------------------------------------------------------------------
(* Who may write behind which file. *)

SpoolsLess(a, b) == Spools(a) \subseteq Spools(b) /\ (OneSpool(b) => OneSpool(a))

\* Of all that the brigades bs and the taken ts hold, one bucket at most is a
\* spool bucket on any one file.
OneOwner(bs, ts) ==
    /\ \A b \in Brigades : OneSpool(bs[b])
    /\ \A b, c \in Brigades : b # c => Spools(bs[b]) \cap Spools(bs[c]) = {}
    /\ \A t \in DOMAIN ts : OneSpool(ts[t])
    /\ \A t, u \in DOMAIN ts : t # u => Spools(ts[t]) \cap Spools(ts[u]) = {}
    /\ \A b \in Brigades, t \in DOMAIN ts : Spools(bs[b]) \cap Spools(ts[t]) = {}

\* Whoever gives up spool buckets leaves one on each file at most.
LEMMA OwnersLess ==
  ASSUME NEW bs, NEW ts, NEW cs, NEW us, OneOwner(bs, ts), DOMAIN us = DOMAIN ts,
         \A b \in Brigades : SpoolsLess(cs[b], bs[b]),
         \A t \in DOMAIN ts : SpoolsLess(us[t], ts[t])
  PROVE  OneOwner(cs, us)
<1>1. \A b \in Brigades : OneSpool(cs[b])
  BY DEF OneOwner, SpoolsLess
<1>2. ASSUME NEW b \in Brigades, NEW c \in Brigades, b # c PROVE Spools(cs[b]) \cap Spools(cs[c]) = {}
  BY <1>2 DEF OneOwner, SpoolsLess
<1>3. \A t \in DOMAIN us : OneSpool(us[t])
  BY DEF OneOwner, SpoolsLess
<1>4. ASSUME NEW t \in DOMAIN us, NEW u \in DOMAIN us, t # u PROVE Spools(us[t]) \cap Spools(us[u]) = {}
  BY <1>4 DEF OneOwner, SpoolsLess
<1>5. ASSUME NEW b \in Brigades, NEW t \in DOMAIN us PROVE Spools(cs[b]) \cap Spools(us[t]) = {}
  BY <1>5 DEF OneOwner, SpoolsLess
<1> QED
  BY <1>1, <1>2, <1>3, <1>4, <1>5 DEF OneOwner

BoundedMemory(bs) == \A b \in Brigades : HasMem(bs[b]) => InMemory(bs[b]) < HeapLimit

\* A concatenation in progress appends to another brigade than its input; what
\* it writes to nobody else may write behind, and while the input is written
\* the brigade ends in the spool bucket that will grow.
CallOK ==
    call # Idle =>
        /\ call.in.from # call.to
        /\ call.phase = "out" =>
               /\ \A b \in Brigades : call.fd \notin Spools(brigade[b])
               /\ \A t \in DOMAIN taken : call.fd \notin Spools(taken[t])
        /\ call.phase = "in" =>
               /\ brigade[call.to] # << >>
               /\ Last(brigade[call.to]).type = "spool"
               /\ Last(brigade[call.to]).fd = call.fd

IInv == TypeOK /\ OneOwner(brigade, taken) /\ BoundedMemory(brigade) /\ CallOK

\* Brigades made of part of what they were stay below the limit.
LEMMA BrigadesLess ==
  ASSUME NEW n \in Nat, NEW bs \in [Brigades -> Seq(BucketsOn(n))],
         NEW cs \in [Brigades -> Seq(BucketsOn(n))], BoundedMemory(bs),
         \A b \in Brigades : Lighter(cs[b], bs[b])
  PROVE  BoundedMemory(cs) /\ \A b \in Brigades : SpoolsLess(cs[b], bs[b])
<1>1. ASSUME NEW b \in Brigades, HasMem(cs[b]) PROVE InMemory(cs[b]) < HeapLimit
  <2>1. cs[b] \in Seq(BucketsOn(n)) /\ bs[b] \in Seq(BucketsOn(n))
    OBVIOUS
  <2>2. InMemory(cs[b]) \in Nat /\ InMemory(bs[b]) \in Nat
    BY <2>1, InMemoryFacts
  <2>3. InMemory(cs[b]) <= InMemory(bs[b]) /\ InMemory(bs[b]) < HeapLimit
    BY <1>1 DEF Lighter, BoundedMemory
  <2> QED
    BY <2>2, <2>3, SizeAssumption
<1> QED
  BY <1>1 DEF BoundedMemory, Lighter, SpoolsLess

\* A step that keeps the brigades and what was taken as they are.
LEMMA SameBrigades ==
  ASSUME IInv, UNCHANGED <<brigade, taken>>, TypeOK', CallOK' PROVE IInv'
BY DEF IInv

\* A step that only takes away from them.
LEMMA LessBrigades ==
  ASSUME IInv, TypeOK', CallOK', brigade' \in [Brigades -> Seq(Bucket)],
         \A b \in Brigades : Lighter(brigade'[b], brigade[b]),
         DOMAIN taken' = DOMAIN taken,
         \A t \in DOMAIN taken : SpoolsLess(taken'[t], taken[t])
  PROVE  IInv'
<1>1. Len(file) \in Nat /\ brigade \in [Brigades -> Seq(BucketsOn(Len(file)))]
      /\ brigade' \in [Brigades -> Seq(BucketsOn(Len(file)))]
  BY FilesNat DEF IInv, TypeOK, Bucket
<1>2. BoundedMemory(brigade') /\ \A b \in Brigades : SpoolsLess(brigade'[b], brigade[b])
  BY <1>1, BrigadesLess DEF IInv
<1>3. OneOwner(brigade', taken')
  BY <1>2, OwnersLess DEF IInv
<1> QED
  BY <1>2, <1>3 DEF IInv

(* The steps of a concatenation that writes. *)

\* What a file is made of.
LEMMA FileAt ==
  ASSUME file \in FileType, NEW f \in 1 .. Len(file)
  PROVE  file[f] \in [data : Seq(Int), at : Nat]
BY ElementOfSeq DEF FileType

\* One file replaced by another.
LEMMA PutFile ==
  ASSUME NEW fs \in FileType, NEW f \in 1 .. Len(fs), NEW x \in [data : Seq(Int), at : Nat]
  PROVE  [fs EXCEPT ![f] = x] \in FileType /\ Len([fs EXCEPT ![f] = x]) = Len(fs)
BY ExceptSeq DEF FileType

\* A write leaves the files that were there, changed.
LEMMA WriteType ==
  ASSUME TypeOK, call # Idle, NEW len \in 0 .. Len(FlattenSeq(Loaded)), Write(len)
  PROVE  file' \in FileType /\ Len(file') = Len(file)
<1>1. call \in CallType /\ call.fd \in 1 .. Len(file) /\ file \in FileType
  BY CallFacts DEF TypeOK
<1>2. ToLoad \in Seq(Bucket) /\ Loaded \in Seq(Seq(Int))
  BY <1>1, LoadType
<1>3. PICK r \in FileType : r = ReadOffsets(ToLoad) /\ Len(r) = Len(file)
  BY <1>1, <1>2, ReadOffsetsType
<1>4. PICK d \in Seq(Int) : d = SubSeq(FlattenSeq(Loaded), 1, len)
  <2>1. PICK fl \in Seq(Int) : fl = FlattenSeq(Loaded)
    BY <1>2, FlattenType
  <2>2. SubSeq(fl, 1, len) \in Seq(Int)
    BY <2>1, Parts
  <2> QED
    BY <2>1, <2>2
<1>5. r[call.fd] \in [data : Seq(Int), at : Nat]
  BY <1>1, <1>3, ElementOfSeq DEF FileType
<1>6. Written(r[call.fd], d) \in [data : Seq(Int), at : Nat]
  BY <1>5, WrittenType
<1>7. file' = [r EXCEPT ![call.fd] = Written(r[call.fd], d)]
  BY <1>3, <1>4 DEF Write
<1>8. call.fd \in 1 .. Len(r)
  BY <1>1, <1>3
<1> QED
  BY <1>3, <1>6, <1>7, <1>8, PutFile

\* A brigade without buckets is a brigade.
LEMMA EmptyBrigade == << >> \in Seq(Bucket)
OBVIOUS

\* No buckets are part of any.
LEMMA LighterEmpty ==
  ASSUME NEW n \in Nat, NEW bb \in Seq(BucketsOn(n)) PROVE Lighter(<< >>, bb)
<1>1. InMemory(bb) \in Nat
  BY InMemoryFacts
<1> QED
  BY <1>1, InMemoryEmpty, SpoolsEmpty DEF Lighter

\* The brigade the input came from is empty, the others are as they were.
LEMMA EmptiedType ==
  ASSUME NEW S, NEW fs \in [Brigades -> Seq(S)], NEW in
  PROVE  /\ Emptied(fs, in) \in [Brigades -> Seq(S)]
         /\ \A b \in Brigades : Emptied(fs, in)[b] = IF b = in.from THEN << >> ELSE fs[b]
BY DEF Emptied

\* A call that gives up.
LEMMA FailKeeps ==
  ASSUME IInv, call # Idle, Fail, file' \in FileType, Len(file') = Len(file)
  PROVE  IInv'
<1>0. TypeOK /\ Len(file) \in Nat
  BY FilesNat DEF IInv, TypeOK
<1>1. brigade \in [Brigades -> Seq(Bucket)] /\ held \in [Brigades -> Seq(Int)]
  BY <1>0 DEF TypeOK
<1>2. /\ brigade' \in [Brigades -> Seq(Bucket)] /\ held' \in [Brigades -> Seq(Int)]
      /\ \A b \in Brigades : brigade'[b] \in {<< >>, brigade[b]}
  <2>1. CASE call.phase = "in" /\ call.in.from \in Brigades
    <3>1. brigade' = [brigade EXCEPT ![call.in.from] = << >>] /\ held' = [held EXCEPT ![call.in.from] = << >>]
      BY <2>1 DEF Fail, Discard
    <3>2. brigade' \in [Brigades -> Seq(Bucket)]
      BY <1>1, <3>1, EmptyBrigade
    <3>3. held' \in [Brigades -> Seq(Int)]
      BY <1>1, <3>1, << >> \in Seq(Int)
    <3>4. \A b \in Brigades : brigade'[b] \in {<< >>, brigade[b]}
      BY ONLY <1>1, <3>1
    <3> QED
      BY <3>2, <3>3, <3>4
  <2>2. CASE ~(call.phase = "in" /\ call.in.from \in Brigades)
    BY <1>1, <2>2 DEF Fail, Discard
  <2> QED
    BY <2>1, <2>2
<1>3. call' = Idle /\ taken' = taken /\ made' = made /\ takenHeld' = takenHeld
  BY DEF Fail
<1>4. TypeOK'
  <2>1. Len(file) <= Len(file')
    BY <1>0
  <2> QED
    BY <1>0, <1>2, <1>3, <2>1, TypeAgain DEF TypeOK
<1>5. CallOK'
  BY <1>3 DEF CallOK
<1>6. ASSUME NEW b \in Brigades PROVE Lighter(brigade'[b], brigade[b])
  <2>1. brigade[b] \in Seq(BucketsOn(Len(file)))
    BY <1>1 DEF Bucket
  <2> QED
    BY <1>0, <1>2, <2>1, LighterEmpty, LighterRefl
<1> QED
  BY <1>2, <1>3, <1>4, <1>5, <1>6, LessBrigades DEF SpoolsLess

\* One write, of whatever it wrote.
LEMMA WritevKeeps == ASSUME IInv, Writev PROVE IInv'
<1>0. TypeOK /\ Len(file) \in Nat /\ call # Idle
  <2>1. TypeOK /\ call.phase \in {"out", "in"}
    BY DEF IInv, Writev, Writing
  <2>2. Idle.phase = "idle"
    BY DEF Idle
  <2>3. Len(file) \in Nat
    BY <2>1, FilesNat DEF TypeOK
  <2> QED
    BY <2>1, <2>2, <2>3
<1>1. PICK len \in 0 .. Len(FlattenSeq(Loaded)) :
        /\ Write(len)
        /\ IF NoProgress(Loaded, len)
           THEN Fail
           ELSE /\ \E v \in Remaining(Loaded, len) :
                     call' = [call EXCEPT !.v = v, !.rest = Unloaded, !.wlen = @ + len,
                                          !.again = len = 0 /\ ~@]
                /\ UNCHANGED <<brigade, taken, made, held, takenHeld>>
  BY DEF Writev
<1>2. file' \in FileType /\ Len(file') = Len(file)
  BY <1>0, <1>1, WriteType
<1>3. CASE NoProgress(Loaded, len)
  BY <1>0, <1>1, <1>2, <1>3, FailKeeps
<1>4. CASE ~NoProgress(Loaded, len)
  <2>1. PICK v \in Remaining(Loaded, len) :
          call' = [call EXCEPT !.v = v, !.rest = Unloaded, !.wlen = @ + len,
                               !.again = len = 0 /\ ~@]
    BY <1>1, <1>4
  <2>2. UNCHANGED <<brigade, taken, made, held, takenHeld>>
    BY <1>1, <1>4
  <2>3. call \in CallType
    BY <1>0, CallFacts
  <2>4. Unloaded \in Seq(Bucket) /\ Loaded \in Seq(Seq(Int))
    BY <1>0, <2>3, LoadType
  <2>5. v \in Seq(Seq(Int))
    BY <2>4, RemainingType
  <2>6. len \in Nat
    <3>1. Len(FlattenSeq(Loaded)) \in Nat
      BY <2>4, FlattenType, LenProperties
    <3> QED
      BY <3>1
  <2>7. call' \in CallTypeOn(Len(file))
    <3>1. PICK u \in Seq(Bucket), a \in BOOLEAN, w \in Nat :
            u = Unloaded /\ a = (len = 0 /\ ~call.again) /\ w = call.wlen + len
      <4>1. call.wlen + len \in Nat
        BY <1>0, <2>6, CallFacts
      <4>2. (len = 0 /\ ~call.again) \in BOOLEAN
        OBVIOUS
      <4> QED
        BY <2>4, <4>1, <4>2
    <3>2. call' = [call EXCEPT !.v = v, !.rest = u, !.wlen = w, !.again = a]
      BY <2>1, <3>1
    <3> QED
      BY <2>3, <2>5, <3>2 DEF CallType, CallTypeOn, Bucket
  <2>8. TypeOK'
    BY <1>0, <1>2, <2>2, <2>7, TypeAgain DEF TypeOK
  <2>9. call'.phase = call.phase /\ call'.to = call.to /\ call'.fd = call.fd /\ call'.in = call.in
    BY <2>1, <2>3 DEF CallType, CallTypeOn
  <2>10. CallOK'
    BY <1>0, <2>2, <2>9 DEF IInv, CallOK
  <2> QED
    BY <2>2, <2>8, <2>10, SameBrigades
<1> QED
  BY <1>3, <1>4

\* A write that failed, after whatever it wrote.
LEMMA WriteFailsKeeps == ASSUME IInv, WriteFails PROVE IInv'
<1>0. TypeOK /\ call # Idle
  BY DEF IInv, WriteFails, Writing, Idle
<1>1. file' \in FileType /\ Len(file') = Len(file)
  BY <1>0, WriteType DEF WriteFails
<1> QED
  BY <1>0, <1>1, FailKeeps DEF WriteFails

\* How a write of a brigade begins.
LEMMA StartType ==
  ASSUME NEW n \in Nat, NEW phase \in {"out", "in"}, NEW to \in Brigades, NEW f \in 1 .. n,
         NEW bb \in Seq(BucketsOn(n)), NEW in \in InTypeOn(n), NEW more \in BOOLEAN
  PROVE  /\ Start(phase, to, f, bb, in, more) \in CallTypeOn(n)
         /\ Start(phase, to, f, bb, in, more) # Idle
         /\ Start(phase, to, f, bb, in, more).phase = phase
         /\ Start(phase, to, f, bb, in, more).to = to
         /\ Start(phase, to, f, bb, in, more).fd = f
         /\ Start(phase, to, f, bb, in, more).in = in
<1>1. PICK r \in Seq(BucketsOn(n)) : r = Pieces(bb)
  BY PiecesType
<1>2. << >> \in Seq(Seq(Int))
  OBVIOUS
<1>3. Start(phase, to, f, bb, in, more) =
        [phase |-> phase, to |-> to, fd |-> f, v |-> << >>, rest |-> r,
         wlen |-> 0, again |-> FALSE, in |-> in, more |-> more]
  BY <1>1 DEF Start
<1>4. Start(phase, to, f, bb, in, more) \in CallTypeOn(n)
  BY <1>2, <1>3 DEF CallTypeOn
<1>5. Start(phase, to, f, bb, in, more).phase = phase /\ Idle.phase = "idle"
  BY <1>3 DEF Idle
<1> QED
  BY <1>3, <1>4, <1>5

\* Without its end of stream, a brigade is a brigade.
LEMMA CutType ==
  ASSUME NEW n \in Nat, NEW bb \in Seq(BucketsOn(n)) PROVE Cut(bb) \in Seq(BucketsOn(n))
BY FrontLast DEF Cut, EndsWith

\* The last bucket, where it is a spool bucket.
LEMMA LastSpool ==
  ASSUME TypeOK, NEW b \in Brigades, brigade[b] # << >>, Last(brigade[b]).type = "spool"
  PROVE  /\ Last(brigade[b]) \in FileBuckets(Len(file))
         /\ Last(brigade[b]).fd \in 1 .. Len(file)
         /\ Last(brigade[b]).start \in Nat /\ Last(brigade[b]).length \in Nat
         /\ Front(brigade[b]) \in Seq(Bucket)
         /\ brigade[b] = Front(brigade[b]) \o <<Last(brigade[b])>>
<1>1. brigade[b] \in Seq(Bucket) /\ Len(file) \in Nat
  BY FilesNat DEF TypeOK
<1>2. Front(brigade[b]) \in Seq(Bucket) /\ Last(brigade[b]) \in Bucket
      /\ brigade[b] = Front(brigade[b]) \o <<Last(brigade[b])>>
  BY <1>1, FrontLast
<1>3. Last(brigade[b]) \in FileBuckets(Len(file))
  BY <1>1, <1>2, BucketFacts DEF OnFile, Bucket
<1> QED
  BY <1>1, <1>2, <1>3, FileBucketFacts

\* The brigade is in its first file: from now on a spool bucket, its only one,
\* and the only one on that file.
LEMMA FinishOutKeeps == ASSUME IInv, FinishOut PROVE IInv'
<1>0. TypeOK /\ OneOwner(brigade, taken) /\ BoundedMemory(brigade) /\ CallOK
  BY DEF IInv
<1>1. call.phase = "out" /\ call # Idle
  <2>1. call.phase = "out" /\ Idle.phase = "idle"
    BY DEF FinishOut, Finished, Idle
  <2> QED
    BY <2>1
<1>2. /\ Len(file) \in Nat /\ call.to \in Brigades /\ call.fd \in 1 .. Len(file)
      /\ call.wlen \in Nat /\ call.in \in InTypeOn(Len(file)) /\ call.in.bb \in Seq(BucketsOn(Len(file)))
  BY <1>0, <1>1, CallFacts, FilesNat DEF TypeOK, Bucket
<1> DEFINE one == SpoolBucket(call.fd, 0, SizeT(call.wlen))
<1>3. one \in BucketsOn(Len(file)) /\ one.type = "spool" /\ one.fd = call.fd
  <2>1. SizeT(call.wlen) \in Nat
    BY <1>2, SizeTNat, call.wlen \in Int
  <2> QED
    BY <1>2, <2>1 DEF SpoolBucket, BucketsOn, FileBuckets
<1>4. brigade' = [brigade EXCEPT ![call.to] = <<one>>]
  BY DEF FinishOut
<1> HIDE DEF one
<1>5. PICK s \in Seq(BucketsOn(Len(file))) :
         s = <<one>> /\ Spools(s) = {call.fd} /\ OneSpool(s) /\ ~HasMem(s)
  BY <1>2, <1>3, SpoolAlone
<1>6. brigade \in [Brigades -> Seq(BucketsOn(Len(file)))]
  BY <1>0 DEF TypeOK, Bucket
<1>7. /\ brigade' \in [Brigades -> Seq(BucketsOn(Len(file)))]
      /\ \A b \in Brigades : brigade'[b] = IF b = call.to THEN s ELSE brigade[b]
  BY <1>2, <1>4, <1>5, <1>6
<1>8. UNCHANGED <<file, taken, made, held, takenHeld>>
  BY DEF FinishOut
<1>9. call' \in CallTypeOn(Len(file)) \cup {Idle}
  <2>1. CASE call.more
    <3>1. call' = Start("in", call.to, call.fd, Cut(call.in.bb), call.in, TRUE)
      BY <2>1 DEF FinishOut
    <3>2. Cut(call.in.bb) \in Seq(BucketsOn(Len(file)))
      BY <1>2, CutType
    <3> QED
      BY <1>2, <3>1, <3>2, StartType
  <2>2. CASE ~call.more
    BY <2>2 DEF FinishOut
  <2> QED
    BY <2>1, <2>2
<1>10. TypeOK'
  <2>1. file' \in FileType /\ Len(file) <= Len(file') /\ Len(file') = Len(file)
    BY <1>0, <1>2, <1>8 DEF TypeOK
  <2>2. brigade' \in [Brigades -> Seq(Bucket)]
    BY <1>7 DEF Bucket
  <2> QED
    BY <1>0, <1>8, <1>9, <2>1, <2>2, TypeAgain DEF TypeOK
<1>11. CallOK'
  <2>1. CASE call.more
    <3>1. call' = Start("in", call.to, call.fd, Cut(call.in.bb), call.in, TRUE)
      BY <2>1 DEF FinishOut
    <3>2. Cut(call.in.bb) \in Seq(BucketsOn(Len(file)))
      BY <1>2, CutType
    <3>3. call'.phase = "in" /\ call'.to = call.to /\ call'.fd = call.fd /\ call'.in = call.in
      <4>1. PICK bb \in Seq(BucketsOn(Len(file))), in \in InTypeOn(Len(file)) :
               bb = Cut(call.in.bb) /\ in = call.in
        BY <1>2, <3>2
      <4>2. call' = Start("in", call.to, call.fd, bb, in, TRUE)
        BY <3>1, <4>1
      <4> QED
        BY <4>1, <4>2 DEF Start
    <3>4. brigade'[call.to] = <<one>> /\ <<one>> # << >> /\ Last(<<one>>) = one
      BY <1>2, <1>5, <1>7 DEF Last
    <3>5. call.in.from # call.to
      BY <1>0, <1>1 DEF CallOK
    <3> QED
      BY <1>3, <3>3, <3>4, <3>5 DEF CallOK
  <2>2. CASE ~call.more
    BY <2>2 DEF FinishOut, CallOK
  <2> QED
    BY <2>1, <2>2
<1>12. BoundedMemory(brigade')
  BY <1>0, <1>5, <1>7 DEF BoundedMemory
<1>13. OneOwner(brigade', taken')
  <2>1. /\ \A b \in Brigades : call.fd \notin Spools(brigade[b])
        /\ \A t \in DOMAIN taken : call.fd \notin Spools(taken[t])
    BY <1>0, <1>1 DEF CallOK
  <2>2. \A b \in Brigades : OneSpool(brigade'[b])
    BY <1>0, <1>5, <1>7 DEF OneOwner
  <2>3. ASSUME NEW b \in Brigades, NEW c \in Brigades, b # c
        PROVE  Spools(brigade'[b]) \cap Spools(brigade'[c]) = {}
    <3>1. Spools(brigade[b]) \cap Spools(brigade[c]) = {}
      BY <1>0, <2>3 DEF OneOwner
    <3>2. CASE b = call.to
      <4>1. brigade'[b] = s /\ brigade'[c] = brigade[c]
        BY <1>7, <2>3, <3>2
      <4> QED
        BY <1>5, <2>1, <4>1
    <3>3. CASE c = call.to
      <4>1. brigade'[c] = s /\ brigade'[b] = brigade[b]
        BY <1>7, <2>3, <3>3
      <4> QED
        BY <1>5, <2>1, <4>1
    <3>4. CASE b # call.to /\ c # call.to
      BY <1>7, <3>1, <3>4
    <3> QED
      BY <3>2, <3>3, <3>4
  <2>4. ASSUME NEW b \in Brigades, NEW t \in DOMAIN taken
        PROVE  Spools(brigade'[b]) \cap Spools(taken[t]) = {}
    BY <1>0, <1>5, <1>7, <2>1, <2>4 DEF OneOwner
  <2> QED
    BY <1>0, <1>8, <2>2, <2>3, <2>4 DEF OneOwner
<1> QED
  BY <1>10, <1>11, <1>12, <1>13 DEF IInv

\* The input is in the file: the spool bucket has grown, and is still the only
\* one on it.
LEMMA FinishInKeeps == ASSUME IInv, FinishIn PROVE IInv'
<1>0. TypeOK /\ CallOK
  BY DEF IInv
<1>1. call.phase = "in" /\ call # Idle
  <2>1. call.phase = "in" /\ Idle.phase = "idle"
    BY DEF FinishIn, Finished, Idle
  <2> QED
    BY <2>1
<1>2. /\ Len(file) \in Nat /\ call.to \in Brigades /\ call.fd \in 1 .. Len(file)
      /\ call.wlen \in Nat /\ call.in.bb \in Seq(Bucket)
  BY <1>0, <1>1, CallFacts, FilesNat DEF TypeOK
<1> DEFINE n == Len(file)
           bb == brigade[call.to]
           tail == IF EndsWith(call.in.bb, "eos") THEN <<EosBucket>> ELSE << >>
           x == (Front(bb) \o Extended(Last(bb), call.wlen)) \o tail
<1>3. PICK p \in Seq(BucketsOn(n)), e \in FileBuckets(n) :
         /\ p = Front(bb) /\ e = Last(bb) /\ e.type = "spool" /\ bb = p \o <<e>>
         /\ e \in BucketsOn(n)
  <2>1. bb # << >> /\ Last(bb).type = "spool"
    BY <1>0, <1>1 DEF CallOK
  <2>2. Last(bb) \in FileBuckets(n) /\ Front(bb) \in Seq(BucketsOn(n)) /\ bb = Front(bb) \o <<Last(bb)>>
    BY <1>0, <1>2, <2>1, LastSpool DEF Bucket
  <2> QED
    BY <2>1, <2>2 DEF BucketsOn
<1>4. PICK q \in Seq(BucketsOn(n)), u \in Seq(BucketsOn(n)) :
         q = Extended(e, call.wlen) /\ u = <<e>> /\ Lighter(q, u)
  <2>1. Extended(e, call.wlen) \in Seq(BucketsOn(n)) /\ Lighter(Extended(e, call.wlen), <<e>>)
    BY <1>2, <1>3, ExtendedType
  <2>2. <<e>> \in Seq(BucketsOn(n))
    BY <1>3
  <2> QED
    BY <2>1, <2>2
<1>5. PICK z \in Seq(BucketsOn(n)) : z = tail /\ Lighter(z, << >>)
  <2>1. tail \in Seq(BucketsOn(n)) /\ ~HasMem(tail) /\ Spools(tail) = {} /\ OneSpool(tail)
    <3>1. CASE EndsWith(call.in.bb, "eos")
      <4>1. tail = <<EosBucket>> /\ EosBucket \in BucketsOn(n) /\ EosBucket.type = "eos"
        BY <3>1 DEF BucketsOn, EosBucket
      <4>2. <<EosBucket>> \in Seq(BucketsOn(n))
        BY <4>1
      <4> HIDE DEF tail
      <4>3. Spools(<<EosBucket>>) = {} /\ OneSpool(<<EosBucket>>) /\ ~HasMem(<<EosBucket>>)
        BY <4>1, SpoolsOne
      <4> QED
        BY <4>1, <4>2, <4>3
    <3>2. CASE ~EndsWith(call.in.bb, "eos")
      <4>1. tail = << >> /\ << >> \in Seq(BucketsOn(n))
        BY <3>2
      <4> HIDE DEF tail
      <4> QED
        BY <4>1, SpoolsEmpty
    <3> QED
      BY <3>1, <3>2
  <2>2. Lighter(tail, << >>)
    <3> HIDE DEF tail
    <3>1. << >> \in Seq(BucketsOn(n)) /\ n \in Nat
      BY <1>2
    <3> QED
      BY <2>1, <3>1, LighterOnFile
  <2> QED
    BY <2>1, <2>2
<1>6. PICK pq \in Seq(BucketsOn(n)), pqz \in Seq(BucketsOn(n)) : pq = p \o q /\ pqz = pq \o z
  BY ZenonT(40), ConcatProperties
<1>7. x = pqz
  BY ZenonT(40), <1>3, <1>4, <1>5, <1>6
<1>8. bb = p \o u /\ bb \in Seq(BucketsOn(n))
  BY <1>0, <1>2, <1>3, <1>4 DEF TypeOK, Bucket
<1> HIDE DEF x, bb, tail
<1>9. Lighter(x, bb)
  <2>1. Lighter(pq, bb)
    <3>1. Lighter(p, p)
      BY <1>2, LighterRefl
    <3> QED
      BY <1>2, <1>4, <1>6, <1>8, <3>1, LighterConcat
  <2>2. << >> \in Seq(BucketsOn(n))
    OBVIOUS
  <2>3. Lighter(pqz, bb \o << >>)
    BY <1>2, <1>5, <1>6, <1>8, <2>1, <2>2, LighterConcat
  <2>4. bb \o << >> = bb
    BY <1>8
  <2> QED
    BY <1>7, <2>3, <2>4
<1>10. PICK in : in = call.in
  OBVIOUS
<1>11. /\ brigade' = [Emptied(brigade, in) EXCEPT ![call.to] = x]
       /\ held' = [Emptied(held, in) EXCEPT ![call.to] = @ \o Content(in.bb)]
  BY <1>10 DEF FinishIn, x, bb, tail
<1>12. /\ Emptied(brigade, in) \in [Brigades -> Seq(BucketsOn(n))]
       /\ \A b \in Brigades : Emptied(brigade, in)[b] = IF b = in.from THEN << >> ELSE brigade[b]
  <2>1. PICK S : S = BucketsOn(n)
    OBVIOUS
  <2>2. brigade \in [Brigades -> Seq(S)]
    BY <1>0, <2>1 DEF TypeOK, Bucket
  <2>3. /\ Emptied(brigade, in) \in [Brigades -> Seq(S)]
        /\ \A b \in Brigades : Emptied(brigade, in)[b] = IF b = in.from THEN << >> ELSE brigade[b]
    <3>1. PICK fs \in [Brigades -> Seq(S)] : fs = brigade
      BY <2>2
    <3>2. /\ Emptied(fs, in) \in [Brigades -> Seq(S)]
          /\ \A b \in Brigades : Emptied(fs, in)[b] = IF b = in.from THEN << >> ELSE fs[b]
      BY DEF Emptied
    <3> QED
      BY <3>1, <3>2
  <2> QED
    BY <2>1, <2>3
<1>13. /\ brigade' \in [Brigades -> Seq(BucketsOn(n))]
       /\ \A b \in Brigades : b # call.to => brigade'[b] \in {<< >>, brigade[b]}
       /\ brigade'[call.to] = x
  BY <1>2, <1>6, <1>7, <1>11, <1>12
<1>14. held' \in [Brigades -> Seq(Int)]
  <2>1. Emptied(held, in) \in [Brigades -> Seq(Int)]
    BY <1>0, EmptiedType DEF TypeOK
  <2>2. Content(in.bb) \in Seq(Int)
    BY <1>0, <1>2, <1>10, ContentFacts DEF TypeOK
  <2>3. Emptied(held, in)[call.to] \in Seq(Int)
    BY <1>2, <2>1
  <2>4. Emptied(held, in)[call.to] \o Content(in.bb) \in Seq(Int)
    BY <2>2, <2>3, ConcatProperties
  <2> QED
    BY <1>11, <2>1, <2>4
<1>15. UNCHANGED <<file, taken, made, takenHeld>> /\ call' = Idle
  BY DEF FinishIn
<1>16. TypeOK'
  <2>1. file' \in FileType /\ Len(file) <= Len(file')
    BY <1>0, <1>2, <1>15 DEF TypeOK
  <2>2. brigade' \in [Brigades -> Seq(Bucket)]
    BY <1>13 DEF Bucket
  <2> QED
    BY <1>0, <1>14, <1>15, <2>1, <2>2, TypeAgain DEF TypeOK
<1>17. ASSUME NEW b \in Brigades PROVE Lighter(brigade'[b], brigade[b])
  <2>1. CASE b = call.to
    BY <1>9, <1>13, <2>1 DEF bb
  <2>2. CASE b # call.to
    <3>1. brigade[b] \in Seq(BucketsOn(n))
      BY <1>0 DEF TypeOK, Bucket
    <3> QED
      BY <1>2, <1>13, <2>2, <3>1, LighterEmpty, LighterRefl
  <2> QED
    BY <2>1, <2>2
<1>18. CallOK'
  BY <1>15 DEF CallOK
<1> QED
  BY <1>13, <1>15, <1>16, <1>17, <1>18, LessBrigades DEF SpoolsLess, Bucket

(* The beginning of a concatenation. *)

\* What a concatenation to a brigade is given: another brigade, or new data.
InputOK(to, in) ==
    /\ in \in InTypeOn(Len(file)) /\ in.from # to
    /\ IF in.from \in Brigades THEN in.bb = brigade[in.from]
       ELSE Spools(in.bb) = {} /\ OneSpool(in.bb)

\* A brigade is about to go to a new file, on which nobody has a bucket.
LEMMA ToNewFileKeeps ==
  ASSUME IInv, call = Idle, NEW to \in Brigades, NEW in \in InTypeOn(Len(file)), in.from # to,
         NEW more \in BOOLEAN, ConcatToNewFile(to, in, more), made' \in Nat
  PROVE  IInv'
<1>0. TypeOK /\ Len(file) \in Nat /\ file \in FileType
  BY FilesNat DEF IInv, TypeOK
<1>1. /\ file' = Append(file, [data |-> << >>, at |-> 0])
      /\ call' = Start("out", to, Len(file) + 1, brigade[to], in, more)
      /\ UNCHANGED <<brigade, taken, held, takenHeld>>
  BY DEF ConcatToNewFile
<1>2. file' \in FileType /\ Len(file') = Len(file) + 1
  <2>1. [data |-> << >>, at |-> 0] \in [data : Seq(Int), at : Nat]
    OBVIOUS
  <2> QED
    BY <1>0, <1>1, <2>1, AppendProperties DEF FileType
<1>3. PICK n \in Nat : n = Len(file) /\ n + 1 = Len(file')
  BY <1>0, <1>2
<1>4. PICK bb \in Seq(BucketsOn(n + 1)), i \in InTypeOn(n + 1) : bb = brigade[to] /\ i = in
  <2>1. n + 1 \in Nat /\ n <= n + 1
    OBVIOUS
  <2>2. Seq(BucketsOn(n)) \subseteq Seq(BucketsOn(n + 1)) /\ InTypeOn(n) \subseteq InTypeOn(n + 1)
    BY <2>1, TypeGrows
  <2>3. brigade[to] \in Seq(BucketsOn(n)) /\ in \in InTypeOn(n)
    BY <1>0, <1>3 DEF TypeOK, Bucket
  <2> QED
    BY <2>2, <2>3
<1>5. call' = Start("out", to, n + 1, bb, i, more)
  BY <1>1, <1>3, <1>4
<1>6. call' \in CallTypeOn(n + 1)
  <2>1. n + 1 \in 1 .. n + 1 /\ n + 1 \in Nat
    OBVIOUS
  <2> QED
    BY <1>5, <2>1, StartType
<1>7. call'.phase = "out" /\ call'.fd = n + 1 /\ call'.in = in /\ call'.to = to
  BY <1>4, <1>5 DEF Start
<1>8. TypeOK'
  <2>1. Len(file) <= Len(file')
    BY <1>3
  <2> QED
    BY <1>0, <1>1, <1>2, <1>3, <1>6, <2>1, TypeAgain DEF TypeOK
<1>9. CallOK'
  <2>1. ASSUME NEW b \in Brigades PROVE n + 1 \notin Spools(brigade[b])
    <3>1. brigade[b] \in Seq(BucketsOn(n))
      BY <1>0, <1>3 DEF TypeOK, Bucket
    <3>2. Spools(brigade[b]) \subseteq 1 .. n
      BY <3>1, SpoolsRange
    <3> QED
      BY <3>2
  <2>2. ASSUME NEW t \in DOMAIN taken PROVE n + 1 \notin Spools(taken[t])
    <3>1. taken[t] \in Seq(BucketsOn(n))
      BY <1>0, <1>3, ElementOfSeq, LenProperties DEF TypeOK, Bucket
    <3>2. Spools(taken[t]) \subseteq 1 .. n
      BY <3>1, SpoolsRange
    <3> QED
      BY <3>2
  <2> QED
    BY <1>1, <1>7, <2>1, <2>2 DEF CallOK
<1> QED
  BY <1>1, <1>8, <1>9, SameBrigades

\* The descriptor is put behind the spool bucket.
LEMMA SeekType ==
  ASSUME TypeOK, NEW to \in Brigades, EndsWith(brigade[to], "spool")
  PROVE  LET fs == [file EXCEPT ![Last(brigade[to]).fd].at = SpoolEnd(Last(brigade[to]))]
         IN  fs \in FileType /\ Len(fs) = Len(file)
<1>1. /\ Last(brigade[to]).fd \in 1 .. Len(file)
      /\ Last(brigade[to]).start \in Nat /\ Last(brigade[to]).length \in Nat
  BY LastSpool DEF EndsWith
<1>2. PICK f \in 1 .. Len(file), k \in Nat : f = Last(brigade[to]).fd /\ k = SpoolEnd(Last(brigade[to]))
  BY <1>1 DEF SpoolEnd
<1>3. file[f] \in [data : Seq(Int), at : Nat] /\ file \in FileType
  BY FileAt DEF TypeOK
<1>4. PICK x \in [data : Seq(Int), at : Nat] : x = [file[f] EXCEPT !.at = k]
  BY <1>3
<1>5. [file EXCEPT ![f].at = k] = [file EXCEPT ![f] = x]
  BY <1>4
<1>6. [file EXCEPT ![f] = x] \in FileType /\ Len([file EXCEPT ![f] = x]) = Len(file)
  BY <1>3, PutFile
<1> QED
  BY <1>2, <1>5, <1>6

\* The input is about to be written behind the spool bucket.
LEMMA ToSpoolKeeps ==
  ASSUME IInv, call = Idle, NEW to \in Brigades, NEW in \in InTypeOn(Len(file)), in.from # to,
         EndsWith(brigade[to], "spool"), ConcatToSpool(to, in), made' \in Nat
  PROVE  IInv'
<1>0. TypeOK /\ Len(file) \in Nat
  BY FilesNat DEF IInv, TypeOK
<1>1. file' \in FileType /\ Len(file') = Len(file)
  BY <1>0, SeekType DEF ConcatToSpool
<1>2. UNCHANGED <<brigade, taken, held, takenHeld>>
  BY DEF ConcatToSpool
<1>3. PICK f \in 1 .. Len(file), bb \in Seq(BucketsOn(Len(file))) :
         f = Last(brigade[to]).fd /\ bb = Cut(in.bb)
  <2>1. Last(brigade[to]).fd \in 1 .. Len(file)
    BY <1>0, LastSpool DEF EndsWith
  <2>2. Cut(in.bb) \in Seq(BucketsOn(Len(file)))
    BY <1>0, CutType DEF InTypeOn
  <2> QED
    BY <2>1, <2>2
<1>4. call' = Start("in", to, f, bb, in, TRUE)
  BY <1>3 DEF ConcatToSpool
<1>5. call' \in CallTypeOn(Len(file))
  BY <1>0, <1>4, StartType
<1>6. call'.phase = "in" /\ call'.to = to /\ call'.fd = f /\ call'.in = in
  BY <1>4 DEF Start
<1>7. TypeOK'
  <2>1. Len(file) <= Len(file')
    BY <1>0, <1>1
  <2> QED
    BY <1>0, <1>1, <1>2, <1>5, <2>1, TypeAgain DEF TypeOK
<1>8. CallOK'
  BY <1>2, <1>3, <1>6 DEF CallOK, EndsWith
<1> QED
  BY <1>2, <1>7, <1>8, SameBrigades

\* Both together are below the limit: the brigades are put together in memory.
\* The spool buckets of the input move to the brigade, and their old one is
\* empty.
LEMMA InMemoryKeeps ==
  ASSUME IInv, call = Idle, NEW to \in Brigades, NEW in, InputOK(to, in),
         FitsInMemory(to, in), ConcatInMemory(to, in), made' \in Nat
  PROVE  IInv'
<1>0. TypeOK /\ Len(file) \in Nat /\ OneOwner(brigade, taken) /\ BoundedMemory(brigade)
  BY FilesNat DEF IInv, TypeOK
<1>1. PICK n \in Nat : n = Len(file)
  BY <1>0
<1>2. /\ brigade \in [Brigades -> Seq(BucketsOn(n))] /\ in.bb \in Seq(BucketsOn(n))
      /\ in.from # to /\ held \in [Brigades -> Seq(Int)]
      /\ IF in.from \in Brigades THEN in.bb = brigade[in.from]
         ELSE Spools(in.bb) = {} /\ OneSpool(in.bb)
  BY <1>0, <1>1 DEF InputOK, InTypeOn, TypeOK, Bucket
<1>3. PICK a \in Seq(BucketsOn(n)), i \in Seq(BucketsOn(n)) : a = brigade[to] /\ i = in.bb
  BY <1>2
<1>4. PICK x \in Seq(BucketsOn(n)) : x = a \o i
  BY ConcatProperties
<1>5. brigade' = [Emptied(brigade, in) EXCEPT ![to] = x]
  <2>1. Emptied(brigade, in)[to] = a
    BY <1>2, <1>3 DEF Emptied
  <2> QED
    BY <1>3, <1>4, <2>1 DEF ConcatInMemory
<1>6. Emptied(brigade, in) = [b \in Brigades |-> IF b = in.from THEN << >> ELSE brigade[b]]
  BY <1>2 DEF Emptied
<1>7. /\ brigade' \in [Brigades -> Seq(BucketsOn(n))] /\ brigade'[to] = x
      /\ \A b \in Brigades : b # to => brigade'[b] = IF b = in.from THEN << >> ELSE brigade[b]
  <2>1. << >> \in Seq(BucketsOn(n))
    OBVIOUS
  <2> QED
    BY <1>2, <1>5, <1>6, <2>1
<1>8. /\ Spools(x) = Spools(a) \cup Spools(i)
      /\ OneSpool(x) <=> OneSpool(a) /\ OneSpool(i) /\ Spools(a) \cap Spools(i) = {}
  BY <1>4, SpoolsConcat
<1>9. UNCHANGED <<file, taken, call, takenHeld>>
  BY DEF ConcatInMemory
<1>10. held' \in [Brigades -> Seq(Int)]
  <2>1. Content(i) \in Seq(Int)
    BY <1>0, <1>1, ContentFacts DEF TypeOK, Bucket
  <2>2. Emptied(held, in) \in [Brigades -> Seq(Int)]
    BY <1>2, EmptiedType
  <2>3. Emptied(held, in)[to] \in Seq(Int)
    BY <2>2
  <2>4. Emptied(held, in)[to] \o Content(i) \in Seq(Int)
    BY <2>1, <2>3, ConcatProperties
  <2>5. held' = [Emptied(held, in) EXCEPT ![to] = Emptied(held, in)[to] \o Content(i)]
    BY <1>3 DEF ConcatInMemory
  <2> QED
    BY <2>2, <2>4, <2>5
<1>11. TypeOK'
  <2>1. brigade' \in [Brigades -> Seq(Bucket)] /\ Len(file) <= Len(file')
    BY <1>0, <1>1, <1>7, <1>9 DEF Bucket
  <2>2. call' \in CallTypeOn(Len(file')) \cup {Idle}
    BY <1>9
  <2> QED
    BY <1>0, <1>9, <1>10, <2>1, <2>2, TypeAgain DEF TypeOK
<1>12. CallOK'
  BY <1>9 DEF CallOK
<1>13. BoundedMemory(brigade')
  <2>1. InMemory(x) < HeapLimit
    <3>1. Length(a) + Length(i) < HeapLimit
      BY <1>3 DEF FitsInMemory
    <3>2. /\ InMemory(a) \in Nat /\ InMemory(a) <= Length(a) /\ InMemory(i) \in Nat /\ InMemory(i) <= Length(i)
          /\ InMemory(x) = InMemory(a) + InMemory(i) /\ Length(a) \in Nat /\ Length(i) \in Nat
      BY <1>4, InMemoryFacts, LengthFacts
    <3> QED
      BY <3>1, <3>2, SizeAssumption
  <2>2. ASSUME NEW b \in Brigades, b # to, HasMem(brigade'[b]) PROVE InMemory(brigade'[b]) < HeapLimit
    <3>1. brigade'[b] = brigade[b]
      BY <1>7, <2>2, SpoolsEmpty
    <3> QED
      BY <1>0, <2>2, <3>1 DEF BoundedMemory
  <2> QED
    BY <1>7, <2>1, <2>2 DEF BoundedMemory
<1>14. OneOwner(brigade', taken')
  <2>1. OneSpool(x)
    <3>1. CASE in.from \in Brigades
      BY <1>0, <1>2, <1>3, <1>8, <3>1 DEF OneOwner
    <3>2. CASE in.from \notin Brigades
      BY <1>0, <1>2, <1>3, <1>8, <3>2 DEF OneOwner
    <3> QED
      BY <3>1, <3>2
  <2>2. ASSUME NEW b \in Brigades, b # to PROVE OneSpool(brigade'[b]) /\ Spools(brigade'[b]) \subseteq Spools(brigade[b])
    BY <1>0, <1>7, <2>2, SpoolsEmpty DEF OneOwner
  <2>3. ASSUME NEW b \in Brigades, b # to PROVE Spools(x) \cap Spools(brigade'[b]) = {}
    <3>1. Spools(a) \cap Spools(brigade'[b]) = {}
      BY <1>0, <1>3, <2>2, <2>3 DEF OneOwner
    <3>2. Spools(i) \cap Spools(brigade'[b]) = {}
      <4>1. CASE in.from \notin Brigades
        BY <1>2, <1>3, <4>1
      <4>2. CASE in.from \in Brigades /\ b = in.from
        BY <1>7, <2>3, <4>2, SpoolsEmpty
      <4>3. CASE in.from \in Brigades /\ b # in.from
        BY <1>0, <1>2, <1>3, <2>2, <2>3, <4>3 DEF OneOwner
      <4> QED
        BY <4>1, <4>2, <4>3
    <3> QED
      BY <1>8, <3>1, <3>2
  <2>4. ASSUME NEW b \in Brigades, NEW c \in Brigades, b # c
        PROVE  Spools(brigade'[b]) \cap Spools(brigade'[c]) = {}
    <3>1. CASE b = to
      BY <1>7, <2>3, <2>4, <3>1
    <3>2. CASE c = to
      BY <1>7, <2>3, <2>4, <3>2
    <3>3. CASE b # to /\ c # to
      <4>1. Spools(brigade[b]) \cap Spools(brigade[c]) = {}
        BY <1>0, <2>4 DEF OneOwner
      <4> QED
        BY <2>2, <3>3, <4>1
    <3> QED
      BY <3>1, <3>2, <3>3
  <2>5. ASSUME NEW b \in Brigades, NEW t \in DOMAIN taken PROVE Spools(brigade'[b]) \cap Spools(taken[t]) = {}
    <3>1. CASE b # to
      <4>1. Spools(brigade[b]) \cap Spools(taken[t]) = {}
        BY <1>0 DEF OneOwner
      <4> QED
        BY <2>2, <3>1, <4>1
    <3>2. CASE b = to
      <4>1. Spools(a) \cap Spools(taken[t]) = {}
        BY <1>0, <1>3 DEF OneOwner
      <4>2. Spools(i) \cap Spools(taken[t]) = {}
        BY <1>0, <1>2, <1>3 DEF OneOwner
      <4> QED
        BY <1>7, <1>8, <3>2, <4>1, <4>2
    <3> QED
      BY <3>1, <3>2
  <2>6. \A b \in Brigades : OneSpool(brigade'[b])
    BY <1>7, <2>1, <2>2
  <2> QED
    BY <1>0, <1>9, <2>4, <2>5, <2>6 DEF OneOwner
<1> QED
  BY <1>11, <1>12, <1>13, <1>14 DEF IInv

\* A concatenation of either input, whichever way it goes.
LEMMA ConcatInputKeeps ==
  ASSUME IInv, call = Idle, NEW to \in Brigades, NEW in, InputOK(to, in), ConcatInput(to, in), made' \in Nat
  PROVE  IInv'
<1>1. in \in InTypeOn(Len(file)) /\ in.from # to
  BY DEF InputOK
<1>2. CASE FitsInMemory(to, in)
  BY <1>2, InMemoryKeeps DEF ConcatInput
<1>3. CASE ~FitsInMemory(to, in) /\ EndsWith(brigade[to], "spool")
  BY <1>1, <1>3, ToSpoolKeeps DEF ConcatInput
<1>4. CASE ~FitsInMemory(to, in) /\ ~EndsWith(brigade[to], "spool")
  BY <1>1, <1>4, ToNewFileKeeps DEF ConcatInput
<1> QED
  BY <1>2, <1>3, <1>4

\* A concatenation of new data.
LEMMA ConcatKeeps == ASSUME IInv, NEW to \in Brigades, Concat(to) PROVE IInv'
<1>0. TypeOK /\ Len(file) \in Nat /\ made \in Nat /\ call = Idle
  BY FilesNat DEF IInv, TypeOK, Concat
<1>1. PICK input \in Inputs :
        /\ made' = made + Total(input.lengths)
        /\ ConcatInput(to, [bb |-> NewBuckets(input), from |-> "new", known |-> input.known])
  BY DEF Concat
<1>2. input \in InputType /\ input.lengths \in Seq(Nat) /\ input.known \in BOOLEAN
  BY SizeAssumption DEF InputType
<1>3. made' \in Nat
  BY <1>0, <1>1, <1>2, TotalNat
<1>4. PICK bb \in Seq(BucketsOn(Len(file))) :
        bb = NewBuckets(input) /\ Spools(bb) = {} /\ OneSpool(bb)
  BY <1>0, <1>2, NewBucketsType
<1>5. PICK in : in = [bb |-> bb, from |-> "new", known |-> input.known]
  OBVIOUS
<1>6. in.bb = bb /\ in.from = "new" /\ in \in InTypeOn(Len(file))
  BY <1>2, <1>5 DEF InTypeOn
<1>7. InputOK(to, in)
  BY <1>4, <1>6, SizeAssumption DEF InputOK
<1>8. ConcatInput(to, in)
  BY <1>1, <1>4, <1>5
<1> QED
  BY <1>0, <1>3, <1>7, <1>8, ConcatInputKeeps

\* A concatenation of another brigade.
LEMMA ConcatBrigadeKeeps ==
  ASSUME IInv, NEW to \in Brigades, NEW from \in Brigades, ConcatBrigade(to, from) PROVE IInv'
<1>0. TypeOK /\ made' \in Nat /\ call = Idle /\ from # to
  BY DEF IInv, TypeOK, ConcatBrigade
<1>1. PICK in : in = [bb |-> brigade[from], from |-> from, known |-> TRUE]
  OBVIOUS
<1>2. ConcatInput(to, in)
  BY <1>1 DEF ConcatBrigade
<1>3. in.from = from /\ in.bb = brigade[from] /\ in \in InTypeOn(Len(file))
  BY <1>0, <1>1 DEF InTypeOn, TypeOK, Bucket
<1>4. InputOK(to, in)
  BY <1>0, <1>3 DEF InputOK
<1> QED
  BY <1>0, <1>2, <1>4, ConcatInputKeeps

\* A brigade that is spooled.
LEMMA SpoolSelfKeeps == ASSUME IInv, NEW to \in Brigades, SpoolSelf(to) PROVE IInv'
<1>0. TypeOK /\ made' = made /\ made' \in Nat /\ call = Idle /\ Len(file) \in Nat
  BY FilesNat DEF IInv, TypeOK, SpoolSelf
<1>1. CASE EndsWith(brigade[to], "spool")
  <2>1. file' \in FileType /\ Len(file') = Len(file)
    BY <1>0, <1>1, SeekType DEF SpoolSelf
  <2>2. UNCHANGED <<brigade, taken, call, held, takenHeld>>
    BY <1>1 DEF SpoolSelf
  <2>3. TypeOK'
    <3>1. Len(file) <= Len(file') /\ call' \in CallTypeOn(Len(file')) \cup {Idle}
      BY <1>0, <2>1, <2>2
    <3> QED
      BY <1>0, <2>1, <2>2, <3>1, TypeAgain DEF TypeOK
  <2>4. CallOK'
    BY <1>0, <2>2 DEF CallOK
  <2> QED
    BY <2>2, <2>3, <2>4, SameBrigades
<1>2. CASE ~EndsWith(brigade[to], "spool")
  <2>1. PICK in : in = [bb |-> << >>, from |-> "new", known |-> TRUE]
    OBVIOUS
  <2>2. in \in InTypeOn(Len(file)) /\ in.from # to
    <3>1. << >> \in Seq(BucketsOn(Len(file)))
      OBVIOUS
    <3> QED
      BY <2>1, <3>1, SizeAssumption DEF InTypeOn
  <2>3. ConcatToNewFile(to, in, FALSE)
    BY <1>2, <2>1 DEF SpoolSelf
  <2> QED
    BY <1>0, <2>2, <2>3, ToNewFileKeeps
<1> QED
  BY <1>1, <1>2

\* A copy has no spool bucket.
LEMMA CopyKeeps ==
  ASSUME IInv, NEW from \in Brigades, NEW to \in Brigades, Copy(from, to) PROVE IInv'
<1>0. TypeOK /\ Len(file) \in Nat /\ OneOwner(brigade, taken) /\ BoundedMemory(brigade)
  BY FilesNat DEF IInv, TypeOK
<1>1. PICK n \in Nat : n = Len(file)
  BY <1>0
<1>2. brigade \in [Brigades -> Seq(BucketsOn(n))]
  BY <1>0, <1>1 DEF TypeOK, Bucket
<1>3. PICK a \in Seq(BucketsOn(n)) : a = brigade[from]
  BY <1>2
<1>4. PICK x \in Seq(BucketsOn(n)) :
        /\ x = CopyAll(a) /\ Spools(x) = {} /\ OneSpool(x)
        /\ InMemory(x) = InMemory(a) /\ (HasMem(x) <=> HasMem(a))
  BY CopyType
<1>5. brigade' = [brigade EXCEPT ![to] = x]
  BY <1>3, <1>4 DEF Copy, CopyAll
<1>6. /\ brigade' \in [Brigades -> Seq(BucketsOn(n))]
      /\ \A b \in Brigades : brigade'[b] = IF b = to THEN x ELSE brigade[b]
  BY <1>2, <1>5
<1>7. held' = [held EXCEPT ![to] = held[from]] /\ UNCHANGED <<file, taken, call, made, takenHeld>> /\ call = Idle
  BY DEF Copy
<1>8. held' \in [Brigades -> Seq(Int)]
  BY <1>0, <1>7 DEF TypeOK
<1>9. TypeOK'
  <2>1. brigade' \in [Brigades -> Seq(Bucket)] /\ Len(file) <= Len(file')
        /\ call' \in CallTypeOn(Len(file')) \cup {Idle}
    BY <1>0, <1>1, <1>6, <1>7 DEF Bucket
  <2> QED
    BY <1>0, <1>7, <1>8, <2>1, TypeAgain DEF TypeOK
<1>10. CallOK'
  BY <1>7 DEF CallOK
<1>11. BoundedMemory(brigade')
  BY <1>0, <1>3, <1>4, <1>6 DEF BoundedMemory
<1>12. OneOwner(brigade', taken')
  <2>1. ASSUME NEW b \in Brigades
        PROVE  OneSpool(brigade'[b]) /\ Spools(brigade'[b]) \subseteq Spools(brigade[b])
    BY <1>0, <1>4, <1>6 DEF OneOwner
  <2>2. \A b \in Brigades : SpoolsLess(brigade'[b], brigade[b])
    BY <2>1 DEF SpoolsLess
  <2>3. \A t \in DOMAIN taken : SpoolsLess(taken'[t], taken[t])
    BY <1>7 DEF SpoolsLess
  <2> QED
    BY <1>0, <1>7, <2>2, <2>3, OwnersLess
<1> QED
  BY <1>9, <1>10, <1>11, <1>12 DEF IInv

\* What is taken from the front is taken with its spool buckets, and a bucket
\* that is split leaves its spool bucket at the back.
LEMMA TakeKeeps ==
  ASSUME IInv, NEW from \in Brigades, NEW k \in Nat, Take(from, k) PROVE IInv'
<1>0. TypeOK /\ Len(file) \in Nat /\ OneOwner(brigade, taken) /\ BoundedMemory(brigade) /\ file \in FileType
  BY FilesNat DEF IInv, TypeOK
<1>1. PICK n \in Nat : n = Len(file)
  BY <1>0
<1>2. brigade \in [Brigades -> Seq(BucketsOn(n))] /\ taken \in Seq(Seq(BucketsOn(n)))
  BY <1>0, <1>1 DEF TypeOK, Bucket
<1>3. PICK a \in Seq(BucketsOn(n)) : a = brigade[from]
  BY <1>2
<1>4. PICK x \in Seq(BucketsOn(n)), y \in Seq(BucketsOn(n)) :
        Front_(a, k) = <<x, y>> /\ Lighter(x \o y, a)
  BY FrontLighter
<1>5. /\ brigade' = [brigade EXCEPT ![from] = y]
      /\ held' = [held EXCEPT ![from] = SubSeq(held[from], Len(Content(x)) + 1, Len(held[from]))]
      /\ taken' = Append(taken, x)
      /\ takenHeld' = Append(takenHeld, Content(x))
      /\ UNCHANGED <<file, call, made>> /\ call = Idle
  BY <1>3, <1>4 DEF Take
<1>6. /\ brigade' \in [Brigades -> Seq(BucketsOn(n))]
      /\ \A b \in Brigades : brigade'[b] = IF b = from THEN y ELSE brigade[b]
  BY <1>2, <1>5
<1>7. PICK m \in Nat : m = Len(taken) /\ DOMAIN taken = 1 .. m
  BY <1>2, LenProperties
<1>8. /\ taken' \in Seq(Seq(BucketsOn(n))) /\ DOMAIN taken' = 1 .. m + 1
      /\ taken'[m + 1] = x /\ \A t \in 1 .. m : taken'[t] = taken[t]
  BY <1>2, <1>5, <1>7, AppendProperties, LenProperties
<1>9. Content(x) \in Seq(Int) /\ Len(Content(x)) \in Nat
  BY <1>0, <1>1, ContentFacts, LenProperties DEF Bucket
<1>10. held' \in [Brigades -> Seq(Int)] /\ takenHeld' \in Seq(Seq(Int))
  <2>1. PICK h \in Seq(Int) : h = held[from]
    BY <1>0 DEF TypeOK
  <2>2. SubSeq(h, Len(Content(x)) + 1, Len(h)) \in Seq(Int)
    <3>1. Len(Content(x)) + 1 \in Nat \ {0} /\ Len(h) \in Int /\ Len(h) <= Len(h)
      BY <1>9, LenProperties
    <3> QED
      BY <3>1, SubSeqType
  <2>3. held' \in [Brigades -> Seq(Int)]
    BY <1>0, <1>5, <2>1, <2>2 DEF TypeOK
  <2>4. takenHeld' \in Seq(Seq(Int))
    BY <1>0, <1>5, <1>9, AppendProperties DEF TypeOK
  <2> QED
    BY <2>3, <2>4
<1>11. TypeOK'
  <2>1. brigade' \in [Brigades -> Seq(Bucket)] /\ taken' \in Seq(Seq(Bucket)) /\ Len(file) <= Len(file')
        /\ call' \in CallTypeOn(Len(file')) \cup {Idle}
    BY <1>0, <1>1, <1>5, <1>6, <1>8 DEF Bucket
  <2> QED
    BY <1>0, <1>5, <1>10, <2>1, TypeAgain DEF TypeOK
<1>12. CallOK'
  BY <1>5 DEF CallOK
<1>13. /\ Spools(x) \subseteq Spools(a) /\ Spools(y) \subseteq Spools(a)
       /\ OneSpool(x) /\ OneSpool(y) /\ Spools(x) \cap Spools(y) = {}
       /\ InMemory(y) <= InMemory(a) /\ (HasMem(y) => HasMem(a))
  <2>1. PICK xy \in Seq(BucketsOn(n)) : xy = x \o y
    BY ConcatProperties
  <2>2. /\ Spools(xy) = Spools(x) \cup Spools(y)
        /\ OneSpool(xy) <=> OneSpool(x) /\ OneSpool(y) /\ Spools(x) \cap Spools(y) = {}
        /\ HasMem(xy) <=> HasMem(x) \/ HasMem(y)
    BY <2>1, SpoolsConcat
  <2>3. /\ InMemory(xy) = InMemory(x) + InMemory(y)
        /\ InMemory(x) \in Nat /\ InMemory(y) \in Nat /\ InMemory(a) \in Nat
    BY <2>1, InMemoryFacts
  <2>4. /\ Spools(xy) \subseteq Spools(a) /\ OneSpool(xy)
        /\ InMemory(xy) <= InMemory(a) /\ (HasMem(xy) => HasMem(a))
    <3>1. OneSpool(a)
      BY <1>0, <1>3 DEF OneOwner
    <3> QED
      BY <1>4, <2>1, <3>1 DEF Lighter
  <2>5. InMemory(y) <= InMemory(a)
    BY <2>3, <2>4
  <2> QED
    BY <2>2, <2>4, <2>5
<1>14. BoundedMemory(brigade')
  <2>1. HasMem(y) => InMemory(y) < HeapLimit
    <3>1. HasMem(a) => InMemory(a) < HeapLimit
      BY <1>0, <1>3 DEF BoundedMemory
    <3>2. InMemory(y) \in Nat /\ InMemory(a) \in Nat
      BY InMemoryFacts
    <3> QED
      BY <1>13, <3>1, <3>2, SizeAssumption
  <2> QED
    BY <1>0, <1>6, <2>1 DEF BoundedMemory
<1>15. OneOwner(brigade', taken')
  <2>1. ASSUME NEW b \in Brigades
        PROVE  OneSpool(brigade'[b]) /\ Spools(brigade'[b]) \subseteq Spools(brigade[b])
    BY <1>0, <1>3, <1>6, <1>13 DEF OneOwner
  <2>2. ASSUME NEW b \in Brigades PROVE Spools(brigade'[b]) \cap Spools(x) = {}
    <3>1. CASE b = from
      BY <1>6, <1>13, <3>1
    <3>2. CASE b # from
      <4>1. Spools(brigade[b]) \cap Spools(a) = {}
        BY <1>0, <1>3, <3>2 DEF OneOwner
      <4> QED
        BY <1>13, <2>1, <4>1
    <3> QED
      BY <3>1, <3>2
  <2>3. ASSUME NEW t \in 1 .. m PROVE Spools(taken[t]) \cap Spools(x) = {}
    <3>1. Spools(a) \cap Spools(taken[t]) = {}
      BY <1>0, <1>3, <1>7 DEF OneOwner
    <3> QED
      BY <1>13, <3>1
  <2>4. ASSUME NEW b \in Brigades, NEW c \in Brigades, b # c
        PROVE  Spools(brigade'[b]) \cap Spools(brigade'[c]) = {}
    <3>1. Spools(brigade[b]) \cap Spools(brigade[c]) = {}
      BY <1>0, <2>4 DEF OneOwner
    <3> QED
      BY <2>1, <3>1
  <2>5. \A t \in 1 .. m + 1 : t \in 1 .. m \/ t = m + 1
    OBVIOUS
  <2>6. ASSUME NEW t \in DOMAIN taken' PROVE OneSpool(taken'[t])
    <3>1. CASE t \in 1 .. m
      BY <1>0, <1>7, <1>8, <3>1 DEF OneOwner
    <3>2. CASE t = m + 1
      BY <1>8, <1>13, <3>2
    <3> QED
      BY <1>8, <2>5, <3>1, <3>2
  <2>7. ASSUME NEW t \in DOMAIN taken', NEW u \in DOMAIN taken', t # u
        PROVE  Spools(taken'[t]) \cap Spools(taken'[u]) = {}
    <3>1. CASE t \in 1 .. m /\ u \in 1 .. m
      BY <1>0, <1>7, <1>8, <2>7, <3>1 DEF OneOwner
    <3>2. CASE t \in 1 .. m /\ u = m + 1
      BY <1>8, <2>3, <3>2
    <3>3. CASE t = m + 1 /\ u \in 1 .. m
      BY <1>8, <2>3, <3>3
    <3> QED
      BY <1>8, <2>5, <2>7, <3>1, <3>2, <3>3
  <2>8. ASSUME NEW b \in Brigades, NEW t \in DOMAIN taken' PROVE Spools(brigade'[b]) \cap Spools(taken'[t]) = {}
    <3>1. CASE t \in 1 .. m
      <4>1. Spools(brigade[b]) \cap Spools(taken[t]) = {}
        BY <1>0, <1>7, <3>1 DEF OneOwner
      <4> QED
        BY <1>8, <2>1, <3>1, <4>1
    <3>2. CASE t = m + 1
      BY <1>8, <2>2, <3>2
    <3> QED
      BY <1>8, <2>5, <3>1, <3>2
  <2> QED
    BY <2>1, <2>4, <2>6, <2>7, <2>8 DEF OneOwner
<1> QED
  BY <1>11, <1>12, <1>14, <1>15 DEF IInv

\* A read moves the descriptor of the file.
LEMMA ReadAtType ==
  ASSUME TypeOK, NEW bb \in Seq(Bucket), NEW i \in DOMAIN bb, ReadAt(bb, i)
  PROVE  /\ file' \in FileType /\ Len(file') = Len(file)
         /\ call = Idle /\ OnFile(bb[i])
<1>1. call = Idle /\ OnFile(bb[i])
  BY DEF ReadAt
<1>2. PICK e \in FileBuckets(Len(file)) : e = bb[i]
  <2>1. bb[i] \in BucketsOn(Len(file)) /\ Len(file) \in Nat
    BY FilesNat, ElementOfSeq, LenProperties DEF TypeOK, Bucket
  <2>2. bb[i] \in FileBuckets(Len(file))
    BY <1>1, <2>1, BucketFacts
  <2> QED
    BY <2>2
<1>3. e.fd \in 1 .. Len(file) /\ e.start \in Nat /\ e.length \in Nat
  BY FileBucketFacts, FilesNat DEF TypeOK
<1>4. PICK k \in Nat : k = e.start + Least(e.length, ReadSize)
  <2>1. e.length \in Int /\ ReadSize \in Int /\ ReadSize \in Nat
    BY <1>3, SizeAssumption
  <2>2. Least(e.length, ReadSize) \in {e.length, ReadSize}
    BY <2>1, LeastFacts
  <2> QED
    BY <1>3, <2>1, <2>2
<1>5. file[e.fd] \in [data : Seq(Int), at : Nat] /\ file \in FileType
  BY <1>3, FileAt DEF TypeOK
<1>6. PICK x \in [data : Seq(Int), at : Nat] : x = [file[e.fd] EXCEPT !.at = k]
  BY <1>5
<1>7. file' = [file EXCEPT ![e.fd] = x]
  BY <1>2, <1>4, <1>6 DEF ReadAt
<1> QED
  BY <1>1, <1>3, <1>5, <1>7, PutFile

\* A bucket of a brigade is read.
LEMMA ReadKeeps ==
  ASSUME IInv, NEW b \in Brigades, NEW i \in DOMAIN brigade[b], Read(b, i) PROVE IInv'
<1>0. TypeOK /\ Len(file) \in Nat /\ file \in FileType /\ brigade \in [Brigades -> Seq(Bucket)]
  BY FilesNat DEF IInv, TypeOK
<1>1. PICK bb \in Seq(Bucket) : bb = brigade[b]
  BY <1>0
<1>2. /\ file' \in FileType /\ Len(file') = Len(file)
      /\ call = Idle /\ OnFile(bb[i])
  BY <1>0, <1>1, ReadAtType DEF Read
<1>3. PICK x \in Seq(Bucket) : x = AfterRead(bb, i) /\ Lighter(x, bb)
  BY <1>0, <1>1, <1>2, AfterReadType
<1>4. brigade' = [brigade EXCEPT ![b] = x] /\ UNCHANGED <<taken, call, made, held, takenHeld>>
  BY <1>1, <1>3 DEF Read
<1>5. /\ brigade' \in [Brigades -> Seq(Bucket)]
      /\ \A c \in Brigades : brigade'[c] = IF c = b THEN x ELSE brigade[c]
  BY <1>0, <1>4
<1>6. TypeOK'
  <2>1. Len(file) <= Len(file') /\ call' \in CallTypeOn(Len(file')) \cup {Idle}
    BY <1>0, <1>2, <1>4
  <2> QED
    BY <1>0, <1>2, <1>4, <1>5, <2>1, TypeAgain DEF TypeOK
<1>7. CallOK'
  BY <1>2, <1>4 DEF CallOK
<1>8. ASSUME NEW c \in Brigades PROVE Lighter(brigade'[c], brigade[c])
  <2>1. CASE c = b
    BY <1>1, <1>3, <1>5, <2>1
  <2>2. CASE c # b
    <3>1. brigade[c] \in Seq(BucketsOn(Len(file)))
      BY <1>0 DEF Bucket
    <3> QED
      BY <1>0, <1>5, <2>2, <3>1, LighterRefl
  <2> QED
    BY <2>1, <2>2
<1> QED
  BY <1>4, <1>5, <1>6, <1>7, <1>8, LessBrigades DEF SpoolsLess

\* A bucket of a taken brigade is read.
LEMMA ReadTakenKeeps ==
  ASSUME IInv, NEW t \in DOMAIN taken, NEW i \in DOMAIN taken[t], ReadTaken(t, i) PROVE IInv'
<1>0. TypeOK /\ Len(file) \in Nat /\ file \in FileType /\ brigade \in [Brigades -> Seq(Bucket)]
      /\ taken \in Seq(Seq(Bucket)) /\ t \in 1 .. Len(taken)
  BY FilesNat, LenProperties DEF IInv, TypeOK
<1>1. PICK bb \in Seq(Bucket) : bb = taken[t]
  BY <1>0, ElementOfSeq
<1>2. /\ file' \in FileType /\ Len(file') = Len(file)
      /\ call = Idle /\ OnFile(bb[i])
  BY <1>0, <1>1, ReadAtType DEF ReadTaken
<1>3. PICK x \in Seq(Bucket) : x = AfterRead(bb, i) /\ Lighter(x, bb)
  BY <1>0, <1>1, <1>2, AfterReadType
<1>4. taken' = [taken EXCEPT ![t] = x] /\ UNCHANGED <<brigade, call, made, held, takenHeld>>
  BY <1>1, <1>3 DEF ReadTaken
<1>5. taken' \in Seq(Seq(Bucket)) /\ DOMAIN taken' = DOMAIN taken
      /\ \A u \in DOMAIN taken : taken'[u] = IF u = t THEN x ELSE taken[u]
  <2>1. taken' \in Seq(Seq(Bucket))
    BY <1>0, <1>4, ExceptSeq
  <2> QED
    BY <1>4, <2>1
<1>6. TypeOK'
  <2>1. Len(file) <= Len(file') /\ call' \in CallTypeOn(Len(file')) \cup {Idle}
    BY <1>0, <1>2, <1>4
  <2> QED
    BY <1>0, <1>2, <1>4, <1>5, <2>1, TypeAgain DEF TypeOK
<1>7. CallOK'
  BY <1>2, <1>4 DEF CallOK
<1>8. ASSUME NEW c \in Brigades PROVE Lighter(brigade'[c], brigade[c])
  <2>1. brigade[c] \in Seq(BucketsOn(Len(file)))
    BY <1>0 DEF Bucket
  <2> QED
    BY <1>0, <1>4, <2>1, LighterRefl
<1>9. \A u \in DOMAIN taken : SpoolsLess(taken'[u], taken[u])
  BY <1>1, <1>3, <1>5 DEF SpoolsLess, Lighter
<1> QED
  BY <1>0, <1>4, <1>5, <1>6, <1>7, <1>8, <1>9, LessBrigades

\* Nothing is in memory, in a file or being written.
LEMMA InitIInv == ASSUME Init PROVE IInv
<1>1. TypeOK
  <2>1. << >> \in Seq(Bucket) /\ << >> \in Seq(Int) /\ << >> \in Seq(Seq(Bucket)) /\ << >> \in Seq(Seq(Int))
        /\ << >> \in FileType
    BY DEF FileType
  <2> QED
    BY <2>1 DEF Init, TypeOK
<1>2. \A b \in Brigades : brigade[b] = << >>
  BY DEF Init
<1>3. taken = << >> /\ DOMAIN taken = {} /\ call = Idle
  BY DEF Init
<1>4. OneOwner(brigade, taken) /\ BoundedMemory(brigade)
  BY <1>2, <1>3, SpoolsEmpty DEF OneOwner, BoundedMemory
<1> QED
  BY <1>1, <1>3, <1>4 DEF IInv, CallOK

\* One step per action.
LEMMA StepIInv == ASSUME IInv, [Next]_vars PROVE IInv'
<1>1. CASE Writev
  BY <1>1, WritevKeeps
<1>2. CASE WriteFails
  BY <1>2, WriteFailsKeeps
<1>3. CASE FinishOut
  BY <1>3, FinishOutKeeps
<1>4. CASE FinishIn
  BY <1>4, FinishInKeeps
<1>5. ASSUME NEW b \in Brigades, Concat(b) PROVE IInv'
  BY <1>5, ConcatKeeps
<1>6. ASSUME NEW b \in Brigades, SpoolSelf(b) PROVE IInv'
  BY <1>6, SpoolSelfKeeps
<1>7. ASSUME NEW b \in Brigades, NEW c \in Brigades, ConcatBrigade(b, c) PROVE IInv'
  BY <1>7, ConcatBrigadeKeeps
<1>8. ASSUME NEW b \in Brigades, NEW c \in Brigades, Copy(b, c) PROVE IInv'
  BY <1>8, CopyKeeps
<1>9. ASSUME NEW b \in Brigades, NEW k \in 1 .. MaxBytes, Take(b, k) PROVE IInv'
  BY <1>9, TakeKeeps
<1>10. ASSUME NEW b \in Brigades, NEW i \in DOMAIN brigade[b], Read(b, i) PROVE IInv'
  BY <1>10, ReadKeeps
<1>11. ASSUME NEW t \in DOMAIN taken, NEW i \in DOMAIN taken[t], ReadTaken(t, i) PROVE IInv'
  BY <1>11, ReadTakenKeeps
<1>12. CASE UNCHANGED vars
  <2>1. UNCHANGED <<brigade, file, taken, call, made, held, takenHeld>>
    BY <1>12 DEF vars
  <2>2. TypeOK' /\ CallOK'
    BY <2>1 DEF IInv, TypeOK, CallOK, Bucket, CallType
  <2> QED
    BY <2>1, <2>2, SameBrigades
<1> QED
  BY <1>1, <1>2, <1>3, <1>4, <1>5, <1>6, <1>7, <1>8, <1>9, <1>10, <1>11, <1>12 DEF Next, Step, Use

\* The inductive invariant holds.
LEMMA Invariant == Spec => []IInv
<1>1. Init => IInv
  BY InitIInv
<1>2. IInv /\ [Next]_vars => IInv'
  BY StepIInv
<1> QED
  BY <1>1, <1>2, PTL DEF Spec

\* Through any sequence of concatenations, takings, copies and reads, with writes
\* that stop or fail anywhere: every bucket is of a kind with what that kind has,
\* refers to a file that was made, and a call in progress writes to one.
THEOREM TypeCorrect == Spec => []TypeOK
<1>1. IInv => TypeOK
  BY DEF IInv
<1> QED
  BY <1>1, Invariant, PTL

\* What apreq_brigade_concat leaves of a brigade in memory is below the limit it
\* was given, whatever the limit, the input and the sequence of calls.
THEOREM MemoryIsBounded == Spec => []MemoryBounded
<1>1. IInv => MemoryBounded
  BY DEF IInv, BoundedMemory, MemoryBounded, HasMem
<1> QED
  BY <1>1, Invariant, PTL

------------------------------------------------------------------------------

\* A set no two of whose members differ has one at most.
LEMMA AtMostOne ==
  ASSUME NEW S, \A x, y \in S : x = y
  PROVE  S = {} \/ \E x : S = {x}
OBVIOUS

\* One owner at most means one spool bucket at most, counted.
LEMMA SoleWriterHolds == IInv => SoleWriter
<1> SUFFICES ASSUME IInv, NEW f \in DOMAIN file
             PROVE  Cardinality(UNION {{<<b, i>> : i \in SpoolsOn(f, brigade[b])} : b \in Brigades})
                    + Cardinality(UNION {{<<k, i>> : i \in SpoolsOn(f, taken[k])} : k \in DOMAIN taken}) <= 1
  BY DEF SoleWriter
<1> DEFINE S == UNION {{<<b, i>> : i \in SpoolsOn(f, brigade[b])} : b \in Brigades}
           T == UNION {{<<k, i>> : i \in SpoolsOn(f, taken[k])} : k \in DOMAIN taken}
<1>0. OneOwner(brigade, taken)
  BY DEF IInv
<1>1. ASSUME NEW x \in S
      PROVE  \E b \in Brigades : \E i \in DOMAIN brigade[b] :
                x = <<b, i>> /\ brigade[b][i].type = "spool" /\ brigade[b][i].fd = f /\ f \in Spools(brigade[b])
  <2>0. PICK b \in Brigades : x \in {<<b, i>> : i \in SpoolsOn(f, brigade[b])}
    BY <1>1
  <2>1. PICK i \in SpoolsOn(f, brigade[b]) : x = <<b, i>>
    BY <2>0
  <2>2. i \in DOMAIN brigade[b] /\ brigade[b][i].type = "spool" /\ brigade[b][i].fd = f
    BY DEF SpoolsOn
  <2>3. f \in Spools(brigade[b])
    BY <2>2, SpoolsHas
  <2> QED
    BY <2>1, <2>2, <2>3
<1>2. ASSUME NEW x \in T
      PROVE  \E k \in DOMAIN taken : \E i \in DOMAIN taken[k] :
                x = <<k, i>> /\ taken[k][i].type = "spool" /\ taken[k][i].fd = f /\ f \in Spools(taken[k])
  <2>0. PICK k \in DOMAIN taken : x \in {<<k, i>> : i \in SpoolsOn(f, taken[k])}
    BY <1>2
  <2>1. PICK i \in SpoolsOn(f, taken[k]) : x = <<k, i>>
    BY <2>0
  <2>2. i \in DOMAIN taken[k] /\ taken[k][i].type = "spool" /\ taken[k][i].fd = f
    BY DEF SpoolsOn
  <2>3. f \in Spools(taken[k])
    BY <2>2, SpoolsHas
  <2> QED
    BY <2>1, <2>2, <2>3
<1> HIDE DEF S, T
<1>3. ASSUME NEW x \in S, NEW y \in S PROVE x = y
  <2>10. PICK b \in Brigades : \E i \in DOMAIN brigade[b] :
          x = <<b, i>> /\ brigade[b][i].type = "spool" /\ brigade[b][i].fd = f /\ f \in Spools(brigade[b])
    BY <1>1
  <2>1. PICK i \in DOMAIN brigade[b] :
          x = <<b, i>> /\ brigade[b][i].type = "spool" /\ brigade[b][i].fd = f /\ f \in Spools(brigade[b])
    BY <2>10
  <2>20. PICK c \in Brigades : \E j \in DOMAIN brigade[c] :
          y = <<c, j>> /\ brigade[c][j].type = "spool" /\ brigade[c][j].fd = f /\ f \in Spools(brigade[c])
    BY <1>1
  <2>2. PICK j \in DOMAIN brigade[c] :
          y = <<c, j>> /\ brigade[c][j].type = "spool" /\ brigade[c][j].fd = f /\ f \in Spools(brigade[c])
    BY <2>20
  <2>3. b = c
    BY <1>0, <2>1, <2>2 DEF OneOwner
  <2>4. i = j
    BY <1>0, <2>1, <2>2, <2>3 DEF OneOwner, OneSpool
  <2> QED
    BY <2>1, <2>2, <2>3, <2>4
<1>4. ASSUME NEW x \in T, NEW y \in T PROVE x = y
  <2>10. PICK b \in DOMAIN taken : \E i \in DOMAIN taken[b] :
          x = <<b, i>> /\ taken[b][i].type = "spool" /\ taken[b][i].fd = f /\ f \in Spools(taken[b])
    BY <1>2
  <2>1. PICK i \in DOMAIN taken[b] :
          x = <<b, i>> /\ taken[b][i].type = "spool" /\ taken[b][i].fd = f /\ f \in Spools(taken[b])
    BY <2>10
  <2>20. PICK c \in DOMAIN taken : \E j \in DOMAIN taken[c] :
          y = <<c, j>> /\ taken[c][j].type = "spool" /\ taken[c][j].fd = f /\ f \in Spools(taken[c])
    BY <1>2
  <2>2. PICK j \in DOMAIN taken[c] :
          y = <<c, j>> /\ taken[c][j].type = "spool" /\ taken[c][j].fd = f /\ f \in Spools(taken[c])
    BY <2>20
  <2>3. b = c
    BY <1>0, <2>1, <2>2 DEF OneOwner
  <2>4. i = j
    BY <1>0, <2>1, <2>2, <2>3 DEF OneOwner, OneSpool
  <2> QED
    BY <2>1, <2>2, <2>3, <2>4
<1>5. S = {} \/ T = {}
  BY <1>0, <1>1, <1>2 DEF OneOwner
<1>6. S = {} \/ \E x : S = {x}
  BY <1>3, AtMostOne
<1>7. T = {} \/ \E x : T = {x}
  BY <1>4, AtMostOne
<1>8. \A x : Cardinality({x}) = 1
  BY FS_Singleton
<1>9. Cardinality({}) = 0
  BY FS_EmptySet
<1>10. Cardinality(S) = 0 \/ Cardinality(S) = 1
  BY <1>6, <1>8, <1>9
<1>11. Cardinality(T) = 0 \/ Cardinality(T) = 1
  BY <1>7, <1>8, <1>9
<1>12. Cardinality(S) = 0 \/ Cardinality(T) = 0
  BY <1>5, <1>9
<1> QED
  BY <1>10, <1>11, <1>12 DEF S, T

\* A temporary file has one bucket at most that apreq_brigade_concat may write
\* behind, over all brigades and all that was taken from them: what is copied or
\* split off is a plain file bucket, and what is moved leaves its brigade empty.
THEOREM SoleWriterKept == Spec => []SoleWriter
BY SoleWriterHolds, Invariant, PTL

------------------------------------------------------------------------------
(* What the steps do, in terms of what buckets hold and where they end. *)

\* What the inductive invariant says of the types.
LEMMA Typed ==
  ASSUME IInv
  PROVE  /\ TypeOK /\ CallOK /\ Len(file) \in Nat /\ file \in FileType
         /\ brigade \in [Brigades -> Seq(Bucket)] /\ taken \in Seq(Seq(Bucket))
         /\ held \in [Brigades -> Seq(Int)] /\ takenHeld \in Seq(Seq(Int))
         /\ \A b \in Brigades : /\ brigade[b] \in Seq(Bucket)
                                /\ brigade[b] \in Seq(BucketsOn(Len(file)))
                                /\ held[b] \in Seq(Int)
BY FilesNat DEF IInv, TypeOK, Bucket

\* What it says of a concatenation in progress.
LEMMA Calling ==
  ASSUME IInv, call.phase \in {"out", "in"}
  PROVE  /\ call # Idle /\ call \in CallType /\ call.to \in Brigades /\ call.fd \in 1 .. Len(file)
         /\ call.wlen \in Nat /\ call.in.bb \in Seq(Bucket)
         /\ call.in.from \in Brigades \cup {"new"} /\ call.in.from # call.to
         /\ call.rest \in Seq(Bucket) /\ call.v \in Seq(Seq(Int))
<1>1. call # Idle
  BY DEF Idle
<1>2. call \in CallType /\ call.in.from # call.to
  BY <1>1, CallFacts, Typed DEF CallOK
<1>3. call.rest \in Seq(Bucket) /\ call.v \in Seq(Seq(Int))
  BY <1>2 DEF CallType, CallTypeOn, Bucket
<1> QED
  BY <1>1, <1>2, <1>3, CallFacts, Typed

\* What a function on the brigades is when one of them gets a new value, and
\* the one that was the input none.
Moved(fs, gs, to, x, from) ==
    \A b \in Brigades : gs[b] = IF b = to THEN x ELSE IF b = from THEN << >> ELSE fs[b]

\* The input's brigade is emptied, then another one replaced.
LEMMA MovedIs ==
  ASSUME NEW S, NEW fs \in [Brigades -> S], NEW to \in Brigades, NEW x, NEW in, in.from # to
  PROVE  /\ Moved(fs, [Emptied(fs, in) EXCEPT ![to] = x], to, x, in.from)
         /\ Emptied(fs, in)[to] = fs[to]
<1>1. Emptied(fs, in) = [b \in Brigades |-> IF b = in.from THEN << >> ELSE fs[b]]
  BY DEF Emptied
<1> QED
  BY <1>1 DEF Moved

\* The input is in the file: what is in front of the spool bucket stays.
LEMMA FinishInIs ==
  ASSUME IInv, FinishIn
  PROVE  /\ call.phase = "in" /\ call' = Idle /\ UNCHANGED <<file, taken, takenHeld>>
         /\ \E p \in Seq(Bucket), e \in FileBuckets(Len(file)) :
               /\ e.type = "spool" /\ e.fd = call.fd /\ e = Last(brigade[call.to])
               /\ brigade[call.to] = p \o <<e>>
               /\ Moved(brigade, brigade', call.to,
                        p \o Extended(e, call.wlen)
                        \o IF EndsWith(call.in.bb, "eos") THEN <<EosBucket>> ELSE << >>,
                        call.in.from)
               /\ Moved(held, held', call.to, held[call.to] \o Content(call.in.bb), call.in.from)
<1>1. call.phase = "in" /\ call' = Idle /\ UNCHANGED <<file, taken, takenHeld>>
  BY DEF FinishIn, Finished
<1>2. PICK to, in : to \in Brigades /\ to = call.to /\ in = call.in /\ in.from # to
  BY <1>1, Calling
<1>3. Last(brigade[to]) \in FileBuckets(Len(file)) /\ Front(brigade[to]) \in Seq(Bucket)
      /\ brigade[to] = Front(brigade[to]) \o <<Last(brigade[to])>>
      /\ Last(brigade[to]).type = "spool" /\ Last(brigade[to]).fd = call.fd
  BY <1>1, <1>2, Calling, Typed, LastSpool DEF CallOK
<1>4. PICK p \in Seq(Bucket), e \in FileBuckets(Len(file)) :
        p = Front(brigade[to]) /\ e = Last(brigade[to]) /\ brigade[to] = p \o <<e>>
        /\ e.type = "spool" /\ e.fd = call.fd
  BY <1>3
<1>5. PICK x : x = p \o Extended(e, call.wlen)
                   \o IF EndsWith(call.in.bb, "eos") THEN <<EosBucket>> ELSE << >>
  OBVIOUS
<1>6. brigade' = [Emptied(brigade, in) EXCEPT ![to] = x]
  BY <1>2, <1>4, <1>5 DEF FinishIn
<1>7. Moved(brigade, brigade', to, x, in.from)
  <2>1. PICK S, fs : fs = brigade /\ S = Seq(Bucket) /\ fs \in [Brigades -> S]
    BY Typed
  <2>2. Moved(fs, [Emptied(fs, in) EXCEPT ![to] = x], to, x, in.from)
    BY ONLY <1>2, <2>1, MovedIs
  <2> QED
    BY ONLY <1>6, <2>1, <2>2
<1>8. Moved(held, held', to, held[to] \o Content(in.bb), in.from)
  <2>1. PICK S, fs, y : fs = held /\ S = Seq(Int) /\ fs \in [Brigades -> S] /\ y = held[to] \o Content(in.bb)
    BY Typed
  <2>2. /\ Moved(fs, [Emptied(fs, in) EXCEPT ![to] = y], to, y, in.from)
        /\ Emptied(fs, in)[to] = fs[to]
    BY ONLY ZenonT(40), <2>1, <1>2, MovedIs
  <2>3. held' = [Emptied(held, in) EXCEPT ![to] = Emptied(held, in)[to] \o Content(in.bb)]
    BY <1>2 DEF FinishIn
  <2> QED
    BY ONLY <2>1, <2>2, <2>3
<1> QED
  BY <1>1, <1>2, <1>4, <1>5, <1>7, <1>8

\* A concatenation in memory.
LEMMA InMemoryIs ==
  ASSUME IInv, NEW to \in Brigades, NEW in, in.from # to, ConcatInMemory(to, in)
  PROVE  /\ UNCHANGED <<file, taken, call, takenHeld>>
         /\ Moved(brigade, brigade', to, brigade[to] \o in.bb, in.from)
         /\ Moved(held, held', to, held[to] \o Content(in.bb), in.from)
<1>1. Moved(brigade, brigade', to, brigade[to] \o in.bb, in.from)
  <2>1. PICK S, fs, y : fs = brigade /\ S = Seq(Bucket) /\ fs \in [Brigades -> S] /\ y = brigade[to] \o in.bb
    BY Typed
  <2>2. /\ Moved(fs, [Emptied(fs, in) EXCEPT ![to] = y], to, y, in.from)
        /\ Emptied(fs, in)[to] = fs[to]
    BY ONLY <2>1, to \in Brigades, in.from # to, MovedIs
  <2>3. brigade' = [Emptied(brigade, in) EXCEPT ![to] = Emptied(brigade, in)[to] \o in.bb]
    BY DEF ConcatInMemory
  <2> QED
    BY ONLY <2>1, <2>2, <2>3
<1>2. Moved(held, held', to, held[to] \o Content(in.bb), in.from)
  <2>1. PICK S, fs, y : fs = held /\ S = Seq(Int) /\ fs \in [Brigades -> S] /\ y = held[to] \o Content(in.bb)
    BY Typed
  <2>2. /\ Moved(fs, [Emptied(fs, in) EXCEPT ![to] = y], to, y, in.from)
        /\ Emptied(fs, in)[to] = fs[to]
    BY ONLY <2>1, to \in Brigades, in.from # to, MovedIs
  <2>3. held' = [Emptied(held, in) EXCEPT ![to] = Emptied(held, in)[to] \o Content(in.bb)]
    BY DEF ConcatInMemory
  <2> QED
    BY ONLY <2>1, <2>2, <2>3
<1> QED
  BY <1>1, <1>2 DEF ConcatInMemory

\* A call that gave up left every brigade as it was, or empty.
LEMMA FailIs ==
  ASSUME IInv, Fail
  PROVE  /\ call' = Idle /\ taken' = taken /\ takenHeld' = takenHeld
         /\ \A b \in Brigades :
               \/ brigade'[b] = brigade[b] /\ held'[b] = held[b]
               \/ brigade'[b] = << >> /\ held'[b] = << >>
<1>1. CASE call.phase = "in" /\ call.in.from \in Brigades
  <2>1. /\ brigade' = [brigade EXCEPT ![call.in.from] = << >>]
        /\ held' = [held EXCEPT ![call.in.from] = << >>]
    BY <1>1 DEF Fail, Discard
  <2>2. brigade \in [Brigades -> Seq(Bucket)] /\ held \in [Brigades -> Seq(Int)]
    BY Typed
  <2>3. \A b \in Brigades : brigade'[b] = IF b = call.in.from THEN << >> ELSE brigade[b]
    BY ONLY <2>1, <2>2
  <2>4. \A b \in Brigades : held'[b] = IF b = call.in.from THEN << >> ELSE held[b]
    BY ONLY <2>1, <2>2
  <2> QED
    BY <2>3, <2>4 DEF Fail
<1>2. CASE ~(call.phase = "in" /\ call.in.from \in Brigades)
  BY <1>2 DEF Fail, Discard
<1> QED
  BY <1>1, <1>2

\* A write gives up or goes on with what it has left.
LEMMA WritevIs ==
  ASSUME IInv, Writev
  PROVE  /\ call.phase \in {"out", "in"}
         /\ \E len \in 0 .. Len(FlattenSeq(Loaded)) :
               /\ Write(len)
               /\ \/ Fail
                  \/ /\ ~NoProgress(Loaded, len)
                     /\ UNCHANGED <<brigade, taken, made, held, takenHeld>>
                     /\ call'.phase = call.phase /\ call'.to = call.to /\ call'.fd = call.fd
                     /\ call'.in = call.in /\ call'.more = call.more /\ call' # Idle
                     /\ call'.v \in Remaining(Loaded, len)
                     /\ call'.rest = Unloaded /\ call'.wlen = call.wlen + len
<1>1. call.phase \in {"out", "in"}
  BY DEF Writev, Writing
<1>2. PICK len \in 0 .. Len(FlattenSeq(Loaded)) :
        /\ Write(len)
        /\ IF NoProgress(Loaded, len)
           THEN Fail
           ELSE /\ \E v \in Remaining(Loaded, len) :
                     call' = [call EXCEPT !.v = v, !.rest = Unloaded, !.wlen = @ + len,
                                          !.again = len = 0 /\ ~@]
                /\ UNCHANGED <<brigade, taken, made, held, takenHeld>>
  BY DEF Writev
<1>3. CASE NoProgress(Loaded, len)
  BY <1>1, <1>2, <1>3
<1>4. CASE ~NoProgress(Loaded, len)
  <2>1. PICK v, a, w :
          /\ v \in Remaining(Loaded, len)
          /\ a = (len = 0 /\ ~call.again) /\ w = call.wlen + len
          /\ call' = [call EXCEPT !.v = v, !.rest = Unloaded, !.wlen = w, !.again = a]
    BY <1>2, <1>4
  <2>2. call \in CallType
    BY <1>1, Calling
  <2>3. /\ call'.phase = call.phase /\ call'.to = call.to /\ call'.fd = call.fd
        /\ call'.in = call.in /\ call'.more = call.more
        /\ call'.v = v /\ call'.rest = Unloaded /\ call'.wlen = call.wlen + len
    BY <2>1, <2>2 DEF CallType, CallTypeOn
  <2>4. call' # Idle
    BY <1>1, <2>3 DEF Idle
  <2>5. UNCHANGED <<brigade, taken, made, held, takenHeld>>
    BY <1>2, <1>4
  <2>6. call'.v \in Remaining(Loaded, len)
    BY <2>1, <2>3
  <2> QED
    BY <1>1, <1>2, <1>4, <2>3, <2>4, <2>5, <2>6
<1> QED
  BY <1>3, <1>4

\* The brigade went to its file, and becomes one spool bucket.
LEMMA FinishOutIs ==
  ASSUME IInv, FinishOut
  PROVE  /\ call.phase = "out" /\ UNCHANGED <<file, taken, held, takenHeld>>
         /\ \A b \in Brigades :
               brigade'[b] = IF b = call.to THEN <<SpoolBucket(call.fd, 0, SizeT(call.wlen))>>
                             ELSE brigade[b]
         /\ \/ call' = Idle
            \/ call' = Start("in", call.to, call.fd, Cut(call.in.bb), call.in, TRUE)
<1>1. call.phase = "out"
  BY DEF FinishOut, Finished
<1>2. PICK x : x = <<SpoolBucket(call.fd, 0, SizeT(call.wlen))>>
  OBVIOUS
<1>3. brigade' = [brigade EXCEPT ![call.to] = x]
  BY <1>2 DEF FinishOut
<1>4. \A b \in Brigades : brigade'[b] = IF b = call.to THEN x ELSE brigade[b]
  <2>1. brigade \in [Brigades -> Seq(Bucket)]
    BY Typed
  <2> QED
    BY ONLY <1>3, <2>1
<1> QED
  BY <1>1, <1>2, <1>4 DEF FinishOut

\* A copy to a brigade that was empty.
LEMMA CopyIs ==
  ASSUME IInv, NEW from \in Brigades, NEW to \in Brigades, Copy(from, to)
  PROVE  /\ UNCHANGED <<file, taken, call, takenHeld>>
         /\ \A b \in Brigades : brigade'[b] = IF b = to THEN CopyAll(brigade[from]) ELSE brigade[b]
         /\ \A b \in Brigades : held'[b] = IF b = to THEN held[from] ELSE held[b]
<1>1. brigade' = [brigade EXCEPT ![to] = CopyAll(brigade[from])]
  BY DEF Copy, CopyAll
<1>2. held' = [held EXCEPT ![to] = held[from]]
  BY DEF Copy
<1>3. brigade \in [Brigades -> Seq(Bucket)] /\ held \in [Brigades -> Seq(Int)]
  BY Typed
<1>4. \A b \in Brigades : brigade'[b] = IF b = to THEN CopyAll(brigade[from]) ELSE brigade[b]
  BY ONLY <1>1, <1>3
<1>5. \A b \in Brigades : held'[b] = IF b = to THEN held[from] ELSE held[b]
  BY ONLY <1>2, <1>3
<1> QED
  BY <1>4, <1>5 DEF Copy

\* What was taken and what is left hold together what the brigade held.
LEMMA TakeIs ==
  ASSUME IInv, NEW from \in Brigades, NEW k \in Nat, Take(from, k)
  PROVE  /\ UNCHANGED <<file, call>>
         /\ \E x \in Seq(Bucket), y \in Seq(Bucket) :
               /\ Shorter(x, brigade[from]) /\ Shorter(y, brigade[from])
               /\ EosLast(brigade[from]) => EosLast(y)
               /\ Within(file, brigade[from])
                    => ContentIn(file, brigade[from]) = ContentIn(file, x) \o ContentIn(file, y)
               /\ \A b \in Brigades : brigade'[b] = IF b = from THEN y ELSE brigade[b]
               /\ \A b \in Brigades :
                     held'[b] = IF b = from
                                THEN SubSeq(held[from], Len(ContentIn(file, x)) + 1, Len(held[from]))
                                ELSE held[b]
               /\ taken' = Append(taken, x)
               /\ takenHeld' = Append(takenHeld, ContentIn(file, x))
<1>1. file \in FileType /\ brigade[from] \in Seq(BucketsOn(Len(file)))
  BY Typed
<1>2. PICK x \in Seq(Bucket), y \in Seq(Bucket) :
        /\ Front_(brigade[from], k) = <<x, y>>
        /\ Shorter(x, brigade[from]) /\ Shorter(y, brigade[from])
        /\ EosLast(brigade[from]) => EosLast(y)
        /\ Within(file, brigade[from])
             => ContentIn(file, brigade[from]) = ContentIn(file, x) \o ContentIn(file, y)
  BY <1>1, FrontContent DEF Bucket
<1>3. Front_(brigade[from], k)[1] = x /\ Front_(brigade[from], k)[2] = y
  BY <1>2
<1>4. PICK z : z = SubSeq(held[from], Len(ContentIn(file, x)) + 1, Len(held[from]))
  OBVIOUS
<1>5. /\ brigade' = [brigade EXCEPT ![from] = y]
      /\ held' = [held EXCEPT ![from] = z]
      /\ taken' = Append(taken, x) /\ takenHeld' = Append(takenHeld, ContentIn(file, x))
      /\ UNCHANGED <<file, call>>
  BY <1>3, <1>4, ContentNow DEF Take
<1>6. brigade \in [Brigades -> Seq(Bucket)] /\ held \in [Brigades -> Seq(Int)]
  BY Typed
<1>7. \A b \in Brigades : brigade'[b] = IF b = from THEN y ELSE brigade[b]
  BY ONLY <1>5, <1>6
<1>8. \A b \in Brigades : held'[b] = IF b = from THEN z ELSE held[b]
  BY ONLY <1>5, <1>6
<1> QED
  BY <1>2, <1>4, <1>5, <1>7, <1>8

\* What reading a bucket of bb made of bb, and of the files.
ReadOf(bb, cc) ==
    /\ cc \in Seq(Bucket) /\ Shorter(cc, bb)
    /\ EosLast(bb) => EosLast(cc)
    /\ Within(file, bb) => ContentIn(file, cc) = ContentIn(file, bb)

\* A bucket of a brigade was read.
LEMMA ReadIs ==
  ASSUME IInv, NEW b \in Brigades, NEW i \in DOMAIN brigade[b], Read(b, i)
  PROVE  /\ UNCHANGED <<taken, call, held, takenHeld>> /\ call = Idle
         /\ ReadAt(brigade[b], i)
         /\ ReadOf(brigade[b], brigade'[b])
         /\ \A c \in Brigades : c # b => brigade'[c] = brigade[c]
<1>1. OnFile(brigade[b][i]) /\ brigade[b][i].length > 0 /\ call = Idle
  BY DEF Read, ReadAt
<1>2. file \in FileType /\ brigade[b] \in Seq(Bucket)
  BY Typed
<1>3. ReadOf(brigade[b], AfterRead(brigade[b], i))
  BY <1>1, <1>2, AfterReadContent DEF ReadOf
<1>4. PICK y : y = AfterRead(brigade[b], i)
  OBVIOUS
<1>5. brigade' = [brigade EXCEPT ![b] = y]
  BY <1>4 DEF Read
<1>6. brigade \in [Brigades -> Seq(Bucket)]
  BY Typed
<1>7. brigade'[b] = y /\ \A c \in Brigades : c # b => brigade'[c] = brigade[c]
  BY ONLY <1>5, <1>6, b \in Brigades
<1> QED
  BY <1>1, <1>3, <1>4, <1>7 DEF Read

\* A bucket of a taken brigade was read.
LEMMA ReadTakenIs ==
  ASSUME IInv, NEW t \in DOMAIN taken, NEW i \in DOMAIN taken[t], ReadTaken(t, i)
  PROVE  /\ UNCHANGED <<brigade, call, held, takenHeld>> /\ call = Idle
         /\ ReadAt(taken[t], i)
         /\ taken[t] \in Seq(Bucket) /\ ReadOf(taken[t], taken'[t])
         /\ DOMAIN taken' = DOMAIN taken
         /\ \A u \in DOMAIN taken : u # t => taken'[u] = taken[u]
<1>1. OnFile(taken[t][i]) /\ taken[t][i].length > 0 /\ call = Idle
  BY DEF ReadTaken, ReadAt
<1>2. file \in FileType /\ taken[t] \in Seq(Bucket)
  <2>1. taken \in Seq(Seq(Bucket)) /\ file \in FileType
    BY Typed
  <2>2. PICK S : S = Seq(Bucket)
    OBVIOUS
  <2>3. taken \in Seq(S)
    BY <2>1, <2>2
  <2>4. taken[t] \in S
    BY ONLY <2>3, t \in DOMAIN taken
  <2> QED
    BY <2>1, <2>2, <2>4
<1>3. ReadOf(taken[t], AfterRead(taken[t], i))
  BY <1>1, <1>2, AfterReadContent DEF ReadOf
<1>4. PICK y : y = AfterRead(taken[t], i)
  OBVIOUS
<1>5. taken' = [taken EXCEPT ![t] = y]
  BY <1>4 DEF ReadTaken
<1>6. taken'[t] = y /\ DOMAIN taken' = DOMAIN taken
      /\ \A u \in DOMAIN taken : u # t => taken'[u] = taken[u]
  BY ONLY <1>5, t \in DOMAIN taken
<1> QED
  BY <1>1, <1>2, <1>3, <1>4, <1>6 DEF ReadTaken

------------------------------------------------------------------------------
(* The end of the stream. *)

\* The end of the stream is the last bucket of a brigade if any, and not among
\* what is written to a file.
EosInv ==
    /\ \A b \in Brigades : EosLast(brigade[b])
    /\ call # Idle => EosLast(call.in.bb) /\ call.rest \in Seq(NotEos)

\* How a write of a brigade begins: all of it is still to be written.
LEMMA StartIs ==
  ASSUME NEW fs \in FileType, NEW bb \in Seq(BucketsOn(Len(fs))),
         NEW phase, NEW to, NEW f, NEW in, NEW more
  PROVE  LET c == Start(phase, to, f, bb, in, more)
         IN  /\ c.in = in /\ c.rest = Pieces(bb) /\ c.v = << >> /\ c.wlen = 0
             /\ c.phase = phase /\ c.to = to /\ c.fd = f /\ c.more = more
             /\ c.rest \in Seq(BucketsOn(Len(fs)))
             /\ Shorter(c.rest, bb)
             /\ bb \in Seq(NotEos) => c.rest \in Seq(NotEos)
             /\ Within(fs, bb) => ContentIn(fs, c.rest) = ContentIn(fs, bb)
<1>1. Pieces(bb) \in Seq(BucketsOn(Len(fs))) /\ Shorter(Pieces(bb), bb)
      /\ (Within(fs, bb) => ContentIn(fs, Pieces(bb)) = ContentIn(fs, bb))
  BY PiecesFacts
<1>2. bb \in Seq(NotEos) => Pieces(bb) \in Seq(NotEos)
  BY <1>1, InLimits DEF Shorter
<1> QED
  BY <1>1, <1>2 DEF Start

\* A call that gives up moves no end of stream.
LEMMA FailEos == ASSUME IInv, EosInv, Fail PROVE EosInv'
BY FailIs, CutEmpty DEF EosInv

\* What is read for a write is the front of what was to be read.
LEMMA UnloadedIn ==
  ASSUME IInv, call # Idle
  PROVE  /\ call.rest = ToLoad \o Unloaded
         /\ ToLoad \in Seq(Bucket) /\ Unloaded \in Seq(Bucket)
         /\ Len(ToLoad) \in Nat /\ Len(ToLoad) + Len(Unloaded) = Len(call.rest)
         /\ \A S : call.rest \in Seq(S) => ToLoad \in Seq(S) /\ Unloaded \in Seq(S)
<1>1. call \in CallType
  BY CallFacts, Typed
<1>2. call.rest \in Seq(Bucket) /\ call.v \in Seq(Seq(Int))
  BY <1>1 DEF CallType, CallTypeOn, Bucket
<1>3. PICK n \in Nat : n = Len(call.rest)
  BY <1>2
<1>4. NElts - Len(call.v) \in Int
  BY <1>2, SizeAssumption
<1>5. PICK k \in Int : k = Least(NElts - Len(call.v), n)
  BY <1>3, <1>4 DEF Least
<1>6. k <= n
  BY <1>3, <1>4, <1>5 DEF Least
<1>7. PICK m \in 0 .. n : m = IF k < 0 THEN 0 ELSE k
  BY <1>3, <1>6
<1>8. PICK r \in Seq(Bucket) : r = call.rest /\ Len(r) = n
  BY <1>2, <1>3
<1>9. SubSeq(r, 1, k) = SubSeq(r, 1, m) /\ Len(SubSeq(r, 1, m)) = m
  <2>1. CASE k >= 0
    BY ONLY <2>1, <1>5, <1>7, <1>8, <1>3, r \in Seq(Bucket), k \in Int, m \in 0 .. n, n \in Nat
  <2>2. CASE k < 0
    <3>1. SubSeq(r, 1, k) = << >> /\ SubSeq(r, 1, 0) = << >>
      BY <2>2, <1>8
    <3> QED
      BY <3>1, <2>2, <1>7
  <2> QED
    BY <2>1, <2>2
<1>10. ToLoad = SubSeq(r, 1, m) /\ Unloaded = SubSeq(r, m + 1, n)
  BY <1>3, <1>5, <1>8, <1>9 DEF ToLoad, Unloaded
<1>11. PICK B : B = Bucket
  OBVIOUS
<1>12. /\ SubSeq(r, 1, m) \in Seq(B) /\ SubSeq(r, m + 1, n) \in Seq(B)
       /\ r = SubSeq(r, 1, m) \o SubSeq(r, m + 1, n)
       /\ Len(SubSeq(r, 1, m)) = m /\ Len(SubSeq(r, m + 1, n)) = n - m
  <2>1. r \in Seq(B) /\ Len(r) = n /\ n \in Nat /\ m \in 0 .. n
    BY <1>8, <1>11
  <2> QED
    BY ONLY <2>1, InTwo, SubSeqType
<1>13. \A S : r \in Seq(S) => SubSeq(r, 1, m) \in Seq(S) /\ SubSeq(r, m + 1, n) \in Seq(S)
  BY <1>12, ConcatIn
<1>14. call.rest = ToLoad \o Unloaded /\ ToLoad \in Seq(B) /\ Unloaded \in Seq(B)
  BY ONLY <1>8, <1>10, <1>12
<1>15. Len(ToLoad) \in Nat /\ Len(ToLoad) + Len(Unloaded) = Len(call.rest)
  BY ONLY <1>8, <1>10, <1>12, m \in 0 .. n, n \in Nat
<1>16. \A S : call.rest \in Seq(S) => ToLoad \in Seq(S) /\ Unloaded \in Seq(S)
  BY ONLY <1>8, <1>10, <1>13
<1> QED
  BY <1>11, <1>14, <1>15, <1>16

\* A write reads no end of stream.
LEMMA WritevEos == ASSUME IInv, EosInv, Writev PROVE EosInv'
<1>1. call # Idle
  BY WritevIs DEF Idle
<1>2. Unloaded \in Seq(NotEos)
  BY <1>1, UnloadedIn DEF EosInv
<1>3. CASE Fail
  BY <1>3, FailEos
<1>4. CASE UNCHANGED brigade /\ call'.in = call.in /\ call'.rest = Unloaded
  BY <1>1, <1>2, <1>4 DEF EosInv
<1> QED
  BY <1>3, <1>4, WritevIs

\* The brigade that went to its file had none.
LEMMA FinishOutEos == ASSUME IInv, EosInv, FinishOut PROVE EosInv'
<1>1. call.phase = "out" /\ call # Idle
  BY FinishOutIs DEF Idle
<1>2. call.in.bb \in Seq(Bucket) /\ EosLast(call.in.bb) /\ file \in FileType
  BY <1>1, Calling, Typed DEF EosInv
<1>3. EosLast(<<SpoolBucket(call.fd, 0, SizeT(call.wlen))>>)
  <2>1. PICK e : e = SpoolBucket(call.fd, 0, SizeT(call.wlen))
    OBVIOUS
  <2>2. EndsWith(<<e>>, "eos") <=> e.type = "eos"
    BY DEF EndsWith, Last
  <2>3. e.type = "spool" /\ e \in FileBuckets(Len(file))
    <3>1. SizeT(call.wlen) \in Nat
      <4>1. PICK w \in Int : w = call.wlen
        BY <1>1, Calling
      <4> QED
        BY <4>1, SizeTNat
    <3> QED
      BY <2>1, <3>1, <1>1, Calling DEF SpoolBucket, FileBuckets
  <2>4. e \in BucketsOn(Len(file)) /\ e \in NotEos
    BY <2>3, BucketsAny, <1>2, FilesNat DEF BucketsOn, NotEos
  <2>5. <<e>> \in Seq(NotEos) /\ <<e>> \in Seq(BucketsOn(Len(file)))
    BY <2>4, OneIn
  <2> QED
    BY <2>1, <2>5, NotEosLast, FilesNat, <1>2
<1>4. \A b \in Brigades : EosLast(brigade'[b])
  BY <1>3, FinishOutIs DEF EosInv
<1>5. CASE call' = Idle
  BY <1>4, <1>5 DEF EosInv
<1>6. CASE call' = Start("in", call.to, call.fd, Cut(call.in.bb), call.in, TRUE)
  <2>1. Cut(call.in.bb) \in Seq(NotEos)
    BY <1>2, EosLastCut
  <2>2. Cut(call.in.bb) \in Seq(BucketsOn(Len(file)))
    BY <1>2, CutType, FilesNat DEF Bucket
  <2>3. PICK bb \in Seq(BucketsOn(Len(file))) : bb = Cut(call.in.bb)
    BY <2>2
  <2>4. call' = Start("in", call.to, call.fd, bb, call.in, TRUE)
    BY <1>6, <2>3
  <2>5. call'.in = call.in /\ call'.rest = Pieces(bb)
    BY <2>4 DEF Start
  <2>6. Pieces(bb) \in Seq(NotEos)
    BY <1>2, <2>1, <2>3, PiecesFacts, InLimits DEF Shorter
  <2> QED
    BY <1>2, <1>4, <2>5, <2>6 DEF EosInv
<1> QED
  BY <1>5, <1>6, FinishOutIs

\* The end of the input's stream goes behind what was written of it.
LEMMA FinishInEos == ASSUME IInv, EosInv, FinishIn PROVE EosInv'
<1>1. PICK p \in Seq(Bucket), e \in FileBuckets(Len(file)) :
        /\ e.type = "spool" /\ brigade[call.to] = p \o <<e>>
        /\ Moved(brigade, brigade', call.to,
                 p \o Extended(e, call.wlen) \o IF EndsWith(call.in.bb, "eos") THEN <<EosBucket>> ELSE << >>,
                 call.in.from)
        /\ call.phase = "in" /\ call' = Idle
  BY FinishInIs
<1>2. call.to \in Brigades /\ call.wlen \in Nat /\ file \in FileType /\ Len(file) \in Nat
  BY <1>1, Calling, Typed
<1>3. p \in Seq(NotEos)
  <2>1. e \in BucketsOn(Len(file))
    BY DEF BucketsOn
  <2>2. EosLast(p \o <<e>>)
    BY <1>1, <1>2 DEF EosInv
  <2> QED
    BY <1>2, <2>1, <2>2, CutSnoc DEF Bucket
<1>4. PICK x : x = Extended(e, call.wlen)
  OBVIOUS
<1>5. x \in Seq(BucketsOn(Len(file))) /\ x \in Seq(NotEos)
  BY <1>1, <1>2, <1>4, ExtendedNotEos
<1>6. PICK r : r = p \o x
  OBVIOUS
<1>7. r \in Seq(BucketsOn(Len(file))) /\ r \in Seq(NotEos)
  <2>1. p \in Seq(BucketsOn(Len(file)))
    BY DEF Bucket
  <2> QED
    BY <1>3, <1>5, <1>6, <2>1, ConcatIn
<1>8. EosLast(p \o x \o IF EndsWith(call.in.bb, "eos") THEN <<EosBucket>> ELSE << >>)
  <2>1. CASE EndsWith(call.in.bb, "eos")
    <3>1. EosBucket \in BucketsOn(Len(file)) /\ EosBucket.type = "eos"
      BY DEF BucketsOn, EosBucket
    <3>2. EosLast(r \o <<EosBucket>>)
      BY <1>2, <1>7, <3>1, CutSnoc
    <3> QED
      BY <1>6, <2>1, <3>2
  <2>2. CASE ~EndsWith(call.in.bb, "eos")
    <3>1. r \o << >> = r
      BY <1>7
    <3> QED
      BY <1>2, <1>6, <1>7, <2>2, <3>1, NotEosLast
  <2> QED
    BY <2>1, <2>2
<1>9. \A b \in Brigades : EosLast(brigade'[b])
  BY <1>1, <1>4, <1>8, CutEmpty DEF EosInv, Moved
<1> QED
  BY <1>1, <1>9 DEF EosInv

\* What a concatenation is given: new data, on no file, or another brigade,
\* which shares no file with the one it goes to unless SharedInput says so.
Given(to, in) ==
    /\ InputOK(to, in)
    /\ in.from \in Brigades \/ (in.bb \in Seq(BucketsOn(0)) /\ EosLast(in.bb))
    /\ SharedInput \/ Files(in.bb) \cap Files(brigade[to]) = {}

\* A concatenation of new data.
LEMMA ConcatIs ==
  ASSUME IInv, NEW to \in Brigades, Concat(to)
  PROVE  /\ call = Idle /\ ~EndsWith(brigade[to], "eos")
         /\ \E in : Given(to, in) /\ ConcatInput(to, in)
<1>0. TypeOK /\ Len(file) \in Nat /\ made \in Nat /\ call = Idle
  BY FilesNat DEF IInv, TypeOK, Concat
<1>1. PICK input \in Inputs :
        ConcatInput(to, [bb |-> NewBuckets(input), from |-> "new", known |-> input.known])
  BY DEF Concat
<1>2. input \in InputType /\ input.known \in BOOLEAN
  BY SizeAssumption DEF InputType
<1>3. PICK bb \in Seq(BucketsOn(Len(file))) :
        bb = NewBuckets(input) /\ Spools(bb) = {} /\ OneSpool(bb)
  BY <1>0, <1>2, NewBucketsType
<1>4. bb \in Seq(BucketsOn(0)) /\ EosLast(bb)
  BY <1>0, <1>2, <1>3, NewBucketsKept
<1>5. PICK in : in = [bb |-> bb, from |-> "new", known |-> input.known]
  OBVIOUS
<1>6. in.bb = bb /\ in.from = "new" /\ in \in InTypeOn(Len(file))
  BY <1>2, <1>5 DEF InTypeOn
<1>7. InputOK(to, in)
  BY <1>3, <1>6, SizeAssumption DEF InputOK
<1>8. Files(bb) = {}
  <2>1. \A j \in DOMAIN bb : bb[j] \in BucketsOn(0)
    BY <1>4
  <2>2. \A e \in BucketsOn(0) : ~OnFile(e)
    <3>1. \A e \in BucketsOn(0) : OnFile(e) => e \in FileBuckets(0)
      BY BucketFacts
    <3>2. \A e \in FileBuckets(0) : e.fd \in 1 .. 0
      BY DEF FileBuckets
    <3> QED
      BY <3>1, <3>2
  <2> QED
    BY <2>1, <2>2 DEF Files
<1> QED
  BY <1>0, <1>1, <1>3, <1>4, <1>5, <1>6, <1>7, <1>8 DEF Concat, Given

\* A concatenation of another brigade.
LEMMA ConcatBrigadeIs ==
  ASSUME IInv, NEW to \in Brigades, NEW from \in Brigades, ConcatBrigade(to, from)
  PROVE  /\ call = Idle /\ ~EndsWith(brigade[to], "eos")
         /\ \E in : Given(to, in) /\ ConcatInput(to, in)
<1>0. TypeOK /\ call = Idle /\ from # to
  BY DEF IInv, TypeOK, ConcatBrigade
<1>1. PICK in : in = [bb |-> brigade[from], from |-> from, known |-> TRUE]
  OBVIOUS
<1>2. ConcatInput(to, in)
  BY <1>1 DEF ConcatBrigade
<1>3. in.from = from /\ in.bb = brigade[from] /\ in \in InTypeOn(Len(file))
  BY <1>0, <1>1 DEF InTypeOn, TypeOK, Bucket
<1>4. InputOK(to, in)
  BY <1>0, <1>3 DEF InputOK
<1>5. /\ SharedInput \/ Files(brigade[from]) \cap Files(brigade[to]) = {}
      /\ ~EndsWith(brigade[to], "eos")
  BY DEF ConcatBrigade
<1>6. Given(to, in)
  BY <1>3, <1>4, <1>5 DEF Given
<1> QED
  BY <1>0, <1>2, <1>5, <1>6

\* What is given is buckets on the files there are.
LEMMA GivenIs ==
  ASSUME IInv, NEW to \in Brigades, NEW in, Given(to, in)
  PROVE  /\ in.bb \in Seq(Bucket) /\ in.bb \in Seq(BucketsOn(Len(file)))
         /\ in.from # to /\ in.from \in Brigades \cup {"new"}
         /\ in.from \in Brigades => in.bb = brigade[in.from]
         /\ EosInv => EosLast(in.bb)
BY DEF Given, InputOK, InTypeOn, EosInv, Bucket

\* A brigade that does not end in the end of a stream has none.
LEMMA NoEndIn ==
  ASSUME IInv, EosInv, NEW b \in Brigades, ~EndsWith(brigade[b], "eos")
  PROVE  brigade[b] \in Seq(NotEos)
BY EosLastCut DEF EosInv

\* A brigade goes to a new file: it has no end of stream.
LEMMA ToNewFileEos ==
  ASSUME IInv, EosInv, NEW to \in Brigades, ~EndsWith(brigade[to], "eos"),
         NEW in, EosLast(in.bb), NEW more, ConcatToNewFile(to, in, more)
  PROVE  EosInv'
<1>1. file \in FileType /\ brigade[to] \in Seq(BucketsOn(Len(file)))
  BY Typed
<1>2. PICK bb \in Seq(BucketsOn(Len(file))) : bb = brigade[to] /\ bb \in Seq(NotEos)
  BY <1>1, NoEndIn
<1>3. Pieces(bb) \in Seq(NotEos)
  BY <1>1, <1>2, PiecesFacts, InLimits DEF Shorter
<1>4. call'.in = in /\ call'.rest = Pieces(bb)
  BY <1>2 DEF ConcatToNewFile, Start
<1> QED
  BY <1>3, <1>4 DEF ConcatToNewFile, EosInv

\* An input goes behind the spool bucket: without its end of stream.
LEMMA ToSpoolEos ==
  ASSUME IInv, EosInv, NEW to \in Brigades, NEW in, Given(to, in), ConcatToSpool(to, in)
  PROVE  EosInv'
<1>1. file \in FileType /\ Len(file) \in Nat /\ in.bb \in Seq(BucketsOn(Len(file))) /\ EosLast(in.bb)
  BY Typed, GivenIs
<1>2. PICK bb \in Seq(BucketsOn(Len(file))) : bb = Cut(in.bb) /\ bb \in Seq(NotEos)
  BY <1>1, CutType, EosLastCut
<1>3. Pieces(bb) \in Seq(NotEos)
  BY <1>1, <1>2, PiecesFacts, InLimits DEF Shorter
<1>4. call'.in = in /\ call'.rest = Pieces(bb)
  BY <1>2 DEF ConcatToSpool, Start
<1> QED
  BY <1>1, <1>3, <1>4 DEF ConcatToSpool, EosInv

\* Two brigades in memory: the first has no end of stream.
LEMMA InMemoryEos ==
  ASSUME IInv, EosInv, call = Idle, NEW to \in Brigades, ~EndsWith(brigade[to], "eos"),
         NEW in, Given(to, in), ConcatInMemory(to, in)
  PROVE  EosInv'
<1>1. in.from # to /\ EosLast(in.bb)
  BY GivenIs
<1>2. Moved(brigade, brigade', to, brigade[to] \o in.bb, in.from) /\ call' = call
  BY <1>1, InMemoryIs
<1>3. PICK n, p, q :
        n \in Nat /\ p \in Seq(BucketsOn(n)) /\ q \in Seq(BucketsOn(n))
        /\ p = brigade[to] /\ q = in.bb /\ p \in Seq(NotEos) /\ EosLast(p) /\ EosLast(q)
  <2>1. /\ Len(file) \in Nat /\ brigade[to] \in Seq(BucketsOn(Len(file)))
        /\ in.bb \in Seq(BucketsOn(Len(file)))
        /\ brigade[to] \in Seq(NotEos) /\ EosLast(brigade[to])
    BY Typed, GivenIs, NoEndIn DEF EosInv
  <2> QED
    BY <1>1, <2>1
<1>4. EosLast(p \o q)
  <2>1. CASE q = << >>
    <3>1. p \o << >> = p
      OBVIOUS
    <3> QED
      BY <1>3, <2>1, <3>1
  <2>2. CASE q # << >>
    BY <1>3, <2>2, CutConcat
  <2> QED
    BY <2>1, <2>2
<1>5. \A b \in Brigades : EosLast(brigade'[b])
  BY <1>2, <1>3, <1>4, CutEmpty DEF Moved, EosInv
<1> QED
  BY <1>2, <1>5 DEF EosInv

\* A concatenation of either input, whichever way it goes.
LEMMA ConcatInputEos ==
  ASSUME IInv, EosInv, call = Idle, NEW to \in Brigades, ~EndsWith(brigade[to], "eos"),
         NEW in, Given(to, in), ConcatInput(to, in)
  PROVE  EosInv'
<1>1. CASE FitsInMemory(to, in)
  BY <1>1, InMemoryEos DEF ConcatInput
<1>2. CASE ~FitsInMemory(to, in) /\ EndsWith(brigade[to], "spool")
  BY <1>2, ToSpoolEos DEF ConcatInput
<1>3. CASE ~FitsInMemory(to, in) /\ ~EndsWith(brigade[to], "spool")
  BY <1>3, GivenIs, ToNewFileEos DEF ConcatInput
<1> QED
  BY <1>1, <1>2, <1>3

\* A brigade that is spooled has no end of stream.
LEMMA SpoolSelfEos == ASSUME IInv, EosInv, NEW to \in Brigades, SpoolSelf(to) PROVE EosInv'
<1>1. CASE EndsWith(brigade[to], "spool")
  BY <1>1 DEF SpoolSelf, EosInv
<1>2. CASE ~EndsWith(brigade[to], "spool")
  <2>1. PICK in : in = [bb |-> << >>, from |-> "new", known |-> TRUE]
    OBVIOUS
  <2>2. ConcatToNewFile(to, in, FALSE) /\ ~EndsWith(brigade[to], "eos")
    BY <1>2, <2>1 DEF SpoolSelf
  <2>3. in.bb = << >>
    BY <2>1
  <2> QED
    BY <2>2, <2>3, CutEmpty, ToNewFileEos
<1> QED
  BY <1>1, <1>2

\* A copy ends as what it was copied from.
LEMMA CopyEos ==
  ASSUME IInv, EosInv, NEW from \in Brigades, NEW to \in Brigades, Copy(from, to)
  PROVE  EosInv'
<1>1. EosLast(CopyAll(brigade[from]))
  BY Typed, CopyEosLast DEF EosInv
<1> QED
  BY <1>1, CopyIs DEF EosInv

\* What is left in the brigade ends as it did.
LEMMA TakeEos ==
  ASSUME IInv, EosInv, NEW from \in Brigades, NEW k \in Nat, Take(from, k)
  PROVE  EosInv'
<1>1. PICK y \in Seq(Bucket) :
        /\ EosLast(brigade[from]) => EosLast(y)
        /\ \A b \in Brigades : brigade'[b] = IF b = from THEN y ELSE brigade[b]
        /\ call' = call
  BY TakeIs
<1> QED
  BY <1>1 DEF EosInv

\* A read replaces no end of stream.
LEMMA ReadEos ==
  ASSUME IInv, EosInv, NEW b \in Brigades, NEW i \in DOMAIN brigade[b], Read(b, i)
  PROVE  EosInv'
<1>1. /\ call' = call /\ EosLast(brigade[b]) => EosLast(brigade'[b])
      /\ \A c \in Brigades : c # b => brigade'[c] = brigade[c]
  BY ReadIs DEF ReadOf
<1> QED
  BY <1>1, ReadIs DEF EosInv, ReadOf

\* One step per action.
LEMMA StepEos == ASSUME IInv, EosInv, [Next]_vars PROVE EosInv'
<1>1. CASE Writev
  BY <1>1, WritevEos
<1>2. CASE WriteFails
  BY <1>2, FailEos DEF WriteFails
<1>3. CASE FinishOut
  BY <1>3, FinishOutEos
<1>4. CASE FinishIn
  BY <1>4, FinishInEos
<1>5. ASSUME NEW b \in Brigades, Concat(b) PROVE EosInv'
  BY <1>5, ConcatIs, ConcatInputEos
<1>6. ASSUME NEW b \in Brigades, SpoolSelf(b) PROVE EosInv'
  BY <1>6, SpoolSelfEos
<1>7. ASSUME NEW b \in Brigades, NEW c \in Brigades, ConcatBrigade(b, c) PROVE EosInv'
  BY <1>7, ConcatBrigadeIs, ConcatInputEos
<1>8. ASSUME NEW b \in Brigades, NEW c \in Brigades, Copy(b, c) PROVE EosInv'
  BY <1>8, CopyEos
<1>9. ASSUME NEW b \in Brigades, NEW k \in 1 .. MaxBytes, Take(b, k) PROVE EosInv'
  <2>1. k \in Nat
    BY SizeAssumption
  <2> QED
    BY <1>9, <2>1, TakeEos
<1>10. ASSUME NEW b \in Brigades, NEW i \in DOMAIN brigade[b], Read(b, i) PROVE EosInv'
  BY <1>10, ReadEos
<1>11. ASSUME NEW t \in DOMAIN taken, NEW i \in DOMAIN taken[t], ReadTaken(t, i) PROVE EosInv'
  BY <1>11, ReadTakenIs DEF EosInv
<1>12. CASE UNCHANGED vars
  BY <1>12 DEF vars, EosInv
<1> QED
  BY <1>1, <1>2, <1>3, <1>4, <1>5, <1>6, <1>7, <1>8, <1>9, <1>10, <1>11, <1>12 DEF Next, Step, Use

\* The end of every stream is where it belongs, always.
LEMMA EosInvariant == Spec => []EosInv
<1>1. Init => EosInv
  BY CutEmpty DEF Init, EosInv
<1>2. IInv /\ EosInv /\ [Next]_vars => EosInv'
  BY StepEos
<1> QED
  BY <1>1, <1>2, Invariant, PTL DEF Spec

------------------------------------------------------------------------------
(* A concatenation returns. *)

\* What is in the iovec array is sequences of bytes.
LEMMA LoadedNow ==
  ASSUME IInv, call # Idle
  PROVE  Loaded \in Seq(Seq(Int)) /\ TypeOK /\ call \in CallType
BY LoadType, CallFacts, Typed

\* Fewer bytes, or fewer iovecs, are less to write.
LEMMA LessLeft ==
  ASSUME NEW x \in Nat, NEW y \in Nat, NEW u \in Nat, NEW len \in Nat,
         NEW m \in Nat, NEW k \in Nat, NEW p \in Nat, NEW q \in Nat, NEW r \in Nat, NEW s \in Nat,
         y = x + r, m <= p, u # 0 \/ len # 0
  PROVE  ((k + m) - len) + (y - u) + q + s < k + x + (p + q) + (r + s)
BY SMT

\* A write that makes progress leaves less to write.
LEMMA WritevAdvances ==
  ASSUME IInv, EosInv, Writev, call' # Idle
  PROVE  call'.phase = call.phase /\ Left(call') < Left(call)
<1>1. call # Idle /\ call.phase \in {"out", "in"}
  BY WritevIs DEF Idle
<1>2. PICK len \in 0 .. Len(FlattenSeq(Loaded)) :
        /\ ~NoProgress(Loaded, len)
        /\ call'.phase = call.phase
        /\ call'.v \in Remaining(Loaded, len)
        /\ call'.rest = Unloaded
  BY WritevIs DEF Fail
<1>3. PICK v \in Seq(Seq(Int)) : v = Loaded
  BY <1>1, LoadedNow
<1>4. len \in 0 .. Len(FlattenSeq(v)) /\ call'.v \in Remaining(v, len)
  BY <1>2, <1>3
<1>5. PICK w : w = call'.v /\ w \in Remaining(v, len)
  BY <1>4
<1>6. /\ w \in Seq(Seq(Int)) /\ Len(w) = Len(v) - UsedUp(v, len)
      /\ Len(FlattenSeq(w)) = Len(FlattenSeq(v)) - len
  BY <1>4, <1>5, RemainingFacts
<1>7. UsedUp(v, len) \in 0 .. Len(v) /\ (UsedUp(v, len) # 0 \/ len # 0)
  BY <1>2, <1>3, <1>4, UsedUpFacts DEF NoProgress
<1>8. /\ FlattenSeq(v) = FlattenSeq(call.v) \o ContentIn(file, ToLoad)
      /\ Len(v) = Len(call.v) + Len(ToLoad)
      /\ call.v \in Seq(Seq(Int)) /\ FlattenSeq(call.v) \in Seq(Int)
  BY <1>1, <1>3, LoadFacts, LoadedNow
<1>9. /\ call.rest = ToLoad \o Unloaded
      /\ ToLoad \in Seq(Bucket) /\ Unloaded \in Seq(Bucket)
      /\ ToLoad \in Seq(NotEos)
      /\ Len(ToLoad) \in Nat /\ Len(ToLoad) + Len(Unloaded) = Len(call.rest)
  BY <1>1, UnloadedIn DEF EosInv
<1>10. file \in FileType /\ Len(file) \in Nat
  BY Typed
<1>11. PICK a \in Seq(Bucket), b \in Seq(Bucket) :
         a = ToLoad /\ b = Unloaded /\ call.rest = a \o b /\ a \in Seq(NotEos)
         /\ Len(a) + Len(b) = Len(call.rest)
  BY <1>9
<1>12. /\ Length(a \o b) = Length(a) + Length(b) /\ Length(a) \in Nat /\ Length(b) \in Nat
       /\ Len(a) \in Nat /\ Len(b) \in Nat
  BY <1>10, LengthFacts DEF Bucket
<1>13. ContentIn(file, a) \in Seq(Int) /\ Len(ContentIn(file, a)) <= Length(a)
  BY <1>10, <1>11, ContentLen, ContentInFacts DEF Bucket
<1>14. PICK c \in Seq(Int), d \in Seq(Int) : c = ContentIn(file, a) /\ d = FlattenSeq(call.v)
  BY <1>8, <1>13
<1>15. Len(c) \in Nat /\ Len(d) \in Nat /\ Len(FlattenSeq(v)) = Len(d) + Len(c)
  BY <1>8, <1>11, <1>14
<1>16. PICK x \in Nat, y \in Nat : x = Len(call.v) /\ y = Len(v)
  BY <1>3, <1>8
<1>17. PICK u \in 0 .. y : u = UsedUp(v, len) /\ (u # 0 \/ len # 0)
  BY <1>7, <1>16
<1>18. PICK m \in Nat, k \in Nat, p \in Nat, q \in Nat, r \in Nat, s \in Nat :
         m = Len(c) /\ k = Len(d) /\ p = Length(a) /\ q = Length(b) /\ r = Len(a) /\ s = Len(b)
  BY <1>12, <1>15
<1>19. Left(call) = k + x + (p + q) + (r + s)
  BY <1>11, <1>12, <1>14, <1>16, <1>18 DEF Left
<1>20. Left(call') = ((k + m) - len) + (y - u) + q + s
  BY <1>2, <1>5, <1>6, <1>11, <1>15, <1>16, <1>17, <1>18 DEF Left
<1>21. y = x + r /\ m <= p
  BY <1>8, <1>11, <1>13, <1>14, <1>16, <1>18
<1>22. len \in Nat
  OBVIOUS
<1>23. ((k + m) - len) + (y - u) + q + s < k + x + (p + q) + (r + s)
  <2>1. u \in Nat /\ (u # 0 \/ len # 0)
    BY <1>17
  <2> QED
    BY <1>21, <1>22, <2>1, LessLeft
<1> QED
  BY <1>2, <1>19, <1>20, <1>23

\* An action property of every step.
LEMMA StepAdvances ==
  ASSUME IInv, EosInv, [Next]_vars
  PROVE  [call # Idle /\ call' # Idle =>
            \/ call.phase = "out" /\ call'.phase = "in"
            \/ call.phase = call'.phase /\ Left(call') < Left(call)]_vars
<1> SUFFICES ASSUME Next, call # Idle, call' # Idle
             PROVE  \/ call.phase = "out" /\ call'.phase = "in"
                    \/ call.phase = call'.phase /\ Left(call') < Left(call)
  OBVIOUS
<1>1. CASE Writev
  BY <1>1, WritevAdvances
<1>2. CASE FinishOut
  BY <1>2, FinishOutIs DEF Start
<1>3. CASE WriteFails \/ FinishIn
  BY <1>3 DEF WriteFails, Fail, FinishIn
<1>4. ASSUME Use PROVE call = Idle
  BY <1>4 DEF Use, Concat, SpoolSelf, ConcatBrigade, Copy, Take, Read, ReadTaken, ReadAt
<1> QED
  BY <1>1, <1>2, <1>3, <1>4 DEF Next, Step

\* Whatever apr_file_writev writes each time, every write of apreq_brigade_fwrite
\* leaves less to write, and what apreq_brigade_concat moves to a file is followed
\* by the input once: for any brigades, limits, inputs and sizes, whatever the
\* switches say.
THEOREM ConcatReturns == Spec => ConcatAdvances
<1>1. IInv /\ EosInv /\ [Next]_vars =>
        [call # Idle /\ call' # Idle =>
            \/ call.phase = "out" /\ call'.phase = "in"
            \/ call.phase = call'.phase /\ Left(call') < Left(call)]_vars
  BY StepAdvances
<1> QED
  BY <1>1, Invariant, EosInvariant, PTL DEF Spec, ConcatAdvances

------------------------------------------------------------------------------
(* Who refers to which part of a file. *)

\* A sequence is over the set its members are in.
LEMMA InSeq ==
  ASSUME NEW T, NEW bb \in Seq(T), NEW S, \A i \in DOMAIN bb : bb[i] \in S
  PROVE  bb \in Seq(S)
<1>1. Len(bb) \in Nat /\ DOMAIN bb = 1 .. Len(bb) /\ bb = [i \in 1 .. Len(bb) |-> bb[i]]
  BY LenProperties
<1>2. PICK n \in Nat : n = Len(bb)
  BY <1>1
<1>3. bb \in [1 .. n -> S]
  BY <1>1, <1>2
<1> QED
  BY ONLY <1>3, n \in Nat

\* A sequence over a set is over any larger one.
LEMMA SeqMore ==
  ASSUME NEW S, NEW T, S \subseteq T PROVE Seq(S) \subseteq Seq(T)
OBVIOUS

\* What a file bucket has.
LEMMA AnyOnFile ==
  ASSUME NEW e \in AnyBucket, OnFile(e)
  PROVE  e.fd \in Nat /\ e.start \in Nat /\ e.length \in Nat
<1>1. PICK n \in Nat : e \in BucketsOn(n)
  BY DEF AnyBucket
<1> QED
  BY <1>1, BucketFacts, FileBucketFacts

\* What ends at k or before ends at m or before.
LEMMA ReachingMore ==
  ASSUME NEW f, NEW k \in Int, NEW m \in Int, k <= m
  PROVE  Seq(Reaching(f, k)) \subseteq Seq(Reaching(f, m))
<1>1. ASSUME NEW e \in Reaching(f, k) PROVE e \in Reaching(f, m)
  <2>1. e \in AnyBucket /\ (OnFile(e) /\ e.fd = f => e.start + e.length <= k)
    BY DEF Reaching
  <2>2. CASE OnFile(e) /\ e.fd = f
    <3>1. PICK a \in Nat, b \in Nat : a = e.start /\ b = e.length
      BY <2>1, <2>2, AnyOnFile
    <3>2. a + b <= m
      BY <2>1, <2>2, <3>1
    <3> QED
      BY <2>1, <3>1, <3>2 DEF Reaching
  <2>3. CASE ~(OnFile(e) /\ e.fd = f)
    BY <2>1, <2>3 DEF Reaching
  <2> QED
    BY <2>2, <2>3
<1> QED
  BY <1>1, SeqMore

\* Buckets on other files.
LEMMA OffFile ==
  ASSUME NEW n \in Nat, NEW bb \in Seq(BucketsOn(n)), NEW f, f \notin Files(bb), NEW k
  PROVE  bb \in Seq(Reaching(f, k)) /\ bb \in Seq(NotTip(f, k))
<1>1. ASSUME NEW i \in DOMAIN bb PROVE bb[i] \in Reaching(f, k) /\ bb[i] \in NotTip(f, k)
  <2>1. bb[i] \in BucketsOn(n)
    OBVIOUS
  <2>2. bb[i] \in AnyBucket
    BY <2>1, BucketsAny
  <2>3. OnFile(bb[i]) => bb[i].fd # f
    BY DEF Files
  <2> QED
    BY <2>2, <2>3 DEF Reaching, NotTip, OnFile
<1> QED
  BY <1>1, InSeq

\* Buckets refer to the files there are.
LEMMA FilesRange ==
  ASSUME NEW n \in Nat, NEW bb \in Seq(BucketsOn(n))
  PROVE  Files(bb) \subseteq 1 .. n
<1>1. ASSUME NEW i \in DOMAIN bb, OnFile(bb[i]) PROVE bb[i].fd \in 1 .. n
  <2>1. bb[i] \in BucketsOn(n)
    OBVIOUS
  <2> QED
    BY <1>1, <2>1, BucketFacts, FileBucketFacts
<1> QED
  BY <1>1 DEF Files

\* Without a spool bucket on f, nothing may grow there.
LEMMA NoSpoolNotTip ==
  ASSUME NEW n \in Nat, NEW bb \in Seq(BucketsOn(n)), NEW f, f \notin Spools(bb), NEW k
  PROVE  bb \in Seq(NotTip(f, k))
<1>1. ASSUME NEW i \in DOMAIN bb PROVE bb[i] \in NotTip(f, k)
  <2>1. bb[i] \in BucketsOn(n)
    OBVIOUS
  <2>2. bb[i] \in AnyBucket
    BY <2>1, BucketsAny
  <2>3. bb[i].type = "spool" => bb[i].fd # f
    BY DEF Spools
  <2> QED
    BY <2>2, <2>3 DEF NotTip
<1> QED
  BY <1>1, InSeq

\* No copy may grow.
LEMMA CopyNotTip ==
  ASSUME NEW n \in Nat, NEW bb \in Seq(BucketsOn(n)), NEW f, NEW k
  PROVE  CopyAll(bb) \in Seq(NotTip(f, k))
<1>1. CopyAll(bb) \in Seq(BucketsOn(n))
  BY CopyType
<1>2. ASSUME NEW i \in DOMAIN CopyAll(bb) PROVE CopyAll(bb)[i] \in NotTip(f, k)
  <2>1. i \in DOMAIN bb /\ CopyAll(bb)[i] = CopyOf(bb[i])
    BY DEF CopyAll
  <2>2. bb[i] \in BucketsOn(n)
    BY <2>1
  <2>3. CopyOf(bb[i]) \in BucketsOn(n) /\ CopyOf(bb[i]).type # "spool"
    BY <2>2, CopyNoMore
  <2>4. CopyOf(bb[i]) \in AnyBucket
    BY <2>3, BucketsAny
  <2> QED
    BY <2>1, <2>3, <2>4 DEF NotTip
<1> QED
  BY <1>1, <1>2, InSeq

------------------------------------------------------------------------------
(* A brigade is whole in the files fs if all of its file buckets are, and it *)
(* holds what it ought to.                                                   *)

Whole(fs, bb, h) ==
    Within(fs, bb) /\ bb \in Seq(ShortSpools) /\ ContentIn(fs, bb) = h

\* Nothing is whole.
LEMMA WholeEmpty == ASSUME NEW fs PROVE Whole(fs, << >>, << >>)
BY WithinEmpty, ContentInEmpty DEF Whole

\* Two whole brigades in a row are whole.
LEMMA WholeConcat ==
  ASSUME NEW fs \in FileType, NEW a \in Seq(BucketsOn(Len(fs))), NEW b \in Seq(BucketsOn(Len(fs))),
         NEW x, NEW y, Whole(fs, a, x), Whole(fs, b, y)
  PROVE  Whole(fs, a \o b, x \o y)
<1>1. Within(fs, a \o b)
  BY WithinConcat DEF Whole
<1>2. ContentIn(fs, a \o b) = x \o y
  BY ContentInFacts DEF Whole
<1>3. a \o b \in Seq(ShortSpools)
  BY ConcatIn DEF Whole
<1> QED
  BY <1>1, <1>2, <1>3 DEF Whole

\* A brigade that ends before what was changed stays whole.
LEMMA WholeStays ==
  ASSUME NEW fs \in FileType, NEW gs \in FileType, NEW f \in Nat, NEW k \in Nat,
         Kept(fs, gs, f, k), NEW bb \in Seq(BucketsOn(Len(fs))),
         bb \in Seq(Reaching(f, k)), NEW h, Whole(fs, bb, h)
  PROVE  Whole(gs, bb, h)
BY ContentStays DEF Whole

\* All the brigades and what was taken from them.
All(bs, ts, S) ==
    (\A b \in Brigades : bs[b] \in Seq(S)) /\ (\A t \in DOMAIN ts : ts[t] \in Seq(S))

AllWhole(fs, bs, hs, ts, us) ==
    /\ \A b \in Brigades : Whole(fs, bs[b], hs[b])
    /\ DOMAIN us = DOMAIN ts
    /\ \A t \in DOMAIN ts : Whole(fs, ts[t], us[t])

\* Nobody refers to a file behind the end of a spool bucket that may grow.
Behind(bs, ts) ==
    \A b \in Brigades, f \in Nat, n \in Nat :
        bs[b] \in Seq(NotTip(f, n)) \/ All(bs, ts, Reaching(f, n))

\* Brigades made of what is no more, whose spool buckets were spool buckets.
LEMMA BehindLess ==
  ASSUME NEW bs, NEW ts, NEW cs, NEW us, Behind(bs, ts),
         \A f \in Nat, n \in Nat : All(bs, ts, Reaching(f, n)) => All(cs, us, Reaching(f, n)),
         \A f \in Nat, n \in Nat : (\A b \in Brigades : bs[b] \in Seq(NotTip(f, n)))
                                     => \A b \in Brigades : cs[b] \in Seq(NotTip(f, n))
  PROVE  Behind(cs, us)
BY DEF Behind

\* What was taken is buckets on the files there are.
LEMMA TakenType ==
  ASSUME IInv, NEW t \in DOMAIN taken PROVE taken[t] \in Seq(Bucket) /\ taken[t] \in Seq(BucketsOn(Len(file)))
<1>1. PICK S : S = Seq(Bucket) /\ taken \in Seq(S)
  BY Typed
<1>2. taken[t] \in S
  BY ONLY <1>1, t \in DOMAIN taken
<1> QED
  BY <1>1, <1>2 DEF Bucket

\* When all end before what was changed, all stay whole.
LEMMA AllWholeStays ==
  ASSUME IInv, AllWhole(file, brigade, held, taken, takenHeld),
         NEW gs \in FileType, NEW f \in Nat, NEW k \in Nat, Kept(file, gs, f, k),
         All(brigade, taken, Reaching(f, k))
  PROVE  AllWhole(gs, brigade, held, taken, takenHeld)
<1>1. file \in FileType
  BY Typed
<1>2. ASSUME NEW b \in Brigades PROVE Whole(gs, brigade[b], held[b])
  <2>1. brigade[b] \in Seq(BucketsOn(Len(file))) /\ brigade[b] \in Seq(Reaching(f, k))
        /\ Whole(file, brigade[b], held[b])
    BY Typed DEF All, AllWhole
  <2> QED
    BY <1>1, <2>1, WholeStays
<1>3. ASSUME NEW t \in DOMAIN taken PROVE Whole(gs, taken[t], takenHeld[t])
  <2>1. taken[t] \in Seq(BucketsOn(Len(file))) /\ taken[t] \in Seq(Reaching(f, k))
        /\ Whole(file, taken[t], takenHeld[t])
    BY TakenType DEF All, AllWhole
  <2> QED
    BY <1>1, <2>1, WholeStays
<1> QED
  BY <1>2, <1>3 DEF AllWhole

\* Only descriptors are moved, or files added.
SameData(fs, gs) ==
    Len(fs) <= Len(gs) /\ \A h \in 1 .. Len(fs) : gs[h].data = fs[h].data

\* No brigade is changed when only descriptors are moved.
LEMMA SameDataKept ==
  ASSUME NEW fs \in FileType, NEW gs \in FileType, SameData(fs, gs)
  PROVE  /\ Kept(fs, gs, 0, 0)
         /\ \A bb \in Seq(BucketsOn(Len(fs))) :
               /\ bb \in Seq(Reaching(0, 0))
               /\ Within(fs, bb) => ContentIn(gs, bb) = ContentIn(fs, bb) /\ Within(gs, bb)
<1>1. Len(fs) \in Nat
  BY FilesNat DEF FileType
<1>2. Kept(fs, gs, 0, 0)
  BY <1>1 DEF Kept, SameData
<1>3. ASSUME NEW bb \in Seq(BucketsOn(Len(fs)))
      PROVE  /\ bb \in Seq(Reaching(0, 0))
             /\ Within(fs, bb) => ContentIn(gs, bb) = ContentIn(fs, bb) /\ Within(gs, bb)
  <2>1. bb \in Seq(Reaching(0, 0))
    <3>1. 0 \notin Files(bb)
      BY <1>1, FilesRange
    <3> QED
      BY <1>1, <3>1, OffFile
  <2> QED
    BY <1>2, <2>1, ContentStays
<1> QED
  BY <1>2, <1>3

\* All stay whole when only descriptors are moved.
LEMMA AllWholeSame ==
  ASSUME IInv, AllWhole(file, brigade, held, taken, takenHeld),
         NEW gs \in FileType, SameData(file, gs)
  PROVE  AllWhole(gs, brigade, held, taken, takenHeld)
<1>1. file \in FileType /\ Kept(file, gs, 0, 0)
  BY Typed, SameDataKept
<1>2. All(brigade, taken, Reaching(0, 0))
  BY <1>1, Typed, TakenType, SameDataKept DEF All
<1> QED
  BY <1>1, <1>2, AllWholeStays

------------------------------------------------------------------------------
(* What the spool bucket is when it has grown. *)

\* Buckets x for what is in the file of e from where e starts, up to end.
Grown(fs, e, x, end) ==
    /\ x \in Seq(BucketsOn(Len(fs))) /\ Within(fs, x) /\ x \in Seq(ShortSpools)
    /\ x \in Seq(Reaching(e.fd, end))
    /\ \A n \in Nat : n # end => x \in Seq(NotTip(e.fd, n))
    /\ \A f \in Nat, k \in Int : f # e.fd => x \in Seq(Reaching(f, k)) /\ x \in Seq(NotTip(f, k))
    /\ ContentIn(fs, x) = Bytes(fs[e.fd].data, e.start, end)

\* z refers to part of the file fd up to end, to its end if it is a spool bucket.
PartOf(fs, fd, z, end) ==
    /\ z \in FileBuckets(Len(fs)) /\ z.fd = fd /\ z.start + z.length <= end
    /\ z.type = "spool" => z.length <= BucketLimit /\ z.start + z.length = end

\* Parts of a file, only the last of which may be a spool bucket.
LEMMA PartsGrown ==
  ASSUME NEW fs \in FileType, NEW fd \in 1 .. Len(fs), NEW end \in Nat, end <= Len(fs[fd].data),
         NEW x \in Seq(BucketsOn(Len(fs))),
         \A i \in DOMAIN x : PartOf(fs, fd, x[i], end)
  PROVE  /\ Within(fs, x) /\ x \in Seq(ShortSpools)
         /\ x \in Seq(Reaching(fd, end))
         /\ \A n \in Nat : n # end => x \in Seq(NotTip(fd, n))
         /\ \A f \in Nat, k \in Int : f # fd => x \in Seq(Reaching(f, k)) /\ x \in Seq(NotTip(f, k))
<1>1. Len(fs) \in Nat /\ Len(fs[fd].data) \in Nat
  BY FilesNat, FileDataType DEF FileType
<1>2. \A i \in DOMAIN x : x[i] \in AnyBucket /\ OnFile(x[i]) /\ x[i].fd = fd
  <2>1. ASSUME NEW i \in DOMAIN x PROVE x[i] \in AnyBucket /\ OnFile(x[i]) /\ x[i].fd = fd
    <3>1. x[i] \in FileBuckets(Len(fs)) /\ x[i].fd = fd
      BY DEF PartOf
    <3>2. x[i] \in BucketsOn(Len(fs))
      BY <3>1 DEF BucketsOn
    <3> QED
      BY <1>1, <3>1, <3>2, BucketsAny, FileBucketFacts
  <2> QED
    BY <2>1
<1>3. x \in Seq(ShortSpools)
  <2>1. \A i \in DOMAIN x : x[i] \in ShortSpools
    BY <1>2 DEF PartOf, ShortSpools
  <2> QED
    BY <2>1, InSeq
<1>4. x \in Seq(Reaching(fd, end))
  <2>1. \A i \in DOMAIN x : x[i] \in Reaching(fd, end)
    BY <1>2 DEF PartOf, Reaching
  <2> QED
    BY <2>1, InSeq
<1>5. ASSUME NEW n \in Nat, n # end PROVE x \in Seq(NotTip(fd, n))
  <2>1. \A i \in DOMAIN x : x[i] \in NotTip(fd, n)
    BY <1>2, <1>5 DEF PartOf, NotTip
  <2> QED
    BY <2>1, InSeq
<1>6. ASSUME NEW f \in Nat, NEW k \in Int, f # fd
      PROVE  x \in Seq(Reaching(f, k)) /\ x \in Seq(NotTip(f, k))
  <2>1. f \notin Files(x)
    BY <1>2, <1>6 DEF Files
  <2> QED
    BY <1>1, <2>1, OffFile
<1>7. Within(fs, x)
  <2>1. ASSUME NEW f \in 1 .. Len(fs) PROVE x \in Seq(Reaching(f, Len(fs[f].data)))
    <3>1. Len(fs[f].data) \in Nat
      BY FileDataType
    <3>2. CASE f = fd
      BY <1>1, <1>4, <3>2, ReachingMore
    <3>3. CASE f # fd
      BY <1>1, <1>6, <3>1, <3>3
    <3> QED
      BY <3>2, <3>3
  <2> QED
    BY <2>1 DEF Within
<1> QED
  BY <1>3, <1>4, <1>5, <1>6, <1>7

\* Multiples grow.
LEMMA Multiples ==
  ASSUME NEW i \in Nat, NEW k \in Nat, NEW z \in Nat, i <= k
  PROVE  i * z \in Nat /\ i * z <= k * z
<1>1. PICK j \in Nat : k = i + j
  BY k - i \in Nat, k = i + (k - i)
<1>2. k * z = i * z + j * z
  BY <1>1
<1>3. j * z \in Nat /\ i * z \in Nat
  OBVIOUS
<1> QED
  BY <1>2, <1>3

\* What a bucket may be long fits in an apr_size_t.
LEMMA SizeTSmall ==
  ASSUME NEW n \in Nat, n <= BucketLimit PROVE SizeT(n) = n
BY SizeAssumption DEF SizeT

\* The spool bucket grows by what was written behind it.
LEMMA ExtendedContent ==
  ASSUME NEW fs \in FileType, NEW e \in FileBuckets(Len(fs)), e.type = "spool",
         e.length <= BucketLimit, NEW wlen \in Nat,
         SpoolEnd(e) + wlen <= Len(fs[e.fd].data)
  PROVE  Grown(fs, e, Extended(e, wlen), SpoolEnd(e) + wlen)
<1>0. /\ Len(fs) \in Nat /\ e.fd \in 1 .. Len(fs) /\ e.start \in Nat /\ e.length \in Nat
      /\ BucketLimit \in Nat \ {0}
  BY FilesNat, FileBucketFacts, SizeAssumption DEF FileType
<1>1. PICK fd \in 1 .. Len(fs), s \in Nat, l \in Nat, z \in Nat, d \in Seq(Int) :
        fd = e.fd /\ s = e.start /\ l = e.length /\ z = BucketLimit /\ z # 0 /\ d = fs[fd].data
  <2>1. fs[e.fd].data \in Seq(Int)
    BY <1>0, FileDataType
  <2> QED
    BY <1>0, <2>1
<1>10. PICK end \in Nat : end = s + l + wlen
  BY s + l + wlen \in Nat
<1>11. end = SpoolEnd(e) + wlen
  BY <1>1, <1>10 DEF SpoolEnd
<1>12. end <= Len(d) /\ Len(d) \in Nat
  BY <1>1, <1>11
<1>2. CASE wlen <= SizeT(BucketLimit - e.length)
  <2>1. SizeT(BucketLimit - e.length) = z - l
    <3>1. z - l \in Nat /\ z - l <= BucketLimit
      BY <1>1
    <3> QED
      BY <1>1, <3>1, SizeTSmall
  <2>2. l + wlen \in Nat /\ l + wlen <= BucketLimit
    BY <1>1, <1>2, <2>1
  <2>3. PICK b : b = SpoolBucket(fd, s, l + wlen)
    OBVIOUS
  <2>4. Extended(e, wlen) = <<b>>
    <3>1. SizeT(l + wlen) = l + wlen
      BY <2>2, SizeTSmall
    <3> QED
      BY <1>1, <1>2, <2>3, <3>1 DEF Extended
  <2>5. b \in FileBuckets(Len(fs)) /\ b.fd = fd /\ b.start = s /\ b.length = l + wlen /\ b.type = "spool"
    BY <2>2, <2>3 DEF SpoolBucket, FileBuckets
  <2>51. b.start + b.length = end
    <3>1. s + (l + wlen) = end
      BY <1>10
    <3> QED
      BY <2>5, <3>1
  <2>6. PartOf(fs, fd, b, end)
    BY <2>2, <2>5, <2>51 DEF PartOf
  <2>7. b \in BucketsOn(Len(fs)) /\ <<b>> \in Seq(BucketsOn(Len(fs)))
    BY <2>5, OneIn DEF BucketsOn
  <2>8. \A i \in DOMAIN <<b>> : PartOf(fs, fd, <<b>>[i], end)
    BY <2>6
  <2>9. ContentIn(fs, <<b>>) = Bytes(d, s, end)
    <3>1. ContentIn(fs, <<b>>) = DataIn(fs, b)
      BY <2>7, ContentInOne
    <3> QED
      BY <1>1, <1>12, <2>5, <2>51, <3>1, DataInFile
  <2>10. PICK x \in Seq(BucketsOn(Len(fs))) :
           /\ x = Extended(e, wlen) /\ ContentIn(fs, x) = Bytes(d, s, end)
           /\ \A i \in DOMAIN x : PartOf(fs, fd, x[i], end)
    BY <2>4, <2>7, <2>8, <2>9
  <2>11. Grown(fs, e, x, end)
    BY SMTT(30), <1>1, <1>12, <2>10, PartsGrown DEF Grown
  <2> QED
    BY <1>11, <2>10, <2>11
<1>3. CASE ~(wlen <= SizeT(BucketLimit - e.length))
  <2>1. PICK full \in Seq(BucketsOn(Len(fs))), k \in Nat, x \in Nat, y \in Nat :
           ExtendedAs(e, wlen, full, k, x, y)
    BY <1>0, <1>3, ExtendedParts
  <2>2. /\ x = k * z /\ x + y = l + wlen /\ 0 < y /\ y <= z /\ Len(full) = k
        /\ \A i \in 1 .. k : full[i] = FileBucket(fd, s + (i - 1) * z, z)
        /\ Extended(e, wlen) = full \o <<SpoolBucket(fd, s + x, y)>>
    BY <1>1, <2>1 DEF ExtendedAs
  <2>3. PICK b : b = SpoolBucket(fd, s + x, y)
    OBVIOUS
  <2>4. b \in FileBuckets(Len(fs)) /\ b.fd = fd /\ b.start = s + x /\ b.length = y /\ b.type = "spool"
    BY <2>3 DEF SpoolBucket, FileBuckets
  <2>5. PartOf(fs, fd, b, end) /\ b.start + b.length = end
    <3>1. s + x + y = end
      BY <1>10, <2>2
    <3>2. b.start + b.length = end
      BY <2>4, <3>1
    <3> QED
      BY <1>1, <2>2, <2>4, <3>2 DEF PartOf
  <2>6. PICK bb \in Seq(BucketsOn(Len(fs))) : bb = Extended(e, wlen)
    BY <1>0, ExtendedType
  <2>7. Len(bb) = k + 1 /\ bb[k + 1] = b /\ \A i \in 1 .. k : bb[i] = FileBucket(fd, s + (i - 1) * z, z)
    <3>1. PICK B : B = BucketsOn(Len(fs))
      OBVIOUS
    <3>2. bb = full \o <<b>> /\ full \in Seq(B) /\ Len(full) = k
      BY <2>2, <2>3, <2>6, <3>1
    <3>3. Len(bb) = k + 1 /\ bb[k + 1] = b /\ \A i \in 1 .. k : bb[i] = full[i]
      BY ONLY <3>2, k \in Nat
    <3> QED
      BY <2>2, <3>3
  <2>8. PICK c : c = [i \in Nat |-> IF i <= k THEN s + i * z ELSE end]
    OBVIOUS
  <2>9. \A i \in Nat : c[i] \in Nat
    <3>1. ASSUME NEW i \in Nat PROVE s + i * z \in Nat
      <4>1. i * z \in Nat
        BY Multiples
      <4> QED
        BY SMTT(30), <4>1
    <3> QED
      BY <2>8, <3>1
  <2>10. ASSUME NEW i \in 1 .. k
         PROVE  \E m \in Nat : /\ m = s + (i - 1) * z /\ m + z <= end
                               /\ c[i - 1] = m /\ c[i] = m + z
    <3>1. i - 1 \in Nat /\ i \in Nat /\ i <= k
      OBVIOUS
    <3>2. (i - 1) * z \in Nat /\ i * z <= k * z
      BY <3>1, Multiples
    <3>3. i * z = (i - 1) * z + z
      OBVIOUS
    <3>4. PICK w \in Nat : w = (i - 1) * z
      BY <3>2
    <3>5. w + z <= x
      BY <2>2, <3>2, <3>3, <3>4
    <3>6. (s + w) + z <= end
      BY <1>10, <2>2, <3>5
    <3>7. c[i - 1] = s + w /\ c[i] = s + (w + z)
      BY <2>8, <3>1, <3>3, <3>4
    <3>8. s + w \in Nat /\ s + (w + z) = (s + w) + z
      OBVIOUS
    <3> QED
      BY <3>4, <3>6, <3>7, <3>8
  <2>11. ASSUME NEW i \in 1 .. k
         PROVE  /\ PartOf(fs, fd, bb[i], end)
                /\ c[i - 1] <= c[i] /\ c[i] <= Len(d) /\ DataIn(fs, bb[i]) = Bytes(d, c[i - 1], c[i])
    <3>1. PICK m \in Nat : m = s + (i - 1) * z /\ m + z <= end /\ c[i - 1] = m /\ c[i] = m + z
      BY <2>10
    <3>2. PICK q : q = FileBucket(fd, m, z) /\ bb[i] = q
      BY <2>7, <3>1
    <3>3. q \in FileBuckets(Len(fs)) /\ q.fd = fd /\ q.start = m /\ q.length = z /\ q.type = "file"
      BY <3>2 DEF FileBucket, FileBuckets
    <3>4. PartOf(fs, fd, q, end)
      BY <3>1, <3>3 DEF PartOf
    <3>5. m + z <= Len(d) /\ m <= m + z
      BY <1>12, <3>1
    <3>6. DataIn(fs, q) = Bytes(d, m, m + z)
      BY <1>1, <3>3, <3>5, DataInFile
    <3> QED
      BY <3>1, <3>2, <3>4, <3>5, <3>6
  <2>12. c[0] = s /\ c[k] = s + x /\ c[k + 1] = end
    BY <2>2, <2>8
  <2>13. c[k] <= c[k + 1] /\ c[k + 1] <= Len(d) /\ DataIn(fs, bb[k + 1]) = Bytes(d, c[k], c[k + 1])
    <3>1. DataIn(fs, b) = Bytes(d, s + x, end)
      BY <1>1, <1>12, <2>4, <2>5, DataInFile
    <3>2. s + x <= end
      BY <1>10, <2>2
    <3> QED
      BY <1>12, <2>7, <2>12, <3>1, <3>2
  <2>14. Run(fs, bb, c, d)
    <3>1. ASSUME NEW i \in 1 .. Len(bb)
          PROVE  c[i - 1] <= c[i] /\ c[i] <= Len(d) /\ DataIn(fs, bb[i]) = Bytes(d, c[i - 1], c[i])
      <4>1. CASE i \in 1 .. k
        BY <2>11, <4>1
      <4>2. CASE i = k + 1
        <5>1. i - 1 = k
          BY <4>2
        <5> QED
          BY <2>13, <4>2, <5>1
      <4> QED
        BY <2>7, <4>1, <4>2
    <3> QED
      BY <3>1 DEF Run
  <2>15. ContentIn(fs, bb) = Bytes(d, s, end)
    <3>1. ContentIn(fs, bb) = Bytes(d, c[0], c[Len(bb)])
      BY <2>9, <2>14, RunContent
    <3> QED
      BY <2>7, <2>12, <3>1
  <2>16. \A i \in DOMAIN bb : PartOf(fs, fd, bb[i], end)
    <3>1. ASSUME NEW i \in DOMAIN bb PROVE PartOf(fs, fd, bb[i], end)
      <4>1. i \in 1 .. k \/ i = k + 1
        BY <2>7
      <4> QED
        BY <2>5, <2>7, <2>11, <4>1
    <3> QED
      BY <3>1
  <2>17. Grown(fs, e, bb, end)
    BY SMTT(30), <1>1, <1>12, <2>15, <2>16, PartsGrown DEF Grown
  <2> QED
    BY <1>11, <2>6, <2>17
<1> QED
  BY <1>2, <1>3

------------------------------------------------------------------------------
(* A write in progress. *)

\* The write c has put at, behind base in its file, what target begins with, and
\* the rest of target is in its array and in the buckets it has not read yet.
Writes(fs, c, base, target) ==
    /\ fs[c.fd].at = base + c.wlen /\ fs[c.fd].at <= Len(fs[c.fd].data)
    /\ c.rest \in Seq(Reaching(c.fd, -1)) /\ Within(fs, c.rest)
    /\ Bytes(fs[c.fd].data, base, fs[c.fd].at)
       \o (FlattenSeq(c.v) \o ContentIn(fs, c.rest)) = target

\* No bucket ends before the beginning of a file.
LEMMA NoneBefore ==
  ASSUME NEW n \in Nat, NEW bb \in Seq(BucketsOn(n)), NEW f, bb \in Seq(Reaching(f, -1))
  PROVE  f \notin Files(bb)
<1>1. ASSUME NEW i \in DOMAIN bb, OnFile(bb[i]), bb[i].fd = f PROVE FALSE
  <2>1. bb[i] \in BucketsOn(n)
    OBVIOUS
  <2>2. PICK a \in Nat, b \in Nat : a = bb[i].start /\ b = bb[i].length
    BY <1>1, <2>1, BucketFacts, FileBucketFacts
  <2>3. bb[i] \in Reaching(f, -1)
    OBVIOUS
  <2>4. a + b <= -1
    BY <1>1, <2>2, <2>3 DEF Reaching
  <2> QED
    BY <2>4
<1> QED
  BY <1>1 DEF Files

\* A file that was not read is as it was.
LEMMA NotRead ==
  ASSUME file \in FileType, NEW f \in 1 .. Len(file), NEW bb, f \notin Files(bb)
  PROVE  ReadOffsets(bb)[f] = file[f]
<1>1. {i \in DOMAIN bb : OnFile(bb[i]) /\ bb[i].fd = f} = {}
  BY DEF Files
<1>2. f \in DOMAIN file
  BY SMTT(30), LenProperties DEF FileType
<1> QED
  BY <1>1, <1>2 DEF ReadOffsets

\* What a write does to the file it goes to, and to no other.
LEMMA WriteIs ==
  ASSUME IInv, call # Idle, NEW base \in Nat, NEW target, Writes(file, call, base, target),
         NEW len \in 0 .. Len(FlattenSeq(Loaded)), Write(len)
  PROVE  /\ file' \in FileType /\ Len(file') = Len(file)
         /\ Kept(file, file', call.fd, base)
         /\ LET x == file[call.fd]
                y == file'[call.fd]
                d == Bytes(FlattenSeq(Loaded), 0, len)
            IN  /\ x \in [data : Seq(Int), at : Nat] /\ y \in [data : Seq(Int), at : Nat]
                /\ base <= x.at /\ x.at <= Len(x.data)
                /\ d \in Seq(Int) /\ Len(d) = len
                /\ y.at = x.at + len /\ y.at <= Len(y.data)
                /\ Bytes(y.data, base, y.at) = Bytes(x.data, base, x.at) \o d
<1>1. call \in CallType /\ call.fd \in 1 .. Len(file) /\ file \in FileType /\ TypeOK
      /\ call.wlen \in Nat /\ Len(file) \in Nat
  BY CallFacts, Typed
<1>2. ToLoad \in Seq(Bucket) /\ Loaded \in Seq(Seq(Int))
  BY <1>1, LoadType
<1>3. PICK r \in FileType : /\ r = ReadOffsets(ToLoad) /\ Len(r) = Len(file)
                            /\ \A f \in 1 .. Len(file) : r[f].data = file[f].data
  BY <1>1, <1>2, ReadOffsetsType
<1>4. PICK fl \in Seq(Int) : fl = FlattenSeq(Loaded)
  BY <1>2, FlattenType
<1>5. PICK d \in Seq(Int) : d = Bytes(fl, 0, len) /\ Len(d) = len /\ len \in Nat
  <2>1. len \in Nat /\ 0 <= len /\ len <= Len(fl) /\ 0 \in Nat
    BY <1>4
  <2>2. Bytes(fl, 0, len) \in Seq(Int) /\ Len(Bytes(fl, 0, len)) = len - 0
    BY <2>1, BytesType
  <2> QED
    BY <2>1, <2>2
<1>6. PICK f \in 1 .. Len(file) : f = call.fd
  BY <1>1
<1>7. r[f] = file[f]
  <2>1. ToLoad \in Seq(Reaching(f, -1))
    BY <1>6, UnloadedIn DEF Writes
  <2>2. f \notin Files(ToLoad)
    BY <1>1, <1>2, <2>1, NoneBefore DEF Bucket
  <2> QED
    BY <1>1, <1>3, <2>2, NotRead
<1>8. PICK x \in [data : Seq(Int), at : Nat] : x = file[f]
  BY <1>1, FileAt
<1>9. x.at = base + call.wlen /\ x.at <= Len(x.data) /\ base <= x.at
  <2>1. x.at = base + call.wlen /\ x.at <= Len(x.data)
    BY <1>6, <1>8 DEF Writes
  <2> QED
    BY <1>1, <2>1
<1>10. PICK y \in [data : Seq(Int), at : Nat] :
         /\ y = Written(x, d)
         /\ y.at = x.at + Len(d) /\ y.at <= Len(y.data)
         /\ Bytes(y.data, 0, x.at) = Bytes(x.data, 0, x.at)
         /\ Bytes(y.data, x.at, y.at) = d
  BY <1>9, WrittenFacts
<1>11. file' = [r EXCEPT ![f] = y]
  <2>1. SubSeq(FlattenSeq(Loaded), 1, len) = d
    BY <1>4, <1>5 DEF Bytes
  <2> QED
    BY <1>3, <1>6, <1>7, <1>8, <1>10, <2>1 DEF Write
<1>12. file' \in FileType /\ Len(file') = Len(file)
  <2>1. f \in 1 .. Len(r)
    BY <1>3
  <2> QED
    BY <1>3, <1>11, <2>1, PutFile
<1>13. file'[f] = y /\ \A h \in 1 .. Len(file) : h # f => file'[h].data = file[h].data
  <2>1. DOMAIN r = 1 .. Len(file)
    BY <1>3, LenProperties DEF FileType
  <2>2. file'[f] = y /\ \A h \in 1 .. Len(file) : h # f => file'[h] = r[h]
    BY ONLY <1>11, <2>1, f \in 1 .. Len(file)
  <2> QED
    BY <1>3, <2>2
<1>14. PICK p \in Seq(Int), q \in Seq(Int), a \in Nat, b \in Nat :
         p = x.data /\ q = y.data /\ a = x.at /\ b = y.at
  OBVIOUS
<1>15. /\ base <= a /\ a <= Len(p) /\ b = a + len /\ b <= Len(q) /\ a <= b /\ a <= Len(q)
       /\ Len(p) \in Nat /\ Len(q) \in Nat
       /\ Bytes(q, 0, a) = Bytes(p, 0, a) /\ Bytes(q, a, b) = d
  BY <1>5, <1>9, <1>10, <1>14
<1>16. Bytes(p, 0, base) = Bytes(q, 0, base) /\ Bytes(p, base, a) = Bytes(q, base, a)
  <2>1. 0 \in Nat /\ 0 <= base /\ a <= a
    BY <1>15
  <2> QED
    BY <1>15, <2>1, BytesSame
<1>17. Bytes(q, base, a) \o Bytes(q, a, b) = Bytes(q, base, b)
  <2>1. base <= a /\ a <= b /\ b <= Len(q)
    BY <1>15
  <2> QED
    BY ONLY <2>1, q \in Seq(Int), base \in Nat, a \in Nat, b \in Nat, BytesJoin
<1>18. Kept(file, file', f, base)
  <2>1. base <= Len(p) /\ base <= Len(q)
    BY <1>15
  <2> QED
    BY <1>1, <1>8, <1>12, <1>13, <1>14, <1>16, <2>1 DEF Kept
<1> QED
  BY ZenonT(40), <1>4, <1>5, <1>6, <1>8, <1>9, <1>10, <1>12, <1>13, <1>14, <1>15, <1>16, <1>17, <1>18

LoadedParts(a, d, w, u, v, t) == (a \o d) \o (w \o u) = a \o (v \o (t \o u))

\* What was written, what is left in the array and what is to be read.
LEMMA LoadedJoin ==
  ASSUME NEW a \in Seq(Int), NEW d \in Seq(Int), NEW w \in Seq(Int), NEW u \in Seq(Int),
         NEW v \in Seq(Int), NEW t \in Seq(Int), v \o t = d \o w
  PROVE  LoadedParts(a, d, w, u, v, t)
<1>1. FourParts(a, d, w, u)
  BY JoinFour
<1>2. (v \o t) \o u = v \o (t \o u)
  BY JoinBytes
<1>3. a \o ((d \o w) \o u) = (a \o d) \o (w \o u)
  BY ONLY SMTT(30), <1>1 DEF FourParts
<1> QED
  BY ONLY <1>2, <1>3, v \o t = d \o w DEF LoadedParts

\* A write that succeeds has put more of target behind base.
LEMMA WritesOn ==
  ASSUME IInv, call # Idle, NEW base \in Nat, NEW target, Writes(file, call, base, target),
         NEW len \in 0 .. Len(FlattenSeq(Loaded)), Write(len),
         NEW c, c.fd = call.fd, c.rest = Unloaded, c.v = Shifted(Loaded, len),
         c.wlen = call.wlen + len
  PROVE  Writes(file', c, base, target)
<1>1. call \in CallType /\ call.fd \in 1 .. Len(file) /\ file \in FileType /\ TypeOK
      /\ call.wlen \in Nat /\ Len(file) \in Nat
  BY CallFacts, Typed
<1>2. PICK f \in 1 .. Len(file) : f = call.fd /\ f \in Nat
  BY <1>1
<1>3. PICK x \in [data : Seq(Int), at : Nat], y \in [data : Seq(Int), at : Nat], d \in Seq(Int) :
        /\ x = file[f] /\ y = file'[f] /\ d = Bytes(FlattenSeq(Loaded), 0, len)
        /\ base <= x.at /\ x.at <= Len(x.data)
        /\ y.at = x.at + len /\ y.at <= Len(y.data)
        /\ Bytes(y.data, base, y.at) = Bytes(x.data, base, x.at) \o d
  BY ZenonT(40), <1>2, WriteIs
<1>4. file' \in FileType /\ Len(file') = Len(file) /\ Kept(file, file', f, base)
  BY <1>2, WriteIs
<1>5. y.at = base + c.wlen
  <2>1. PICK a \in Nat, b \in Nat, k \in Nat, l \in Nat :
          a = x.at /\ b = y.at /\ k = call.wlen /\ l = len
    BY <1>1
  <2>2. a = base + k /\ b = a + l /\ c.wlen = k + l
    BY <1>2, <1>3, <2>1 DEF Writes
  <2> QED
    BY SMTT(30), <2>1, <2>2
<1>6. PICK t \in Seq(BucketsOn(Len(file))), u \in Seq(BucketsOn(Len(file))) :
        /\ t = ToLoad /\ u = Unloaded /\ call.rest = t \o u
        /\ t \in Seq(Reaching(f, -1)) /\ u \in Seq(Reaching(f, -1))
  BY <1>2, UnloadedIn DEF Writes, Bucket
<1>7. Within(file, t) /\ Within(file, u)
  <2>1. Within(file, t \o u)
    BY <1>6 DEF Writes
  <2> QED
    BY <1>1, <2>1, WithinConcat
<1>8. ContentIn(file', u) = ContentIn(file, u) /\ Within(file', u)
  <2>1. u \in Seq(Reaching(f, base))
    <3>1. -1 \in Int /\ base \in Int /\ -1 <= base
      OBVIOUS
    <3>2. Seq(Reaching(f, -1)) \subseteq Seq(Reaching(f, base))
      BY <3>1, ReachingMore
    <3> QED
      BY <1>6, <3>2
  <2> QED
    BY <1>1, <1>2, <1>4, <1>7, <2>1, ContentStays
<1>9. ContentIn(file, call.rest) = ContentIn(file, t) \o ContentIn(file, u)
      /\ ContentIn(file, t) \in Seq(Int) /\ ContentIn(file, u) \in Seq(Int)
  BY <1>1, <1>6, ContentInFacts
<1>10. /\ FlattenSeq(Loaded) = FlattenSeq(call.v) \o ContentIn(file, t)
       /\ FlattenSeq(call.v) \in Seq(Int) /\ FlattenSeq(Loaded) \in Seq(Int)
  BY <1>1, <1>6, LoadFacts
<1>11. PICK fl \in Seq(Int), w \in Seq(Int) :
         /\ fl = FlattenSeq(Loaded) /\ w = FlattenSeq(c.v)
         /\ w = Bytes(fl, len, Len(fl)) /\ d = Bytes(fl, 0, len) /\ d \o w = fl
  <2>1. Loaded \in Seq(Seq(Int))
    BY <1>1, LoadType
  <2>2. FlattenSeq(Shifted(Loaded, len)) = Bytes(FlattenSeq(Loaded), len, Len(FlattenSeq(Loaded)))
    BY <2>1, ShiftedFacts
  <2>3. PICK fl \in Seq(Int) : fl = FlattenSeq(Loaded)
    BY <1>10
  <2>4. len \in Nat /\ 0 <= len /\ len <= Len(fl) /\ Len(fl) \in Nat /\ Len(fl) <= Len(fl) /\ 0 \in Nat
    BY <2>3
  <2>5. Bytes(fl, 0, len) \o Bytes(fl, len, Len(fl)) = Bytes(fl, 0, Len(fl))
        /\ Bytes(fl, len, Len(fl)) \in Seq(Int)
    <3>1. PICK k \in Nat, m \in Nat : k = len /\ m = Len(fl) /\ k <= m
      BY <2>4
    <3>2. m <= Len(fl)
      BY <3>1
    <3>3. Bytes(fl, 0, k) \o Bytes(fl, k, m) = Bytes(fl, 0, m)
      <4>1. PICK o \in Nat : o = 0 /\ o <= k
        OBVIOUS
      <4>2. o <= k /\ k <= m /\ m <= Len(fl)
        BY <3>1, <3>2, <4>1
      <4>3. Bytes(fl, o, k) \o Bytes(fl, k, m) = Bytes(fl, o, m)
        BY ONLY ZenonT(40), <4>2, fl \in Seq(Int), o \in Nat, k \in Nat, m \in Nat, BytesJoin
      <4> QED
        BY ONLY <4>1, <4>3
    <3>4. Bytes(fl, k, m) \in Seq(Int)
      BY ONLY <3>1, <3>2, fl \in Seq(Int), k \in Nat, m \in Nat, BytesType
    <3> QED
      BY ONLY <3>1, <3>3, <3>4
  <2>6. Bytes(fl, 0, Len(fl)) = fl
    BY BytesFull
  <2> QED
    BY <1>3, <2>2, <2>3, <2>5, <2>6
<1>12. PICK a \in Seq(Int), v \in Seq(Int), p \in Seq(Int), q \in Seq(Int) :
         /\ a = Bytes(x.data, base, x.at) /\ v = FlattenSeq(call.v)
         /\ p = ContentIn(file, t) /\ q = ContentIn(file, u)
  <2>1. PICK z \in Seq(Int), b \in Nat : z = x.data /\ b = x.at /\ base <= b /\ b <= Len(z)
    BY <1>3
  <2>2. Bytes(z, base, b) \in Seq(Int)
    BY <2>1, BytesType
  <2> QED
    BY <1>9, <1>10, <2>1, <2>2
<1>13. v \o p = d \o w
  BY <1>10, <1>11, <1>12
<1>14. (a \o d) \o (w \o q) = a \o (v \o (p \o q))
  <2>1. LoadedParts(a, d, w, q, v, p)
    BY <1>13, LoadedJoin
  <2> QED
    BY ONLY <2>1 DEF LoadedParts
<1>15. a \o (v \o (p \o q)) = target
  BY <1>2, <1>3, <1>9, <1>12 DEF Writes
<1>16. Bytes(y.data, base, y.at) \o (FlattenSeq(c.v) \o ContentIn(file', c.rest)) = target
  BY <1>3, <1>6, <1>8, <1>11, <1>12, <1>14, <1>15
<1> QED
  BY <1>2, <1>3, <1>5, <1>6, <1>8, <1>16 DEF Writes

------------------------------------------------------------------------------
(* The inductive invariant, and the steps of a write. *)

\* The input of a call is as it was, and not on the file that is written.
InputKept(fs, c, bs) ==
    /\ c.in.from \in Brigades => c.in.bb = bs[c.in.from]
    /\ c.in.bb \in Seq(Reaching(c.fd, -1)) /\ Within(fs, c.in.bb)

\* All brigades are whole, nobody refers to what is behind a spool bucket, and a
\* call in progress has put behind base what it is to write, but for what is left
\* of it: base is 0 for a brigade that goes to its first file, and the end of the
\* spool bucket for an input.
ContentInv ==
    /\ AllWhole(file, brigade, held, taken, takenHeld)
    /\ Behind(brigade, taken)
    /\ call # Idle => InputKept(file, call, brigade)
    /\ call.phase = "out" =>
           /\ brigade[call.to] \in Seq(NotEos) /\ Length(brigade[call.to]) <= BucketLimit
           /\ All(brigade, taken, Reaching(call.fd, -1))
           /\ Writes(file, call, 0, ContentIn(file, brigade[call.to]))
    /\ call.phase = "in" =>
           Writes(file, call, SpoolEnd(Last(brigade[call.to])), ContentIn(file, Cut(call.in.bb)))

\* Ending at k or before is ending at m or before.
LEMMA AllReaching ==
  ASSUME NEW bs, NEW ts, NEW f, NEW k \in Int, NEW m \in Int, k <= m, All(bs, ts, Reaching(f, k))
  PROVE  All(bs, ts, Reaching(f, m))
<1>1. Seq(Reaching(f, k)) \subseteq Seq(Reaching(f, m))
  BY ReachingMore
<1> QED
  BY <1>1 DEF All

\* What comes before the end of the stream.
LEMMA CutParts ==
  ASSUME NEW n \in Nat, NEW bb \in Seq(BucketsOn(n))
  PROVE  /\ Cut(bb) \in Seq(BucketsOn(n)) /\ Shorter(Cut(bb), bb)
         /\ bb = Cut(bb) \o (IF EndsWith(bb, "eos") THEN <<EosBucket>> ELSE << >>)
<1>1. CASE EndsWith(bb, "eos")
  <2>1. PICK B : B = BucketsOn(n)
    OBVIOUS
  <2>2. bb \in Seq(B) /\ bb # << >> /\ Last(bb).type = "eos"
    BY <1>1, <2>1 DEF EndsWith
  <2>3. PICK r \in Seq(B), e \in B : bb = r \o <<e>>
    BY <2>2, SomeSnoc
  <2>4. Front(bb) = r /\ Last(bb) = e
    BY <2>3, EndOf
  <2>5. Cut(bb) = r /\ e = EosBucket
    <3>1. e \in BucketsOn(n) /\ e.type = "eos"
      BY <2>1, <2>2, <2>4
    <3> QED
      BY <1>1, <2>4, <3>1, BucketFacts DEF Cut
  <2>6. Shorter(r, bb)
    <3>1. <<e>> \in Seq(BucketsOn(n)) /\ r \in Seq(BucketsOn(n)) /\ Shorter(r \o <<e>>, bb)
      BY <2>1, <2>3, OneIn, ShorterRefl
    <3> QED
      BY <3>1, ShorterParts
  <2> QED
    BY <1>1, <2>1, <2>3, <2>5, <2>6
<1>2. CASE ~EndsWith(bb, "eos")
  <2>1. Cut(bb) = bb /\ bb \o << >> = bb
    BY <1>2 DEF Cut
  <2> QED
    BY <1>2, <2>1, ShorterRefl
<1> QED
  BY <1>1, <1>2

\* Where the write in progress began, and what it is to write.
LEMMA BaseIs ==
  ASSUME IInv, ContentInv, call.phase \in {"out", "in"}
  PROVE  \E base, target :
            /\ base \in Nat /\ Writes(file, call, base, target)
            /\ All(brigade, taken, Reaching(call.fd, base))
            /\ call.phase = "out" => base = 0 /\ target = ContentIn(file, brigade[call.to])
            /\ call.phase = "in" => /\ base = SpoolEnd(Last(brigade[call.to]))
                                    /\ target = ContentIn(file, Cut(call.in.bb))
<1>1. call # Idle /\ call.to \in Brigades /\ call.fd \in 1 .. Len(file) /\ call.fd \in Nat
  BY Calling, Typed
<1>2. CASE call.phase = "out"
  <2>1. All(brigade, taken, Reaching(call.fd, -1))
    BY <1>2 DEF ContentInv
  <2>2. -1 \in Int /\ 0 \in Int /\ -1 <= 0
    OBVIOUS
  <2>3. All(brigade, taken, Reaching(call.fd, 0))
    BY <2>1, <2>2, AllReaching
  <2> QED
    BY <1>2, <2>3 DEF ContentInv
<1>3. CASE call.phase = "in"
  <2>1. PICK p \in Seq(Bucket), e \in FileBuckets(Len(file)) :
          e = Last(brigade[call.to]) /\ brigade[call.to] = p \o <<e>>
          /\ e.type = "spool" /\ e.fd = call.fd
    BY <1>1, <1>3, Typed, LastSpool DEF CallOK
  <2>2. PICK base \in Nat : base = SpoolEnd(e) /\ base = e.start + e.length
    <3>1. PICK x \in Nat, y \in Nat : x = e.start /\ y = e.length
      BY <2>1, FileBucketFacts, Typed
    <3>2. x + y \in Nat
      OBVIOUS
    <3> QED
      BY <3>1, <3>2 DEF SpoolEnd
  <2>3. brigade[call.to] \notin Seq(NotTip(call.fd, base))
    <3>1. e \notin NotTip(call.fd, base)
      BY <2>1, <2>2 DEF NotTip
    <3>2. p \in Seq(Bucket) /\ <<e>> \in Seq(Bucket)
      <4>1. e \in Bucket
        BY DEF Bucket, BucketsOn
      <4> QED
        BY <4>1, OneIn
    <3>3. p \o <<e>> \in Seq(NotTip(call.fd, base)) => <<e>> \in Seq(NotTip(call.fd, base))
      BY <3>2, ConcatIn
    <3> QED
      BY <2>1, <3>1, <3>3, OneIn
  <2>4. All(brigade, taken, Reaching(call.fd, base))
    BY <1>1, <2>3 DEF ContentInv, Behind
  <2> QED
    BY <1>3, <2>1, <2>2, <2>4 DEF ContentInv
<1> QED
  BY <1>2, <1>3

\* A write changes nothing that anybody holds.
LEMMA WriteKeepsAll ==
  ASSUME IInv, ContentInv, call.phase \in {"out", "in"},
         NEW len \in 0 .. Len(FlattenSeq(Loaded)), Write(len)
  PROVE  /\ AllWhole(file', brigade, held, taken, takenHeld)
         /\ Within(file', call.in.bb)
         /\ ContentIn(file', Cut(call.in.bb)) = ContentIn(file, Cut(call.in.bb))
<1>1. call # Idle /\ call.to \in Brigades /\ call.fd \in Nat /\ file \in FileType
      /\ call.in.bb \in Seq(BucketsOn(Len(file))) /\ Len(file) \in Nat
  BY Calling, Typed DEF Bucket
<1>2. PICK base, target : base \in Nat /\ Writes(file, call, base, target)
                           /\ All(brigade, taken, Reaching(call.fd, base))
  BY BaseIs
<1>3. file' \in FileType /\ Kept(file, file', call.fd, base)
  BY <1>1, <1>2, WriteIs
<1>4. AllWhole(file', brigade, held, taken, takenHeld)
  BY <1>1, <1>2, <1>3, AllWholeStays DEF ContentInv
<1>5. PICK bb \in Seq(BucketsOn(Len(file))), cc \in Seq(BucketsOn(Len(file))) :
        /\ bb = call.in.bb /\ cc = Cut(call.in.bb) /\ Shorter(cc, bb)
        /\ bb \in Seq(Reaching(call.fd, -1)) /\ Within(file, bb)
  BY <1>1, CutParts DEF ContentInv, InputKept
<1>6. bb \in Seq(Reaching(call.fd, base))
  <2>1. -1 \in Int /\ base \in Int /\ -1 <= base
    BY <1>2
  <2>2. Seq(Reaching(call.fd, -1)) \subseteq Seq(Reaching(call.fd, base))
    BY <2>1, ReachingMore
  <2> QED
    BY <1>5, <2>2
<1>7. cc \in Seq(Reaching(call.fd, base)) /\ Within(file, cc)
  BY <1>1, <1>2, <1>5, <1>6, InLimits, WithinShorter DEF Shorter
<1>8. Within(file', bb)
  BY <1>1, <1>2, <1>3, <1>5, <1>6, ContentStays
<1>9. ContentIn(file', cc) = ContentIn(file, cc)
  BY <1>1, <1>2, <1>3, <1>7, ContentStays
<1> QED
  BY <1>4, <1>5, <1>8, <1>9

\* A call that gives up, after whatever it wrote, leaves what the others hold.
LEMMA FailContent ==
  ASSUME IInv, ContentInv, call.phase \in {"out", "in"},
         NEW len \in 0 .. Len(FlattenSeq(Loaded)), Write(len), Fail
  PROVE  ContentInv'
<1>1. /\ call' = Idle /\ taken' = taken /\ takenHeld' = takenHeld
      /\ \A b \in Brigades :
               \/ brigade'[b] = brigade[b] /\ held'[b] = held[b]
               \/ brigade'[b] = << >> /\ held'[b] = << >>
  BY FailIs
<1>2. AllWhole(file', brigade, held, taken, takenHeld)
  BY WriteKeepsAll
<1>3. AllWhole(file', brigade', held', taken', takenHeld')
  BY <1>1, <1>2, WholeEmpty DEF AllWhole
<1>4. Behind(brigade', taken')
  <2>1. \A S : All(brigade, taken, S) => All(brigade', taken', S)
    <3>1. \A S : << >> \in Seq(S)
      OBVIOUS
    <3> QED
      BY <1>1, <3>1 DEF All
  <2>2. \A f \in Nat, n \in Nat : (\A b \in Brigades : brigade[b] \in Seq(NotTip(f, n)))
                                     => \A b \in Brigades : brigade'[b] \in Seq(NotTip(f, n))
    <3>1. \A S : << >> \in Seq(S)
      OBVIOUS
    <3> QED
      BY <1>1, <3>1
  <2> QED
    BY <2>1, <2>2, BehindLess DEF ContentInv
<1> QED
  BY <1>1, <1>3, <1>4 DEF ContentInv, Idle

\* One write, of whatever it wrote.
LEMMA WritevContent ==
  ASSUME IInv, ContentInv, ~StaleIovecs, Writev
  PROVE  ContentInv'
<1>0. call.phase \in {"out", "in"}
  BY WritevIs
<1>1. PICK len \in 0 .. Len(FlattenSeq(Loaded)) :
               /\ Write(len)
               /\ \/ Fail
                  \/ /\ UNCHANGED <<brigade, taken, made, held, takenHeld>>
                     /\ call'.phase = call.phase /\ call'.to = call.to /\ call'.fd = call.fd
                     /\ call'.in = call.in /\ call' # Idle
                     /\ call'.v \in Remaining(Loaded, len)
                     /\ call'.rest = Unloaded /\ call'.wlen = call.wlen + len
  BY WritevIs
<1>2. CASE Fail
  BY <1>0, <1>1, <1>2, FailContent
<1>3. CASE /\ UNCHANGED <<brigade, taken, made, held, takenHeld>>
           /\ call'.phase = call.phase /\ call'.to = call.to /\ call'.fd = call.fd
           /\ call'.in = call.in /\ call' # Idle
           /\ call'.v \in Remaining(Loaded, len)
           /\ call'.rest = Unloaded /\ call'.wlen = call.wlen + len
  <2>1. /\ AllWhole(file', brigade, held, taken, takenHeld)
        /\ Within(file', call.in.bb)
        /\ ContentIn(file', Cut(call.in.bb)) = ContentIn(file, Cut(call.in.bb))
    BY <1>0, <1>1, WriteKeepsAll
  <2>2. call # Idle /\ call.to \in Brigades
    BY <1>0, Calling
  <2>3. call'.v = Shifted(Loaded, len)
    BY <1>3 DEF Remaining
  <2>4. PICK base, target :
            /\ base \in Nat /\ Writes(file, call, base, target)
            /\ call.phase = "out" => base = 0 /\ target = ContentIn(file, brigade[call.to])
            /\ call.phase = "in" => /\ base = SpoolEnd(Last(brigade[call.to]))
                                    /\ target = ContentIn(file, Cut(call.in.bb))
    BY <1>0, BaseIs
  <2>5. Writes(file', call', base, target)
    <3>1. PICK c : c = call'
      OBVIOUS
    <3>2. c.fd = call.fd /\ c.rest = Unloaded /\ c.v = Shifted(Loaded, len) /\ c.wlen = call.wlen + len
      BY <1>3, <2>3, <3>1
    <3>3. Writes(file', c, base, target)
      BY <1>1, <2>2, <2>4, <3>2, WritesOn
    <3> QED
      BY <3>1, <3>3
  <2>6. ContentIn(file', brigade[call.to]) = ContentIn(file, brigade[call.to])
    BY <2>1, <2>2 DEF ContentInv, AllWhole, Whole
  <2>7. AllWhole(file', brigade', held', taken', takenHeld') /\ Behind(brigade', taken')
    BY <1>3, <2>1 DEF ContentInv
  <2>8. InputKept(file', call', brigade')
    BY <1>3, <2>1, <2>2 DEF ContentInv, InputKept
  <2>9. CASE call.phase = "out"
    <3>1. Writes(file', call', 0, ContentIn(file', brigade'[call'.to]))
      BY <1>3, <2>4, <2>5, <2>6, <2>9
    <3>2. /\ brigade[call.to] \in Seq(NotEos) /\ Length(brigade[call.to]) <= BucketLimit
          /\ All(brigade, taken, Reaching(call.fd, -1))
      BY <2>9 DEF ContentInv
    <3> QED
      BY <1>3, <2>7, <2>8, <2>9, <3>1, <3>2 DEF ContentInv
  <2>10. CASE call.phase = "in"
    <3>1. Writes(file', call', SpoolEnd(Last(brigade'[call'.to])), ContentIn(file', Cut(call'.in.bb)))
      BY <1>3, <2>1, <2>4, <2>5, <2>10
    <3> QED
      BY <1>3, <2>7, <2>8, <2>10, <3>1 DEF ContentInv
  <2> QED
    BY <1>0, <2>9, <2>10
<1> QED
  BY <1>1, <1>2, <1>3

\* A write that failed, after whatever it wrote.
LEMMA WriteFailsContent ==
  ASSUME IInv, ContentInv, WriteFails
  PROVE  ContentInv'
BY FailContent DEF WriteFails, Writing

\* How a write begins: nothing is behind base yet.
LEMMA StartWrites ==
  ASSUME NEW fs \in FileType, NEW bb \in Seq(BucketsOn(Len(fs))), NEW f \in 1 .. Len(fs),
         NEW base \in Nat, fs[f].at = base, base <= Len(fs[f].data),
         bb \in Seq(Reaching(f, -1)), Within(fs, bb),
         NEW phase, NEW to, NEW in, NEW more
  PROVE  Writes(fs, Start(phase, to, f, bb, in, more), base, ContentIn(fs, bb))
<1>1. PICK c : c = Start(phase, to, f, bb, in, more)
  OBVIOUS
<1>2. c.fd = f /\ c.rest = Pieces(bb) /\ c.v = << >> /\ c.wlen = 0
  BY <1>1 DEF Start
<1>3. Pieces(bb) \in Seq(BucketsOn(Len(fs))) /\ Shorter(Pieces(bb), bb)
      /\ ContentIn(fs, Pieces(bb)) = ContentIn(fs, bb)
  BY PiecesFacts
<1>4. c.rest \in Seq(Reaching(f, -1)) /\ Within(fs, c.rest)
  <2>1. f \in Nat /\ -1 \in Int
    BY FilesNat DEF FileType
  <2> QED
    BY <1>2, <1>3, <2>1, InLimits, WithinShorter DEF Shorter
<1>5. FlattenSeq(c.v) = << >>
  BY <1>2, FlattenEmpty
<1>6. Bytes(fs[f].data, base, base) = << >>
  BY BytesNone
<1>7. PICK t \in Seq(Int) : t = ContentIn(fs, bb)
  BY ContentInFacts
<1>8. << >> \o (<< >> \o t) = t
  OBVIOUS
<1>9. fs[c.fd].at = base + c.wlen
  BY <1>2
<1>10. Bytes(fs[c.fd].data, base, fs[c.fd].at) \o (FlattenSeq(c.v) \o ContentIn(fs, c.rest)) = t
  BY <1>2, <1>3, <1>5, <1>6, <1>7, <1>8
<1>11. Writes(fs, c, base, t)
  BY <1>2, <1>4, <1>9, <1>10 DEF Writes
<1> QED
  BY <1>1, <1>7, <1>11

\* What is behind base when all is written.
LEMMA AllWritten ==
  ASSUME NEW fs \in FileType, NEW c, c.fd \in 1 .. Len(fs), NEW base \in Nat, c.wlen \in Nat,
         NEW target, Writes(fs, c, base, target), c.v = << >>, c.rest = << >>
  PROVE  /\ base + c.wlen <= Len(fs[c.fd].data)
         /\ Bytes(fs[c.fd].data, base, base + c.wlen) = target
<1>1. FlattenSeq(c.v) \o ContentIn(fs, c.rest) = << >>
  BY FlattenEmpty, ContentInEmpty
<1>21. PICK d \in Seq(Int) : d = fs[c.fd].data
  BY FileDataType
<1>22. PICK e \in Nat : e = base + c.wlen
  <2>1. base + c.wlen \in Nat
    OBVIOUS
  <2> QED
    BY <2>1
<1>2. d = fs[c.fd].data /\ e = base + c.wlen
  BY <1>21, <1>22
<1>3. fs[c.fd].at = e /\ e <= Len(d) /\ base <= e
  BY <1>2 DEF Writes
<1>4. PICK t \in Seq(Int) : t = Bytes(d, base, e)
  BY <1>3, BytesType
<1>5. t \o << >> = t
  OBVIOUS
<1> QED
  BY <1>1, <1>2, <1>3, <1>4, <1>5 DEF Writes

\* The brigade is in its file, and its spool bucket holds what the brigade did.
LEMMA FinishOutContent ==
  ASSUME IInv, ContentInv, FinishOut
  PROVE  ContentInv'
<1>0. /\ call.phase = "out" /\ UNCHANGED <<file, taken, held, takenHeld>>
      /\ \A c \in Brigades :
            brigade'[c] = IF c = call.to THEN <<SpoolBucket(call.fd, 0, SizeT(call.wlen))>>
                          ELSE brigade[c]
      /\ \/ call' = Idle
         \/ call' = Start("in", call.to, call.fd, Cut(call.in.bb), call.in, TRUE)
  BY FinishOutIs
<1>1. /\ call # Idle /\ call.to \in Brigades /\ call.fd \in 1 .. Len(file) /\ call.wlen \in Nat
      /\ call.in.bb \in Seq(BucketsOn(Len(file))) /\ call.in.from # call.to
      /\ file \in FileType /\ Len(file) \in Nat
  BY <1>0, Calling, Typed DEF Bucket
<1>2. PICK to \in Brigades, f \in 1 .. Len(file), w \in Nat :
        to = call.to /\ f = call.fd /\ w = call.wlen /\ f \in Nat
  BY <1>1
<1>3. PICK d \in Seq(Int) : d = file[f].data
  BY <1>1, FileDataType
<1>4. /\ brigade[to] \in Seq(NotEos) /\ Length(brigade[to]) <= BucketLimit
      /\ All(brigade, taken, Reaching(f, -1))
      /\ Writes(file, call, 0, ContentIn(file, brigade[to]))
  BY <1>0, <1>2 DEF ContentInv
<1>5. brigade[to] \in Seq(BucketsOn(Len(file))) /\ Whole(file, brigade[to], held[to])
      /\ held[to] \in Seq(Int)
  BY Typed DEF ContentInv, AllWhole
<1>6. call.v = << >> /\ call.rest = << >>
  BY DEF FinishOut, Finished
<1>7. w <= Len(d) /\ Bytes(d, 0, w) = held[to] /\ Len(d) \in Nat
  <2>1. /\ 0 + call.wlen <= Len(file[call.fd].data)
        /\ Bytes(file[call.fd].data, 0, 0 + call.wlen) = ContentIn(file, brigade[to])
    BY <1>1, <1>4, <1>6, AllWritten
  <2>2. 0 + w = w
    OBVIOUS
  <2> QED
    BY <1>2, <1>3, <1>5, <2>1, <2>2 DEF Whole
<1>8. Len(held[to]) = w
  <2>1. 0 \in Nat /\ 0 <= w
    OBVIOUS
  <2>2. Len(Bytes(d, 0, w)) = w - 0
    BY <1>7, <2>1, BytesType
  <2> QED
    BY <1>7, <2>2
<1>9. w <= BucketLimit /\ SizeT(w) = w
  <2>1. Len(ContentIn(file, brigade[to])) = Length(brigade[to])
    BY <1>1, <1>4, <1>5, ContentLen DEF Whole
  <2>2. Len(held[to]) = Length(brigade[to])
    BY <1>5, <2>1 DEF Whole
  <2>3. w <= BucketLimit
    BY <1>4, <1>8, <2>2
  <2> QED
    BY <2>3, SizeTSmall
<1>10. PICK b : b = SpoolBucket(f, 0, w)
  OBVIOUS
<1>11. b \in FileBuckets(Len(file)) /\ b.fd = f /\ b.start = 0 /\ b.length = w /\ b.type = "spool"
       /\ b.start + b.length = w
  BY <1>10 DEF SpoolBucket, FileBuckets
<1>12. b \in BucketsOn(Len(file)) /\ PartOf(file, f, b, w)
  BY <1>9, <1>11 DEF BucketsOn, PartOf
<1>13. DataIn(file, b) = Bytes(d, 0, w)
  BY <1>1, <1>3, <1>7, <1>11, DataInFile
<1>14. PICK x \in Seq(BucketsOn(Len(file))) :
         /\ \A c \in Brigades : brigade'[c] = IF c = to THEN x ELSE brigade[c]
         /\ \A i \in DOMAIN x : PartOf(file, f, x[i], w)
         /\ ContentIn(file, x) = held[to] /\ Last(x) = b
  <2>1. <<b>> \in Seq(BucketsOn(Len(file)))
    BY <1>12, OneIn
  <2>2. ContentIn(file, <<b>>) = held[to]
    BY <1>1, <1>7, <1>12, <1>13, ContentInOne
  <2>3. \A c \in Brigades : brigade'[c] = IF c = to THEN <<b>> ELSE brigade[c]
    BY <1>0, <1>2, <1>9, <1>10
  <2>4. Last(<<b>>) = b
    BY DEF Last
  <2>5. \A i \in DOMAIN <<b>> : PartOf(file, f, <<b>>[i], w)
    BY <1>12
  <2>6. PICK y : y = <<b>>
    OBVIOUS
  <2>7. y \in Seq(BucketsOn(Len(file))) /\ ContentIn(file, y) = held[to] /\ Last(y) = b
        /\ (\A c \in Brigades : brigade'[c] = IF c = to THEN y ELSE brigade[c])
        /\ \A i \in DOMAIN y : PartOf(file, f, y[i], w)
    BY <2>1, <2>2, <2>3, <2>4, <2>5, <2>6
  <2> QED
    BY <2>7
<1>15. /\ Within(file, x) /\ x \in Seq(ShortSpools)
       /\ x \in Seq(Reaching(f, w))
       /\ \A n \in Nat : n # w => x \in Seq(NotTip(f, n))
       /\ \A g \in Nat, k \in Int : g # f => x \in Seq(Reaching(g, k)) /\ x \in Seq(NotTip(g, k))
  BY <1>1, <1>3, <1>7, <1>14, PartsGrown
<1>16. AllWhole(file', brigade', held', taken', takenHeld')
  <2>1. Whole(file, x, held[to])
    BY <1>14, <1>15 DEF Whole
  <2> QED
    BY <1>0, <1>14, <2>1 DEF ContentInv, AllWhole
<1>17. Behind(brigade', taken')
  <2>1. ASSUME NEW c \in Brigades, NEW g \in Nat, NEW n \in Nat
        PROVE  brigade'[c] \in Seq(NotTip(g, n)) \/ All(brigade', taken', Reaching(g, n))
    <3>1. CASE g = f /\ n = w
      <4>1. -1 \in Int /\ w \in Int /\ -1 <= w
        OBVIOUS
      <4>2. All(brigade, taken, Reaching(f, w))
        BY <1>4, <4>1, AllReaching
      <4> QED
        BY <1>0, <1>14, <1>15, <3>1, <4>2 DEF All
    <3>2. CASE g = f /\ n # w /\ c = to
      BY <1>14, <1>15, <3>2
    <3>3. CASE g = f /\ c # to
      <4>1. brigade[c] \in Seq(BucketsOn(Len(file))) /\ brigade[c] \in Seq(Reaching(f, -1))
        BY <1>4, Typed DEF All
      <4>2. f \notin Files(brigade[c])
        BY <1>1, <4>1, NoneBefore
      <4>3. brigade[c] \in Seq(NotTip(f, n))
        BY <1>1, <4>1, <4>2, OffFile
      <4> QED
        BY <1>14, <3>3, <4>3
    <3>4. CASE g # f /\ c = to
      BY <1>14, <1>15, <3>4
    <3>5. CASE g # f /\ c # to
      <4>1. brigade[c] \in Seq(NotTip(g, n)) \/ All(brigade, taken, Reaching(g, n))
        BY DEF ContentInv, Behind
      <4>2. All(brigade, taken, Reaching(g, n)) => All(brigade', taken', Reaching(g, n))
        BY <1>0, <1>14, <1>15, <3>5 DEF All
      <4> QED
        BY <1>14, <3>5, <4>1, <4>2
    <3> QED
      BY <3>1, <3>2, <3>3, <3>4, <3>5
  <2> QED
    BY <2>1 DEF Behind
<1>18. CASE call' = Idle
  BY <1>16, <1>17, <1>18 DEF ContentInv, Idle
<1>19. CASE call' = Start("in", call.to, call.fd, Cut(call.in.bb), call.in, TRUE)
  <2>1. PICK bb, in :
          bb \in Seq(BucketsOn(Len(file))) /\ bb = Cut(call.in.bb) /\ in = call.in /\ Shorter(bb, call.in.bb)
    BY <1>1, CutParts
  <2>2. call' = Start("in", to, f, bb, in, TRUE)
    BY <1>2, <1>19, <2>1
  <2>3. call'.in = in /\ call'.fd = f /\ call'.to = to /\ call'.phase = "in"
    BY <2>2 DEF Start
  <2>4. /\ in.from \in Brigades => in.bb = brigade[in.from]
        /\ in.bb \in Seq(Reaching(f, -1)) /\ Within(file, in.bb)
    BY <1>1, <1>2, <2>1 DEF ContentInv, InputKept
  <2>5. InputKept(file', call', brigade')
    BY <1>0, <1>1, <1>2, <1>14, <2>1, <2>3, <2>4 DEF InputKept
  <2>6. bb \in Seq(Reaching(f, -1)) /\ Within(file, bb)
    <3>1. -1 \in Int
      OBVIOUS
    <3> QED
      BY <1>1, <1>2, <2>1, <2>4, <3>1, InLimits, WithinShorter DEF Shorter
  <2>7. file[f].at = w
    <3>1. file[f].at = 0 + w
      BY <1>2, <1>4 DEF Writes
    <3> QED
      BY <3>1
  <2>8. Writes(file, call', w, ContentIn(file, bb))
    <3>1. file \in FileType /\ bb \in Seq(BucketsOn(Len(file))) /\ f \in 1 .. Len(file)
          /\ w \in Nat /\ file[f].at = w /\ w <= Len(file[f].data)
          /\ bb \in Seq(Reaching(f, -1)) /\ Within(file, bb)
      BY <1>1, <1>3, <1>7, <2>1, <2>6, <2>7
    <3>2. Writes(file, Start("in", to, f, bb, in, TRUE), w, ContentIn(file, bb))
      BY ONLY <3>1, StartWrites
    <3> QED
      BY <2>2, <3>2
  <2>9. SpoolEnd(Last(brigade'[to])) = w
    BY <1>11, <1>14 DEF SpoolEnd
  <2>10. Writes(file', call', SpoolEnd(Last(brigade'[call'.to])), ContentIn(file', Cut(call'.in.bb)))
    BY <1>0, <2>1, <2>3, <2>8, <2>9
  <2> QED
    BY <1>16, <1>17, <2>3, <2>5, <2>10 DEF ContentInv
<1> QED
  BY <1>0, <1>18, <1>19

\* The end of the stream, or nothing, behind what was written.
EosOf(bb) == IF EndsWith(bb, "eos") THEN <<EosBucket>> ELSE << >>

\* The end of a stream is within any limits.
LEMMA TailFacts ==
  ASSUME NEW bb
  PROVE  /\ \A n \in Nat : EosOf(bb) \in Seq(BucketsOn(n))
         /\ EosOf(bb) \in Seq(ShortSpools)
         /\ \A f \in Nat, k \in Int : EosOf(bb) \in Seq(Reaching(f, k)) /\ EosOf(bb) \in Seq(NotTip(f, k))
<1>1. PICK e : e = EosBucket
  OBVIOUS
<1>2. e.type = "eos" /\ ~OnFile(e) /\ \A n \in Nat : e \in BucketsOn(n)
  BY <1>1 DEF EosBucket, OnFile, BucketsOn
<1>3. e \in AnyBucket
  <2>1. 0 \in Nat
    OBVIOUS
  <2> QED
    BY <1>2, <2>1 DEF AnyBucket
<1>4. e \in ShortSpools /\ \A f \in Nat, k \in Int : e \in Reaching(f, k) /\ e \in NotTip(f, k)
  BY <1>2, <1>3 DEF ShortSpools, Reaching, NotTip
<1>5. CASE EndsWith(bb, "eos")
  <2>1. EosOf(bb) = <<e>>
    BY <1>1, <1>5 DEF EosOf
  <2>2. \A S : e \in S => <<e>> \in Seq(S)
    BY OneIn
  <2> QED
    BY <1>2, <1>4, <2>1, <2>2
<1>6. CASE ~EndsWith(bb, "eos")
  <2>1. EosOf(bb) = << >>
    BY <1>6 DEF EosOf
  <2>2. \A S : << >> \in Seq(S)
    OBVIOUS
  <2> QED
    BY <2>1, <2>2
<1> QED
  BY <1>5, <1>6

\* Three sequences, put together in two ways.
JoinsThree(a, b, c) == (a \o b) \o c = a \o (b \o c)
\* Putting sequences together is associative.
LEMMA JoinThreeNamed ==
  ASSUME NEW a \in Seq(Int), NEW b \in Seq(Int), NEW c \in Seq(Int) PROVE JoinsThree(a, b, c)
BY ONLY JoinBytes, a \in Seq(Int), b \in Seq(Int), c \in Seq(Int) DEF JoinsThree

\* Four sequences, put together in two other ways.
ThreeParts(a, b, c, d) == (a \o (b \o c)) \o d = (a \o b) \o (c \o d)
\* Four sequences, put together in another order.
LEMMA JoinThreeParts ==
  ASSUME NEW a \in Seq(Int), NEW b \in Seq(Int), NEW c \in Seq(Int), NEW d \in Seq(Int)
  PROVE  ThreeParts(a, b, c, d)
<1>1. PICK u \in Seq(Int) : u = b \o c
  <2>1. b \o c \in Seq(Int)
    BY ConcatProperties
  <2> QED
    BY <2>1
<1>2. PICK w \in Seq(Int) : w = c \o d
  <2>1. c \o d \in Seq(Int)
    BY ConcatProperties
  <2> QED
    BY <2>1
<1>3. JoinsThree(b, c, d) /\ JoinsThree(a, u, d) /\ JoinsThree(a, b, w)
  BY JoinThreeNamed
<1> QED
  BY ONLY <1>1, <1>2, <1>3 DEF ThreeParts, JoinsThree

\* The spool bucket that grew, with what was before it and the end of the stream.
LEMMA GrownWhole ==
  ASSUME NEW fs \in FileType, NEW p \in Seq(BucketsOn(Len(fs))), NEW e \in FileBuckets(Len(fs)),
         NEW h, Whole(fs, p \o <<e>>, h), NEW x, NEW end \in Nat, Grown(fs, e, x, end),
         SpoolEnd(e) <= end, end <= Len(fs[e.fd].data),
         NEW w \in Seq(BucketsOn(Len(fs))), NEW g, Whole(fs, w, g)
  PROVE  Whole(fs, (p \o x) \o w, h \o (Bytes(fs[e.fd].data, SpoolEnd(e), end) \o g))
<1>1. PICK d \in Seq(Int) : d = fs[e.fd].data
  BY FileBucketFacts, FileDataType, FilesNat DEF FileBuckets
<1>2. e.start \in Nat /\ e.length \in Nat /\ SpoolEnd(e) = e.start + e.length
  BY DEF FileBuckets, SpoolEnd
<1>3. PICK s \in Nat, m \in Nat : s = e.start /\ m = SpoolEnd(e) /\ s <= m
  <2>1. SpoolEnd(e) \in Nat /\ e.start <= SpoolEnd(e)
    BY <1>2
  <2> QED
    BY <1>2, <2>1
<1>4. e \in BucketsOn(Len(fs)) /\ <<e>> \in Seq(BucketsOn(Len(fs)))
  BY OneIn DEF BucketsOn
<1>5. Whole(fs, p, ContentIn(fs, p)) /\ Within(fs, <<e>>) /\ h = ContentIn(fs, p) \o DataIn(fs, e)
  <2>1. Within(fs, p) /\ Within(fs, <<e>>)
    BY <1>4, WithinConcat DEF Whole
  <2>2. p \in Seq(ShortSpools)
    <3>1. p \o <<e>> \in Seq(ShortSpools)
      BY DEF Whole
    <3> QED
      BY <1>4, <3>1, ConcatIn
  <2>3. ContentIn(fs, p \o <<e>>) = ContentIn(fs, p) \o ContentIn(fs, <<e>>)
    BY <1>4, ContentInFacts
  <2>4. ContentIn(fs, <<e>>) = DataIn(fs, e)
    BY <1>4, ContentInOne
  <2> QED
    BY <2>1, <2>2, <2>3, <2>4 DEF Whole
<1>6. DataIn(fs, e) = Bytes(d, s, m)
  <2>1. OnFile(e)
    BY DEF FileBuckets, OnFile
  <2>2. e.start + e.length <= Len(fs[e.fd].data)
    BY <1>4, <1>5, <2>1, WithinOne
  <2> QED
    BY <1>1, <1>2, <1>3, <2>2, DataInFile
<1>7. m <= end /\ end <= Len(d)
  BY <1>1, <1>3
<1>8. Bytes(d, s, m) \o Bytes(d, m, end) = Bytes(d, s, end)
  BY ZenonT(40), <1>3, <1>7, BytesJoin
<1>9. x \in Seq(BucketsOn(Len(fs))) /\ Whole(fs, x, Bytes(d, s, end))
  BY <1>1, <1>3 DEF Grown, Whole
<1>10. PICK a \in Seq(Int), b \in Seq(Int), c \in Seq(Int) :
         a = ContentIn(fs, p) /\ b = Bytes(d, s, m) /\ c = Bytes(d, m, end)
  <2>1. ContentIn(fs, p) \in Seq(Int)
    BY ContentInFacts
  <2>2. Len(d) \in Nat /\ s <= m /\ m <= Len(d)
    BY <1>3, <1>7
  <2>3. Bytes(d, s, m) \in Seq(Int)
    BY <2>2, BytesType
  <2>4. Bytes(d, m, end) \in Seq(Int)
    BY <1>7, BytesType
  <2> QED
    BY <2>1, <2>3, <2>4
<1>11. PICK z \in Seq(Int) : z = g
  BY ContentInFacts DEF Whole
<1>12. Whole(fs, p \o x, a \o (b \o c))
  BY <1>5, <1>8, <1>9, <1>10, WholeConcat
<1>13. p \o x \in Seq(BucketsOn(Len(fs)))
  BY <1>9, ConcatIn
<1>14. Whole(fs, (p \o x) \o w, (a \o (b \o c)) \o z)
  BY <1>11, <1>12, <1>13, WholeConcat
<1>15. (a \o (b \o c)) \o z = (a \o b) \o (c \o z)
  <2>1. ThreeParts(a, b, c, z)
    BY ONLY JoinThreeParts, a \in Seq(Int), b \in Seq(Int), c \in Seq(Int), z \in Seq(Int)
  <2> QED
    BY ONLY <2>1 DEF ThreeParts
<1>16. h = a \o b
  BY <1>5, <1>6, <1>10
<1>17. Bytes(fs[e.fd].data, SpoolEnd(e), end) = c
  BY <1>1, <1>3, <1>10
<1> QED
  BY <1>11, <1>14, <1>15, <1>16, <1>17

\* Nobody refers to the file behind the spool bucket that grew.
LEMMA GrownBehind ==
  ASSUME IInv, Behind(brigade, taken), NEW to \in Brigades, NEW from,
         NEW p \in Seq(Bucket), NEW e \in FileBuckets(Len(file)), e.type = "spool",
         brigade[to] = p \o <<e>>, All(brigade, taken, Reaching(e.fd, SpoolEnd(e))),
         NEW x, NEW end \in Nat, SpoolEnd(e) <= end, Grown(file, e, x, end),
         NEW bb, NEW bs, Moved(brigade, bs, to, (p \o x) \o EosOf(bb), from)
  PROVE  Behind(bs, taken)
<1>1. PICK f \in Nat : f = e.fd
  BY FileBucketFacts, Typed DEF FileBuckets
<1>2. PICK w \in Seq(Bucket) : w = EosOf(bb)
  BY TailFacts, Typed DEF Bucket
<1>3. x \in Seq(Bucket)
  BY DEF Grown, Bucket
<1>4. p \o x \in Seq(Bucket)
  BY <1>3, ConcatIn
<1>5. \A S : (p \o x) \o w \in Seq(S) <=> p \in Seq(S) /\ x \in Seq(S) /\ w \in Seq(S)
  BY <1>3, <1>4, ConcatIn
<1>6. e \in Bucket /\ <<e>> \in Seq(Bucket)
  BY OneIn DEF Bucket, BucketsOn
<1>7. \A S : brigade[to] \in Seq(S) => p \in Seq(S)
  BY <1>6, ConcatIn
<1>8. \A g \in Nat, k \in Int : w \in Seq(Reaching(g, k)) /\ w \in Seq(NotTip(g, k))
  BY <1>2, TailFacts
<1>9. \A c \in Brigades : bs[c] = IF c = to THEN (p \o x) \o w ELSE IF c = from THEN << >> ELSE brigade[c]
  BY <1>2 DEF Moved
<1>10. \A S : << >> \in Seq(S)
  OBVIOUS
<1>11. f \notin Spools(p) /\ f \in Spools(brigade[to])
  <2>1. OneSpool(p \o <<e>>)
    BY DEF IInv, OneOwner
  <2>2. Spools(<<e>>) = {f}
    BY <1>1, SpoolsOne
  <2>3. Len(file) \in Nat /\ p \in Seq(BucketsOn(Len(file))) /\ <<e>> \in Seq(BucketsOn(Len(file)))
    BY <1>6, Typed DEF Bucket
  <2>7. PICK n \in Nat : n = Len(file)
    BY <2>3
  <2>5. PICK q \in Seq(BucketsOn(n)), r \in Seq(BucketsOn(n)) : q = p /\ r = <<e>>
    BY <2>3, <2>7
  <2>6. Spools(q \o r) = Spools(q) \cup Spools(r) /\ (OneSpool(q \o r) => Spools(q) \cap Spools(r) = {})
    BY ONLY n \in Nat, q \in Seq(BucketsOn(n)), r \in Seq(BucketsOn(n)), SpoolsConcat
  <2>4. Spools(p \o <<e>>) = Spools(p) \cup Spools(<<e>>) /\ Spools(p) \cap Spools(<<e>>) = {}
    BY <2>1, <2>5, <2>6
  <2> QED
    BY <2>2, <2>4
<1>12. ASSUME NEW g \in Nat, NEW n \in Nat, All(brigade, taken, Reaching(g, n)),
              x \in Seq(Reaching(g, n))
       PROVE  All(bs, taken, Reaching(g, n))
  <2>1. PICK S : S = Reaching(g, n)
    OBVIOUS
  <2>2. x \in Seq(S) /\ p \in Seq(S)
    BY <1>7, <1>12, <2>1 DEF All
  <2>3. w \in Seq(S)
    <3>1. n \in Int
      OBVIOUS
    <3> QED
      BY <1>8, <2>1, <3>1
  <2>4. (p \o x) \o w \in Seq(S)
    BY <1>5, <2>2, <2>3
  <2>5. \A c \in Brigades : bs[c] \in Seq(S)
    BY <1>9, <1>10, <1>12, <2>1, <2>4 DEF All
  <2> QED
    BY <1>12, <2>1, <2>5 DEF All
<1>13. ASSUME NEW b \in Brigades, NEW g \in Nat, NEW n \in Nat
       PROVE  bs[b] \in Seq(NotTip(g, n)) \/ All(bs, taken, Reaching(g, n))
  <2>1. CASE g = f /\ n = end
    <3>1. SpoolEnd(e) \in Int /\ end \in Int
      BY DEF SpoolEnd, FileBuckets
    <3>2. All(brigade, taken, Reaching(f, end))
      BY <1>1, <3>1, AllReaching
    <3>3. x \in Seq(Reaching(f, end))
      BY <1>1 DEF Grown
    <3> QED
      BY <1>12, <2>1, <3>2, <3>3
  <2>2. CASE g = f /\ n # end
    <3>1. x \in Seq(NotTip(f, n))
      BY <1>1, <2>2 DEF Grown
    <3>2. p \in Seq(NotTip(f, n))
      <4>1. Len(file) \in Nat /\ p \in Seq(BucketsOn(Len(file)))
        BY Typed DEF Bucket
      <4> QED
        BY <1>11, <4>1, NoSpoolNotTip
    <3>3. ASSUME b # to PROVE brigade[b] \in Seq(NotTip(f, n))
      <4>1. f \notin Spools(brigade[b])
        BY <1>11, <3>3 DEF IInv, OneOwner
      <4>2. Len(file) \in Nat /\ brigade[b] \in Seq(BucketsOn(Len(file)))
        BY Typed
      <4> QED
        BY <4>1, <4>2, NoSpoolNotTip
    <3>4. w \in Seq(NotTip(f, n))
      <4>1. n \in Int
        OBVIOUS
      <4> QED
        BY <1>8, <4>1
    <3>5. PICK S : S = NotTip(f, n)
      OBVIOUS
    <3>6. (p \o x) \o w \in Seq(S)
      BY <1>5, <3>1, <3>2, <3>4, <3>5
    <3>7. bs[b] \in Seq(S)
      BY <1>9, <1>10, <3>3, <3>5, <3>6
    <3> QED
      BY <2>2, <3>5, <3>7
  <2>3. CASE g # f
    <3>1. n \in Int
      OBVIOUS
    <3>2. x \in Seq(Reaching(g, n)) /\ x \in Seq(NotTip(g, n))
      BY <1>1, <2>3, <3>1 DEF Grown
    <3>3. CASE All(brigade, taken, Reaching(g, n))
      BY <1>12, <3>2, <3>3
    <3>4. CASE brigade[b] \in Seq(NotTip(g, n))
      <4>1. PICK S : S = NotTip(g, n)
        OBVIOUS
      <4>2. w \in Seq(S) /\ x \in Seq(S)
        BY <1>8, <3>1, <3>2, <4>1
      <4>3. b = to => (p \o x) \o w \in Seq(S)
        BY <1>5, <1>7, <3>4, <4>1, <4>2
      <4>4. bs[b] \in Seq(S)
        BY <1>9, <1>10, <3>4, <4>1, <4>3
      <4> QED
        BY <4>1, <4>4
    <3> QED
      BY <3>3, <3>4 DEF Behind
  <2> QED
    BY <2>1, <2>2, <2>3
<1> QED
  BY <1>13 DEF Behind

\* The input is behind the spool bucket, which has grown by it.
LEMMA FinishInContent ==
  ASSUME IInv, ContentInv, FinishIn
  PROVE  ContentInv'
<1>1. /\ call.phase = "in" /\ call' = Idle /\ UNCHANGED <<file, taken, takenHeld>>
      /\ call.v = << >> /\ call.rest = << >>
  BY FinishInIs DEF FinishIn, Finished
<1>2. PICK p, e :
         /\ p \in Seq(Bucket) /\ e \in FileBuckets(Len(file))
         /\ e.type = "spool" /\ e.fd = call.fd /\ e = Last(brigade[call.to])
         /\ brigade[call.to] = p \o <<e>>
         /\ Moved(brigade, brigade', call.to,
                  p \o Extended(e, call.wlen)
                  \o IF EndsWith(call.in.bb, "eos") THEN <<EosBucket>> ELSE << >>,
                  call.in.from)
         /\ Moved(held, held', call.to, held[call.to] \o Content(call.in.bb), call.in.from)
  BY FinishInIs
<1>3. /\ call # Idle /\ call.to \in Brigades /\ call.fd \in 1 .. Len(file) /\ call.wlen \in Nat
      /\ call.in.bb \in Seq(BucketsOn(Len(file)))
      /\ file \in FileType /\ Len(file) \in Nat
  BY <1>1, Calling, Typed DEF Bucket
<1>4. PICK to \in Brigades, wl \in Nat, bb \in Seq(BucketsOn(Len(file))) :
        to = call.to /\ wl = call.wlen /\ bb = call.in.bb
  BY <1>3
<1>31. \A S : brigade[to] \in Seq(S) => e \in S
  <2>1. <<e>> \in Seq(Bucket)
    BY <1>2, OneIn DEF Bucket, BucketsOn
  <2>2. PICK o \in Seq(Bucket) : o = <<e>>
    BY <2>1
  <2>3. p \in Seq(Bucket) /\ brigade[to] = p \o o
    BY <1>2, <1>4, <2>2
  <2>4. \A S : brigade[to] \in Seq(S) => o \in Seq(S)
    BY ONLY <2>3, o \in Seq(Bucket), ConcatIn
  <2> QED
    BY <2>2, <2>4, OneIn
<1>5. PICK from, base : from = call.in.from /\ base = SpoolEnd(e)
  OBVIOUS
<1>6. base \in Nat /\ e.length <= BucketLimit /\ p \in Seq(BucketsOn(Len(file)))
      /\ e \in BucketsOn(Len(file)) /\ e.fd \in 1 .. Len(file)
  <2>1. brigade[to] \in Seq(ShortSpools)
    BY DEF ContentInv, AllWhole, Whole
  <2>2. e \in Bucket /\ <<e>> \in Seq(Bucket)
    BY <1>2, OneIn DEF Bucket, BucketsOn
  <2>4. e \in ShortSpools
    BY <1>31, <2>1
  <2>5. e.length <= BucketLimit
    BY <1>2, <2>4 DEF ShortSpools
  <2>6. base \in Nat
    BY <1>2, <1>5 DEF SpoolEnd, FileBuckets
  <2> QED
    BY <1>2, <1>3, <2>2, <2>5, <2>6 DEF Bucket
<1>7. PICK end \in Nat : end = base + wl
  <2>1. base + wl \in Nat
    BY <1>6
  <2> QED
    BY <2>1
<1>8. base <= end /\ SpoolEnd(e) <= end /\ end = SpoolEnd(e) + wl
  BY <1>5, <1>6, <1>7
<1>9. Writes(file, call, base, ContentIn(file, Cut(bb)))
  BY <1>1, <1>2, <1>4, <1>5 DEF ContentInv
<1>10. end <= Len(file[e.fd].data) /\ Bytes(file[e.fd].data, SpoolEnd(e), end) = ContentIn(file, Cut(bb))
  <2>1. /\ base + call.wlen <= Len(file[call.fd].data)
        /\ Bytes(file[call.fd].data, base, base + call.wlen) = ContentIn(file, Cut(bb))
    BY <1>1, <1>3, <1>6, <1>9, AllWritten
  <2> QED
    BY <1>2, <1>4, <1>5, <1>7, <2>1
<1>11. PICK x : x = Extended(e, wl)
  OBVIOUS
<1>12. Grown(file, e, x, end)
  <2>1. SpoolEnd(e) + wl <= Len(file[e.fd].data)
    BY <1>8, <1>10
  <2>2. Grown(file, e, Extended(e, wl), SpoolEnd(e) + wl)
    BY <1>2, <1>3, <1>6, <2>1, ExtendedContent
  <2> QED
    BY <1>8, <1>11, <2>2
<1>13. Moved(brigade, brigade', to, (p \o x) \o EosOf(bb), from)
  BY <1>2, <1>4, <1>5, <1>11 DEF EosOf
<1>14. InputKept(file, call, brigade) /\ Within(file, bb)
  BY <1>3, <1>4 DEF ContentInv, InputKept
<1>15. PICK w \in Seq(BucketsOn(Len(file))), c \in Seq(BucketsOn(Len(file))) :
          w = EosOf(bb) /\ c = Cut(bb) /\ bb = c \o w
  <2>1. Cut(bb) \in Seq(BucketsOn(Len(file))) /\ bb = Cut(bb) \o EosOf(bb)
    BY <1>3, CutParts DEF EosOf
  <2> QED
    BY <1>3, <2>1, TailFacts
<1>16. Whole(file, w, ContentIn(file, w)) /\ ContentIn(file, bb) = ContentIn(file, c) \o ContentIn(file, w)
  <2>1. Within(file, w)
    <3>1. Within(file, c \o w)
      BY <1>14, <1>15
    <3> QED
      BY <1>3, <3>1, WithinConcat
  <2>2. w \in Seq(ShortSpools)
    BY <1>15, TailFacts
  <2> QED
    BY <1>3, <1>15, <2>1, <2>2, ContentInFacts DEF Whole
<1>17. Moved(held, held', to, held[to] \o (ContentIn(file, c) \o ContentIn(file, w)), from)
  BY <1>2, <1>4, <1>5, <1>16, ContentNow
<1>18. Whole(file, (p \o x) \o w, held[to] \o (ContentIn(file, c) \o ContentIn(file, w)))
  <2>1. Whole(file, p \o <<e>>, held[to])
    BY <1>2, <1>4 DEF ContentInv, AllWhole
  <2>2. Whole(file, (p \o x) \o w,
              held[to] \o (Bytes(file[e.fd].data, SpoolEnd(e), end) \o ContentIn(file, w)))
    BY ONLY <1>2, <1>3, <1>6, <1>8, <1>10, <1>12, <1>16, <2>1, GrownWhole,
            end \in Nat, w \in Seq(BucketsOn(Len(file)))
  <2> QED
    BY <1>10, <1>15, <2>2
<1>19. AllWhole(file, brigade', held', taken, takenHeld)
  <2>1. \A b \in Brigades : Whole(file, brigade[b], held[b])
    BY DEF ContentInv, AllWhole
  <2>2. \A b \in Brigades : Whole(file, brigade'[b], held'[b])
    BY <1>13, <1>15, <1>17, <1>18, <2>1, WholeEmpty DEF Moved
  <2> QED
    BY <2>2 DEF ContentInv, AllWhole
<1>20. Behind(brigade', taken)
  <2>1. All(brigade, taken, Reaching(e.fd, base))
    <3>1. Behind(brigade, taken)
      BY DEF ContentInv
    <3>2. e.fd \in Nat
      BY <1>3, <1>6
    <3>3. brigade[to] \notin Seq(NotTip(e.fd, base))
      <4>1. e \notin NotTip(e.fd, base)
        BY <1>2, <1>5 DEF NotTip, SpoolEnd
      <4> QED
        BY <1>31, <4>1
    <3> QED
      BY <1>6, <3>1, <3>2, <3>3 DEF Behind
  <2>2. All(brigade, taken, Reaching(e.fd, SpoolEnd(e)))
    BY <1>5, <2>1
  <2>3. Behind(brigade, taken) /\ brigade[to] = p \o <<e>> /\ p \in Seq(Bucket)
        /\ e \in FileBuckets(Len(file)) /\ e.type = "spool"
    BY <1>2, <1>4 DEF ContentInv
  <2> QED
    BY ONLY IInv, to \in Brigades, end \in Nat, <1>8, <1>12, <1>13, <2>2, <2>3, GrownBehind
<1> QED
  BY <1>1, <1>19, <1>20 DEF ContentInv, Idle

------------------------------------------------------------------------------
(* The beginning of a concatenation. *)

\* Buckets none of which is on a file.
LEMMA MemoryOnly ==
  ASSUME NEW bb, bb \in Seq(BucketsOn(0))
  PROVE  /\ bb \in Seq(ShortSpools)
         /\ \A f \in Nat, k \in Int : bb \in Seq(Reaching(f, k)) /\ bb \in Seq(NotTip(f, k))
<1>1. PICK n \in Nat : n = 0
  OBVIOUS
<1>2. bb \in Seq(BucketsOn(n)) /\ BucketsOn(n) \subseteq AnyBucket
  BY <1>1, BucketsAny
<1>3. FileBuckets(n) = {}
  BY <1>1 DEF FileBuckets
<1>4. \A e \in BucketsOn(n) : ~OnFile(e)
  BY <1>2, <1>3, BucketFacts
<1>5. \A e \in BucketsOn(n) : e.type # "spool"
  BY <1>4 DEF OnFile
<1>6. BucketsOn(n) \subseteq ShortSpools
  BY <1>2, <1>5 DEF ShortSpools
<1>7. \A f \in Nat, k \in Int :
         BucketsOn(n) \subseteq Reaching(f, k) /\ BucketsOn(n) \subseteq NotTip(f, k)
  BY <1>2, <1>4, <1>5 DEF Reaching, NotTip
<1> QED
  BY <1>2, <1>6, <1>7, SeqMore

\* What a concatenation is given is whole.
LEMMA GivenWhole ==
  ASSUME IInv, ContentInv, NEW to \in Brigades, NEW in, Given(to, in)
  PROVE  /\ in.bb \in Seq(BucketsOn(Len(file))) /\ Whole(file, in.bb, ContentIn(file, in.bb))
         /\ in.from \in Brigades => in.bb = brigade[in.from]
         /\ \A f \in Nat, k \in Int :
               All(brigade, taken, Reaching(f, k)) => in.bb \in Seq(Reaching(f, k))
         /\ \A f \in Nat, k \in Int :
               (\A b \in Brigades : brigade[b] \in Seq(NotTip(f, k))) => in.bb \in Seq(NotTip(f, k))
<1>1. in.bb \in Seq(BucketsOn(Len(file))) /\ (in.from \in Brigades => in.bb = brigade[in.from])
  BY GivenIs
<1>2. CASE in.from \in Brigades
  <2>1. Whole(file, in.bb, held[in.from])
    BY <1>1, <1>2 DEF ContentInv, AllWhole
  <2>2. Whole(file, in.bb, ContentIn(file, in.bb))
    BY <2>1 DEF Whole
  <2> QED
    BY <1>1, <1>2, <2>2 DEF All
<1>3. CASE in.from \notin Brigades
  <2>1. in.bb \in Seq(BucketsOn(0))
    BY <1>3 DEF Given
  <2>2. Within(file, in.bb)
    <3>1. \A f \in 1 .. Len(file) : f \in Nat /\ Len(file[f].data) \in Int
      BY Typed, FileDataType
    <3> QED
      BY <2>1, <3>1, MemoryOnly DEF Within
  <2> QED
    BY <1>1, <1>3, <2>1, <2>2, MemoryOnly DEF Whole
<1> QED
  BY <1>2, <1>3

\* Both brigades in memory, one behind the other.
LEMMA InMemoryContent ==
  ASSUME IInv, ContentInv, call = Idle, NEW to \in Brigades, NEW in, Given(to, in),
         ConcatInMemory(to, in)
  PROVE  ContentInv'
<1>1. /\ in.bb \in Seq(BucketsOn(Len(file))) /\ Whole(file, in.bb, ContentIn(file, in.bb))
      /\ in.from # to
  BY GivenWhole, GivenIs
<1>2. /\ UNCHANGED <<file, taken, call, takenHeld>>
      /\ Moved(brigade, brigade', to, brigade[to] \o in.bb, in.from)
      /\ Moved(held, held', to, held[to] \o Content(in.bb), in.from)
  BY <1>1, InMemoryIs
<1>3. PICK u \in Seq(BucketsOn(Len(file))), w \in Seq(BucketsOn(Len(file))) :
        u = brigade[to] /\ w = in.bb
  BY <1>1, Typed
<1>4. file \in FileType
  BY Typed
<1>5. PICK from, t : from = in.from /\ t = ContentIn(file, w)
  OBVIOUS
<1>6. Moved(brigade, brigade', to, u \o w, from) /\ Moved(held, held', to, held[to] \o t, from)
  BY <1>2, <1>3, <1>5, ContentNow
<1>7. \A b \in Brigades : Whole(file, brigade[b], held[b])
  BY DEF ContentInv, AllWhole
<1>8. Whole(file, u \o w, held[to] \o t)
  BY <1>1, <1>3, <1>4, <1>5, <1>7, WholeConcat
<1>9. AllWhole(file', brigade', held', taken', takenHeld')
  BY <1>2, <1>6, <1>7, <1>8, WholeEmpty DEF ContentInv, AllWhole, Moved
<1>10. \A S : u \in Seq(S) /\ w \in Seq(S) => u \o w \in Seq(S)
  BY ConcatIn
<1>11. \A S : << >> \in Seq(S)
  OBVIOUS
<1>12. Behind(brigade', taken')
  <2>1. ASSUME NEW f \in Nat, NEW n \in Nat, All(brigade, taken, Reaching(f, n))
        PROVE  All(brigade', taken', Reaching(f, n))
    <3>1. n \in Int
      OBVIOUS
    <3>2. PICK S : S = Reaching(f, n)
      OBVIOUS
    <3>3. u \o w \in Seq(S)
      BY <1>3, <1>10, <2>1, <3>1, <3>2, GivenWhole DEF All
    <3>4. \A b \in Brigades : brigade'[b] \in Seq(S)
      BY <1>6, <1>11, <2>1, <3>2, <3>3 DEF All, Moved
    <3> QED
      BY <1>2, <2>1, <3>2, <3>4 DEF All
  <2>2. ASSUME NEW f \in Nat, NEW n \in Nat, \A b \in Brigades : brigade[b] \in Seq(NotTip(f, n))
        PROVE  \A b \in Brigades : brigade'[b] \in Seq(NotTip(f, n))
    <3>1. n \in Int
      OBVIOUS
    <3>2. PICK S : S = NotTip(f, n)
      OBVIOUS
    <3>3. u \o w \in Seq(S)
      BY <1>3, <1>10, <2>2, <3>1, <3>2, GivenWhole
    <3>4. \A b \in Brigades : brigade'[b] \in Seq(S)
      BY <1>6, <1>11, <2>2, <3>2, <3>3 DEF Moved
    <3> QED
      BY <3>2, <3>4
  <2>3. Behind(brigade, taken)
    BY DEF ContentInv
  <2> QED
    BY <2>1, <2>2, <2>3, BehindLess
<1> QED
  BY <1>2, <1>9, <1>12 DEF ContentInv, Idle

\* What a call is given is whole: new data, or another brigade.
InputWhole(in) ==
    /\ in.bb \in Seq(BucketsOn(Len(file))) /\ Within(file, in.bb)
    /\ in.from \in Brigades => in.bb = brigade[in.from]

\* A write begins in a file where no bucket of what it writes, or of its input, is.
LEMMA BeginContent ==
  ASSUME IInv, ContentInv, file' \in FileType, SameData(file, file'),
         UNCHANGED <<brigade, taken, held, takenHeld>>,
         NEW in, InputWhole(in), NEW f \in 1 .. Len(file'), f \notin Files(in.bb),
         NEW bb \in Seq(BucketsOn(Len(file))), f \notin Files(bb), Within(file, bb),
         NEW base \in Nat, file'[f].at = base, base <= Len(file'[f].data),
         NEW phase, NEW to, NEW more, call' = Start(phase, to, f, bb, in, more)
  PROVE  /\ AllWhole(file', brigade', held', taken', takenHeld')
         /\ Behind(brigade', taken')
         /\ InputKept(file', call', brigade')
         /\ Writes(file', call', base, ContentIn(file', bb))
         /\ call'.phase = phase /\ call'.to = to /\ call'.fd = f /\ call'.in = in
<1>1. file \in FileType /\ Len(file) \in Nat /\ Len(file') \in Nat /\ f \in Nat /\ -1 \in Int
  <2>1. \A fs \in FileType : Len(fs) \in Nat
    BY DEF FileType
  <2> QED
    BY <2>1, Typed
<1>2. bb \in Seq(BucketsOn(Len(file'))) /\ Within(file', bb)
  <2>1. Seq(BucketsOn(Len(file))) \subseteq Seq(BucketsOn(Len(file')))
    BY <1>1, TypeGrows DEF SameData
  <2> QED
    BY <1>1, <2>1, SameDataKept
<1>3. bb \in Seq(Reaching(f, -1)) /\ in.bb \in Seq(Reaching(f, -1))
  BY <1>1, OffFile DEF InputWhole
<1>4. call'.phase = phase /\ call'.to = to /\ call'.fd = f /\ call'.in = in
  BY DEF Start
<1>5. Within(file', in.bb)
  BY <1>1, SameDataKept DEF InputWhole
<1>6. InputKept(file', call', brigade')
  BY <1>3, <1>4, <1>5 DEF InputKept, InputWhole
<1>7. Writes(file', call', base, ContentIn(file', bb))
  <2>1. PICK fs \in FileType : fs = file'
    OBVIOUS
  <2>2. bb \in Seq(BucketsOn(Len(fs))) /\ f \in 1 .. Len(fs) /\ fs[f].at = base
        /\ base <= Len(fs[f].data) /\ bb \in Seq(Reaching(f, -1)) /\ Within(fs, bb)
    BY <1>2, <1>3, <2>1
  <2>3. Writes(fs, Start(phase, to, f, bb, in, more), base, ContentIn(fs, bb))
    BY ONLY <2>2, fs \in FileType, base \in Nat, StartWrites
  <2> QED
    BY <2>1, <2>3
<1>8. AllWhole(file', brigade, held, taken, takenHeld)
  BY AllWholeSame DEF ContentInv
<1> QED
  BY <1>4, <1>6, <1>7, <1>8 DEF ContentInv

\* A brigade is about to go to a new file.
LEMMA ToNewFileContent ==
  ASSUME IInv, EosInv, ContentInv, ~SecondSpool, NEW to \in Brigades, ~EndsWith(brigade[to], "eos"),
         NEW in, InputWhole(in), NEW more, ConcatToNewFile(to, in, more)
  PROVE  ContentInv'
<1>1. /\ file' = Append(file, [data |-> << >>, at |-> 0])
      /\ call' = Start("out", to, Len(file) + 1, brigade[to], in, more)
      /\ UNCHANGED <<brigade, taken, held, takenHeld>>
      /\ Length(brigade[to]) <= BucketLimit
  BY DEF ConcatToNewFile
<1>2. file \in FileType /\ Len(file) \in Nat
  BY Typed
<1>3. PICK f \in Nat : f = Len(file) + 1
  BY <1>2
<1>4. /\ file' \in FileType /\ Len(file') = f /\ file'[f].at = 0 /\ file'[f].data = << >>
      /\ SameData(file, file')
  <2>5. [data |-> << >>, at |-> 0] \in [data : Seq(Int), at : Nat]
    OBVIOUS
  <2>1. PICK z \in [data : Seq(Int), at : Nat] : z = [data |-> << >>, at |-> 0]
    BY <2>5
  <2>2. z.at = 0 /\ z.data = << >>
    BY <2>1
  <2>3. file' = Append(file, z)
    BY <1>1, <2>1
  <2>4. /\ Append(file, z) \in FileType /\ Len(Append(file, z)) = Len(file) + 1
        /\ \A i \in 1 .. Len(file) : Append(file, z)[i] = file[i]
        /\ Append(file, z)[Len(file) + 1] = z
    BY <1>2, AppendProperties DEF FileType
  <2> QED
    BY <1>2, <1>3, <2>2, <2>3, <2>4 DEF SameData
<1>5. \A bb \in Seq(BucketsOn(Len(file))) : f \notin Files(bb)
  BY <1>2, <1>3, FilesRange
<1>6. PICK bb \in Seq(BucketsOn(Len(file))) : bb = brigade[to]
  BY Typed
<1>7. Within(file, bb) /\ Whole(file, bb, held[to])
  BY <1>6 DEF ContentInv, AllWhole, Whole
<1>8. PICK base \in Nat : base = 0
  OBVIOUS
<1>9. /\ f \in 1 .. Len(file') /\ file'[f].at = base /\ base <= Len(file'[f].data)
      /\ f \notin Files(in.bb) /\ f \notin Files(bb)
      /\ call' = Start("out", to, f, bb, in, more)
  BY <1>1, <1>3, <1>4, <1>5, <1>6, <1>8 DEF InputWhole
<1>10. UNCHANGED <<brigade, taken, held, takenHeld>>
  BY <1>1
<1>11. /\ AllWhole(file', brigade', held', taken', takenHeld')
       /\ Behind(brigade', taken')
       /\ InputKept(file', call', brigade')
       /\ Writes(file', call', base, ContentIn(file', bb))
       /\ call'.phase = "out" /\ call'.to = to /\ call'.fd = f /\ call'.in = in
  BY <1>4, <1>7, <1>9, <1>10, BeginContent
<1>12. All(brigade', taken', Reaching(f, -1))
  <2>1. \A b \in Brigades : brigade[b] \in Seq(BucketsOn(Len(file)))
    BY Typed
  <2>2. \A t \in DOMAIN taken : taken[t] \in Seq(BucketsOn(Len(file)))
    BY TakenType
  <2>3. \A bc \in Seq(BucketsOn(Len(file))) : bc \in Seq(Reaching(f, -1))
    BY <1>2, <1>5, OffFile
  <2> QED
    BY <1>10, <2>1, <2>2, <2>3 DEF All
<1>13. brigade'[to] \in Seq(NotEos) /\ Length(brigade'[to]) <= BucketLimit
  BY <1>1, NoEndIn
<1> QED
  BY <1>6, <1>8, <1>10, <1>11, <1>12, <1>13 DEF ContentInv

\* The spool bucket a brigade ends in, and what is behind it in its file.
LEMMA SeekData ==
  ASSUME IInv, ContentInv, NEW to \in Brigades, EndsWith(brigade[to], "spool"),
         file' = [file EXCEPT ![Last(brigade[to]).fd].at = SpoolEnd(Last(brigade[to]))]
  PROVE  /\ file' \in FileType /\ Len(file') = Len(file) /\ SameData(file, file')
         /\ Last(brigade[to]).fd \in 1 .. Len(file) /\ Last(brigade[to]).fd \in Files(brigade[to])
         /\ SpoolEnd(Last(brigade[to])) \in Nat
         /\ file'[Last(brigade[to]).fd].at = SpoolEnd(Last(brigade[to]))
         /\ SpoolEnd(Last(brigade[to])) <= Len(file'[Last(brigade[to]).fd].data)
<1>1. file \in FileType /\ Len(file) \in Nat /\ TypeOK
  BY Typed
<1>2. PICK e : e = Last(brigade[to])
  OBVIOUS
<1>3. /\ e \in FileBuckets(Len(file)) /\ e.fd \in 1 .. Len(file) /\ e.start \in Nat /\ e.length \in Nat
      /\ Front(brigade[to]) \in Seq(Bucket) /\ brigade[to] = Front(brigade[to]) \o <<e>>
  BY <1>1, <1>2, LastSpool DEF EndsWith
<1>4. PICK f \in 1 .. Len(file), k \in Nat : f = e.fd /\ k = SpoolEnd(e) /\ k = e.start + e.length
  BY <1>3 DEF SpoolEnd
<1>5. file' \in FileType /\ Len(file') = Len(file)
  BY <1>1, SeekType
<1>6. file' = [file EXCEPT ![f].at = k]
  BY <1>2, <1>4
<1>7. file \in [1 .. Len(file) -> [data : Seq(Int), at : Nat]]
  BY <1>1, LenProperties DEF FileType
<1>8. file'[f].at = k /\ \A h \in 1 .. Len(file) : file'[h].data = file[h].data
  BY <1>6, <1>7
<1>9. k <= Len(file[f].data)
  <2>1. PICK o \in Seq(Bucket), p \in Seq(Bucket) : o = <<e>> /\ p \o o = brigade[to]
    <3>1. e \in Bucket
      BY <1>3 DEF Bucket, BucketsOn
    <3> QED
      BY <1>3, <3>1, OneIn
  <2>2. PICK S : S = Reaching(f, Len(file[f].data))
    OBVIOUS
  <2>3. brigade[to] \in Seq(S)
    BY <2>2 DEF ContentInv, AllWhole, Whole, Within
  <2>4. p \o o \in Seq(S)
    BY <2>1, <2>3
  <2>5. o \in Seq(S)
    BY ONLY <2>4, o \in Seq(Bucket), p \in Seq(Bucket), ConcatIn
  <2>6. e \in S
    BY <2>1, <2>5, OneIn
  <2>7. OnFile(e)
    BY <1>3, FileBucketFacts, <1>1
  <2> QED
    BY <1>4, <2>2, <2>6, <2>7 DEF Reaching
<1>10. f \in Files(brigade[to])
  <2>1. /\ Len(brigade[to]) \in DOMAIN brigade[to] /\ brigade[to][Len(brigade[to])] = e
    <3>1. brigade[to] \in Seq(Bucket) /\ brigade[to] # << >>
      BY Typed DEF EndsWith
    <3> QED
      BY <1>2, <3>1 DEF Last
  <2>2. OnFile(e)
    BY <1>3, FileBucketFacts, <1>1
  <2> QED
    BY <1>4, <2>1, <2>2 DEF Files
<1> QED
  BY <1>1, <1>2, <1>4, <1>5, <1>8, <1>9, <1>10 DEF SameData

\* The input is about to be written behind the spool bucket.
LEMMA ToSpoolContent ==
  ASSUME IInv, ContentInv, ~SharedInput, NEW to \in Brigades, EndsWith(brigade[to], "spool"),
         NEW in, Given(to, in), ConcatToSpool(to, in)
  PROVE  ContentInv'
<1>1. PICK f, base : f = Last(brigade[to]).fd /\ base = SpoolEnd(Last(brigade[to]))
  OBVIOUS
<1>2. /\ file' = [file EXCEPT ![Last(brigade[to]).fd].at = SpoolEnd(Last(brigade[to]))]
      /\ call' = Start("in", to, f, Cut(in.bb), in, TRUE)
      /\ UNCHANGED <<brigade, taken, held, takenHeld>>
  BY <1>1 DEF ConcatToSpool
<1>3. /\ file' \in FileType /\ Len(file') = Len(file) /\ SameData(file, file')
      /\ f \in 1 .. Len(file) /\ f \in Files(brigade[to]) /\ base \in Nat
      /\ file'[f].at = base /\ base <= Len(file'[f].data)
  BY <1>1, <1>2, SeekData
<1>4. InputWhole(in)
  BY GivenWhole DEF InputWhole, Whole
<1>5. f \notin Files(in.bb)
  BY <1>3 DEF Given
<1>6. file \in FileType /\ Len(file) \in Nat
  BY Typed
<1>7. Cut(in.bb) \in Seq(BucketsOn(Len(file))) /\ Shorter(Cut(in.bb), in.bb)
  BY <1>4, <1>6, CutParts DEF InputWhole
<1>8. PICK bb \in Seq(BucketsOn(Len(file))) : bb = Cut(in.bb)
  BY <1>7
<1>9. Within(file, bb)
  BY <1>4, <1>6, <1>7, <1>8, WithinShorter DEF InputWhole
<1>10. f \notin Files(bb)
  <2>1. f \in Nat /\ -1 \in Int
    BY <1>3, <1>6
  <2>2. in.bb \in Seq(Reaching(f, -1))
    BY <1>4, <1>5, <1>6, OffFile DEF InputWhole
  <2>3. bb \in Seq(Reaching(f, -1))
    BY <1>7, <1>8, <2>1, <2>2, InLimits DEF Shorter
  <2> QED
    BY <1>6, <2>3, NoneBefore
<1>11. f \in 1 .. Len(file') /\ call' = Start("in", to, f, bb, in, TRUE)
  BY <1>2, <1>3, <1>8
<1>12. UNCHANGED <<brigade, taken, held, takenHeld>>
  BY <1>2
<1>13. /\ AllWhole(file', brigade', held', taken', takenHeld')
       /\ Behind(brigade', taken')
       /\ InputKept(file', call', brigade')
       /\ Writes(file', call', base, ContentIn(file', bb))
       /\ call'.phase = "in" /\ call'.to = to /\ call'.fd = f /\ call'.in = in
  BY <1>3, <1>4, <1>5, <1>9, <1>10, <1>11, <1>12, BeginContent
<1> QED
  BY <1>1, <1>8, <1>12, <1>13 DEF ContentInv

\* A concatenation of either input, whichever way it goes.
LEMMA ConcatInputContent ==
  ASSUME IInv, EosInv, ContentInv, ~SharedInput, ~SecondSpool, call = Idle,
         NEW to \in Brigades, ~EndsWith(brigade[to], "eos"),
         NEW in, Given(to, in), ConcatInput(to, in)
  PROVE  ContentInv'
<1>1. CASE FitsInMemory(to, in)
  <2>1. ConcatInMemory(to, in)
    BY <1>1 DEF ConcatInput
  <2> QED
    BY <2>1, InMemoryContent
<1>2. CASE ~FitsInMemory(to, in) /\ EndsWith(brigade[to], "spool")
  <2>1. ConcatToSpool(to, in)
    BY <1>2 DEF ConcatInput
  <2> QED
    BY <1>2, <2>1, ToSpoolContent
<1>3. CASE ~FitsInMemory(to, in) /\ ~EndsWith(brigade[to], "spool")
  <2>1. ConcatToNewFile(to, in, TRUE)
    BY <1>3 DEF ConcatInput
  <2>2. InputWhole(in)
    BY GivenWhole DEF InputWhole, Whole
  <2> QED
    BY <2>1, <2>2, ToNewFileContent
<1> QED
  BY <1>1, <1>2, <1>3

\* A brigade that is spooled.
LEMMA SpoolSelfContent ==
  ASSUME IInv, EosInv, ContentInv, ~SecondSpool, NEW to \in Brigades, SpoolSelf(to)
  PROVE  ContentInv'
<1>1. call = Idle /\ ~EndsWith(brigade[to], "eos")
  BY DEF SpoolSelf
<1>2. CASE EndsWith(brigade[to], "spool")
  <2>1. /\ file' = [file EXCEPT ![Last(brigade[to]).fd].at = SpoolEnd(Last(brigade[to]))]
        /\ UNCHANGED <<brigade, taken, call, held, takenHeld>>
    BY <1>2 DEF SpoolSelf
  <2>2. file' \in FileType /\ SameData(file, file')
    BY <1>2, <2>1, SeekData
  <2>3. AllWhole(file', brigade, held, taken, takenHeld)
    BY <2>2, AllWholeSame DEF ContentInv
  <2> QED
    BY <1>1, <2>1, <2>3 DEF ContentInv, Idle
<1>3. CASE ~EndsWith(brigade[to], "spool")
  <2>1. PICK in : in = [bb |-> << >>, from |-> "new", known |-> TRUE]
    OBVIOUS
  <2>2. in.bb = << >> /\ in.from \notin Brigades
    BY <2>1, SizeAssumption
  <2>3. InputWhole(in)
    BY <2>2, WithinEmpty DEF InputWhole
  <2>4. ConcatToNewFile(to, in, FALSE)
    BY <1>3, <2>1 DEF SpoolSelf
  <2> QED
    BY <1>1, <2>3, <2>4, ToNewFileContent
<1> QED
  BY <1>2, <1>3

\* What holds the same bytes and reaches no further is as whole.
LEMMA WholeShorter ==
  ASSUME NEW fs \in FileType, NEW bb, NEW cc, Shorter(cc, bb), ContentIn(fs, cc) = ContentIn(fs, bb),
         NEW h, Whole(fs, bb, h)
  PROVE  Whole(fs, cc, h)
<1>1. Within(fs, cc)
  BY WithinShorter DEF Whole
<1>2. cc \in Seq(ShortSpools)
  BY InLimits DEF Shorter, Whole
<1> QED
  BY <1>1, <1>2 DEF Whole

\* A copy holds what it was copied from, and may not grow.
LEMMA CopyKeepsContent ==
  ASSUME IInv, ContentInv, NEW from \in Brigades, NEW to \in Brigades, Copy(from, to)
  PROVE  ContentInv'
<1>1. /\ UNCHANGED <<file, taken, call, takenHeld>> /\ call = Idle
      /\ \A b \in Brigades : brigade'[b] = IF b = to THEN CopyAll(brigade[from]) ELSE brigade[b]
      /\ \A b \in Brigades : held'[b] = IF b = to THEN held[from] ELSE held[b]
  BY CopyIs DEF Copy
<1>2. file \in FileType /\ Len(file) \in Nat /\ brigade[from] \in Seq(BucketsOn(Len(file)))
  BY Typed
<1>3. PICK cc : cc = CopyAll(brigade[from])
  OBVIOUS
<1>4. Shorter(cc, brigade[from]) /\ ContentIn(file, cc) = ContentIn(file, brigade[from])
      /\ \A f \in Nat, k \in Int : cc \in Seq(NotTip(f, k))
  BY <1>2, <1>3, CopyShorter, CopyContent, CopyNotTip
<1>5. \A b \in Brigades : Whole(file, brigade[b], held[b])
  BY DEF ContentInv, AllWhole
<1>6. Whole(file, cc, held[from])
  BY <1>2, <1>4, <1>5, WholeShorter
<1>7. AllWhole(file', brigade', held', taken', takenHeld')
  BY <1>1, <1>3, <1>5, <1>6 DEF ContentInv, AllWhole
<1>8. Behind(brigade', taken')
  <2>1. ASSUME NEW f \in Nat, NEW n \in Nat, All(brigade, taken, Reaching(f, n))
        PROVE  All(brigade', taken', Reaching(f, n))
    <3>1. n \in Int
      OBVIOUS
    <3>2. Reaching(f, n) \in Limits
      BY <3>1, InLimits
    <3>3. PICK S : S = Reaching(f, n)
      OBVIOUS
    <3>4. cc \in Seq(S)
      BY <1>4, <2>1, <3>2, <3>3 DEF Shorter, All
    <3> QED
      BY <1>1, <1>3, <2>1, <3>3, <3>4 DEF All
  <2>2. ASSUME NEW f \in Nat, NEW n \in Nat, \A b \in Brigades : brigade[b] \in Seq(NotTip(f, n))
        PROVE  \A b \in Brigades : brigade'[b] \in Seq(NotTip(f, n))
    <3>1. n \in Int
      OBVIOUS
    <3> QED
      BY <1>1, <1>3, <1>4, <2>2, <3>1
  <2>3. Behind(brigade, taken)
    BY DEF ContentInv
  <2> QED
    BY <2>1, <2>2, <2>3, BehindLess
<1> QED
  BY <1>1, <1>7, <1>8 DEF ContentInv, Idle

------------------------------------------------------------------------------
(* What others do to a brigade. *)

\* A brigade cut in two.
LEMMA TakeWhole ==
  ASSUME NEW fs \in FileType, NEW x \in Seq(BucketsOn(Len(fs))), NEW y \in Seq(BucketsOn(Len(fs))),
         NEW bb, Shorter(x, bb), Shorter(y, bb), NEW h, Whole(fs, bb, h),
         Within(fs, bb) => ContentIn(fs, bb) = ContentIn(fs, x) \o ContentIn(fs, y)
  PROVE  /\ Whole(fs, x, ContentIn(fs, x))
         /\ Whole(fs, y, SubSeq(h, Len(ContentIn(fs, x)) + 1, Len(h)))
<1>1. PICK s \in Seq(Int), t \in Seq(Int) : s = ContentIn(fs, x) /\ t = ContentIn(fs, y)
  BY ContentInFacts
<1>2. h = s \o t
  BY <1>1 DEF Whole
<1>3. Len(s \o t) = Len(s) + Len(t) /\ Bytes(s \o t, Len(s), Len(s) + Len(t)) = t
  BY BytesOfSecond, ConcatProperties
<1>4. SubSeq(h, Len(ContentIn(fs, x)) + 1, Len(h)) = t
  BY <1>1, <1>2, <1>3 DEF Bytes
<1>5. Within(fs, x) /\ Within(fs, y)
  BY WithinShorter DEF Whole
<1>6. x \in Seq(ShortSpools) /\ y \in Seq(ShortSpools)
  BY InLimits DEF Shorter, Whole
<1> QED
  BY <1>1, <1>4, <1>5, <1>6 DEF Whole

\* What is taken holds what the front of the brigade did.
LEMMA TakeKeepsContent ==
  ASSUME IInv, ContentInv, NEW from \in Brigades, NEW k \in Nat, Take(from, k)
  PROVE  ContentInv'
<1>1. call = Idle /\ UNCHANGED <<file, call>>
  BY TakeIs DEF Take
<1>2. PICK x \in Seq(Bucket), y \in Seq(Bucket) :
         /\ Shorter(x, brigade[from]) /\ Shorter(y, brigade[from])
         /\ EosLast(brigade[from]) => EosLast(y)
         /\ Within(file, brigade[from])
              => ContentIn(file, brigade[from]) = ContentIn(file, x) \o ContentIn(file, y)
         /\ \A b \in Brigades : brigade'[b] = IF b = from THEN y ELSE brigade[b]
         /\ \A b \in Brigades :
               held'[b] = IF b = from
                          THEN SubSeq(held[from], Len(ContentIn(file, x)) + 1, Len(held[from]))
                          ELSE held[b]
         /\ taken' = Append(taken, x)
         /\ takenHeld' = Append(takenHeld, ContentIn(file, x))
  BY TakeIs
<1>3. file \in FileType /\ x \in Seq(BucketsOn(Len(file))) /\ y \in Seq(BucketsOn(Len(file)))
  BY <1>2, Typed DEF Bucket
<1>4. \A b \in Brigades : Whole(file, brigade[b], held[b])
  BY DEF ContentInv, AllWhole
<1>5. /\ Whole(file, x, ContentIn(file, x))
      /\ Whole(file, y, SubSeq(held[from], Len(ContentIn(file, x)) + 1, Len(held[from])))
  BY <1>2, <1>3, <1>4, TakeWhole
<1>6. PICK z \in Seq(Int) : z = ContentIn(file, x)
  BY <1>3, ContentInFacts
<1>7. PICK ts \in Seq(Seq(Bucket)), us \in Seq(Seq(Int)) : ts = taken /\ us = takenHeld
  BY Typed
<1>8. DOMAIN us = DOMAIN ts /\ \A t \in DOMAIN ts : Whole(file, ts[t], us[t])
  BY <1>7 DEF ContentInv, AllWhole
<1>9. PICK n \in Nat : n = Len(ts) /\ n = Len(us)
  BY <1>8
<1>10. /\ DOMAIN taken' = 1 .. n + 1 /\ DOMAIN takenHeld' = 1 .. n + 1 /\ DOMAIN ts = 1 .. n
       /\ \A t \in 1 .. n : taken'[t] = ts[t] /\ takenHeld'[t] = us[t]
       /\ taken'[n + 1] = x /\ takenHeld'[n + 1] = z
  <2>1. /\ Append(ts, x) \in Seq(Seq(Bucket)) /\ Len(Append(ts, x)) = Len(ts) + 1
        /\ \A i \in 1 .. Len(ts) : Append(ts, x)[i] = ts[i]
        /\ Append(ts, x)[Len(ts) + 1] = x
    BY <1>2, AppendProperties
  <2>2. /\ Append(us, z) \in Seq(Seq(Int)) /\ Len(Append(us, z)) = Len(us) + 1
        /\ \A i \in 1 .. Len(us) : Append(us, z)[i] = us[i]
        /\ Append(us, z)[Len(us) + 1] = z
    BY AppendProperties
  <2>3. taken' = Append(ts, x) /\ takenHeld' = Append(us, z)
    BY <1>2, <1>6, <1>7
  <2>4. DOMAIN Append(ts, x) = 1 .. Len(Append(ts, x)) /\ DOMAIN Append(us, z) = 1 .. Len(Append(us, z))
        /\ DOMAIN ts = 1 .. Len(ts)
    BY <2>1, <2>2
  <2> QED
    BY <1>9, <2>1, <2>2, <2>3, <2>4
<1>11. \A t \in DOMAIN taken' : Whole(file, taken'[t], takenHeld'[t])
  <2>1. \A t \in 1 .. n + 1 : t \in 1 .. n \/ t = n + 1
    OBVIOUS
  <2> QED
    BY <1>5, <1>6, <1>8, <1>10, <2>1
<1>12. \A b \in Brigades : Whole(file, brigade'[b], held'[b])
  BY <1>2, <1>4, <1>5
<1>13. AllWhole(file', brigade', held', taken', takenHeld')
  BY <1>1, <1>10, <1>11, <1>12 DEF AllWhole
<1>14. \A S \in Limits : brigade[from] \in Seq(S) => x \in Seq(S) /\ y \in Seq(S)
  BY <1>2 DEF Shorter
<1>15. Behind(brigade', taken')
  <2>1. ASSUME NEW f \in Nat, NEW m \in Nat, All(brigade, taken, Reaching(f, m))
        PROVE  All(brigade', taken', Reaching(f, m))
    <3>1. m \in Int
      OBVIOUS
    <3>2. PICK S \in Limits : S = Reaching(f, m)
      BY <3>1, InLimits
    <3>3. x \in Seq(S) /\ y \in Seq(S)
      BY <1>14, <2>1, <3>2 DEF All
    <3>4. \A t \in DOMAIN taken' : taken'[t] \in Seq(S)
      <4>1. \A t \in 1 .. n + 1 : t \in 1 .. n \/ t = n + 1
        OBVIOUS
      <4> QED
        BY <1>7, <1>10, <2>1, <3>2, <3>3, <4>1 DEF All
    <3> QED
      BY <1>2, <2>1, <3>2, <3>3, <3>4 DEF All
  <2>2. ASSUME NEW f \in Nat, NEW m \in Nat, \A b \in Brigades : brigade[b] \in Seq(NotTip(f, m))
        PROVE  \A b \in Brigades : brigade'[b] \in Seq(NotTip(f, m))
    <3>1. m \in Int
      OBVIOUS
    <3>2. PICK S \in Limits : S = NotTip(f, m)
      BY <3>1, InLimits
    <3> QED
      BY <1>2, <1>14, <2>2, <3>2
  <2>3. Behind(brigade, taken)
    BY DEF ContentInv
  <2> QED
    BY <2>1, <2>2, <2>3, BehindLess
<1> QED
  BY <1>1, <1>13, <1>15 DEF ContentInv, Idle

\* A read moves a descriptor.
LEMMA ReadAtData ==
  ASSUME TypeOK, NEW bb \in Seq(Bucket), NEW i \in DOMAIN bb, ReadAt(bb, i)
  PROVE  file \in FileType /\ file' \in FileType /\ SameData(file, file')
<1>1. file' \in FileType /\ Len(file') = Len(file) /\ OnFile(bb[i])
  BY ReadAtType
<1>2. file \in FileType /\ Len(file) \in Nat
  BY FilesNat DEF TypeOK
<1>3. PICK e \in Bucket : e = bb[i]
  OBVIOUS
<1>4. e.fd \in 1 .. Len(file)
  <2>1. e \in FileBuckets(Len(file))
    BY <1>1, <1>2, <1>3, BucketFacts DEF Bucket
  <2> QED
    BY <2>1 DEF FileBuckets
<1>8. PICK k : k = e.start + Least(e.length, ReadSize)
  OBVIOUS
<1>5. PICK f \in 1 .. Len(file) : f = e.fd /\ file' = [file EXCEPT ![f].at = k]
  BY <1>3, <1>4, <1>8 DEF ReadAt
<1>6. file \in [1 .. Len(file) -> [data : Seq(Int), at : Nat]]
  BY <1>2, LenProperties DEF FileType
<1>7. \A h \in 1 .. Len(file) : file'[h].data = file[h].data
  BY <1>5, <1>6
<1> QED
  BY <1>1, <1>2, <1>7 DEF SameData

\* What is whole stays so when only descriptors are moved.
LEMMA WholeSame ==
  ASSUME NEW fs \in FileType, NEW gs \in FileType, SameData(fs, gs),
         NEW bb \in Seq(BucketsOn(Len(fs))), NEW h, Whole(fs, bb, h)
  PROVE  Whole(gs, bb, h)
BY SameDataKept DEF Whole

\* A bucket of a brigade is read.
LEMMA ReadKeepsContent ==
  ASSUME IInv, ContentInv, NEW b \in Brigades, NEW i \in DOMAIN brigade[b], Read(b, i)
  PROVE  ContentInv'
<1>1. /\ UNCHANGED <<taken, call, held, takenHeld>> /\ call = Idle
      /\ ReadAt(brigade[b], i) /\ ReadOf(brigade[b], brigade'[b])
      /\ \A c \in Brigades : c # b => brigade'[c] = brigade[c]
  BY ReadIs
<1>2. TypeOK /\ Len(file) \in Nat /\ brigade[b] \in Seq(Bucket)
      /\ \A c \in Brigades : brigade[c] \in Seq(BucketsOn(Len(file)))
  BY Typed
<1>3. file \in FileType /\ file' \in FileType /\ SameData(file, file')
  BY <1>1, <1>2, ReadAtData
<1>4. PICK cc \in Seq(BucketsOn(Len(file))) : cc = brigade'[b]
  BY <1>1 DEF ReadOf, Bucket
<1>5. \A c \in Brigades : Whole(file, brigade[c], held[c])
  BY DEF ContentInv, AllWhole
<1>6. Shorter(cc, brigade[b]) /\ ContentIn(file, cc) = ContentIn(file, brigade[b])
  BY <1>1, <1>4, <1>5 DEF ReadOf, Whole
<1>7. Whole(file, cc, held[b])
  BY <1>3, <1>5, <1>6, WholeShorter
<1>8. Whole(file', cc, held[b])
  BY <1>3, <1>7, WholeSame
<1>9. \A c \in Brigades : Whole(file', brigade'[c], held'[c])
  BY <1>1, <1>2, <1>3, <1>4, <1>5, <1>8, WholeSame
<1>10. AllWhole(file', brigade, held, taken, takenHeld)
  BY <1>3, AllWholeSame DEF ContentInv
<1>11. AllWhole(file', brigade', held', taken', takenHeld')
  BY <1>1, <1>9, <1>10 DEF AllWhole
<1>12. Behind(brigade', taken')
  <2>1. ASSUME NEW f \in Nat, NEW m \in Nat, All(brigade, taken, Reaching(f, m))
        PROVE  All(brigade', taken', Reaching(f, m))
    <3>1. m \in Int
      OBVIOUS
    <3>2. PICK S \in Limits : S = Reaching(f, m)
      BY <3>1, InLimits
    <3>3. cc \in Seq(S)
      BY <1>6, <2>1, <3>2 DEF All, Shorter
    <3> QED
      BY <1>1, <1>4, <2>1, <3>2, <3>3 DEF All
  <2>2. ASSUME NEW f \in Nat, NEW m \in Nat, \A c \in Brigades : brigade[c] \in Seq(NotTip(f, m))
        PROVE  \A c \in Brigades : brigade'[c] \in Seq(NotTip(f, m))
    <3>1. m \in Int
      OBVIOUS
    <3>2. PICK S \in Limits : S = NotTip(f, m)
      BY <3>1, InLimits
    <3> QED
      BY <1>1, <1>4, <1>6, <2>2, <3>2 DEF Shorter
  <2>3. Behind(brigade, taken)
    BY DEF ContentInv
  <2> QED
    BY <2>1, <2>2, <2>3, BehindLess
<1> QED
  BY <1>1, <1>11, <1>12 DEF ContentInv, Idle

\* A bucket of a taken brigade is read.
LEMMA ReadTakenKeepsContent ==
  ASSUME IInv, ContentInv, NEW t \in DOMAIN taken, NEW i \in DOMAIN taken[t], ReadTaken(t, i)
  PROVE  ContentInv'
<1>1. /\ UNCHANGED <<brigade, call, held, takenHeld>> /\ call = Idle
      /\ ReadAt(taken[t], i)
      /\ taken[t] \in Seq(Bucket) /\ ReadOf(taken[t], taken'[t])
      /\ DOMAIN taken' = DOMAIN taken
      /\ \A u \in DOMAIN taken : u # t => taken'[u] = taken[u]
  BY ReadTakenIs
<1>2. TypeOK /\ Len(file) \in Nat /\ \A u \in DOMAIN taken : taken[u] \in Seq(BucketsOn(Len(file)))
  BY Typed, TakenType
<1>3. file \in FileType /\ file' \in FileType /\ SameData(file, file')
  BY <1>1, <1>2, ReadAtData
<1>4. PICK cc \in Seq(BucketsOn(Len(file))) : cc = taken'[t]
  BY <1>1 DEF ReadOf, Bucket
<1>5. \A u \in DOMAIN taken : Whole(file, taken[u], takenHeld[u])
  BY DEF ContentInv, AllWhole
<1>6. Shorter(cc, taken[t]) /\ ContentIn(file, cc) = ContentIn(file, taken[t])
  BY <1>1, <1>4, <1>5 DEF ReadOf, Whole
<1>7. Whole(file, cc, takenHeld[t])
  BY <1>3, <1>5, <1>6, WholeShorter
<1>8. Whole(file', cc, takenHeld[t])
  BY <1>3, <1>7, WholeSame
<1>9. \A u \in DOMAIN taken : Whole(file', taken'[u], takenHeld'[u])
  BY <1>1, <1>2, <1>3, <1>4, <1>5, <1>8, WholeSame
<1>10. AllWhole(file', brigade, held, taken, takenHeld)
  BY <1>3, AllWholeSame DEF ContentInv
<1>11. AllWhole(file', brigade', held', taken', takenHeld')
  BY <1>1, <1>9, <1>10 DEF AllWhole
<1>12. Behind(brigade', taken')
  <2>1. ASSUME NEW f \in Nat, NEW m \in Nat, All(brigade, taken, Reaching(f, m))
        PROVE  All(brigade', taken', Reaching(f, m))
    <3>1. m \in Int
      OBVIOUS
    <3>2. PICK S \in Limits : S = Reaching(f, m)
      BY <3>1, InLimits
    <3>3. cc \in Seq(S)
      BY <1>6, <2>1, <3>2 DEF All, Shorter
    <3> QED
      BY <1>1, <1>4, <2>1, <3>2, <3>3 DEF All
  <2>2. Behind(brigade, taken) /\ brigade' = brigade
    BY <1>1 DEF ContentInv
  <2> QED
    BY <2>1, <2>2 DEF Behind
<1> QED
  BY <1>1, <1>11, <1>12 DEF ContentInv, Idle

------------------------------------------------------------------------------
(* The theorems. *)

\* Nobody holds anything.
LEMMA InitContent == ASSUME Init PROVE ContentInv
<1>1. /\ \A b \in Brigades : brigade[b] = << >> /\ held[b] = << >>
      /\ taken = << >> /\ takenHeld = << >> /\ call.phase = "idle" /\ call = Idle
  BY DEF Init, Idle
<1>2. \A t : t \notin DOMAIN taken
  BY <1>1
<1>3. AllWhole(file, brigade, held, taken, takenHeld)
  BY <1>1, <1>2, WholeEmpty DEF AllWhole
<1>4. \A S : << >> \in Seq(S)
  OBVIOUS
<1>5. Behind(brigade, taken)
  BY <1>1, <1>4 DEF Behind
<1> QED
  BY <1>1, <1>3, <1>5 DEF ContentInv

\* One step per action.
LEMMA StepContent ==
  ASSUME IInv, EosInv, ContentInv, ~SharedInput, ~SecondSpool, ~StaleIovecs, [Next]_vars
  PROVE  ContentInv'
<1>1. CASE Writev
  BY <1>1, WritevContent
<1>2. CASE WriteFails
  BY <1>2, WriteFailsContent
<1>3. CASE FinishOut
  BY <1>3, FinishOutContent
<1>4. CASE FinishIn
  BY <1>4, FinishInContent
<1>5. ASSUME NEW b \in Brigades, Concat(b) PROVE ContentInv'
  <2>1. call = Idle /\ ~EndsWith(brigade[b], "eos")
    BY <1>5, ConcatIs
  <2>2. PICK in : Given(b, in) /\ ConcatInput(b, in)
    BY <1>5, ConcatIs
  <2> QED
    BY <2>1, <2>2, ConcatInputContent
<1>6. ASSUME NEW b \in Brigades, SpoolSelf(b) PROVE ContentInv'
  BY <1>6, SpoolSelfContent
<1>7. ASSUME NEW b \in Brigades, NEW c \in Brigades, ConcatBrigade(b, c) PROVE ContentInv'
  <2>1. call = Idle /\ ~EndsWith(brigade[b], "eos")
    BY <1>7, ConcatBrigadeIs
  <2>2. PICK in : Given(b, in) /\ ConcatInput(b, in)
    BY <1>7, ConcatBrigadeIs
  <2> QED
    BY <2>1, <2>2, ConcatInputContent
<1>8. ASSUME NEW b \in Brigades, NEW c \in Brigades, Copy(b, c) PROVE ContentInv'
  BY <1>8, CopyKeepsContent
<1>9. ASSUME NEW b \in Brigades, NEW k \in 1 .. MaxBytes, Take(b, k) PROVE ContentInv'
  <2>1. k \in Nat
    BY SizeAssumption
  <2> QED
    BY <1>9, <2>1, TakeKeepsContent
<1>10. ASSUME NEW b \in Brigades, NEW i \in DOMAIN brigade[b], Read(b, i) PROVE ContentInv'
  BY <1>10, ReadKeepsContent
<1>11. ASSUME NEW t \in DOMAIN taken, NEW i \in DOMAIN taken[t], ReadTaken(t, i) PROVE ContentInv'
  BY <1>11, ReadTakenKeepsContent
<1>12. CASE UNCHANGED vars
  BY <1>12 DEF vars, ContentInv
<1> QED
  BY <1>1, <1>2, <1>3, <1>4, <1>5, <1>6, <1>7, <1>8, <1>9, <1>10, <1>11, <1>12 DEF Next, Step, Use

\* The inductive invariant holds.
LEMMA ContentInvariant ==
  ASSUME ~SharedInput, ~SecondSpool, ~StaleIovecs
  PROVE  Spec => []ContentInv
<1>1. Init => ContentInv
  BY InitContent
<1>2. IInv /\ EosInv /\ ContentInv /\ [Next]_vars => ContentInv'
  BY StepContent
<1> QED
  BY <1>1, <1>2, Invariant, EosInvariant, PTL DEF Spec

\* Where inputs share no file with the brigade they go to, no brigade longer than a
\* file bucket may be is spooled anew, and memory outlives the iovecs that refer to
\* it: a brigade holds, byte for byte, what was concatenated to it less what was
\* taken, through any sequence of concatenations, copies, takings and reads, with
\* writes that stop or fail anywhere, for any brigades, limits and inputs.
THEOREM ContentIsKept ==
  ASSUME ~SharedInput, ~SecondSpool, ~StaleIovecs
  PROVE  Spec => []ContentKept
<1>1. ContentInv => ContentKept
  BY ContentNow DEF ContentInv, AllWhole, Whole, ContentKept
<1> QED
  BY <1>1, ContentInvariant, PTL

\* Under the same conditions, what others have taken from a brigade stays what it
\* was, whatever is written behind it in the same file.
THEOREM TakenIsKept ==
  ASSUME ~SharedInput, ~SecondSpool, ~StaleIovecs
  PROVE  Spec => []TakenKept
<1>1. ContentInv => TakenKept
  BY ContentNow DEF ContentInv, AllWhole, Whole, TakenKept
<1> QED
  BY <1>1, ContentInvariant, PTL
==============================================================================
