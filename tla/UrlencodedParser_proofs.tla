----------------------- MODULE UrlencodedParser_proofs -----------------------
(***************************************************************************)
(* Proofs about UrlencodedParser: the parameters are those of the text,    *)
(* for every body and however it is cut, and every call comes nearer to    *)
(* its end.                                                                *)
(*                                                                         *)
(* The text is read, and a word decoded, by folds over the characters.  A  *)
(* fold is the last of a chain of states, one for each character, and what *)
(* is said of it is proved by induction over the characters.  Then, that   *)
(* to decode pieces is to decode what they are put together to; that the   *)
(* buckets split_urlword finds by their bytes are those of the name and    *)
(* those of the value; and, by induction over the steps of the parser,     *)
(* that it has kept exactly the word it is in, and counted its bytes.      *)
(***************************************************************************)
EXTENDS UrlencodedParser, Sequences_proofs

(* Folds as chains. *)

\* The step of each of the folds: reading, decoding s, decoding pieces.
JoinStep(acc, piece) ==
    IF acc.status \in {"BADSEQ", "BADCHAR"} THEN acc
    ELSE LET r == UrlDecode(Carry(acc.left, piece))
         IN  [r EXCEPT !.out = acc.out \o @]

Does(how, acc, x) ==
    CASE how[1] = "read"   -> ReadChar(acc, x)
      [] how[1] = "decode" -> DecodeAt(how[2], acc, x)
      [] OTHER             -> JoinStep(acc, x)

\* it is the function by which FoldLeft goes through seq, over the sets of the
\* first n positions.
Folds(it, how, base, seq, n) ==
    it = [s \in SUBSET (1 .. n) |->
            IF s = {} THEN base ELSE Does(how, it[s \ {Max(s)}], seq[Max(s)])]

\* c are the states it goes through.
Chain(c, how, base, seq, n) ==
    /\ DOMAIN c = 0 .. n
    /\ c[0] = base
    /\ \A i \in 1 .. n : c[i] = Does(how, c[i - 1], seq[i])

\* There is such a function.
LEMMA FoldExists ==
  ASSUME NEW how, NEW base, NEW seq, NEW n \in Nat
  PROVE  \E it : Folds(it, how, base, seq, n)
<1> DEFINE Foldable == {m \in Nat : \E it : Folds(it, how, base, seq, m)}
<1>1. 0 \in Foldable
  <2>1. Folds([s \in SUBSET (1 .. 0) |-> base], how, base, seq, 0)
    <3>1. \A s \in SUBSET (1 .. 0) : s = {}
      OBVIOUS
    <3> QED
      BY <3>1 DEF Folds
  <2> QED
    BY <2>1
<1>2. ASSUME NEW m \in Nat, m \in Foldable PROVE m + 1 \in Foldable
  <2>1. PICK it : Folds(it, how, base, seq, m)
    BY <1>2
  <2> DEFINE small(s) == IF s = {} THEN base ELSE Does(how, it[s \ {Max(s)}], seq[Max(s)])
             new == [s \in SUBSET (1 .. m + 1) |->
                       IF m + 1 \in s THEN Does(how, it[s \ {m + 1}], seq[m + 1]) ELSE it[s]]
  <2>2. \A s \in SUBSET (1 .. m) : it[s] = small(s)
    BY <2>1 DEF Folds
  <2>3. ASSUME NEW s \in SUBSET (1 .. m + 1)
        PROVE  new[s] = IF s = {} THEN base ELSE Does(how, new[s \ {Max(s)}], seq[Max(s)])
    <3>1. CASE m + 1 \in s
      <4>1. Max(s) \in s /\ \A y \in s : y <= Max(s)
        BY <3>1, MaxIs, m + 1 \in Nat
      <4>2. Max(s) = m + 1
        <5>1. Max(s) \in 1 .. m + 1 /\ m + 1 <= Max(s)
          BY <3>1, <4>1
        <5> QED
          BY <5>1
      <4>3. s \ {m + 1} \in SUBSET (1 .. m + 1) /\ m + 1 \notin s \ {m + 1} /\ s # {}
        BY <3>1
      <4>4. new[s \ {m + 1}] = it[s \ {m + 1}]
        BY <4>3
      <4> QED
        BY <3>1, <4>2, <4>3, <4>4
    <3>2. CASE m + 1 \notin s
      <4>1. s \in SUBSET (1 .. m)
        BY <3>2
      <4>2. new[s] = small(s)
        BY <2>2, <3>2, <4>1
      <4>3. /\ s \ {Max(s)} \in SUBSET (1 .. m + 1)
            /\ m + 1 \notin s \ {Max(s)}
        BY <3>2
      <4>4. new[s \ {Max(s)}] = it[s \ {Max(s)}]
        BY <4>3
      <4> QED
        BY <4>2, <4>4
    <3> QED
      BY <3>1, <3>2
  <2>4. Folds(new, how, base, seq, m + 1)
    BY <2>3 DEF Folds
  <2> QED
    BY <2>4
<1> HIDE DEF Foldable
<1>3. Nat \subseteq Foldable
  BY <1>1, <1>2, SetInduction
<1> QED
  BY <1>3 DEF Foldable

\* The states it goes through are a chain.
LEMMA FoldChain ==
  ASSUME NEW how, NEW base, NEW seq, NEW n \in Nat, NEW it, Folds(it, how, base, seq, n)
  PROVE  Chain([i \in 0 .. n |-> it[1 .. i]], how, base, seq, n)
<1> DEFINE c == [i \in 0 .. n |-> it[1 .. i]]
<1>1. \A s \in SUBSET (1 .. n) :
          it[s] = IF s = {} THEN base ELSE Does(how, it[s \ {Max(s)}], seq[Max(s)])
  BY DEF Folds
<1>2. c[0] = base
  <2>1. 1 .. 0 = {} /\ {} \in SUBSET (1 .. n) /\ 0 \in 0 .. n
    OBVIOUS
  <2>2. it[{}] = base
    BY <1>1, <2>1
  <2> QED
    BY <2>1, <2>2
<1>3. ASSUME NEW i \in 1 .. n PROVE c[i] = Does(how, c[i - 1], seq[i])
  <2>1. 1 .. i \in SUBSET (1 .. n) /\ 1 .. i # {} /\ i - 1 \in 0 .. n /\ i \in 0 .. n
    <3>1. i \in Nat /\ i >= 1 /\ i <= n
      OBVIOUS
    <3>2. i \in 1 .. i
      BY <3>1
    <3> QED
      BY <3>1, <3>2
  <2>2. Max(1 .. i) = i
    BY MaxOfInterval
  <2>3. (1 .. i) \ {i} = 1 .. i - 1
    OBVIOUS
  <2>4. it[1 .. i] = Does(how, it[1 .. i - 1], seq[i])
    BY <1>1, <2>1, <2>2, <2>3
  <2> QED
    BY <2>1, <2>4
<1> HIDE DEF c
<1>4. DOMAIN c = 0 .. n
  BY DEF c
<1>5. Chain(c, how, base, seq, n)
  BY <1>2, <1>3, <1>4 DEF Chain
<1> QED
  BY <1>5 DEF c

\* Two chains over sequences that begin alike begin alike.
LEMMA ChainAlike ==
  ASSUME NEW how, NEW base, NEW s, NEW t, NEW n \in Nat, NEW m \in Nat, NEW c, NEW d,
         NEW k \in Nat, Chain(c, how, base, s, n), Chain(d, how, base, t, m), k <= n, k <= m, \A i \in 1 .. k : s[i] = t[i]
  PROVE  c[k] = d[k]
<1> DEFINE Alike == {i \in Nat : i <= k => c[i] = d[i]}
<1>1. 0 \in Alike
  BY DEF Chain
<1>2. ASSUME NEW i \in Nat, i \in Alike PROVE i + 1 \in Alike
  <2>1. SUFFICES ASSUME i + 1 <= k PROVE c[i + 1] = d[i + 1]
    OBVIOUS
  <2>2. i + 1 \in 1 .. n /\ i + 1 \in 1 .. m /\ i + 1 \in 1 .. k /\ (i + 1) - 1 = i
    BY <2>1
  <2>3. c[i] = d[i] /\ s[i + 1] = t[i + 1]
    BY <1>2, <2>1, <2>2
  <2>4. c[i + 1] = Does(how, c[i], s[i + 1])
    BY <2>2 DEF Chain
  <2>5. d[i + 1] = Does(how, d[i], t[i + 1])
    BY <2>2 DEF Chain
  <2> QED
    BY <2>3, <2>4, <2>5
<1> HIDE DEF Alike
<1>3. Nat \subseteq Alike
  BY <1>1, <1>2, SetInduction
<1> QED
  BY <1>3 DEF Alike

------------------------------------------------------------------------------
(* The three folds. *)

Read0   == [in |-> "NAME", name |-> << >>, value |-> << >>, words |-> << >>]
Decode0 == [status |-> "SUCCESS", out |-> << >>, left |-> << >>, skip |-> 0]

\* What a text is read to.
Reading(s) == FoldLeft(ReadChar, Read0, s)

\* Reading is the end of a chain.
LEMMA ReadingChain ==
  ASSUME NEW S, NEW s \in Seq(S)
  PROVE  \E c : /\ Chain(c, <<"read">>, Read0, s, Len(s))
                /\ Reading(s) = c[Len(s)]
<1> DEFINE n == Len(s)
           how == <<"read">>
           is(f) == f = [x \in SUBSET (1 .. n) |->
                           IF x = {} THEN Read0 ELSE ReadChar(f[x \ {Max(x)}], s[Max(x)])]
           fold == CHOOSE f : is(f)
<1>1. n \in Nat /\ DOMAIN s = 1 .. n
  BY LenProperties
<1>2. Reading(s) = fold[1 .. n]
  BY <1>1 DEF Reading, FoldLeft, MapThenFoldSet
<1>3. \A acc, x : Does(how, acc, x) = ReadChar(acc, x)
  BY DEF Does
<1>4. \A f : Folds(f, how, Read0, s, n) <=> is(f)
  BY <1>3 DEF Folds
<1>5. is(fold)
  BY <1>1, <1>4, FoldExists
<1> HIDE DEF fold
<1>6. Folds(fold, how, Read0, s, n)
  BY <1>4, <1>5
<1>7. Chain([i \in 0 .. n |-> fold[1 .. i]], how, Read0, s, n)
  BY <1>1, <1>6, FoldChain
<1>8. n \in 0 .. n
  BY <1>1
<1> QED
  BY <1>2, <1>7, <1>8

\* The states of decoding a text.
DecodeChain(c, s) ==
    /\ DOMAIN c = 0 .. Len(s)
    /\ c[0] = Decode0
    /\ \A i \in 1 .. Len(s) : c[i] = DecodeAt(s, c[i - 1], i)

\* Decoding is the end of a chain.
LEMMA DecodeChains ==
  ASSUME NEW S, NEW s \in Seq(S)
  PROVE  \E c : DecodeChain(c, s) /\ UrlDecode(s) = c[Len(s)]
<1> DEFINE n == Len(s)
           how == <<"decode", s>>
           pos == [i \in DOMAIN s |-> i]
           is(f) == f = [x \in SUBSET (1 .. n) |->
                           IF x = {} THEN Decode0 ELSE DecodeAt(s, f[x \ {Max(x)}], pos[Max(x)])]
           fold == CHOOSE f : is(f)
<1>1. n \in Nat /\ DOMAIN s = 1 .. n /\ DOMAIN pos = 1 .. n
  BY LenProperties
<1>2. UrlDecode(s) = fold[1 .. n]
  BY <1>1 DEF UrlDecode, FoldLeftDomain, FoldLeft, MapThenFoldSet, Decode0
<1>3. \A acc, x : Does(how, acc, x) = DecodeAt(s, acc, x)
  BY DEF Does
<1> HIDE DEF how
<1>4. \A f : Folds(f, how, Decode0, pos, n) <=> is(f)
  BY <1>3, ZenonT(40) DEF Folds
<1>5. is(fold)
  BY <1>1, <1>4, FoldExists
<1> HIDE DEF fold
<1>6. Folds(fold, how, Decode0, pos, n)
  BY <1>4, <1>5
<1> DEFINE c == [i \in 0 .. n |-> fold[1 .. i]]
<1>7. Chain(c, how, Decode0, pos, n)
  BY <1>1, <1>6, FoldChain
<1>8. n \in 0 .. n /\ c[n] = fold[1 .. n]
  BY <1>1
<1> HIDE DEF c
<1>9. DecodeChain(c, s)
  <2>1. \A i \in 1 .. n : pos[i] = i
    BY <1>1
  <2> QED
    BY <1>3, <1>7, <2>1 DEF Chain, DecodeChain
<1> QED
  BY <1>2, <1>8, <1>9

\* Decoding pieces is the end of a chain.
LEMMA DecodevChains ==
  ASSUME NEW S, NEW ps \in Seq(S)
  PROVE  \E c : /\ Chain(c, <<"join">>, Decode0, ps, Len(ps))
                /\ Decodev(ps) = c[Len(ps)]
<1> DEFINE n == Len(ps)
           how == <<"join">>
           is(f) == f = [x \in SUBSET (1 .. n) |->
                           IF x = {} THEN Decode0 ELSE JoinStep(f[x \ {Max(x)}], ps[Max(x)])]
           fold == CHOOSE f : is(f)
<1>1. n \in Nat /\ DOMAIN ps = 1 .. n
  BY LenProperties
<1>2. Decodev(ps) = fold[1 .. n]
  BY <1>1 DEF Decodev, FoldLeft, MapThenFoldSet, Decode0, JoinStep
<1>3. \A acc, x : Does(how, acc, x) = JoinStep(acc, x)
  BY DEF Does
<1>4. \A f : Folds(f, how, Decode0, ps, n) <=> is(f)
  BY <1>3 DEF Folds
<1>5. is(fold)
  BY <1>1, <1>4, FoldExists
<1> HIDE DEF fold
<1>6. Folds(fold, how, Decode0, ps, n)
  BY <1>4, <1>5
<1>7. Chain([i \in 0 .. n |-> fold[1 .. i]], how, Decode0, ps, n)
  BY <1>1, <1>6, FoldChain
<1>8. n \in 0 .. n
  BY <1>1
<1> QED
  BY <1>2, <1>7, <1>8

\* A text that is empty, or has one more character, is read so.
LEMMA ReadingEmpty == Reading(<< >>) = Read0
<1>1. << >> \in Seq({}) /\ Len(<< >>) = 0
  OBVIOUS
<1>2. PICK c : Chain(c, <<"read">>, Read0, << >>, 0) /\ Reading(<< >>) = c[0]
  BY <1>1, ReadingChain
<1> QED
  BY <1>2 DEF Chain

\* To read one more character is to let the state see it.
LEMMA ReadingSnoc ==
  ASSUME NEW S, NEW s \in Seq(S), NEW x \in S
  PROVE  Reading(s \o <<x>>) = ReadChar(Reading(s), x)
<1>1. /\ s \o <<x>> \in Seq(S) /\ Len(s) \in Nat /\ Len(s \o <<x>>) = Len(s) + 1
      /\ \A i \in 1 .. Len(s) + 1 : (s \o <<x>>)[i] = IF i <= Len(s) THEN s[i] ELSE x
  BY SnocFacts
<1>2. PICK t \in Seq(S) : t = s \o <<x>>
  BY <1>1
<1> DEFINE n == Len(s)
<1>3. n \in Nat /\ Len(t) = n + 1 /\ t[n + 1] = x /\ \A i \in 1 .. n : s[i] = t[i]
  BY <1>1, <1>2
<1> HIDE DEF n
<1>4. PICK c : Chain(c, <<"read">>, Read0, s, n) /\ Reading(s) = c[n]
  BY ReadingChain DEF n
<1>5. PICK d : Chain(d, <<"read">>, Read0, t, n + 1) /\ Reading(t) = d[n + 1]
  BY <1>3, ReadingChain
<1>6. n + 1 \in Nat /\ n + 1 \in 1 .. n + 1 /\ (n + 1) - 1 = n /\ n <= n + 1 /\ n <= n
  BY <1>3
<1>7. c[n] = d[n]
  <2>1. PICK how : how = <<"read">>
    OBVIOUS
  <2>2. Chain(c, how, Read0, s, n) /\ Chain(d, how, Read0, t, n + 1)
    BY <1>4, <1>5, <2>1
  <2> QED
    BY ONLY <1>3, <1>6, <2>2, ChainAlike
<1>8. d[n + 1] = Does(<<"read">>, d[n], x)
  BY <1>3, <1>5, <1>6 DEF Chain
<1>9. Does(<<"read">>, d[n], x) = ReadChar(d[n], x)
  BY DEF Does
<1> QED
  BY <1>2, <1>4, <1>5, <1>7, <1>8, <1>9

\* So are no pieces decoded, and one more piece.
LEMMA DecodevEmpty == Decodev(<< >>) = Decode0
<1>1. << >> \in Seq({}) /\ Len(<< >>) = 0
  OBVIOUS
<1>2. PICK c : Chain(c, <<"join">>, Decode0, << >>, 0) /\ Decodev(<< >>) = c[0]
  BY <1>1, DecodevChains
<1> QED
  BY <1>2 DEF Chain

\* To decode one more piece is to join what it decodes to.
LEMMA DecodevSnoc ==
  ASSUME NEW S, NEW ps \in Seq(S), NEW p \in S
  PROVE  Decodev(ps \o <<p>>) = JoinStep(Decodev(ps), p)
<1>1. /\ ps \o <<p>> \in Seq(S) /\ Len(ps) \in Nat /\ Len(ps \o <<p>>) = Len(ps) + 1
      /\ \A i \in 1 .. Len(ps) + 1 : (ps \o <<p>>)[i] = IF i <= Len(ps) THEN ps[i] ELSE p
  BY SnocFacts
<1>2. PICK t \in Seq(S) : t = ps \o <<p>>
  BY <1>1
<1> DEFINE n == Len(ps)
<1>3. n \in Nat /\ Len(t) = n + 1 /\ t[n + 1] = p /\ \A i \in 1 .. n : ps[i] = t[i]
  BY <1>1, <1>2
<1> HIDE DEF n
<1>4. PICK c : Chain(c, <<"join">>, Decode0, ps, n) /\ Decodev(ps) = c[n]
  BY DecodevChains DEF n
<1>5. PICK d : Chain(d, <<"join">>, Decode0, t, n + 1) /\ Decodev(t) = d[n + 1]
  BY <1>3, DecodevChains
<1>6. n + 1 \in Nat /\ n + 1 \in 1 .. n + 1 /\ (n + 1) - 1 = n /\ n <= n + 1 /\ n <= n
  BY <1>3
<1>7. c[n] = d[n]
  <2>1. PICK how : how = <<"join">>
    OBVIOUS
  <2>2. Chain(c, how, Decode0, ps, n) /\ Chain(d, how, Decode0, t, n + 1)
    BY <1>4, <1>5, <2>1
  <2> QED
    BY ONLY <1>3, <1>6, <2>2, ChainAlike
<1>8. d[n + 1] = Does(<<"join">>, d[n], p)
  BY <1>3, <1>5, <1>6 DEF Chain
<1>9. Does(<<"join">>, d[n], p) = JoinStep(d[n], p)
  BY DEF Does
<1> QED
  BY <1>2, <1>4, <1>5, <1>7, <1>8, <1>9

------------------------------------------------------------------------------
(* Parts of a text put together. *)

\* A part of the first of two sequences.
LEMMA SubSeqLeft ==
  ASSUME NEW S, NEW a \in Seq(S), NEW b \in Seq(S), NEW m \in Nat \ {0}, NEW n \in Int,
         n <= Len(a)
  PROVE  SubSeq(a \o b, m, n) = SubSeq(a, m, n)
<1>1. PICK ab \in Seq(S) : ab = a \o b
  BY ConcatProperties
<1>2. /\ Len(a) \in Nat /\ Len(b) \in Nat /\ Len(ab) = Len(a) + Len(b)
      /\ \A i \in 1 .. Len(a) : ab[i] = a[i]
  BY <1>1, ConcatProperties, LenProperties
<1>4. PICK y \in Seq(S) : y = SubSeq(a, m, n)
  BY SubSeqType
<1>5. n <= Len(ab)
  BY <1>2
<1>3. PICK x \in Seq(S) : x = SubSeq(ab, m, n)
  BY ONLY <1>5, SubSeqType, m \in Nat \ {0}, n \in Int, ab \in Seq(S)
<1>6. /\ Len(x) = IF m <= n THEN n - m + 1 ELSE 0
      /\ \A i \in 1 .. n - m + 1 : x[i] = ab[m + i - 1]
  BY ONLY <1>3, <1>5, SubSeqType, m \in Nat \ {0}, n \in Int
<1>7. /\ Len(y) = IF m <= n THEN n - m + 1 ELSE 0
      /\ \A i \in 1 .. n - m + 1 : y[i] = a[m + i - 1]
  BY ONLY <1>4, SubSeqType, m \in Nat \ {0}, n \in Int, n <= Len(a), a \in Seq(S)
<1>8. ASSUME NEW i \in 1 .. Len(x) PROVE x[i] = y[i]
  <2>1. m <= n /\ i \in 1 .. n - m + 1
    BY <1>6
  <2>2. m + i - 1 \in 1 .. Len(a)
    BY <1>2, <2>1
  <2> QED
    BY <1>2, <1>6, <1>7, <2>1, <2>2
<1> QED
  BY <1>1, <1>3, <1>4, <1>6, <1>7, <1>8, SeqEqual

\* A part of the second of them.
LEMMA SubSeqRight ==
  ASSUME NEW S, NEW a \in Seq(S), NEW b \in Seq(S), NEW m \in Nat \ {0}, NEW n \in Int,
         n <= Len(b)
  PROVE  SubSeq(a \o b, Len(a) + m, Len(a) + n) = SubSeq(b, m, n)
<1>1. PICK ab \in Seq(S) : ab = a \o b
  BY ConcatProperties
<1> DEFINE k == Len(a)
<1>2. /\ k \in Nat /\ Len(b) \in Nat /\ Len(ab) = k + Len(b)
      /\ \A i \in 1 .. k + Len(b) : ab[i] = IF i <= k THEN a[i] ELSE b[i - k]
  BY <1>1, ConcatProperties, LenProperties
<1> HIDE DEF k
<1>3. k + m \in Nat \ {0} /\ k + n \in Int /\ k + n <= Len(ab)
  BY <1>2
<1>4. PICK x \in Seq(S) : x = SubSeq(ab, k + m, k + n)
  BY <1>3, SubSeqType
<1>5. PICK y \in Seq(S) : y = SubSeq(b, m, n)
  BY SubSeqType
<1>6. /\ Len(x) = IF k + m <= k + n THEN (k + n) - (k + m) + 1 ELSE 0
      /\ \A i \in 1 .. (k + n) - (k + m) + 1 : x[i] = ab[(k + m) + i - 1]
  BY ONLY <1>3, <1>4, SubSeqType
<1>7. /\ Len(y) = IF m <= n THEN n - m + 1 ELSE 0
      /\ \A i \in 1 .. n - m + 1 : y[i] = b[m + i - 1]
  BY ONLY <1>5, SubSeqType, m \in Nat \ {0}, n \in Int, n <= Len(b), b \in Seq(S)
<1>8. Len(x) = Len(y)
  BY <1>2, <1>6, <1>7
<1>9. ASSUME NEW i \in 1 .. Len(x) PROVE x[i] = y[i]
  <2>1. m <= n /\ i \in 1 .. n - m + 1 /\ i \in 1 .. (k + n) - (k + m) + 1
    BY <1>2, <1>6
  <2>2. (k + m) + i - 1 \in 1 .. k + Len(b) /\ ~((k + m) + i - 1 <= k)
    BY <1>2, <2>1
  <2>3. ((k + m) + i - 1) - k = m + i - 1
    BY <1>2, <2>1
  <2> QED
    BY <1>2, <1>6, <1>7, <2>1, <2>2, <2>3
<1> QED
  BY <1>1, <1>4, <1>5, <1>8, <1>9, SeqEqual DEF k

\* The rest of two sequences, from a place in the first.
Across(S, a, b, n) ==
    /\ SubSeq(a, 1, n) \in Seq(S) /\ Len(SubSeq(a, 1, n)) = n
    /\ SubSeq(a, n + 1, Len(a)) \in Seq(S)
    /\ SubSeq(a, n + 1, Len(a)) \o b \in Seq(S)
    /\ a \o b = SubSeq(a, 1, n) \o (SubSeq(a, n + 1, Len(a)) \o b)

\* A sequence in front of another: its parts stay, and the whole is cut at its end.
LEMMA SubSeqAcross ==
  ASSUME NEW S, NEW a \in Seq(S), NEW b \in Seq(S), NEW n \in 0 .. Len(a)
  PROVE  Across(S, a, b, n)
<1>1. Len(a) \in Nat
  BY LenProperties
<1>2. PICK x \in Seq(S) : x = SubSeq(a, 1, n) /\ Len(x) = n
  <2>1. SubSeq(a, 1, n) \in Seq(S) /\ Len(SubSeq(a, 1, n)) = n
    BY <1>1, SubSeqType
  <2> QED
    BY <2>1
<1>3. PICK y \in Seq(S) : y = SubSeq(a, n + 1, Len(a))
  <2>1. n + 1 \in Nat \ {0} /\ Len(a) \in Int /\ Len(a) <= Len(a)
    BY <1>1
  <2> QED
    BY <2>1, SubSeqType
<1>4. a = x \o y
  BY <1>2, <1>3, InTwo
<1>5. (x \o y) \o b = x \o (y \o b) /\ y \o b \in Seq(S)
  BY JoinThree, ConcatProperties, SMTT(30)
<1> QED
  BY <1>2, <1>3, <1>4, <1>5 DEF Across

------------------------------------------------------------------------------
(* Decoding *)

Chars == {"=", "&", ";", "+", "%", "u", "NUL", "1", "a", "x"}
Sym   == Chars \cup {"EOS", " "}

Token == Seq(Sym)

Statuses == {"SUCCESS", "INCOMPLETE", "BADSEQ", "BADCHAR"}
Decoding == [status : Statuses, out : Seq(Token), left : Seq(Sym), skip : Nat]

\* What is found at i: a token and how much of it is still ahead, or why
\* decoding stops.
Look(s, i) ==
    LET stop(st)      == [status |-> st, token |-> << >>, skip |-> 0]
        put(token, n) == [status |-> "SUCCESS", token |-> token, skip |-> n]
    IN  IF IsHexEscape(s, i) THEN put(SubSeq(s, i + 1, i + 2), 2)
        ELSE IF IsUniEscape(s, i) THEN put(SubSeq(s, i + 1, i + 5), 5)
        ELSE IF s[i] = "%" THEN stop(IF IsBadEscape(s, i) THEN "BADSEQ" ELSE "INCOMPLETE")
        ELSE IF s[i] = NUL THEN stop("BADCHAR")
        ELSE IF s[i] = "+" THEN put(<<" ">>, 0)
        ELSE put(<<s[i]>>, 0)

Skip(acc)       == [acc EXCEPT !.skip = @ - 1]
Put(acc, f)     == [acc EXCEPT !.out = Append(@, f.token), !.skip = f.skip]
Stop(acc, f, l) == [acc EXCEPT !.status = f.status, !.left = l]

\* Decoding at i goes on with what is found there.
LEMMA DecodeAtIs ==
  ASSUME NEW s, NEW acc \in Decoding, NEW i
  PROVE  DecodeAt(s, acc, i) =
            IF acc.status # "SUCCESS" THEN acc
            ELSE IF acc.skip > 0 THEN Skip(acc)
            ELSE IF Look(s, i).status = "SUCCESS" THEN Put(acc, Look(s, i))
            ELSE Stop(acc, Look(s, i), SubSeq(s, i, Len(s)))
<1>1. CASE acc.status # "SUCCESS" \/ acc.skip > 0
  BY <1>1 DEF DecodeAt, Skip
<1>2. CASE ~(acc.status # "SUCCESS" \/ acc.skip > 0)
  <2>1. CASE IsHexEscape(s, i)
    BY <1>2, <2>1 DEF DecodeAt, Look, Put
  <2>2. CASE ~IsHexEscape(s, i) /\ IsUniEscape(s, i)
    BY <1>2, <2>2 DEF DecodeAt, Look, Put
  <2>3. CASE ~IsHexEscape(s, i) /\ ~IsUniEscape(s, i) /\ s[i] = "%"
    <3> DEFINE st == IF IsBadEscape(s, i) THEN "BADSEQ" ELSE "INCOMPLETE"
    <3>1. /\ Look(s, i) = [status |-> st, token |-> << >>, skip |-> 0]
          /\ st # "SUCCESS"
      BY <2>3 DEF Look
    <3>2. DecodeAt(s, acc, i) = [acc EXCEPT !.status = st, !.left = SubSeq(s, i, Len(s))]
      BY <1>2, <2>3 DEF DecodeAt, NUL
    <3> HIDE DEF st
    <3> QED
      BY <1>2, <3>1, <3>2 DEF Stop
  <2>4. CASE ~IsHexEscape(s, i) /\ ~IsUniEscape(s, i) /\ s[i] # "%"
    BY <1>2, <2>4 DEF DecodeAt, Look, Put, Stop, NUL
  <2> QED
    BY <2>1, <2>2, <2>3, <2>4
<1> QED
  BY <1>1, <1>2

\* What is found is a token that is all there, or a reason.
LEMMA LookType ==
  ASSUME NEW s \in Seq(Sym), NEW i \in 1 .. Len(s)
  PROVE  Look(s, i) \in [status : Statuses, token : Seq(Sym), skip : 0 .. Len(s) - i]
<1>1. Len(s) \in Nat /\ s[i] \in Sym
  BY LenProperties, ElementOfSeq
<1>2. CASE IsHexEscape(s, i)
  <2>1. i + 2 <= Len(s)
    BY <1>2 DEF IsHexEscape, HexAt
  <2>2. SubSeq(s, i + 1, i + 2) \in Seq(Sym)
    BY <1>1, <2>1, SubSeqType
  <2>3. 2 \in 0 .. Len(s) - i
    BY <1>1, <2>1
  <2> QED
    BY <1>2, <2>2, <2>3 DEF Look, Statuses
<1>3. CASE ~IsHexEscape(s, i) /\ IsUniEscape(s, i)
  <2>1. i + 5 <= Len(s)
    BY <1>3 DEF IsUniEscape, HexAt
  <2>2. SubSeq(s, i + 1, i + 5) \in Seq(Sym)
    BY <1>1, <2>1, SubSeqType
  <2>3. 5 \in 0 .. Len(s) - i
    BY <1>1, <2>1
  <2> QED
    BY <1>3, <2>2, <2>3 DEF Look, Statuses
<1>4. CASE ~IsHexEscape(s, i) /\ ~IsUniEscape(s, i)
  <2>1. 0 \in 0 .. Len(s) - i
    BY <1>1
  <2>2. " " \in Sym
    BY DEF Sym
  <2>3. << >> \in Seq(Sym) /\ <<" ">> \in Seq(Sym) /\ <<s[i]>> \in Seq(Sym)
    <3>1. << >> \in Seq(Sym) /\ \A x \in Sym : <<x>> \in Seq(Sym)
      OBVIOUS
    <3> QED
      BY ONLY <1>1, <2>2, <3>1
  <2> QED
    BY <1>4, <2>1, <2>3 DEF Look, Statuses
<1> QED
  BY <1>2, <1>3, <1>4

\* A text that goes on: the characters that are there, and their parts.
LEMMA GoesOn ==
  ASSUME NEW s \in Seq(Sym), NEW t \in Seq(Sym)
  PROVE  /\ s \o t \in Seq(Sym) /\ Len(s) \in Nat /\ Len(t) \in Nat
         /\ Len(s \o t) = Len(s) + Len(t)
         /\ \A k \in 1 .. Len(s) : (s \o t)[k] = s[k]
         /\ \A k \in 1 .. Len(t) : (s \o t)[Len(s) + k] = t[k]
<1>1. /\ s \o t \in Seq(Sym) /\ Len(s) \in Nat /\ Len(t) \in Nat
      /\ Len(s \o t) = Len(s) + Len(t)
      /\ \A k \in 1 .. Len(s) + Len(t) : (s \o t)[k] = IF k <= Len(s) THEN s[k] ELSE t[k - Len(s)]
  BY ConcatProperties, LenProperties
<1>2. ASSUME NEW k \in 1 .. Len(t) PROVE (s \o t)[Len(s) + k] = t[k]
  <2>1. /\ Len(s) + k \in 1 .. Len(s) + Len(t) /\ ~(Len(s) + k <= Len(s))
        /\ (Len(s) + k) - Len(s) = k
    BY <1>1
  <2> QED
    BY <1>1, <2>1
<1> QED
  BY <1>1, <1>2

\* What is found does not depend on what follows, unless it is cut short.
LEMMA LookMore ==
  ASSUME NEW s \in Seq(Sym), NEW t \in Seq(Sym), NEW i \in 1 .. Len(s),
         Look(s, i).status # "INCOMPLETE"
  PROVE  Look(s \o t, i) = Look(s, i)
<1>1. PICK u \in Seq(Sym) : u = s \o t
  BY GoesOn
<1>2. /\ Len(s) \in Nat /\ Len(u) \in Nat /\ Len(s) <= Len(u)
      /\ \A k \in 1 .. Len(s) : u[k] = s[k]
  BY <1>1, GoesOn
<1>3. CASE IsHexEscape(s, i)
  <2>1. i + 2 <= Len(s)
    BY <1>3 DEF IsHexEscape, HexAt
  <2>2. IsHexEscape(u, i)
    BY <1>2, <1>3, <2>1 DEF IsHexEscape, HexAt
  <2>3. SubSeq(u, i + 1, i + 2) = SubSeq(s, i + 1, i + 2)
    BY <1>1, <2>1, SubSeqLeft
  <2> QED
    BY <1>1, <1>3, <2>2, <2>3 DEF Look
<1>4. CASE ~IsHexEscape(s, i) /\ IsUniEscape(s, i)
  <2>1. i + 5 <= Len(s) /\ s[i + 1] = "u"
    BY <1>4 DEF IsUniEscape, HexAt
  <2>2. IsUniEscape(u, i)
    BY <1>2, <1>4, <2>1, SMTT(30) DEF IsUniEscape, HexAt
  <2>3. ~IsHexEscape(u, i)
    BY <1>2, <2>1 DEF IsHexEscape, HexAt, Hex
  <2>4. SubSeq(u, i + 1, i + 5) = SubSeq(s, i + 1, i + 5)
    BY <1>1, <2>1, SubSeqLeft
  <2> QED
    BY <1>1, <1>4, <2>2, <2>3, <2>4 DEF Look
<1>5. CASE ~IsHexEscape(s, i) /\ ~IsUniEscape(s, i)
  <2>1. CASE s[i] = "%"
    <3>1. IsBadEscape(s, i)
      BY <1>5, <2>1 DEF Look
    <3>2. IsBadEscape(u, i)
      BY <1>2, <3>1 DEF IsBadEscape
    <3>3. ~IsHexEscape(u, i) /\ ~IsUniEscape(u, i)
      BY <1>2, <1>5, <2>1, <3>1 DEF IsBadEscape, IsHexEscape, IsUniEscape, HexAt, Hex
    <3> QED
      BY <1>1, <1>2, <1>5, <2>1, <3>1, <3>2, <3>3 DEF Look
  <2>2. CASE s[i] # "%"
    <3>1. u[i] = s[i]
      BY <1>2
    <3>2. ~IsHexEscape(u, i) /\ ~IsUniEscape(u, i)
      BY <2>2, <3>1 DEF IsHexEscape, IsUniEscape
    <3> QED
      BY <1>1, <1>5, <2>2, <3>1, <3>2 DEF Look
  <2> QED
    BY <2>1, <2>2
<1> QED
  BY <1>3, <1>4, <1>5

\* Nor does it depend on what is in front.
LEMMA LookOn ==
  ASSUME NEW s \in Seq(Sym), NEW t \in Seq(Sym), NEW j \in 1 .. Len(t)
  PROVE  Look(s \o t, Len(s) + j) = Look(t, j)
<1>1. PICK u \in Seq(Sym) : u = s \o t
  BY GoesOn
<1> DEFINE k == Len(s)
<1>2. /\ k \in Nat /\ Len(t) \in Nat /\ Len(u) = k + Len(t)
      /\ \A m \in 1 .. Len(t) : u[k + m] = t[m]
  BY <1>1, GoesOn
<1>3. ASSUME NEW m \in Nat \ {0}, NEW n \in Int, n <= Len(t)
      PROVE  SubSeq(u, k + m, k + n) = SubSeq(t, m, n)
  BY <1>1, <1>3, SubSeqRight
<1> HIDE DEF k
<1>4. \A m \in 1 .. 5 : /\ (k + j) + m = k + (j + m)
                        /\ k + (j + m) <= Len(u) <=> j + m <= Len(t)
                        /\ j + m <= Len(t) => u[k + (j + m)] = t[j + m]
  <2> SUFFICES ASSUME NEW m \in 1 .. 5
               PROVE  /\ (k + j) + m = k + (j + m)
                      /\ k + (j + m) <= Len(u) <=> j + m <= Len(t)
                      /\ j + m <= Len(t) => u[k + (j + m)] = t[j + m]
    OBVIOUS
  <2>1. (k + j) + m = k + (j + m) /\ (k + (j + m) <= Len(u) <=> j + m <= Len(t))
    BY <1>2
  <2>2. ASSUME j + m <= Len(t) PROVE u[k + (j + m)] = t[j + m]
    <3>1. j + m \in 1 .. Len(t)
      BY <1>2, <2>2
    <3> QED
      BY <1>2, <3>1
  <2> QED
    BY <2>1, <2>2
<1>5. /\ (k + j) + 1 = k + (j + 1) /\ (k + j) + 2 = k + (j + 2)
      /\ (k + j) + 5 = k + (j + 5)
      /\ \A m \in 1 .. 5 : (k + j) + m <= Len(u) <=> j + m <= Len(t)
      /\ \A m \in 1 .. 5 : j + m <= Len(t) => u[(k + j) + m] = t[j + m]
  BY <1>2, <1>4
<1>6. u[k + j] = t[j]
  BY <1>2
<1>7. IsHexEscape(u, k + j) <=> IsHexEscape(t, j)
  BY <1>5, <1>6, SMTT(30) DEF IsHexEscape, HexAt
<1>8. IsUniEscape(u, k + j) <=> IsUniEscape(t, j)
  <2>1. HexAt(u, (k + j) + 2 .. (k + j) + 5) <=> HexAt(t, j + 2 .. j + 5)
    <3>1. \A i : i \in j + 2 .. j + 5 <=> \E m \in 2 .. 5 : i = j + m
      <4>1. \A i \in j + 2 .. j + 5 : i - j \in 2 .. 5 /\ i = j + (i - j)
        OBVIOUS
      <4>2. \A m \in 2 .. 5 : j + m \in j + 2 .. j + 5
        OBVIOUS
      <4> QED
        BY <4>1, <4>2
    <3>2. \A i : i \in (k + j) + 2 .. (k + j) + 5 <=> \E m \in 2 .. 5 : i = (k + j) + m
      <4>1. k + j \in Int
        BY <1>2
      <4>2. \A i \in (k + j) + 2 .. (k + j) + 5 : i - (k + j) \in 2 .. 5 /\ i = (k + j) + (i - (k + j))
        BY <4>1
      <4>3. \A m \in 2 .. 5 : (k + j) + m \in (k + j) + 2 .. (k + j) + 5
        BY <4>1
      <4> QED
        BY <4>2, <4>3
    <3>3. \A m \in 2 .. 5 : m \in 1 .. 5
      OBVIOUS
    <3>4. HexAt(u, (k + j) + 2 .. (k + j) + 5)
            <=> \A m \in 2 .. 5 : (k + j) + m <= Len(u) /\ u[(k + j) + m] \in Hex
      BY <3>2 DEF HexAt
    <3>5. HexAt(t, j + 2 .. j + 5) <=> \A m \in 2 .. 5 : j + m <= Len(t) /\ t[j + m] \in Hex
      BY <3>1 DEF HexAt
    <3> QED
      BY <1>5, <3>3, <3>4, <3>5
  <2>2. (k + j) + 1 <= Len(u) <=> j + 1 <= Len(t)
    BY <1>5
  <2>3. j + 1 <= Len(t) => u[(k + j) + 1] = t[j + 1]
    BY <1>5
  <2> QED
    BY <1>6, <2>1, <2>2, <2>3 DEF IsUniEscape
<1>9. IsBadEscape(u, k + j) <=> IsBadEscape(t, j)
  BY <1>5 DEF IsBadEscape
<1>10. IsHexEscape(t, j) => SubSeq(u, (k + j) + 1, (k + j) + 2) = SubSeq(t, j + 1, j + 2)
  <2>1. IsHexEscape(t, j) => j + 2 <= Len(t)
    BY DEF IsHexEscape, HexAt
  <2>2. j + 1 \in Nat \ {0} /\ j + 2 \in Int
    OBVIOUS
  <2>3. j + 2 <= Len(t) => SubSeq(u, k + (j + 1), k + (j + 2)) = SubSeq(t, j + 1, j + 2)
    BY ONLY <1>3, <2>2
  <2> QED
    BY ONLY <1>5, <2>1, <2>3
<1>11. IsUniEscape(t, j) => SubSeq(u, (k + j) + 1, (k + j) + 5) = SubSeq(t, j + 1, j + 5)
  <2>1. IsUniEscape(t, j) => j + 5 <= Len(t)
    BY DEF IsUniEscape, HexAt
  <2>2. j + 1 \in Nat \ {0} /\ j + 5 \in Int
    OBVIOUS
  <2>3. j + 5 <= Len(t) => SubSeq(u, k + (j + 1), k + (j + 5)) = SubSeq(t, j + 1, j + 5)
    BY ONLY <1>3, <2>2
  <2> QED
    BY ONLY <1>5, <2>1, <2>3
<1>12. Look(u, k + j) = Look(t, j)
  BY ONLY <1>6, <1>7, <1>8, <1>9, <1>10, <1>11 DEF Look
<1> QED
  BY <1>1, <1>12 DEF k

\* A state in the middle of decoding s, after i characters.
GoodAt(acc, s, i) ==
    /\ acc \in Decoding
    /\ acc.status = "SUCCESS" => acc.left = << >> /\ acc.skip <= Len(s) - i
    /\ acc.status # "SUCCESS" => acc.skip = 0

\* The next state is one too.
LEMMA DecodeAtGood ==
  ASSUME NEW s \in Seq(Sym), NEW i \in 1 .. Len(s), NEW acc, GoodAt(acc, s, i - 1)
  PROVE  GoodAt(DecodeAt(s, acc, i), s, i)
<1> DEFINE f == Look(s, i)
           l == SubSeq(s, i, Len(s))
<1>1. /\ acc \in Decoding /\ Len(s) \in Nat
      /\ acc.status \in Statuses /\ acc.out \in Seq(Token) /\ acc.left \in Seq(Sym)
      /\ acc.skip \in Nat
  BY LenProperties DEF GoodAt, Decoding
<1>2. f.status \in Statuses /\ f.token \in Token /\ f.skip \in Nat /\ f.skip <= Len(s) - i
  <2>1. f \in [status : Statuses, token : Seq(Sym), skip : 0 .. Len(s) - i]
    BY LookType
  <2> HIDE DEF f
  <2> QED
    BY <1>1, <2>1 DEF Token
<1>3. l \in Seq(Sym)
  <2>1. i \in Nat \ {0} /\ Len(s) \in Int /\ Len(s) <= Len(s)
    BY <1>1
  <2> QED
    BY <2>1, SubSeqType
<1>4. DecodeAt(s, acc, i) =
            IF acc.status # "SUCCESS" THEN acc
            ELSE IF acc.skip > 0 THEN Skip(acc)
            ELSE IF f.status = "SUCCESS" THEN Put(acc, f)
            ELSE Stop(acc, f, l)
  BY <1>1, DecodeAtIs
<1> HIDE DEF f, l
<1>5. CASE acc.status # "SUCCESS"
  BY <1>1, <1>4, <1>5 DEF GoodAt
<1>6. CASE acc.status = "SUCCESS" /\ acc.skip > 0
  <2>1. acc.skip <= Len(s) - (i - 1) /\ acc.left = << >>
    BY <1>6 DEF GoodAt
  <2>2. acc.skip - 1 \in Nat /\ acc.skip - 1 <= Len(s) - i
    BY <1>1, <1>6, <2>1
  <2> QED
    BY <1>1, <1>4, <1>6, <2>1, <2>2 DEF GoodAt, Skip, Decoding
<1>7. CASE acc.status = "SUCCESS" /\ ~(acc.skip > 0)
  <2>1. acc.skip = 0 /\ acc.left = << >>
    BY <1>1, <1>7 DEF GoodAt
  <2>2. CASE f.status = "SUCCESS"
    <3>1. Append(acc.out, f.token) \in Seq(Token)
      BY <1>1, <1>2
    <3> QED
      BY <1>1, <1>2, <1>4, <1>7, <2>1, <2>2, <3>1 DEF GoodAt, Put, Decoding
  <2>3. CASE f.status # "SUCCESS"
    BY <1>1, <1>2, <1>3, <1>4, <1>7, <2>1, <2>3 DEF GoodAt, Stop, Decoding
  <2> QED
    BY <2>2, <2>3
<1> QED
  BY <1>5, <1>6, <1>7

\* All states of decoding are.
LEMMA ChainGood ==
  ASSUME NEW s \in Seq(Sym), NEW c, DecodeChain(c, s)
  PROVE  \A i \in 0 .. Len(s) : GoodAt(c[i], s, i)
<1> DEFINE Fine == {i \in Nat : i <= Len(s) => GoodAt(c[i], s, i)}
<1>1. 0 \in Fine
  <2>1. Decode0 \in Decoding /\ Len(s) \in Nat
    BY LenProperties DEF Decode0, Decoding, Statuses
  <2>2. GoodAt(Decode0, s, 0)
    BY <2>1 DEF GoodAt, Decode0
  <2> QED
    BY <2>2 DEF DecodeChain
<1>2. ASSUME NEW i \in Nat, i \in Fine PROVE i + 1 \in Fine
  <2>1. SUFFICES ASSUME i + 1 <= Len(s) PROVE GoodAt(c[i + 1], s, i + 1)
    OBVIOUS
  <2>2. i + 1 \in 1 .. Len(s) /\ (i + 1) - 1 = i /\ i <= Len(s)
    BY <2>1, LenProperties
  <2>3. GoodAt(c[i], s, i)
    BY <1>2, <2>2
  <2>4. c[i + 1] = DecodeAt(s, c[i], i + 1)
    BY <2>2 DEF DecodeChain
  <2> QED
    BY <2>2, <2>3, <2>4, DecodeAtGood
<1> HIDE DEF Fine
<1>3. Nat \subseteq Fine
  BY <1>1, <1>2, SetInduction
<1>4. ASSUME NEW i \in 0 .. Len(s) PROVE GoodAt(c[i], s, i)
  <2>1. i \in Fine /\ i <= Len(s)
    BY <1>3, LenProperties
  <2> QED
    BY <2>1 DEF Fine
<1> QED
  BY <1>4

\* Where decoding has been cut short.
CutShort(c, s, m) ==
    \E i \in 1 .. m :
        /\ c[i - 1].status = "SUCCESS" /\ c[i - 1].skip = 0
        /\ c[m].status = "INCOMPLETE" /\ c[m].out = c[i - 1].out
        /\ c[m].left = SubSeq(s, i, Len(s))

\* What has run out inside a percent-coded character stands on it, and shows it.
LEMMA ChainCutShort ==
  ASSUME NEW s \in Seq(Sym), NEW c, DecodeChain(c, s)
  PROVE  \A i \in 0 .. Len(s) : c[i].status = "INCOMPLETE" => CutShort(c, s, i)
<1> DEFINE Fine == {i \in Nat : i <= Len(s) => (c[i].status = "INCOMPLETE" => CutShort(c, s, i))}
<1>1. 0 \in Fine
  BY DEF DecodeChain, Decode0
<1>2. ASSUME NEW i \in Nat, i \in Fine PROVE i + 1 \in Fine
  <2>1. SUFFICES ASSUME i + 1 <= Len(s), c[i + 1].status = "INCOMPLETE"
                 PROVE  CutShort(c, s, i + 1)
    OBVIOUS
  <2>2. i + 1 \in 1 .. Len(s) /\ (i + 1) - 1 = i /\ i <= Len(s) /\ i \in 0 .. Len(s)
    BY <2>1, LenProperties
  <2>3. GoodAt(c[i], s, i)
    BY <2>2, ChainGood
  <2> DEFINE f == Look(s, i + 1)
  <2>4. c[i + 1] = IF c[i].status # "SUCCESS" THEN c[i]
                   ELSE IF c[i].skip > 0 THEN Skip(c[i])
                   ELSE IF f.status = "SUCCESS" THEN Put(c[i], f)
                   ELSE Stop(c[i], f, SubSeq(s, i + 1, Len(s)))
    <3>1. c[i + 1] = DecodeAt(s, c[i], i + 1)
      BY <2>2 DEF DecodeChain
    <3> QED
      BY <2>3, <3>1, DecodeAtIs DEF GoodAt
  <2> HIDE DEF f
  <2>5. CASE c[i].status # "SUCCESS"
    <3>1. c[i + 1] = c[i]
      BY <2>4, <2>5
    <3>2. CutShort(c, s, i)
      BY <1>2, <2>1, <2>2, <3>1
    <3>3. PICK k \in 1 .. i :
            /\ c[k - 1].status = "SUCCESS" /\ c[k - 1].skip = 0
            /\ c[i].status = "INCOMPLETE" /\ c[i].out = c[k - 1].out
            /\ c[i].left = SubSeq(s, k, Len(s))
      BY <3>2 DEF CutShort
    <3>4. k \in 1 .. i + 1
      OBVIOUS
    <3> QED
      BY <3>1, <3>3, <3>4 DEF CutShort
  <2>6. CASE c[i].status = "SUCCESS"
    <3>1. c[i].skip \in Nat /\ c[i] \in Decoding
      BY <2>3 DEF GoodAt, Decoding
    <3>2. ~(c[i].skip > 0)
      BY <2>1, <2>4, <2>6, <3>1 DEF Skip, Decoding
    <3>3. f.status # "SUCCESS"
      BY <2>1, <2>4, <2>6, <3>1, <3>2 DEF Put, Decoding
    <3>4. c[i + 1] = Stop(c[i], f, SubSeq(s, i + 1, Len(s))) /\ c[i].skip = 0
      BY <2>4, <2>6, <3>1, <3>2, <3>3
    <3>5. c[i + 1].out = c[i].out /\ c[i + 1].left = SubSeq(s, i + 1, Len(s))
      BY <3>1, <3>4 DEF Stop, Decoding
    <3>6. i + 1 \in 1 .. i + 1
      BY <2>2
    <3> QED
      BY <2>1, <2>2, <2>6, <3>4, <3>5, <3>6 DEF CutShort
  <2> QED
    BY <2>5, <2>6
<1> HIDE DEF Fine
<1>3. Nat \subseteq Fine
  BY <1>1, <1>2, SetInduction
<1>4. ASSUME NEW i \in 0 .. Len(s), c[i].status = "INCOMPLETE" PROVE CutShort(c, s, i)
  <2>1. i \in Fine /\ i <= Len(s)
    BY <1>3, LenProperties
  <2> QED
    BY <1>4, <2>1 DEF Fine
<1> QED
  BY <1>4

Bad == {"BADSEQ", "BADCHAR"}

\* A text that goes on is decoded as far in the same way.
LEMMA ChainMore ==
  ASSUME NEW s \in Seq(Sym), NEW t \in Seq(Sym), NEW c, NEW d,
         DecodeChain(c, s), DecodeChain(d, s \o t)
  PROVE  \A i \in 0 .. Len(s) : /\ c[i].status = "SUCCESS" => d[i] = c[i]
                                /\ c[i].status \in Bad => d[i].status = c[i].status
<1> DEFINE Same(i) == /\ c[i].status = "SUCCESS" => d[i] = c[i]
                      /\ c[i].status \in Bad => d[i].status = c[i].status
           Fine == {i \in Nat : i <= Len(s) => Same(i)}
<1>0. PICK u \in Seq(Sym) : u = s \o t
  BY GoesOn
<1>0a. Len(s) \in Nat /\ Len(u) \in Nat /\ Len(s) <= Len(u)
  BY <1>0, GoesOn
<1>1. 0 \in Fine
  BY DEF DecodeChain, Decode0, Bad
<1>2. ASSUME NEW i \in Nat, i \in Fine PROVE i + 1 \in Fine
  <2>1. SUFFICES ASSUME i + 1 <= Len(s) PROVE Same(i + 1)
    OBVIOUS
  <2>2. /\ i + 1 \in 1 .. Len(s) /\ (i + 1) - 1 = i /\ i <= Len(s) /\ i \in 0 .. Len(s)
        /\ i + 1 \in 1 .. Len(u) /\ i \in 0 .. Len(u)
    BY <2>1, <1>0a
  <2>3. GoodAt(c[i], s, i) /\ GoodAt(d[i], u, i)
    BY <1>0, <2>2, ChainGood
  <2>4. Same(i)
    BY <1>2, <2>2
  <2> DEFINE f == Look(s, i + 1)
             g == Look(u, i + 1)
  <2>5. c[i + 1] = IF c[i].status # "SUCCESS" THEN c[i]
                   ELSE IF c[i].skip > 0 THEN Skip(c[i])
                   ELSE IF f.status = "SUCCESS" THEN Put(c[i], f)
                   ELSE Stop(c[i], f, SubSeq(s, i + 1, Len(s)))
    <3>1. c[i + 1] = DecodeAt(s, c[i], i + 1)
      BY <2>2 DEF DecodeChain
    <3> QED
      BY <2>3, <3>1, DecodeAtIs DEF GoodAt
  <2>6. d[i + 1] = IF d[i].status # "SUCCESS" THEN d[i]
                   ELSE IF d[i].skip > 0 THEN Skip(d[i])
                   ELSE IF g.status = "SUCCESS" THEN Put(d[i], g)
                   ELSE Stop(d[i], g, SubSeq(u, i + 1, Len(u)))
    <3>1. d[i + 1] = DecodeAt(u, d[i], i + 1)
      BY <1>0, <2>2 DEF DecodeChain
    <3> QED
      BY <2>3, <3>1, DecodeAtIs DEF GoodAt
  <2>7. f.status # "INCOMPLETE" => g = f
    BY <1>0, <2>2, LookMore
  <2>8. f.status \in Statuses
    <3>1. f \in [status : Statuses, token : Seq(Sym), skip : 0 .. Len(s) - (i + 1)]
      BY <2>2, LookType
    <3> QED
      BY <3>1
  <2>9. c[i] \in Decoding /\ c[i].skip \in Nat /\ c[i].status \in Statuses
    BY <2>3 DEF GoodAt, Decoding
  <2> HIDE DEF f, g
  <2>10. CASE c[i].status # "SUCCESS"
    <3>1. c[i + 1] = c[i]
      BY <2>5, <2>10
    <3>2. CASE c[i].status \in Bad
      BY <2>4, <2>6, <3>1, <3>2 DEF Bad
    <3>3. CASE c[i].status \notin Bad
      BY <2>10, <3>1, <3>3
    <3> QED
      BY <3>2, <3>3
  <2>11. CASE c[i].status = "SUCCESS"
    <3>1. d[i] = c[i]
      BY <2>4, <2>11
    <3>2. CASE c[i].skip > 0
      <4>1. d[i + 1] = c[i + 1] /\ c[i + 1].status = "SUCCESS"
        BY <2>5, <2>6, <2>9, <2>11, <3>1, <3>2 DEF Skip, Decoding
      <4> QED
        BY <4>1 DEF Bad
    <3>3. CASE ~(c[i].skip > 0) /\ f.status = "SUCCESS"
      <4>1. d[i + 1] = c[i + 1] /\ c[i + 1].status = "SUCCESS"
        BY <2>5, <2>6, <2>7, <2>9, <2>11, <3>1, <3>3 DEF Put, Decoding
      <4> QED
        BY <4>1 DEF Bad
    <3>4. CASE ~(c[i].skip > 0) /\ f.status # "SUCCESS"
      <4>1. c[i + 1].status = f.status
        BY <2>5, <2>9, <2>11, <3>4 DEF Stop, Decoding
      <4>2. f.status # "INCOMPLETE" => d[i + 1].status = f.status
        BY <2>6, <2>7, <2>9, <2>11, <3>1, <3>4 DEF Stop, Decoding
      <4> QED
        BY <3>4, <4>1, <4>2 DEF Bad
    <3> QED
      BY <3>2, <3>3, <3>4
  <2> QED
    BY <2>10, <2>11
<1> HIDE DEF Fine
<1>3. Nat \subseteq Fine
  BY <1>1, <1>2, SetInduction
<1>4. ASSUME NEW i \in 0 .. Len(s) PROVE Same(i)
  <2>1. i \in Fine /\ i <= Len(s)
    BY <1>0a, <1>3
  <2> QED
    BY <2>1 DEF Fine
<1> QED
  BY <1>4

\* r with what has been decoded in front of it.
Behind(o, r) == [r EXCEPT !.out = o \o @]

\* Decoding goes on with what is behind as if nothing were in front.
LEMMA BehindSteps ==
  ASSUME NEW a \in Seq(Sym), NEW b \in Seq(Sym), NEW o \in Seq(Token),
         NEW x \in Decoding, NEW j \in 1 .. Len(b)
  PROVE  DecodeAt(a \o b, Behind(o, x), Len(a) + j) = Behind(o, DecodeAt(b, x, j))
<1>1. PICK u \in Seq(Sym) : u = a \o b
  BY GoesOn
<1> DEFINE k == Len(a)
           y == Behind(o, x)
           f == Look(b, j)
           l == SubSeq(b, j, Len(b))
<1>2. k \in Nat /\ Len(b) \in Nat /\ Len(u) = k + Len(b)
  BY <1>1, GoesOn
<1>3. Look(u, k + j) = f
  BY <1>1, LookOn
<1>4. SubSeq(u, k + j, Len(u)) = l
  <2>1. j \in Nat \ {0} /\ Len(b) \in Int /\ Len(b) <= Len(b)
    BY <1>2
  <2> QED
    BY <1>1, <1>2, <2>1, SubSeqRight
<1>5. x.out \in Seq(Token) /\ o \o x.out \in Seq(Token) /\ x.status \in Statuses /\ x.skip \in Nat
  BY ConcatProperties DEF Decoding
<1>6. /\ y \in Decoding /\ y.status = x.status /\ y.skip = x.skip /\ y.left = x.left
      /\ y.out = o \o x.out
  BY <1>5 DEF Behind, Decoding
<1>7. f.token \in Token
  <2>1. f \in [status : Statuses, token : Seq(Sym), skip : 0 .. Len(b) - j]
    BY LookType
  <2> QED
    BY <2>1 DEF Token
<1>8. Append(o \o x.out, f.token) = o \o Append(x.out, f.token)
  <2>1. PICK q \in Seq(Token) : q = x.out
    BY <1>5
  <2>2. PICK tok \in Token : tok = f.token
    BY <1>7
  <2>3. PICK t \in Seq(Token) : t = <<tok>>
    <3>1. <<tok>> \in Seq(Token)
      OBVIOUS
    <3> QED
      BY <3>1
  <2>4. (o \o q) \o t = o \o (q \o t)
    BY SMT
  <2>5. PICK w \in Seq(Token) : w = o \o q
    BY ConcatProperties
  <2>6. Append(w, tok) = w \o t /\ Append(q, tok) = q \o t
    BY <2>3, AppendIsConcat
  <2> QED
    BY <2>1, <2>2, <2>4, <2>5, <2>6
<1> HIDE DEF y, f, l, k
<1>9. DecodeAt(u, y, k + j) =
            IF y.status # "SUCCESS" THEN y
            ELSE IF y.skip > 0 THEN Skip(y)
            ELSE IF f.status = "SUCCESS" THEN Put(y, f)
            ELSE Stop(y, f, l)
  BY ONLY <1>3, <1>4, <1>6, DecodeAtIs
<1>10. DecodeAt(b, x, j) =
            IF x.status # "SUCCESS" THEN x
            ELSE IF x.skip > 0 THEN Skip(x)
            ELSE IF f.status = "SUCCESS" THEN Put(x, f)
            ELSE Stop(x, f, l)
  BY DecodeAtIs DEF f, l
<1>11. Skip(y) = Behind(o, Skip(x))
  BY <1>5 DEF y, Skip, Behind, Decoding
<1>12. Put(y, f) = Behind(o, Put(x, f))
  BY <1>5, <1>8 DEF y, Put, Behind, Decoding
<1>13. Stop(y, f, l) = Behind(o, Stop(x, f, l))
  BY <1>5 DEF y, Stop, Behind, Decoding
<1>14. DecodeAt(u, y, k + j) = Behind(o, DecodeAt(b, x, j))
  BY ONLY <1>6, <1>9, <1>10, <1>11, <1>12, <1>13 DEF y
<1> QED
  BY <1>1, <1>14 DEF y, k

\* Decoding that begins anew behind a part that was whole goes on as on its own.
LEMMA ChainBehind ==
  ASSUME NEW a \in Seq(Sym), NEW b \in Seq(Sym), NEW o \in Seq(Token), NEW c, NEW d,
         DecodeChain(c, b), DecodeChain(d, a \o b), d[Len(a)] = Behind(o, Decode0)
  PROVE  d[Len(a) + Len(b)] = Behind(o, c[Len(b)])
<1>1. PICK u \in Seq(Sym) : u = a \o b
  BY GoesOn
<1>2. Len(a) \in Nat /\ Len(b) \in Nat /\ Len(u) = Len(a) + Len(b)
  BY <1>1, GoesOn
<1> DEFINE Fine == {j \in Nat : j <= Len(b) => d[Len(a) + j] = Behind(o, c[j])}
<1>3. 0 \in Fine
  <2>1. Len(a) + 0 = Len(a) /\ c[0] = Decode0
    BY <1>2 DEF DecodeChain
  <2> QED
    BY <2>1
<1>4. ASSUME NEW j \in Nat, j \in Fine PROVE j + 1 \in Fine
  <2>1. SUFFICES ASSUME j + 1 <= Len(b) PROVE d[Len(a) + (j + 1)] = Behind(o, c[j + 1])
    OBVIOUS
  <2>2. /\ j + 1 \in 1 .. Len(b) /\ (j + 1) - 1 = j /\ j <= Len(b) /\ j \in 0 .. Len(b)
        /\ Len(a) + (j + 1) \in 1 .. Len(u) /\ (Len(a) + (j + 1)) - 1 = Len(a) + j
    BY <1>2, <2>1
  <2>3. c[j] \in Decoding
    BY <2>2, ChainGood DEF GoodAt
  <2>4. d[Len(a) + (j + 1)] = DecodeAt(u, d[Len(a) + j], Len(a) + (j + 1))
    BY <1>1, <2>2 DEF DecodeChain
  <2>5. c[j + 1] = DecodeAt(b, c[j], j + 1)
    BY <2>2 DEF DecodeChain
  <2>6. d[Len(a) + j] = Behind(o, c[j])
    BY <1>4, <2>2
  <2>7. DecodeAt(a \o b, Behind(o, c[j]), Len(a) + (j + 1)) = Behind(o, DecodeAt(b, c[j], j + 1))
    BY <2>2, <2>3, BehindSteps
  <2> QED
    BY <1>1, <2>4, <2>5, <2>6, <2>7
<1> HIDE DEF Fine
<1>5. Nat \subseteq Fine
  BY <1>3, <1>4, SetInduction
<1>6. Len(b) \in Fine /\ Len(b) <= Len(b)
  BY <1>2, <1>5
<1> QED
  BY <1>6 DEF Fine

\* What decoding s comes to.
LEMMA UrlDecodeType ==
  ASSUME NEW s \in Seq(Sym)
  PROVE  /\ UrlDecode(s) \in Decoding /\ UrlDecode(s).skip = 0
         /\ UrlDecode(s).status = "SUCCESS" => UrlDecode(s).left = << >>
<1>1. PICK c : DecodeChain(c, s) /\ UrlDecode(s) = c[Len(s)]
  BY DecodeChains
<1>2. Len(s) \in Nat /\ Len(s) \in 0 .. Len(s)
  BY LenProperties
<1>3. GoodAt(c[Len(s)], s, Len(s))
  BY <1>1, <1>2, ChainGood
<1>4. c[Len(s)].skip \in Nat
  BY <1>3 DEF GoodAt, Decoding
<1> QED
  BY <1>1, <1>2, <1>3, <1>4 DEF GoodAt

\* Decoding s \o t from what decoding s comes to.
Joined(r, s, t) ==
    /\ r.status \in {"SUCCESS", "INCOMPLETE"} =>
          UrlDecode(s \o t) = Behind(r.out, UrlDecode(r.left \o t))
    /\ r.status \in Bad => UrlDecode(s \o t).status = r.status

\* A text in two: to decode the first part and to go on with what it left
\* is to decode both.
LEMMA UrlDecodeJoined ==
  ASSUME NEW s \in Seq(Sym), NEW t \in Seq(Sym)
  PROVE  Joined(UrlDecode(s), s, t)
<1> DEFINE n == Len(s)
           r == UrlDecode(s)
<1>1. PICK c : DecodeChain(c, s) /\ r = c[n]
  BY DecodeChains
<1>2. PICK u \in Seq(Sym) : u = s \o t
  BY GoesOn
<1>3. PICK d : DecodeChain(d, u) /\ UrlDecode(u) = d[Len(u)]
  BY DecodeChains
<1>4. /\ n \in Nat /\ n \in 0 .. n /\ Len(t) \in Nat /\ Len(u) = n + Len(t)
  BY <1>2, GoesOn
<1>5. \A i \in 0 .. n : /\ c[i].status = "SUCCESS" => d[i] = c[i]
                        /\ c[i].status \in Bad => d[i].status = c[i].status
  BY <1>1, <1>2, <1>3, ChainMore
<1>6. \A i \in 0 .. n : GoodAt(c[i], s, i)
  BY <1>1, ChainGood
<1>7. ASSUME NEW i \in 0 .. n, c[i].status = "SUCCESS", c[i].skip = 0
      PROVE  UrlDecode(u) = Behind(c[i].out, UrlDecode(SubSeq(s, i + 1, n) \o t))
  <2>1. /\ SubSeq(s, 1, i) \in Seq(Sym) /\ SubSeq(s, i + 1, Len(s)) \o t \in Seq(Sym)
        /\ Len(SubSeq(s, 1, i)) = i
        /\ u = SubSeq(s, 1, i) \o (SubSeq(s, i + 1, Len(s)) \o t)
    <3>1. Across(Sym, s, t, i)
      BY SubSeqAcross
    <3> QED
      BY ONLY <1>2, <3>1 DEF Across
  <2>2. PICK a \in Seq(Sym) : a = SubSeq(s, 1, i)
    BY <2>1
  <2>3. PICK b \in Seq(Sym) : b = SubSeq(s, i + 1, Len(s)) \o t
    BY <2>1
  <2>4. Len(a) = i /\ u = a \o b
    BY <2>1, <2>2, <2>3
  <2>5. PICK f : DecodeChain(f, b) /\ UrlDecode(b) = f[Len(b)]
    BY DecodeChains
  <2>6. c[i] \in Decoding /\ c[i].left = << >>
    BY <1>6, <1>7 DEF GoodAt
  <2>7. c[i].out \in Seq(Token)
    BY <2>6 DEF Decoding
  <2>8. d[Len(a)] = Behind(c[i].out, Decode0)
    <3>1. d[Len(a)] = c[i]
      BY <1>5, <1>7, <2>4
    <3>2. c[i].out \o << >> = c[i].out
      BY <2>7, ConcatEmptySeq
    <3>3. c[i] = [status |-> "SUCCESS", out |-> c[i].out, left |-> << >>, skip |-> 0]
      BY <1>7, <2>6 DEF Decoding
    <3>4. Behind(c[i].out, Decode0) =
             [status |-> "SUCCESS", out |-> c[i].out \o << >>, left |-> << >>, skip |-> 0]
      BY DEF Behind, Decode0
    <3> QED
      BY ONLY <3>1, <3>2, <3>3, <3>4
  <2>9. DecodeChain(d, a \o b)
    BY <1>3, <2>4
  <2>10. d[Len(a) + Len(b)] = Behind(c[i].out, f[Len(b)])
    <3>1. PICK o \in Seq(Token) : o = c[i].out
      BY <2>7
    <3> QED
      BY ONLY <2>5, <2>8, <2>9, <3>1, ChainBehind, a \in Seq(Sym), b \in Seq(Sym)
  <2>11. Len(u) = Len(a) + Len(b)
    BY <2>4, GoesOn
  <2> QED
    BY ONLY <1>3, <2>3, <2>5, <2>10, <2>11
<1>8. r \in Decoding /\ r.skip = 0 /\ r.status \in Statuses
  BY UrlDecodeType DEF Decoding
<1> HIDE DEF r
<1>9. CASE r.status = "SUCCESS"
  <2>1. r.left = << >>
    BY <1>9, UrlDecodeType DEF r
  <2>2. SubSeq(s, n + 1, n) = << >>
    BY <1>4, SubSeqEmpty
  <2>3. UrlDecode(u) = Behind(r.out, UrlDecode(SubSeq(s, n + 1, n) \o t))
    <3>1. c[n].status = "SUCCESS" /\ c[n].skip = 0
      BY ONLY <1>1, <1>8, <1>9
    <3> HIDE DEF n
    <3> QED
      BY ONLY <1>1, <1>4, <1>7, <3>1
  <2> QED
    BY <1>2, <1>9, <2>1, <2>2, <2>3 DEF Joined, Bad, r
<1>10. CASE r.status = "INCOMPLETE"
  <2>1. CutShort(c, s, n)
    BY <1>1, <1>4, <1>10, ChainCutShort
  <2>2. PICK i \in 1 .. n :
            /\ c[i - 1].status = "SUCCESS" /\ c[i - 1].skip = 0
            /\ c[n].status = "INCOMPLETE" /\ c[n].out = c[i - 1].out
            /\ c[n].left = SubSeq(s, i, Len(s))
    BY <2>1 DEF CutShort
  <2>3. i - 1 \in 0 .. n /\ (i - 1) + 1 = i
    BY <1>4
  <2>4. UrlDecode(u) = Behind(c[i - 1].out, UrlDecode(SubSeq(s, (i - 1) + 1, n) \o t))
    BY <1>7, <2>2, <2>3
  <2>5. UrlDecode(u) = Behind(r.out, UrlDecode(r.left \o t))
    BY ONLY <1>1, <2>2, <2>3, <2>4
  <2> QED
    BY <1>2, <1>10, <2>5 DEF Joined, Bad, r
<1>11. CASE r.status \in Bad
  <2>1. d[n].status = r.status /\ r.status # "SUCCESS"
    BY <1>1, <1>4, <1>5, <1>11 DEF Bad
  <2> DEFINE Stays == {j \in Nat : j <= Len(t) => d[n + j] = d[n]}
  <2>2. 0 \in Stays
    BY <1>4
  <2>3. ASSUME NEW j \in Nat, j \in Stays PROVE j + 1 \in Stays
    <3>1. SUFFICES ASSUME j + 1 <= Len(t) PROVE d[n + (j + 1)] = d[n]
      OBVIOUS
    <3>2. /\ n + (j + 1) \in 1 .. Len(u) /\ (n + (j + 1)) - 1 = n + j /\ j <= Len(t)
          /\ n \in 0 .. Len(u)
      BY <1>4, <3>1
    <3>3. d[n + (j + 1)] = DecodeAt(u, d[n + j], n + (j + 1))
      BY <1>3, <3>2 DEF DecodeChain
    <3>4. d[n + j] = d[n]
      BY <2>3, <3>2
    <3>5. d[n] \in Decoding
      BY <1>2, <1>3, <3>2, ChainGood DEF GoodAt
    <3> QED
      BY <2>1, <3>3, <3>4, <3>5, DecodeAtIs
  <2> HIDE DEF Stays
  <2>4. Nat \subseteq Stays
    BY <2>2, <2>3, SetInduction
  <2>5. Len(t) \in Stays /\ Len(t) <= Len(t)
    BY <1>4, <2>4
  <2>6. d[Len(u)] = d[n]
    BY <1>4, <2>5 DEF Stays
  <2>7. UrlDecode(u).status = r.status
    BY <1>3, <2>1, <2>6
  <2> QED
    BY <1>2, <1>11, <2>7 DEF Joined, Bad, r
<1> QED
  BY <1>8, <1>9, <1>10, <1>11 DEF Statuses, Bad, r

\* One more sequence put together with others.
LEMMA FlattenSnoc ==
  ASSUME NEW ps \in Seq(Token), NEW p \in Token
  PROVE  /\ FlattenSeq(ps) \in Seq(Sym) /\ FlattenSeq(ps \o <<p>>) = FlattenSeq(ps) \o p
<1>1. ps \in Seq(Seq(Sym)) /\ p \in Seq(Sym)
  BY DEF Token
<1>2. <<p>> \in Seq(Seq(Sym))
  BY <1>1
<1>3. FlattenSeq(ps \o <<p>>) = FlattenSeq(ps) \o FlattenSeq(<<p>>)
  BY <1>1, <1>2, FlattenConcat
<1>4. FlattenSeq(<<p>>) = p
  BY <1>1, FlattenOne
<1>5. FlattenSeq(ps) \in Seq(Sym)
  BY <1>1, FlattenType
<1> QED
  BY <1>3, <1>4, <1>5

\* To decode pieces is to decode what they are put together to, unless
\* decoding stops: then only the reason is the same.
DecodedAlike(ps) ==
    /\ Decodev(ps).status = UrlDecode(FlattenSeq(ps)).status
    /\ Decodev(ps).status \notin Bad => Decodev(ps) = UrlDecode(FlattenSeq(ps))

\* To decode pieces is to decode what they are put together to.
LEMMA DecodevIs == \A ps \in Seq(Token) : DecodedAlike(ps)
<1> DEFINE T == {ps \in Seq(Token) : DecodedAlike(ps)}
<1>1. << >> \in T
  <2>1. << >> \in Seq(Sym) /\ Len(<< >>) = 0 /\ << >> \in Seq(Token)
    OBVIOUS
  <2>2. PICK c : DecodeChain(c, << >>) /\ UrlDecode(<< >>) = c[0]
    BY <2>1, DecodeChains
  <2>3. UrlDecode(<< >>) = Decode0
    BY <2>2 DEF DecodeChain
  <2> QED
    BY <2>1, <2>3, DecodevEmpty, FlattenEmpty DEF DecodedAlike
<1>2. ASSUME NEW ps \in Seq(Token), ps \in T, NEW p \in Token PROVE ps \o <<p>> \in T
  <2>1. DecodedAlike(ps)
    BY <1>2
  <2> DEFINE d == Decodev(ps)
             f == UrlDecode(FlattenSeq(ps))
             q == ps \o <<p>>
  <2>2. FlattenSeq(ps) \in Seq(Sym) /\ FlattenSeq(q) = FlattenSeq(ps) \o p /\ p \in Seq(Sym)
    BY FlattenSnoc DEF Token
  <2>3. Joined(f, FlattenSeq(ps), p)
    BY <2>2, UrlDecodeJoined
  <2>4. Decodev(q) = JoinStep(d, p)
    BY DecodevSnoc
  <2>5. f \in Decoding /\ f.status \in Statuses
    BY <2>2, UrlDecodeType DEF Decoding
  <2>6. q \in Seq(Token)
    BY SnocFacts
  <2>7. d.status = f.status /\ (d.status \notin Bad => d = f)
    BY <2>1 DEF DecodedAlike
  <2> HIDE DEF d, f, q
  <2>8. CASE d.status \in Bad
    <3>1. Decodev(q) = d
      BY <2>4, <2>8 DEF JoinStep, Bad
    <3>2. UrlDecode(FlattenSeq(q)).status = f.status
      BY <2>2, <2>3, <2>7, <2>8 DEF Joined
    <3> QED
      BY <2>6, <2>7, <2>8, <3>1, <3>2 DEF DecodedAlike, q
  <2>9. CASE d.status \notin Bad
    <3>1. Decodev(q) = Behind(d.out, UrlDecode(d.left \o p))
      BY <2>4, <2>9 DEF JoinStep, Bad, Carry, Behind
    <3>2. UrlDecode(FlattenSeq(q)) = Behind(f.out, UrlDecode(f.left \o p))
      BY <2>2, <2>3, <2>5, <2>7, <2>9 DEF Joined, Bad, Statuses
    <3> QED
      BY <2>6, <2>7, <2>9, <3>1, <3>2 DEF DecodedAlike, q
  <2> QED
    BY <2>8, <2>9 DEF q
<1> HIDE DEF T
<1>3. Seq(Token) \subseteq T
  BY <1>1, <1>2, SnocInduction
<1> QED
  BY <1>3 DEF T

------------------------------------------------------------------------------
(* Reading *)

Pair == Token \X Token

ReadState == [in : {"NAME", "VALUE"}, name : Seq(Sym), value : Seq(Sym),
              words : Seq(Pair)]

\* s has no character of C.
Lacks(s, C) == \A i \in DOMAIN s : s[i] \notin C

\* A text without some characters, and one more.
LEMMA LacksSnoc ==
  ASSUME NEW s \in Seq(Sym), NEW x \in Sym, NEW C
  PROVE  Lacks(s \o <<x>>, C) <=> Lacks(s, C) /\ x \notin C
<1>1. /\ s \o <<x>> \in Seq(Sym) /\ Len(s) \in Nat /\ Len(s \o <<x>>) = Len(s) + 1
      /\ \A i \in 1 .. Len(s) + 1 : (s \o <<x>>)[i] = IF i <= Len(s) THEN s[i] ELSE x
  BY SnocFacts
<1>2. DOMAIN (s \o <<x>>) = 1 .. Len(s) + 1 /\ DOMAIN s = 1 .. Len(s)
  BY <1>1
<1>3. \A i \in 1 .. Len(s) : i \in 1 .. Len(s) + 1 /\ (s \o <<x>>)[i] = s[i]
  BY <1>1
<1>4. Len(s) + 1 \in 1 .. Len(s) + 1 /\ (s \o <<x>>)[Len(s) + 1] = x
  BY <1>1
<1>5. \A i \in 1 .. Len(s) + 1 : i \in 1 .. Len(s) \/ i = Len(s) + 1
  BY <1>1
<1> QED
  BY <1>2, <1>3, <1>4, <1>5 DEF Lacks

\* b begins with a.
Grows(a, b) == Len(a) <= Len(b) /\ \A i \in 1 .. Len(a) : b[i] = a[i]

\* To have grown: of itself,
LEMMA GrowsRefl == ASSUME NEW S, NEW a \in Seq(S) PROVE Grows(a, a)
BY LenProperties DEF Grows

\* over two steps,
LEMMA GrowsTrans ==
  ASSUME NEW S, NEW a \in Seq(S), NEW b \in Seq(S), NEW c \in Seq(S), Grows(a, b), Grows(b, c)
  PROVE  Grows(a, c)
<1>1. Len(a) \in Nat /\ Len(b) \in Nat /\ Len(c) \in Nat
  BY LenProperties
<1> QED
  BY <1>1 DEF Grows

\* by one.
LEMMA GrowsSnoc ==
  ASSUME NEW S, NEW a \in Seq(S), NEW x \in S PROVE Grows(a, a \o <<x>>)
BY SnocFacts DEF Grows

\* A character more.
LEMMA ReadCharType ==
  ASSUME NEW r \in ReadState, NEW x \in Sym, r.in = "NAME" => r.value = << >>
  PROVE  /\ ReadChar(r, x) \in ReadState
         /\ ReadChar(r, x).in = "NAME" => ReadChar(r, x).value = << >>
         /\ Grows(r.words, ReadChar(r, x).words)
<1>1. /\ r.in \in {"NAME", "VALUE"} /\ r.name \in Seq(Sym) /\ r.value \in Seq(Sym)
      /\ r.words \in Seq(Pair)
  BY DEF ReadState
<1>2. Grows(r.words, r.words)
  BY <1>1, GrowsRefl
<1>3. CASE r.in = "NAME" /\ x = "="
  BY <1>1, <1>2, <1>3 DEF ReadChar, ReadState
<1>4. CASE r.in = "NAME" /\ x # "="
  <2>1. ReadChar(r, x) = [r EXCEPT !.name = Append(@, x)]
    BY <1>4 DEF ReadChar
  <2>2. Append(r.name, x) \in Seq(Sym)
    BY <1>1
  <2> QED
    BY <1>1, <1>2, <1>4, <2>1, <2>2 DEF ReadState
<1>5. CASE r.in = "VALUE" /\ x \in {"&", ";"}
  <2>1. ReadChar(r, x) = [in |-> "NAME", name |-> << >>, value |-> << >>,
                          words |-> Append(r.words, <<r.name, r.value>>)]
    BY <1>5 DEF ReadChar
  <2>2. PICK w \in Pair : w = <<r.name, r.value>>
    BY <1>1 DEF Token, Pair
  <2>3. PICK v \in Seq(Pair) : v = r.words
    BY <1>1
  <2>4. v \o <<w>> \in Seq(Pair) /\ Append(v, w) = v \o <<w>>
    BY AppendIsConcat, SnocFacts
  <2>5. PICK g \in Seq(Pair) : g = Append(v, w) /\ Grows(v, g)
    BY <2>4, GrowsSnoc
  <2>6. ReadChar(r, x) = [in |-> "NAME", name |-> << >>, value |-> << >>, words |-> g]
    BY <2>1, <2>2, <2>3, <2>5
  <2>7. << >> \in Seq(Sym)
    OBVIOUS
  <2>8. ReadChar(r, x) \in ReadState
    BY <2>6, <2>7 DEF ReadState
  <2> QED
    BY <2>3, <2>5, <2>6, <2>8
<1>6. CASE r.in = "VALUE" /\ x \notin {"&", ";"}
  <2>1. ReadChar(r, x) = [r EXCEPT !.value = Append(@, x)]
    BY <1>6 DEF ReadChar
  <2>2. Append(r.value, x) \in Seq(Sym)
    BY <1>1
  <2> QED
    BY <1>1, <1>2, <1>6, <2>1, <2>2 DEF ReadState
<1> QED
  BY <1>1, <1>3, <1>4, <1>5, <1>6

\* What a text is read to.
ReadWell(r) == r \in ReadState /\ (r.in = "NAME" => r.value = << >>)

\* What reading makes of any characters is such a state.
LEMMA ReadingType == \A s \in Seq(Sym) : ReadWell(Reading(s))
<1> DEFINE T == {s \in Seq(Sym) : ReadWell(Reading(s))}
<1>1. << >> \in T
  <2>1. << >> \in Seq(Sym) /\ << >> \in Seq(Pair)
    OBVIOUS
  <2>2. Read0 \in ReadState
    BY <2>1 DEF Read0, ReadState
  <2>3. ReadWell(Read0)
    BY <2>2 DEF ReadWell, Read0
  <2> QED
    BY <2>1, <2>3, ReadingEmpty
<1>2. ASSUME NEW s \in Seq(Sym), s \in T, NEW x \in Sym PROVE s \o <<x>> \in T
  <2>1. Reading(s \o <<x>>) = ReadChar(Reading(s), x)
    BY ReadingSnoc
  <2>2. ReadWell(Reading(s)) /\ s \o <<x>> \in Seq(Sym)
    BY <1>2, SnocFacts
  <2> QED
    BY <2>1, <2>2, ReadCharType DEF ReadWell
<1> HIDE DEF T
<1>3. Seq(Sym) \subseteq T
  BY <1>1, <1>2, SnocInduction
<1> QED
  BY <1>3 DEF T

\* A text and a piece with one more character are the text and the piece, and
\* one more character.
LEMMA SnocBehind ==
  ASSUME NEW s \in Seq(Sym), NEW x \in Seq(Sym), NEW k \in Sym
  PROVE  /\ s \o x \in Seq(Sym) /\ x \o <<k>> \in Seq(Sym)
         /\ s \o (x \o <<k>>) = (s \o x) \o <<k>>
         /\ Append(s, k) = s \o <<k>>
<1>1. PICK t \in Seq(Sym) : t = <<k>>
  <2>1. <<k>> \in Seq(Sym)
    OBVIOUS
  <2> QED
    BY <2>1
<1>2. (s \o x) \o t = s \o (x \o t)
  BY JoinThree
<1>3. s \o x \in Seq(Sym) /\ x \o t \in Seq(Sym)
  BY ConcatProperties
<1>4. Append(s, k) = s \o <<k>>
  BY AppendIsConcat
<1> QED
  BY <1>1, <1>2, <1>3, <1>4

\* The character that comes behind others.
LEMMA ReadingBehind ==
  ASSUME NEW s \in Seq(Sym), NEW x \in Seq(Sym), NEW k \in Sym
  PROVE  Reading(s \o (x \o <<k>>)) = ReadChar(Reading(s \o x), k)
<1>1. PICK w \in Seq(Sym) : w = s \o x
  BY SnocBehind
<1>2. s \o (x \o <<k>>) = w \o <<k>>
  BY <1>1, SnocBehind
<1>3. Reading(w \o <<k>>) = ReadChar(Reading(w), k)
  BY ReadingSnoc
<1> QED
  BY <1>1, <1>2, <1>3

\* A piece without the end of the name belongs to the name.
LEMMA ReadingName ==
  ASSUME NEW s \in Seq(Sym), Reading(s).in = "NAME"
  PROVE  \A x \in Seq(Sym) :
            Lacks(x, {"="}) => Reading(s \o x) = [Reading(s) EXCEPT !.name = @ \o x]
<1> DEFINE r == Reading(s)
           Fine(x) == Lacks(x, {"="}) => Reading(s \o x) = [r EXCEPT !.name = @ \o x]
           T == {x \in Seq(Sym) : Fine(x)}
<1>0. r \in ReadState /\ r.name \in Seq(Sym) /\ r.in = "NAME"
  BY ReadingType DEF ReadWell, ReadState
<1>1. << >> \in T
  <2>1. s \o << >> = s /\ r.name \o << >> = r.name
    BY <1>0, ConcatEmptySeq
  <2> HIDE DEF r
  <2>2. [r EXCEPT !.name = r.name \o << >>] = r
    BY <1>0, <2>1 DEF ReadState
  <2>3. Reading(s \o << >>) = [r EXCEPT !.name = r.name \o << >>]
    BY <2>1, <2>2 DEF r
  <2>4. << >> \in Seq(Sym)
    OBVIOUS
  <2> QED
    BY <2>3, <2>4
<1>2. ASSUME NEW x \in Seq(Sym), x \in T, NEW k \in Sym PROVE x \o <<k>> \in T
  <2>1. SUFFICES ASSUME Lacks(x \o <<k>>, {"="})
                 PROVE  Reading(s \o (x \o <<k>>)) = [r EXCEPT !.name = @ \o (x \o <<k>>)]
    BY SnocBehind
  <2>2. Lacks(x, {"="}) /\ k # "="
    BY <2>1, LacksSnoc
  <2>3. PICK nx \in Seq(Sym) : nx = r.name \o x
    BY <1>0, ConcatProperties
  <2>4. Reading(s \o x) = [r EXCEPT !.name = nx]
    BY <1>2, <2>2, <2>3
  <2>5. Reading(s \o (x \o <<k>>)) = ReadChar(Reading(s \o x), k)
    BY ReadingBehind
  <2>6. ReadChar([r EXCEPT !.name = nx], k) = [r EXCEPT !.name = Append(nx, k)]
    BY <1>0, <2>2 DEF ReadChar, ReadState
  <2>7. Append(nx, k) = r.name \o (x \o <<k>>)
    <3>1. PICK n \in Seq(Sym) : n = r.name
      BY <1>0
    <3>2. n \o (x \o <<k>>) = (n \o x) \o <<k>>
      BY SnocBehind
    <3>3. Append(nx, k) = nx \o <<k>>
      BY SnocBehind
    <3> QED
      BY <2>3, <3>1, <3>2, <3>3
  <2> HIDE DEF r
  <2> QED
    BY <2>4, <2>5, <2>6, <2>7
<1> HIDE DEF T
<1>3. Seq(Sym) \subseteq T
  BY <1>1, <1>2, SnocInduction
<1> QED
  BY <1>3 DEF T

\* A piece without the end of the value belongs to the value.
LEMMA ReadingValue ==
  ASSUME NEW s \in Seq(Sym), Reading(s).in = "VALUE"
  PROVE  \A x \in Seq(Sym) :
            Lacks(x, {"&", ";"}) => Reading(s \o x) = [Reading(s) EXCEPT !.value = @ \o x]
<1> DEFINE r == Reading(s)
           Fine(x) == Lacks(x, {"&", ";"}) => Reading(s \o x) = [r EXCEPT !.value = @ \o x]
           T == {x \in Seq(Sym) : Fine(x)}
<1>0. r \in ReadState /\ r.value \in Seq(Sym) /\ r.in = "VALUE"
  BY ReadingType DEF ReadWell, ReadState
<1>1. << >> \in T
  <2>1. s \o << >> = s /\ r.value \o << >> = r.value
    BY <1>0, ConcatEmptySeq
  <2> HIDE DEF r
  <2>2. [r EXCEPT !.value = r.value \o << >>] = r
    BY <1>0, <2>1 DEF ReadState
  <2>3. Reading(s \o << >>) = [r EXCEPT !.value = r.value \o << >>]
    BY <2>1, <2>2 DEF r
  <2>4. << >> \in Seq(Sym)
    OBVIOUS
  <2> QED
    BY <2>3, <2>4
<1>2. ASSUME NEW x \in Seq(Sym), x \in T, NEW k \in Sym PROVE x \o <<k>> \in T
  <2>1. SUFFICES ASSUME Lacks(x \o <<k>>, {"&", ";"})
                 PROVE  Reading(s \o (x \o <<k>>)) = [r EXCEPT !.value = @ \o (x \o <<k>>)]
    BY SnocBehind
  <2>2. Lacks(x, {"&", ";"}) /\ k \notin {"&", ";"}
    BY <2>1, LacksSnoc
  <2>3. PICK vx \in Seq(Sym) : vx = r.value \o x
    BY <1>0, ConcatProperties
  <2>4. Reading(s \o x) = [r EXCEPT !.value = vx]
    BY <1>2, <2>2, <2>3
  <2>5. Reading(s \o (x \o <<k>>)) = ReadChar(Reading(s \o x), k)
    BY ReadingBehind
  <2>6. ReadChar([r EXCEPT !.value = vx], k) = [r EXCEPT !.value = Append(vx, k)]
    BY <1>0, <2>2 DEF ReadChar, ReadState
  <2>7. Append(vx, k) = r.value \o (x \o <<k>>)
    <3>1. PICK n \in Seq(Sym) : n = r.value
      BY <1>0
    <3>2. n \o (x \o <<k>>) = (n \o x) \o <<k>>
      BY SnocBehind
    <3>3. Append(vx, k) = vx \o <<k>>
      BY SnocBehind
    <3> QED
      BY <2>3, <3>1, <3>2, <3>3
  <2> HIDE DEF r
  <2> QED
    BY <2>4, <2>5, <2>6, <2>7
<1> HIDE DEF T
<1>3. Seq(Sym) \subseteq T
  BY <1>1, <1>2, SnocInduction
<1> QED
  BY <1>3 DEF T

\* The separator ends the name, or the value and with it the word.
LEMMA ReadingEnds ==
  ASSUME NEW s \in Seq(Sym), NEW x \in Seq(Sym), NEW k \in Sym
  PROVE  /\ Reading(s).in = "NAME" /\ Lacks(x, {"="}) /\ k = "=" =>
              Reading(s \o (x \o <<k>>)) =
                  [in |-> "VALUE", name |-> Reading(s).name \o x, value |-> << >>,
                   words |-> Reading(s).words]
         /\ Reading(s).in = "VALUE" /\ Lacks(x, {"&", ";"}) /\ k \in {"&", ";"} =>
              Reading(s \o (x \o <<k>>)) =
                  [in |-> "NAME", name |-> << >>, value |-> << >>,
                   words |-> Append(Reading(s).words, <<Reading(s).name, Reading(s).value \o x>>)]
<1> DEFINE r == Reading(s)
<1>1. r \in ReadState /\ (r.in = "NAME" => r.value = << >>)
  BY ReadingType DEF ReadWell
<1>2. Reading(s \o (x \o <<k>>)) = ReadChar(Reading(s \o x), k)
  BY ReadingBehind
<1>3. ASSUME r.in = "NAME", Lacks(x, {"="}), k = "="
      PROVE  ReadChar(Reading(s \o x), k) = [in |-> "VALUE", name |-> r.name \o x, value |-> << >>,
                                             words |-> r.words]
  <2>1. Reading(s \o x) = [r EXCEPT !.name = @ \o x]
    BY <1>3, ReadingName
  <2> HIDE DEF r
  <2> QED
    BY <1>1, <1>3, <2>1 DEF ReadChar, ReadState
<1>4. ASSUME r.in = "VALUE", Lacks(x, {"&", ";"}), k \in {"&", ";"}
      PROVE  ReadChar(Reading(s \o x), k) =
                  [in |-> "NAME", name |-> << >>, value |-> << >>,
                   words |-> Append(r.words, <<r.name, r.value \o x>>)]
  <2>1. Reading(s \o x) = [r EXCEPT !.value = @ \o x]
    BY <1>4, ReadingValue
  <2> HIDE DEF r
  <2> QED
    BY <1>1, <1>4, <2>1 DEF ReadChar, ReadState
<1> QED
  BY <1>2, <1>3, <1>4

\* Words that have been read stay.
LEMMA ReadingGrows ==
  ASSUME NEW s \in Seq(Sym)
  PROVE  \A x \in Seq(Sym) : Grows(Reading(s).words, Reading(s \o x).words)
<1> DEFINE T == {x \in Seq(Sym) : Grows(Reading(s).words, Reading(s \o x).words)}
<1>0. \A x \in Seq(Sym) : Reading(x).words \in Seq(Pair)
  BY ReadingType DEF ReadWell, ReadState
<1>1. << >> \in T
  <2>1. s \o << >> = s
    BY ConcatEmptySeq
  <2>2. Grows(Reading(s).words, Reading(s).words)
    BY <1>0, GrowsRefl
  <2> QED
    BY <2>1, <2>2
<1>2. ASSUME NEW x \in Seq(Sym), x \in T, NEW k \in Sym PROVE x \o <<k>> \in T
  <2>1. s \o x \in Seq(Sym) /\ x \o <<k>> \in Seq(Sym) /\ s \o (x \o <<k>>) = (s \o x) \o <<k>>
    BY SnocBehind
  <2>2. Reading(s \o (x \o <<k>>)) = ReadChar(Reading(s \o x), k)
    BY ReadingBehind
  <2>3. Grows(Reading(s \o x).words, Reading(s \o (x \o <<k>>)).words)
    BY <2>1, <2>2, ReadingType, ReadCharType DEF ReadWell
  <2>4. s \o (x \o <<k>>) \in Seq(Sym)
    BY <2>1, ConcatProperties
  <2>5. Grows(Reading(s).words, Reading(s \o (x \o <<k>>)).words)
    BY <1>0, <1>2, <2>1, <2>3, <2>4, GrowsTrans
  <2> QED
    BY <2>1, <2>5
<1> HIDE DEF T
<1>3. Seq(Sym) \subseteq T
  BY <1>1, <1>2, SnocInduction
<1> QED
  BY <1>3 DEF T

------------------------------------------------------------------------------
(* The buckets of a word *)

\* What is last, and what is in front of it.
LEMMA FrontSnoc ==
  ASSUME NEW S, NEW s \in Seq(S), NEW x \in S
  PROVE  /\ Front(s \o <<x>>) = s /\ Last(s \o <<x>>) = x
         /\ Append(s, x) = s \o <<x>>
<1>1. PICK t \in Seq(S) : /\ t = s \o <<x>> /\ Len(s) \in Nat /\ Len(t) = Len(s) + 1
                          /\ t[Len(s) + 1] = x
                          /\ \A i \in 1 .. Len(s) : t[i] = s[i]
  <2>1. /\ s \o <<x>> \in Seq(S) /\ Len(s) \in Nat /\ Len(s \o <<x>>) = Len(s) + 1
        /\ \A i \in 1 .. Len(s) + 1 : (s \o <<x>>)[i] = IF i <= Len(s) THEN s[i] ELSE x
    BY SnocFacts
  <2>2. PICK t \in Seq(S) : t = s \o <<x>>
    BY <2>1
  <2>3. Len(s) + 1 \in 1 .. Len(s) + 1 /\ ~(Len(s) + 1 <= Len(s))
    BY <2>1
  <2>4. \A i \in 1 .. Len(s) : i \in 1 .. Len(s) + 1 /\ i <= Len(s)
    BY <2>1
  <2> QED
    BY <2>1, <2>2, <2>3, <2>4
<1>2. Last(t) = x
  BY <1>1 DEF Last
<1>3. PICK f \in Seq(S) : /\ f = SubSeq(t, 1, Len(s)) /\ Len(f) = Len(s)
                          /\ \A i \in 1 .. Len(s) : f[i] = t[i]
  <2>1. /\ SubSeq(t, 1, Len(s)) \in Seq(S)
        /\ Len(SubSeq(t, 1, Len(s))) = IF 1 <= Len(s) THEN Len(s) - 1 + 1 ELSE 0
        /\ \A i \in 1 .. Len(s) - 1 + 1 : SubSeq(t, 1, Len(s))[i] = t[1 + i - 1]
    <3>1. 1 \in Nat \ {0} /\ Len(s) \in Int /\ Len(s) <= Len(t)
      BY <1>1
    <3> QED
      BY ONLY <3>1, SubSeqType, t \in Seq(S)
  <2>2. Len(SubSeq(t, 1, Len(s))) = Len(s) /\ \A i \in 1 .. Len(s) : i \in 1 .. Len(s) - 1 + 1 /\ 1 + i - 1 = i
    BY <1>1, <2>1
  <2> QED
    BY <2>1, <2>2
<1>4. f = s
  BY <1>1, <1>3, SeqEqual
<1>5. Front(t) = f
  <2>1. Len(t) - 1 = Len(s)
    BY <1>1
  <2> QED
    BY <1>3, <2>1 DEF Front
<1> QED
  BY <1>1, <1>2, <1>4, <1>5, AppendIsConcat

\* The bytes of buckets.
LEMMA BytesConcat ==
  ASSUME NEW a \in Seq(Token), NEW b \in Seq(Token)
  PROVE  /\ Bytes(a) \in Nat /\ Bytes(b) \in Nat /\ Bytes(a \o b) = Bytes(a) + Bytes(b)
         /\ FlattenSeq(a) \in Seq(Sym) /\ FlattenSeq(b) \in Seq(Sym)
         /\ FlattenSeq(a \o b) = FlattenSeq(a) \o FlattenSeq(b)
<1>1. a \in Seq(Seq(Sym)) /\ b \in Seq(Seq(Sym))
  BY DEF Token
<1>2. FlattenSeq(a) \in Seq(Sym) /\ FlattenSeq(b) \in Seq(Sym)
  BY <1>1, FlattenType
<1>3. FlattenSeq(a \o b) = FlattenSeq(a) \o FlattenSeq(b)
  BY <1>1, FlattenConcat
<1>4. PICK x \in Seq(Sym) : x = FlattenSeq(a)
  BY <1>2
<1>5. PICK y \in Seq(Sym) : y = FlattenSeq(b)
  BY <1>2
<1>6. Len(x \o y) = Len(x) + Len(y) /\ Len(x) \in Nat /\ Len(y) \in Nat
  BY GoesOn
<1> QED
  BY <1>2, <1>3, <1>4, <1>5, <1>6 DEF Bytes

\* One more bucket adds its bytes and its characters.
LEMMA BytesSnoc ==
  ASSUME NEW a \in Seq(Token), NEW p \in Token
  PROVE  /\ a \o <<p>> \in Seq(Token) /\ Bytes(a) \in Nat /\ Len(p) \in Nat
         /\ Bytes(a \o <<p>>) = Bytes(a) + Len(p)
         /\ FlattenSeq(a) \in Seq(Sym) /\ p \in Seq(Sym)
         /\ FlattenSeq(a \o <<p>>) = FlattenSeq(a) \o p
<1>1. /\ FlattenSeq(a) \in Seq(Sym) /\ p \in Seq(Sym)
      /\ FlattenSeq(a \o <<p>>) = FlattenSeq(a) \o p
  BY FlattenSnoc DEF Token
<1>2. PICK x \in Seq(Sym) : x = FlattenSeq(a)
  BY <1>1
<1>3. Len(x \o p) = Len(x) + Len(p) /\ Len(x) \in Nat /\ Len(p) \in Nat
  BY <1>1, GoesOn
<1>4. a \o <<p>> \in Seq(Token)
  BY SnocFacts
<1> QED
  BY <1>1, <1>2, <1>3, <1>4 DEF Bytes

\* The first buckets of so many bytes, when the last of them is not empty.
LEMMA PrefixIs ==
  ASSUME NEW b \in Seq(Token), NEW l \in Token, NEW q \in Seq(Token), Len(l) >= 1
  PROVE  Prefix((b \o <<l>>) \o q, Bytes(b) + Len(l)) = b \o <<l>>
<1>1. PICK h \in Seq(Token) : h = b \o <<l>>
  BY BytesSnoc
<1>2. PICK ps \in Seq(Token) : ps = h \o q
  BY ConcatProperties
<1> DEFINE n == Bytes(b) + Len(l)
           m == Len(b) + 1
           sums == {i \in 1 .. Len(ps) : Bytes(SubSeq(ps, 1, i)) = n}
<1>3. /\ n \in Nat /\ m \in Nat /\ Len(h) = m /\ Bytes(h) = n /\ Bytes(b) \in Nat /\ Bytes(b) < n
      /\ Len(b) \in Nat
  <2>1. Bytes(b) \in Nat /\ Len(l) \in Nat /\ Bytes(h) = n
    BY <1>1, BytesSnoc
  <2>2. Len(b) \in Nat /\ Len(h) = m
    BY <1>1, SnocFacts
  <2> QED
    BY <2>1, <2>2
<1>4. Len(ps) \in Nat /\ Len(ps) >= m
  BY <1>2, <1>3, ConcatProperties, LenProperties
<1>5. SubSeq(ps, 1, m) = h
  <2>1. SubSeq(ps, 1, m) = SubSeq(h, 1, m)
    <3>1. 1 \in Nat \ {0} /\ m \in Int /\ m <= Len(h)
      BY <1>3
    <3> HIDE DEF m
    <3> QED
      BY ONLY <1>2, <3>1, SubSeqLeft, h \in Seq(Token), q \in Seq(Token)
  <2>2. SubSeq(h, 1, Len(h)) = h
    BY SubSeqFull
  <2> QED
    BY <1>3, <2>1, <2>2
<1>6. m \in sums
  <2>1. m \in 1 .. Len(ps)
    BY <1>3, <1>4
  <2> HIDE DEF m, n
  <2>2. Bytes(SubSeq(ps, 1, m)) = n
    BY <1>3, <1>5
  <2> QED
    BY <2>1, <2>2
<1>7. ASSUME NEW i \in sums PROVE i >= m
  <2>1. SUFFICES ASSUME i < m PROVE FALSE
    BY <1>3
  <2>2. i \in 0 .. Len(b) /\ i <= Len(h) /\ i <= Len(b) /\ i \in Int
    BY <1>3, <2>1
  <2>3. SubSeq(ps, 1, i) = SubSeq(h, 1, i)
    BY ONLY <1>2, <2>2, SubSeqLeft, h \in Seq(Token), q \in Seq(Token), 1 \in Nat \ {0}
  <2>4. SubSeq(h, 1, i) = SubSeq(b, 1, i)
    <3>1. PICK t \in Seq(Token) : t = <<l>>
      <4>1. <<l>> \in Seq(Token)
        OBVIOUS
      <4> QED
        BY <4>1
    <3> QED
      BY ONLY <1>1, <2>2, <3>1, SubSeqLeft, b \in Seq(Token), 1 \in Nat \ {0}
  <2>5. Across(Token, b, << >>, i)
    <3>1. << >> \in Seq(Token)
      OBVIOUS
    <3> QED
      BY <2>2, <3>1, SubSeqAcross
  <2>6. PICK x \in Seq(Token) : x = SubSeq(b, 1, i)
    BY <2>5 DEF Across
  <2>7. PICK y \in Seq(Token) : y = SubSeq(b, i + 1, Len(b))
    BY <2>5 DEF Across
  <2>8. b = x \o y
    BY <2>2, <2>6, <2>7, InTwo
  <2>9. Bytes(b) = Bytes(x) + Bytes(y) /\ Bytes(x) \in Nat /\ Bytes(y) \in Nat
    BY <2>8, BytesConcat
  <2>10. Bytes(x) = n
    BY <2>3, <2>4, <2>6
  <2> QED
    BY <1>3, <2>9, <2>10
<1> DEFINE first == CHOOSE i \in sums : \A j \in sums : i <= j
<1>8. first = m
  <2>1. first \in sums /\ \A j \in sums : first <= j
    BY <1>6, <1>7
  <2>2. first \in Nat
    BY <1>4, <2>1
  <2> HIDE DEF first, sums
  <2> QED
    BY <1>3, <1>6, <1>7, <2>1, <2>2
<1>9. Prefix(ps, n) = SubSeq(ps, 1, first)
  BY <1>6 DEF Prefix
<1> HIDE DEF first, sums
<1> QED
  BY <1>1, <1>2, <1>5, <1>8, <1>9

\* What a word's buckets are: those of the name, those of the value, each with
\* the separator that ends it, and others behind them.
Laid(buckets, b, x, k, vb, y, j, q) ==
    /\ b \in Seq(Token) /\ x \in Token /\ k \in Sym
    /\ vb \in Seq(Token) /\ y \in Token /\ j \in Sym
    /\ q \in Seq(Token)
    /\ buckets = (b \o <<x \o <<k>>>>) \o ((vb \o <<y \o <<j>>>>) \o q)

\* The word found in them: the one that has been read, refused for the same
\* reason or decoded to the same.
Meaning(w) == <<UrlDecode(w[1]).out, UrlDecode(w[2]).out>>

Found(word, name, value, used) ==
    /\ word.status = WordStatus(<<name, value>>)
    /\ word.status = "SUCCESS" => word.param = Meaning(<<name, value>>)
    /\ word.used = used

\* A piece without its last character, and one with it.
LEMMA UnterminatedIs ==
  ASSUME NEW b \in Seq(Token), NEW x \in Token, NEW k \in Sym
  PROVE  /\ Unterminated(b \o <<x \o <<k>>>>, Bytes(b) + Len(x) + 1) = b \o <<x>>
         /\ x \o <<k>> \in Token /\ Len(x \o <<k>>) = Len(x) + 1 /\ Len(x) \in Nat
<1>1. PICK l \in Token : l = x \o <<k>> /\ Len(l) = Len(x) + 1 /\ Front(l) = x /\ Len(x) \in Nat
  <2>1. x \in Seq(Sym)
    BY DEF Token
  <2>2. x \o <<k>> \in Seq(Sym) /\ Len(x \o <<k>>) = Len(x) + 1 /\ Len(x) \in Nat
    BY <2>1, SnocFacts
  <2>3. Front(x \o <<k>>) = x
    BY <2>1, FrontSnoc
  <2> QED
    BY <2>2, <2>3 DEF Token
<1>2. PICK h \in Seq(Token) : h = b \o <<l>>
  BY BytesSnoc
<1>3. Front(h) = b /\ Last(h) = l
  BY <1>2, FrontSnoc
<1>4. Bytes(h) = Bytes(b) + Len(l) /\ Bytes(b) \in Nat
  BY <1>2, BytesSnoc
<1>5. Append(b, x) = b \o <<x>>
  BY FrontSnoc
<1>6. Bytes(h) = Bytes(b) + Len(x) + 1
  BY <1>1, <1>4
<1>7. Unterminated(h, Bytes(b) + Len(x) + 1) = b \o <<x>>
  BY <1>1, <1>3, <1>5, <1>6 DEF Unterminated
<1> QED
  BY <1>1, <1>2, <1>7

\* Where the buckets of a word are laid as the parser has kept them, what
\* split_urlword finds by the two counts is the name and the value.
LEMMA WordIs ==
  ASSUME NEW buckets, NEW b, NEW x, NEW k, NEW vb, NEW y, NEW j, NEW q,
         Laid(buckets, b, x, k, vb, y, j, q)
  PROVE  Found(Word(buckets, Bytes(b) + Len(x), Bytes(vb) + Len(y)),
               FlattenSeq(b) \o x, FlattenSeq(vb) \o y, Len(b) + Len(vb) + 2)
<1>1. /\ b \in Seq(Token) /\ x \in Token /\ k \in Sym
      /\ vb \in Seq(Token) /\ y \in Token /\ j \in Sym
      /\ q \in Seq(Token)
      /\ buckets = (b \o <<x \o <<k>>>>) \o ((vb \o <<y \o <<j>>>>) \o q)
  BY DEF Laid
<1> DEFINE n == Bytes(b) + Len(x)
           v == Bytes(vb) + Len(y)
<1>2. PICK l \in Token : l = x \o <<k>> /\ Len(l) = Len(x) + 1 /\ Len(x) \in Nat
  BY <1>1, UnterminatedIs
<1>3. PICK z \in Token : z = y \o <<j>> /\ Len(z) = Len(y) + 1 /\ Len(y) \in Nat
  BY <1>1, UnterminatedIs
<1>4. PICK nb \in Seq(Token) : nb = b \o <<l>> /\ Len(nb) = Len(b) + 1
  BY <1>1, SnocFacts
<1>5. PICK vz \in Seq(Token) : vz = vb \o <<z>> /\ Len(vz) = Len(vb) + 1
  BY <1>1, SnocFacts
<1>6. PICK r \in Seq(Token) : r = vz \o q
  BY <1>1, ConcatProperties
<1>7. buckets = nb \o r
  BY <1>1, <1>2, <1>3, <1>4, <1>5, <1>6
<1>8. /\ Bytes(b) \in Nat /\ Bytes(vb) \in Nat /\ Len(b) \in Nat /\ Len(vb) \in Nat
      /\ Len(r) \in Nat /\ Len(nb) \in Nat
  BY <1>1, BytesSnoc, LenProperties
<1>9. Prefix(buckets, n + 1) = nb
  <2>1. Prefix((b \o <<l>>) \o r, Bytes(b) + Len(l)) = b \o <<l>>
    <3>1. Len(l) >= 1
      BY <1>2
    <3> QED
      BY <1>1, <3>1, PrefixIs
  <2>2. n + 1 = Bytes(b) + Len(l)
    BY <1>2, <1>8
  <2> HIDE DEF n
  <2> QED
    BY ONLY <1>4, <1>7, <2>1, <2>2
<1>10. SubSeq(buckets, Len(nb) + 1, Len(buckets)) = r
  <2>1. PICK c \in Seq(Token) : c = nb \o r
    BY ConcatProperties
  <2>2. Len(c) = Len(nb) + Len(r)
    BY <2>1, ConcatProperties
  <2>3. SubSeq(nb \o r, Len(nb) + 1, Len(nb) + Len(r)) = SubSeq(r, 1, Len(r))
    <3>1. 1 \in Nat \ {0} /\ Len(r) \in Int /\ Len(r) <= Len(r)
      BY <1>8
    <3> QED
      BY <3>1, SubSeqRight
  <2>4. SubSeq(r, 1, Len(r)) = r
    BY SubSeqFull
  <2> QED
    BY <1>7, <2>1, <2>2, <2>3, <2>4
<1>11. Prefix(r, v + 1) = vz
  <2>1. Prefix((vb \o <<z>>) \o q, Bytes(vb) + Len(z)) = vb \o <<z>>
    <3>1. Len(z) >= 1
      BY <1>3
    <3> QED
      BY <1>1, <3>1, PrefixIs
  <2>2. v + 1 = Bytes(vb) + Len(z)
    BY <1>3, <1>8
  <2> HIDE DEF v
  <2> QED
    BY ONLY <1>5, <1>6, <2>1, <2>2
<1>12. Unterminated(nb, n + 1) = b \o <<x>> /\ Unterminated(vz, v + 1) = vb \o <<y>>
  BY <1>1, <1>2, <1>3, <1>4, <1>5, UnterminatedIs
<1> DEFINE name == FlattenSeq(b) \o x
           value == FlattenSeq(vb) \o y
           dn == Decodev(b \o <<x>>)
           dv == Decodev(vb \o <<y>>)
<1>13. /\ FlattenSeq(b \o <<x>>) = name /\ FlattenSeq(vb \o <<y>>) = value
       /\ b \o <<x>> \in Seq(Token) /\ vb \o <<y>> \in Seq(Token)
       /\ Bytes(b \o <<x>>) = n
  BY <1>1, BytesSnoc
<1>14. /\ dn.status = UrlDecode(name).status /\ (dn.status \notin Bad => dn = UrlDecode(name))
       /\ dv.status = UrlDecode(value).status /\ (dv.status \notin Bad => dv = UrlDecode(value))
  BY <1>13, DecodevIs DEF DecodedAlike
<1>15. name = << >> <=> n = 0
  <2>1. PICK w \in Seq(Sym) : w = name
    BY <1>1, <1>13, FlattenSnoc, FlattenType DEF Token
  <2>2. Len(w) = n
    BY <1>13, <2>1 DEF Bytes
  <2> QED
    BY <2>1, <2>2, EmptySeq
<1> DEFINE word == Word(buckets, n, v)
<1>16. word = [status |-> IF n = 0 THEN "EBADARG"
                          ELSE IF dv.status # "SUCCESS" THEN dv.status
                          ELSE dn.status,
               param  |-> <<dn.out, dv.out>>,
               used   |-> Len(nb) + Len(vz)]
  <2> HIDE DEF n, v
  <2> QED
    BY <1>9, <1>10, <1>11, <1>12 DEF Word
<1>17. word.used = Len(b) + Len(vb) + 2
  BY <1>4, <1>5, <1>8, <1>16
<1> HIDE DEF n, v, name, value, dn, dv
<1>18. word.status = WordStatus(<<name, value>>)
  BY <1>14, <1>15, <1>16 DEF WordStatus
<1>19. word.status = "SUCCESS" => dn.status = "SUCCESS" /\ dv.status = "SUCCESS"
  BY <1>16
<1>20. word.status = "SUCCESS" => word.param = Meaning(<<name, value>>)
  BY <1>14, <1>16, <1>19 DEF Meaning, Bad
<1> HIDE DEF word
<1>21. Found(word, name, value, Len(b) + Len(vb) + 2)
  BY <1>17, <1>18, <1>20 DEF Found
<1> QED
  BY <1>21 DEF word, n, v, name, value

------------------------------------------------------------------------------
(* The buckets ahead *)

Piece == Seq(Chars)

\* The pieces, as characters.
LEMMA PieceFacts ==
  /\ Piece \subseteq Token /\ Seq(Piece) \subseteq Seq(Token)
  /\ \A p \in Piece : p # Eos
  /\ Eos \in Token /\ << >> \in Piece
<1>1. Chars \subseteq Sym
  BY DEF Sym
<1>2. Piece \subseteq Token
  BY <1>1 DEF Piece, Token
<1>3. Seq(Piece) \subseteq Seq(Token)
  BY <1>2
<1>4. ASSUME NEW p \in Piece PROVE p # Eos
  <2>1. SUFFICES ASSUME p = <<"EOS">> PROVE FALSE
    BY DEF Eos
  <2>2. Len(p) = 1 /\ p[1] = "EOS"
    BY <2>1
  <2>3. p[1] \in Chars
    BY <2>2, ElementOfSeq DEF Piece
  <2> QED
    BY <2>2, <2>3 DEF Chars
<1>5. Eos \in Token
  <2>1. "EOS" \in Sym
    BY DEF Sym
  <2>2. \A x \in Sym : <<x>> \in Seq(Sym)
    OBVIOUS
  <2> QED
    BY <2>1, <2>2 DEF Eos, Token
<1>6. << >> \in Piece
  BY DEF Piece
<1> QED
  BY <1>2, <1>3, <1>4, <1>5, <1>6

\* The two parts of a concatenation.
LEMMA PartsOf ==
  ASSUME NEW S, NEW a \in Seq(S), NEW z \in Seq(S)
  PROVE  /\ SubSeq(a \o z, 1, Len(a)) = a
         /\ SubSeq(a \o z, Len(a) + 1, Len(a \o z)) = z
<1>1. Len(a) \in Nat /\ Len(z) \in Nat /\ Len(a \o z) = Len(a) + Len(z)
  BY ConcatProperties, LenProperties
<1>2. SubSeq(a \o z, 1, Len(a)) = SubSeq(a, 1, Len(a))
  <2>1. 1 \in Nat \ {0} /\ Len(a) \in Int /\ Len(a) <= Len(a)
    BY <1>1
  <2> QED
    BY <2>1, SubSeqLeft
<1>3. SubSeq(a \o z, Len(a) + 1, Len(a) + Len(z)) = SubSeq(z, 1, Len(z))
  <2>1. 1 \in Nat \ {0} /\ Len(z) \in Int /\ Len(z) <= Len(z)
    BY <1>1
  <2> QED
    BY <2>1, SubSeqRight
<1>4. SubSeq(a, 1, Len(a)) = a /\ SubSeq(z, 1, Len(z)) = z
  BY SubSeqFull
<1> QED
  BY <1>1, <1>2, <1>3, <1>4

\* The first and the others.
LEMMA SomeCons ==
  ASSUME NEW S, NEW s \in Seq(S), s # << >>
  PROVE  \E x \in S, t \in Seq(S) : s = <<x>> \o t
<1>1. Len(s) \in Nat /\ Len(s) >= 1
  BY EmptySeq, LenProperties
<1>2. s = SubSeq(s, 1, 0) \o (<<s[1]>> \o SubSeq(s, 2, Len(s)))
  <2>1. 1 \in 1 .. Len(s) /\ 1 - 1 = 0 /\ 1 + 1 = 2
    BY <1>1
  <2> QED
    BY <2>1, SplitAt
<1>3. PICK x \in S : x = s[1]
  BY <1>1, ElementOfSeq
<1>4. PICK t \in Seq(S) : t = SubSeq(s, 2, Len(s))
  <2>1. 2 \in Nat \ {0} /\ Len(s) \in Int /\ Len(s) <= Len(s)
    BY <1>1
  <2> QED
    BY <2>1, SubSeqType
<1>5. SubSeq(s, 1, 0) = << >>
  BY SubSeqEmpty
<1>6. PICK u \in Seq(S) : u = <<x>> \o t
  <2>1. <<x>> \in Seq(S)
    OBVIOUS
  <2> QED
    BY <2>1, ConcatProperties
<1>7. << >> \o u = u
  BY ConcatEmptySeq
<1> QED
  BY <1>2, <1>3, <1>4, <1>5, <1>6, <1>7

\* The same sequence in two ways.
Shifted(a, x, z) == a \o (<<x>> \o z) = (a \o <<x>>) \o z

\* One in front of others moves them by one.
LEMMA ConsBehind ==
  ASSUME NEW S, NEW a \in Seq(S), NEW x \in S, NEW z \in Seq(S)
  PROVE  /\ <<x>> \o z \in Seq(S) /\ Len(<<x>> \o z) = 1 + Len(z)
         /\ (<<x>> \o z)[1] = x
         /\ Shifted(a, x, z)
<1>1. PICK t \in Seq(S) : t = <<x>> /\ Len(t) = 1 /\ t[1] = x
  <2>1. <<x>> \in Seq(S) /\ Len(<<x>>) = 1 /\ <<x>>[1] = x
    OBVIOUS
  <2> QED
    BY <2>1
<1>2. (a \o t) \o z = a \o (t \o z)
  BY JoinThree
<1>3. t \o z \in Seq(S) /\ Len(t \o z) = 1 + Len(z) /\ (t \o z)[1] = x
  <2>1. /\ t \o z \in Seq(S) /\ Len(t \o z) = Len(t) + Len(z) /\ Len(z) \in Nat
        /\ \A i \in 1 .. Len(t) + Len(z) :
              (t \o z)[i] = IF i <= Len(t) THEN t[i] ELSE z[i - Len(t)]
    BY ConcatProperties, LenProperties
  <2>2. 1 \in 1 .. Len(t) + Len(z)
    BY <1>1, <2>1
  <2> QED
    BY <1>1, <2>1, <2>2
<1> QED
  BY <1>1, <1>2, <1>3 DEF Shifted

\* A piece in front of others.
LEMMA FlattenCons ==
  ASSUME NEW p \in Token, NEW rest \in Seq(Token)
  PROVE  /\ <<p>> \o rest \in Seq(Token)
         /\ FlattenSeq(rest) \in Seq(Sym)
         /\ FlattenSeq(<<p>> \o rest) = p \o FlattenSeq(rest)
<1>1. <<p>> \in Seq(Token)
  OBVIOUS
<1>2. PICK o \in Seq(Token) : o = <<p>>
  BY <1>1
<1>3. o \o rest \in Seq(Token)
  BY ConcatProperties
<1>4. FlattenSeq(o \o rest) = FlattenSeq(o) \o FlattenSeq(rest) /\ FlattenSeq(rest) \in Seq(Sym)
  BY BytesConcat
<1>5. FlattenSeq(<<p>>) = p
  BY FlattenOne DEF Token
<1> QED
  BY <1>2, <1>3, <1>4, <1>5

\* The least of some of the first n positions.
LEMMA LeastIn ==
  ASSUME NEW n \in Nat, NEW S \in SUBSET (1 .. n), S # {}
  PROVE  \E i \in S : \A j \in S : i <= j
<1> DEFINE T == {m \in 1 .. n : (n + 1) - m \in S}
<1>1. \A i \in S : (n + 1) - i \in 1 .. n /\ (n + 1) - ((n + 1) - i) = i
  OBVIOUS
<1>2. \A i \in S : (n + 1) - i \in T
  BY <1>1
<1>3. T \in SUBSET (1 .. n) /\ T # {}
  BY <1>2
<1>4. PICK m \in T : \A y \in T : y <= m
  <2> HIDE DEF T
  <2> QED
    BY <1>3, MaxIs
<1>5. (n + 1) - m \in S /\ m \in 1 .. n
  OBVIOUS
<1>6. ASSUME NEW j \in S PROVE (n + 1) - m <= j
  <2>1. (n + 1) - j <= m /\ j \in 1 .. n
    BY <1>2, <1>4
  <2> QED
    BY <1>5, <2>1
<1> QED
  BY <1>5, <1>6

\* The first of the characters that end a name or a value.
LEMMA FirstEndIs ==
  ASSUME NEW p \in Piece, NEW C, Ends(p, C) # {}
  PROVE  /\ FirstEnd(p, C) \in 1 .. Len(p) /\ p[FirstEnd(p, C)] \in C
         /\ \A j \in 1 .. FirstEnd(p, C) - 1 : p[j] \notin C
<1>1. Len(p) \in Nat /\ DOMAIN p = 1 .. Len(p)
  BY LenProperties DEF Piece
<1>2. Ends(p, C) \in SUBSET (1 .. Len(p)) /\ \A j \in 1 .. Len(p) : j \in Ends(p, C) <=> p[j] \in C
  BY <1>1 DEF Ends
<1>3. FirstEnd(p, C) \in Ends(p, C) /\ \A j \in Ends(p, C) : FirstEnd(p, C) <= j
  <2>1. \E i \in Ends(p, C) : \A j \in Ends(p, C) : i <= j
    BY <1>1, <1>2, LeastIn
  <2> QED
    BY <2>1 DEF FirstEnd
<1> QED
  BY <1>1, <1>2, <1>3

\* A piece in which something ends: what is in front of the first separator,
\* the separator, and what is behind.
Parted(p, C, i, x, k, z) ==
    /\ x \in Piece /\ k \in Chars /\ k \in C /\ z \in Piece
    /\ Lacks(x, C) /\ Len(x) = i - 1
    /\ i \in 1 .. Len(p)
    /\ SubSeq(p, 1, i) = x \o <<k>>
    /\ SubSeq(p, i + 1, Len(p)) = z
    /\ p = (x \o <<k>>) \o z

\* A piece in which the name or the value ends, parted at the end.
LEMMA PieceParted ==
  ASSUME NEW p \in Piece, NEW C, Ends(p, C) # {}
  PROVE  \E x, k, z : Parted(p, C, FirstEnd(p, C), x, k, z)
<1> DEFINE i == FirstEnd(p, C)
<1>1. /\ i \in 1 .. Len(p) /\ p[i] \in C
      /\ \A j \in 1 .. i - 1 : p[j] \notin C
  BY FirstEndIs
<1> HIDE DEF i
<1>2. Len(p) \in Nat /\ p \in Seq(Chars) /\ p[i] \in Chars
  BY <1>1, LenProperties, ElementOfSeq DEF Piece
<1>3. PICK x : x = SubSeq(p, 1, i - 1)
  OBVIOUS
<1>4. PICK z : z = SubSeq(p, i + 1, Len(p))
  OBVIOUS
<1>5. PICK k : k = p[i]
  OBVIOUS
<1>6. /\ x \in Piece /\ Len(x) = i - 1 /\ \A j \in 1 .. i - 1 : x[j] = p[j]
  <2>1. 1 \in Nat \ {0} /\ i - 1 \in Int /\ i - 1 <= Len(p)
    BY <1>1, <1>2
  <2>2. /\ x \in Seq(Chars) /\ Len(x) = IF 1 <= i - 1 THEN (i - 1) - 1 + 1 ELSE 0
        /\ \A j \in 1 .. (i - 1) - 1 + 1 : x[j] = p[1 + j - 1]
    BY <1>2, <1>3, <2>1, SubSeqType
  <2>3. \A j \in 1 .. i - 1 : 1 + j - 1 = j /\ j \in 1 .. (i - 1) - 1 + 1
    BY <1>1
  <2>4. Len(x) = i - 1
    BY <1>1, <2>2
  <2> QED
    BY <2>2, <2>3, <2>4 DEF Piece
<1>7. z \in Piece
  <2>1. i + 1 \in Nat \ {0} /\ Len(p) \in Int /\ Len(p) <= Len(p)
    BY <1>1, <1>2
  <2> QED
    BY <1>2, <1>4, <2>1, SubSeqType DEF Piece
<1>8. Lacks(x, C)
  <2>1. DOMAIN x = 1 .. i - 1
    BY <1>6, LenProperties DEF Piece
  <2> QED
    BY <1>1, <1>6, <2>1 DEF Lacks
<1>9. SubSeq(p, 1, i) = x \o <<k>>
  <2>1. i \in 1 .. Len(p) /\ 1 \in 1 .. Len(p)
    BY <1>1, <1>2
  <2>2. SubSeq(p, 1, i) = SubSeq(p, 1, i - 1) \o <<p[i]>>
    BY <1>1, <1>2, SubSeqRecursiveSecond, <2>1, 1 \in 1 .. i, i \in 1 .. Len(p)
  <2> QED
    BY <1>3, <1>5, <2>2
<1>10. p = (x \o <<k>>) \o z
  <2>1. i \in 0 .. Len(p)
    BY <1>1, <1>2
  <2>2. p = SubSeq(p, 1, i) \o SubSeq(p, i + 1, Len(p))
    BY <1>2, <2>1, InTwo
  <2> QED
    BY <1>4, <1>9, <2>2
<1>11. Parted(p, C, i, x, k, z)
  BY <1>1, <1>2, <1>4, <1>5, <1>6, <1>7, <1>8, <1>9, <1>10 DEF Parted
<1> QED
  BY <1>11 DEF i

\* A piece in which nothing ends.
LEMMA PieceWhole ==
  ASSUME NEW p \in Piece, NEW C, Ends(p, C) = {}
  PROVE  Lacks(p, C)
BY DEF Ends, Lacks

\* What is behind the pieces: the end of the stream, when it has been given.
Ending(n) == IF n > 0 THEN <<Eos>> ELSE << >>

\* The buckets kept and those ahead, and where they meet.
Meets(buckets, i, kept, ahead, n) ==
    /\ kept \in Seq(Token) /\ ahead \in Seq(Piece) /\ n \in Nat
    /\ buckets = kept \o (ahead \o Ending(n))
    /\ i = Len(kept) + 1

\* The bucket looked at is a piece.
AtPiece(buckets, i, kept, ahead, n, p, rest) ==
    /\ p \in Piece /\ rest \in Seq(Piece)
    /\ ahead = <<p>> \o rest
    /\ buckets[i] = p
    /\ SubSeq(buckets, 1, i - 1) = kept
    /\ SubSeq(buckets, i + 1, Len(buckets)) = rest \o Ending(n)
    /\ buckets = (kept \o <<p>>) \o (rest \o Ending(n))

\* The bucket looked at is the end of the stream.
AtEos(buckets, kept, ahead, n) ==
    ahead = << >> /\ n > 0 /\ buckets = kept \o <<Eos>>

\* The end of the stream, as buckets.
LEMMA EndingIs ==
  ASSUME NEW n \in Nat
  PROVE  /\ Ending(n) \in Seq(Token) /\ Eos \in Token
         /\ Ending(n) = << >> <=> n = 0
         /\ n > 0 => Ending(n) = <<Eos>>
<1>1. Eos \in Token
  BY PieceFacts
<1>2. << >> \in Seq(Token) /\ \A x \in Token : <<x>> \in Seq(Token) /\ <<x>> # << >>
  OBVIOUS
<1> QED
  BY ONLY <1>1, <1>2, n \in Nat DEF Ending

\* What is at the place the parser looks at: nothing, the end, or a piece.
LEMMA AheadIs ==
  ASSUME NEW buckets, NEW i, NEW kept, NEW ahead, NEW n, Meets(buckets, i, kept, ahead, n)
  PROVE  /\ buckets \in Seq(Token) /\ i \in Nat /\ i >= 1 /\ Len(buckets) \in Nat
         /\ SubSeq(buckets, i, Len(buckets)) = ahead \o Ending(n)
         /\ i > Len(buckets) <=> ahead = << >> /\ n = 0
         /\ i <= Len(buckets) /\ buckets[i] = Eos => AtEos(buckets, kept, ahead, n)
         /\ i <= Len(buckets) /\ buckets[i] # Eos =>
               \E p, rest : AtPiece(buckets, i, kept, ahead, n, p, rest)
<1>1. kept \in Seq(Token) /\ ahead \in Seq(Piece) /\ ahead \in Seq(Token) /\ n \in Nat
  BY PieceFacts DEF Meets
<1>2. PICK tail \in Seq(Token) : tail = Ending(n)
  BY <1>1, EndingIs
<1>3. PICK next \in Seq(Token) : next = ahead \o tail
  BY <1>1, ConcatProperties
<1>4. PICK m \in Nat : m = Len(kept)
  BY <1>1, LenProperties
<1>5. /\ buckets = kept \o next /\ i = m + 1
      /\ buckets \in Seq(Token) /\ Len(buckets) = m + Len(next) /\ Len(next) \in Nat
      /\ Len(ahead) \in Nat /\ Len(tail) \in Nat /\ Len(next) = Len(ahead) + Len(tail)
  BY <1>1, <1>2, <1>3, <1>4, ConcatProperties, LenProperties DEF Meets
<1>6. /\ SubSeq(buckets, 1, m) = kept
      /\ SubSeq(buckets, m + 1, Len(buckets)) = next
  BY <1>1, <1>4, <1>5, PartsOf
<1>7. i > Len(buckets) <=> ahead = << >> /\ n = 0
  <2>1. Len(ahead) = 0 <=> ahead = << >>
    BY <1>1, EmptySeq
  <2>2. Len(tail) = 0 <=> n = 0
    BY <1>1, <1>2, EndingIs, EmptySeq
  <2> QED
    BY <1>5, <2>1, <2>2
<1>8. ASSUME i <= Len(buckets), ahead = << >>
      PROVE  buckets[i] = Eos /\ AtEos(buckets, kept, ahead, n)
  <2>1. n > 0
    BY <1>1, <1>5, <1>7, <1>8
  <2>2. next = <<Eos>>
    BY <1>1, <1>2, <1>3, <1>8, <2>1, EndingIs, ConcatEmptySeq
  <2>3. buckets[i] = Eos
    <3>1. i \in 1 .. m + Len(next) /\ ~(i <= m) /\ i - m = 1
      BY <1>5, <1>8
    <3>2. buckets[i] = next[i - m]
      BY <1>1, <1>4, <1>5, <3>1, ConcatProperties
    <3> QED
      BY <2>2, <3>1, <3>2
  <2>4. AtEos(buckets, kept, ahead, n)
    BY ONLY <1>5, <1>8, <2>1, <2>2 DEF AtEos
  <2> QED
    BY ONLY <2>3, <2>4
<1>9. ASSUME i <= Len(buckets), ahead # << >>
      PROVE  buckets[i] # Eos /\ \E p, rest : AtPiece(buckets, i, kept, ahead, n, p, rest)
  <2>1. PICK p \in Piece, rest \in Seq(Piece) : ahead = <<p>> \o rest
    BY <1>1, <1>9, SomeCons
  <2>2. p \in Token /\ rest \in Seq(Token) /\ p # Eos
    BY PieceFacts
  <2>3. PICK z \in Seq(Token) : z = rest \o tail
    BY <2>2, ConcatProperties
  <2>4. next = <<p>> \o z
    <3>1. <<p>> \in Seq(Token)
      BY <2>2
    <3>2. (<<p>> \o rest) \o tail = <<p>> \o (rest \o tail)
      BY <2>2, <3>1, JoinThree
    <3> QED
      BY <1>3, <2>1, <2>3, <3>2
  <2>5. next[1] = p /\ Shifted(kept, p, z)
    BY <1>1, <2>2, <2>4, ConsBehind
  <2>6. buckets[i] = p
    <3>1. i \in 1 .. m + Len(next) /\ ~(i <= m) /\ i - m = 1
      BY <1>5, <1>9
    <3>2. buckets[i] = next[i - m]
      BY <1>1, <1>4, <1>5, <3>1, ConcatProperties
    <3> QED
      BY <2>5, <3>1, <3>2
  <2>7. buckets = (kept \o <<p>>) \o z
    BY <1>5, <2>4, <2>5 DEF Shifted
  <2>8. SubSeq(buckets, i + 1, Len(buckets)) = z
    <3>1. kept \o <<p>> \in Seq(Token) /\ Len(kept \o <<p>>) = m + 1
      BY <1>1, <1>4, <2>2, SnocFacts
    <3>2. SubSeq((kept \o <<p>>) \o z, Len(kept \o <<p>>) + 1, Len((kept \o <<p>>) \o z)) = z
      BY <3>1, PartsOf
    <3> QED
      BY <1>5, <2>7, <3>1, <3>2
  <2>9. SubSeq(buckets, 1, i - 1) = kept
    <3>1. i - 1 = m
      BY <1>5
    <3> QED
      BY <1>6, <3>1
  <2>10. AtPiece(buckets, i, kept, ahead, n, p, rest)
    BY <1>2, <2>1, <2>3, <2>6, <2>7, <2>8, <2>9 DEF AtPiece
  <2> QED
    BY ONLY <2>2, <2>6, <2>10
<1>10. buckets \in Seq(Token) /\ i \in Nat /\ i >= 1 /\ Len(buckets) \in Nat
  BY ONLY <1>4, <1>5
<1>11. SubSeq(buckets, i, Len(buckets)) = ahead \o Ending(n)
  BY ONLY <1>2, <1>3, <1>5, <1>6
<1> QED
  BY ONLY <1>7, <1>8, <1>9, <1>10, <1>11

------------------------------------------------------------------------------
(* The words of a text *)

\* The words of s, of which n times the end has been given.
WordsOf(s, n) ==
    Reading(s).words \o IF n > 0 /\ Reading(s).in = "VALUE"
                        THEN <<<<Reading(s).name, Reading(s).value>>>> ELSE << >>

\* The words of the module are those of the text, as a function of it.
LEMMA WordsIs == Words = WordsOf(Text, eos)
BY DEF Words, WordsOf, ReadText, Reading, Read0

\* The last word is one when the end of the stream ends it.
LEMMA WordsFacts ==
  ASSUME NEW s \in Token, NEW n \in Nat
  PROVE  /\ Reading(s).words \in Seq(Pair) /\ WordsOf(s, n) \in Seq(Pair)
         /\ Grows(Reading(s).words, WordsOf(s, n))
         /\ n = 0 \/ Reading(s).in = "NAME" => WordsOf(s, n) = Reading(s).words
         /\ n > 0 /\ Reading(s).in = "VALUE" =>
               WordsOf(s, n) = Reading(s).words \o <<<<Reading(s).name, Reading(s).value>>>>
<1>1. PICK r \in ReadState : r = Reading(s)
  BY ReadingType DEF ReadWell, Token
<1>2. r.in \in {"NAME", "VALUE"} /\ r.words \in Seq(Pair) /\ <<r.name, r.value>> \in Pair
  BY DEF ReadState, Pair, Token
<1>3. r.words \o << >> = r.words
  BY <1>2, ConcatEmptySeq
<1>4. r.words \o <<<<r.name, r.value>>>> \in Seq(Pair)
  BY <1>2, SnocFacts
<1>5. CASE n = 0 \/ r.in = "NAME"
  <2>1. ~(n > 0 /\ Reading(s).in = "VALUE")
    BY <1>1, <1>5
  <2>2. WordsOf(s, n) = Reading(s).words \o << >>
    BY ONLY <2>1 DEF WordsOf
  <2>3. WordsOf(s, n) = r.words
    BY ONLY <1>1, <1>3, <2>2
  <2>4. Grows(r.words, r.words)
    BY <1>2, GrowsRefl
  <2>5. Reading(s).words = r.words
    BY <1>1
  <2> QED
    BY ONLY <1>2, <2>1, <2>3, <2>4, <2>5
<1>6. CASE n > 0 /\ r.in = "VALUE"
  <2>1. WordsOf(s, n) = r.words \o <<<<r.name, r.value>>>>
    BY <1>1, <1>6 DEF WordsOf
  <2>2. Grows(r.words, r.words \o <<<<r.name, r.value>>>>)
    BY <1>2, GrowsSnoc
  <2>3. Reading(s).in # "NAME" /\ n # 0
    BY <1>1, <1>6
  <2> QED
    BY ONLY <1>1, <1>2, <1>4, <2>1, <2>2, <2>3, Zenon
<1>7. (n = 0 \/ r.in = "NAME") \/ (n > 0 /\ r.in = "VALUE")
  BY <1>2
<1> QED
  BY ONLY <1>1, <1>5, <1>6, <1>7, Zenon

\* More text, or its end, has the same words and more.
LEMMA WordsGrow ==
  ASSUME NEW s \in Token, NEW x \in Token, NEW n \in Nat
  PROVE  /\ Grows(WordsOf(s, 0), WordsOf(s \o x, n))
         /\ Grows(Reading(s).words, WordsOf(s \o x, n))
<1>1. s \o x \in Token
  BY ConcatProperties DEF Token
<1>2. PICK y \in Token : y = s \o x
  BY <1>1
<1>3. /\ Reading(s).words \in Seq(Pair) /\ Reading(y).words \in Seq(Pair)
      /\ WordsOf(y, n) \in Seq(Pair) /\ WordsOf(s, 0) = Reading(s).words
      /\ Grows(Reading(y).words, WordsOf(y, n))
  BY WordsFacts, 0 \in Nat
<1>4. Grows(Reading(s).words, Reading(y).words)
  BY <1>2, ReadingGrows DEF Token
<1>5. Grows(Reading(s).words, WordsOf(y, n))
  BY ONLY <1>3, <1>4, GrowsTrans
<1> QED
  BY <1>2, <1>3, <1>5

\* The word that follows the first len.
Follows(words, len, word) == len < Len(words) /\ words[len + 1] = word

\* The table holds the first words, decoded; all of them are good.
Sound(t, words) ==
    /\ Len(t) <= Len(words)
    /\ \A j \in 1 .. Len(t) : WordStatus(words[j]) = "SUCCESS" /\ t[j] = Meaning(words[j])

\* What the table holds is opaque.
Entry == Seq(Token) \X Seq(Token)

\* The table stays sound when there are more words.
LEMMA SoundGrows ==
  ASSUME NEW t \in Seq(Entry), NEW a \in Seq(Pair), NEW b \in Seq(Pair), Sound(t, a), Grows(a, b)
  PROVE  Sound(t, b)
<1>1. Len(t) \in Nat /\ Len(a) \in Nat /\ Len(b) \in Nat
  BY LenProperties
<1> QED
  BY <1>1 DEF Sound, Grows

\* So does what follows it.
LEMMA FollowsGrows ==
  ASSUME NEW n \in Nat, NEW a \in Seq(Pair), NEW b \in Seq(Pair), NEW w, Follows(a, n, w), Grows(a, b)
  PROVE  Follows(b, n, w)
<1>1. Len(a) \in Nat /\ Len(b) \in Nat
  BY LenProperties
<1> QED
  BY <1>1 DEF Follows, Grows

\* A good word is added to a sound table.
LEMMA SoundSnoc ==
  ASSUME NEW t \in Seq(Entry), NEW words \in Seq(Pair), NEW w \in Pair, Sound(t, words),
         Follows(words, Len(t), w), WordStatus(w) = "SUCCESS"
  PROVE  /\ Sound(Append(t, Meaning(w)), words)
         /\ Append(t, Meaning(w)) \in Seq(Entry)
         /\ Len(Append(t, Meaning(w))) = Len(t) + 1
<1>1. Meaning(w) \in Entry
  <2>1. w[1] \in Seq(Sym) /\ w[2] \in Seq(Sym)
    BY DEF Pair, Token
  <2>2. UrlDecode(w[1]) \in Decoding /\ UrlDecode(w[2]) \in Decoding
    BY <2>1, UrlDecodeType
  <2> QED
    BY <2>2 DEF Meaning, Entry, Decoding
<1>2. PICK m \in Entry : m = Meaning(w)
  BY <1>1
<1>3. /\ Append(t, m) \in Seq(Entry) /\ Len(t) \in Nat /\ Len(words) \in Nat
      /\ Len(Append(t, m)) = Len(t) + 1
      /\ \A j \in 1 .. Len(t) : Append(t, m)[j] = t[j]
      /\ Append(t, m)[Len(t) + 1] = m
  BY AppendProperties, LenProperties
<1>4. \A j \in 1 .. Len(t) + 1 : j \in 1 .. Len(t) \/ j = Len(t) + 1
  BY <1>3
<1>5. Len(t) + 1 <= Len(words)
  BY <1>3 DEF Follows
<1> QED
  BY <1>2, <1>3, <1>4, <1>5 DEF Sound, Follows

------------------------------------------------------------------------------
(* What the parser has kept *)

\* The buckets kept are those of the name and of the value as far as it has come.
ValueKept(kept, b, x, vb, name, value) ==
    /\ b \in Seq(Token) /\ x \in Token /\ vb \in Seq(Token)
    /\ kept = (b \o <<x \o <<"=">>>>) \o vb
    /\ FlattenSeq(b) \o x = name
    /\ FlattenSeq(vb) = value

\* Having read done, the parser has kept the buckets of the word it is in, and
\* has counted its bytes, and the words in front of it.
WordKept(st, nl, vl, len, done, kept) ==
    /\ Reading(done).in = st
    /\ nl = Len(Reading(done).name) /\ vl = Len(Reading(done).value)
    /\ len = Len(Reading(done).words)
    /\ st = "NAME" => FlattenSeq(kept) = Reading(done).name
    /\ st = "VALUE" => \E b, x, vb : ValueKept(kept, b, x, vb, Reading(done).name, Reading(done).value)

\* In the middle of a call: done has been read, ahead is still to be looked at.
ScanAt(buckets, i, n, st, nl, vl, len, text, done, kept, ahead) ==
    /\ Meets(buckets, i, kept, ahead, n)
    /\ done \in Token /\ text = done \o FlattenSeq(ahead)
    /\ WordKept(st, nl, vl, len, done, kept)

\* What has been read, and how much.
LEMMA ReadingFacts ==
  ASSUME NEW done \in Token
  PROVE  /\ Reading(done) \in ReadState /\ Reading(done).name \in Token
         /\ Reading(done).value \in Token /\ Reading(done).words \in Seq(Pair)
         /\ Len(Reading(done).name) \in Nat /\ Len(Reading(done).value) \in Nat
         /\ Len(Reading(done).words) \in Nat
         /\ Reading(done).in = "NAME" => Reading(done).value = << >>
<1>1. PICK r : r = Reading(done)
  OBVIOUS
<1>2. r \in ReadState /\ (r.in = "NAME" => r.value = << >>)
  BY <1>1, ReadingType DEF ReadWell, Token
<1>3. r.name \in Seq(Sym) /\ r.value \in Seq(Sym) /\ r.words \in Seq(Pair)
  BY <1>2 DEF ReadState
<1>4. Len(r.name) \in Nat /\ Len(r.value) \in Nat /\ Len(r.words) \in Nat
  BY <1>3, LenProperties
<1> QED
  BY ONLY <1>1, <1>2, <1>3, <1>4 DEF Token

\* One bucket.
LEMMA OneToken == ASSUME NEW y \in Token PROVE <<y>> \in Seq(Token)
OBVIOUS

\* To put buckets together is associative.
LEMMA JoinTokens ==
  ASSUME NEW a \in Seq(Token), NEW b \in Seq(Token), NEW c \in Seq(Token)
  PROVE  (a \o b) \o c = a \o (b \o c) /\ a \o b \in Seq(Token)
BY JoinThree, ConcatProperties

\* The bucket looked at is done with.
Passed(buckets, i, kept, ahead, n, p, rest) ==
    /\ Meets(buckets, i + 1, kept \o <<p>>, rest, n)
    /\ kept \in Seq(Token) /\ p \in Token /\ p \in Piece /\ rest \in Seq(Piece)
    /\ rest \in Seq(Token) /\ n \in Nat
    /\ FlattenSeq(ahead) = p \o FlattenSeq(rest) /\ FlattenSeq(rest) \in Token
    /\ FlattenSeq(kept \o <<p>>) = FlattenSeq(kept) \o p /\ FlattenSeq(kept) \in Token

\* The parser goes on by a bucket, which it keeps.
LEMMA MeetsNext ==
  ASSUME NEW buckets, NEW i, NEW kept, NEW ahead, NEW n, NEW p, NEW rest,
         Meets(buckets, i, kept, ahead, n), AtPiece(buckets, i, kept, ahead, n, p, rest)
  PROVE  Passed(buckets, i, kept, ahead, n, p, rest)
<1>1. /\ kept \in Seq(Token) /\ n \in Nat /\ i = Len(kept) + 1
      /\ p \in Piece /\ rest \in Seq(Piece) /\ ahead = <<p>> \o rest
      /\ buckets = (kept \o <<p>>) \o (rest \o Ending(n))
  BY DEF Meets, AtPiece
<1>2. p \in Token /\ rest \in Seq(Token)
  BY <1>1, PieceFacts
<1>3. kept \o <<p>> \in Seq(Token) /\ Len(kept \o <<p>>) = Len(kept) + 1
  BY <1>1, <1>2, SnocFacts
<1>4. Meets(buckets, i + 1, kept \o <<p>>, rest, n)
  BY <1>1, <1>3 DEF Meets
<1>5. FlattenSeq(ahead) = p \o FlattenSeq(rest) /\ FlattenSeq(rest) \in Token
  BY <1>1, <1>2, FlattenCons DEF Token
<1>6. FlattenSeq(kept \o <<p>>) = FlattenSeq(kept) \o p /\ FlattenSeq(kept) \in Token
  BY <1>1, <1>2, FlattenSnoc DEF Token
<1> QED
  BY ONLY <1>1, <1>2, <1>4, <1>5, <1>6 DEF Passed

\* The text goes on behind what has been done.
LEMMA TextMoves ==
  ASSUME NEW done \in Token, NEW p \in Token, NEW f \in Token
  PROVE  done \o (p \o f) = (done \o p) \o f /\ done \o p \in Token
<1>1. PICK a \in Seq(Sym) : a = done
  BY DEF Token
<1>2. PICK b \in Seq(Sym) : b = p
  BY DEF Token
<1>3. PICK c \in Seq(Sym) : c = f
  BY DEF Token
<1>4. (a \o b) \o c = a \o (b \o c) /\ a \o b \in Seq(Sym)
  BY ONLY JoinThree, ConcatProperties, a \in Seq(Sym), b \in Seq(Sym), c \in Seq(Sym)
<1> QED
  BY ONLY <1>1, <1>2, <1>3, <1>4 DEF Token

\* A whole bucket of a name.
LEMMA NameMore ==
  ASSUME NEW buckets, NEW i, NEW n, NEW nl, NEW vl, NEW len, NEW text, NEW done, NEW kept, NEW ahead,
         NEW p, NEW rest,
         ScanAt(buckets, i, n, "NAME", nl, vl, len, text, done, kept, ahead),
         AtPiece(buckets, i, kept, ahead, n, p, rest), Ends(p, {"="}) = {}
  PROVE  ScanAt(buckets, i + 1, n, "NAME", Counted(nl, p), vl, len, text, done \o p,
                kept \o <<p>>, rest)
<1>1. Meets(buckets, i, kept, ahead, n) /\ done \in Token /\ text = done \o FlattenSeq(ahead)
      /\ WordKept("NAME", nl, vl, len, done, kept)
  BY DEF ScanAt
<1>2. /\ Meets(buckets, i + 1, kept \o <<p>>, rest, n)
      /\ kept \in Seq(Token) /\ p \in Token /\ p \in Piece /\ rest \in Seq(Token) /\ n \in Nat
      /\ FlattenSeq(ahead) = p \o FlattenSeq(rest) /\ FlattenSeq(rest) \in Token
      /\ FlattenSeq(kept \o <<p>>) = FlattenSeq(kept) \o p
  <2>1. Passed(buckets, i, kept, ahead, n, p, rest)
    BY <1>1, MeetsNext, Zenon
  <2> QED
    BY ONLY <2>1 DEF Passed
<1>3. text = (done \o p) \o FlattenSeq(rest) /\ done \o p \in Token
  <2>1. /\ done \o (p \o FlattenSeq(rest)) = (done \o p) \o FlattenSeq(rest)
        /\ done \o p \in Token
    BY <1>1, <1>2, TextMoves, Zenon
  <2> QED
    BY ONLY <1>1, <1>2, <2>1
<1>4. PICK r : r = Reading(done)
  OBVIOUS
<1>5. /\ r \in ReadState /\ r.in = "NAME" /\ nl = Len(r.name) /\ vl = Len(r.value)
      /\ len = Len(r.words) /\ FlattenSeq(kept) = r.name /\ r.name \in Token
  BY <1>1, <1>4, ReadingFacts DEF WordKept
<1>6. Reading(done \o p) = [r EXCEPT !.name = @ \o p]
  <2>1. Lacks(p, {"="})
    BY <1>2, PieceWhole
  <2> QED
    BY <1>1, <1>2, <1>4, <1>5, <2>1, ReadingName DEF Token
<1>7. PICK s : s = Reading(done \o p)
  OBVIOUS
<1>8. s.in = "NAME" /\ s.name = r.name \o p /\ s.value = r.value /\ s.words = r.words
  BY <1>5, <1>6, <1>7 DEF ReadState
<1>9. Len(r.name \o p) = Counted(nl, p)
  BY <1>2, <1>5, ConcatProperties DEF Counted, Token
<1>10. WordKept("NAME", Counted(nl, p), vl, len, done \o p, kept \o <<p>>)
  BY <1>2, <1>5, <1>7, <1>8, <1>9 DEF WordKept
<1> QED
  BY <1>2, <1>3, <1>10 DEF ScanAt

\* A whole bucket of a value.
LEMMA ValueMore ==
  ASSUME NEW buckets, NEW i, NEW n, NEW nl, NEW vl, NEW len, NEW text, NEW done, NEW kept, NEW ahead,
         NEW p, NEW rest,
         ScanAt(buckets, i, n, "VALUE", nl, vl, len, text, done, kept, ahead),
         AtPiece(buckets, i, kept, ahead, n, p, rest), Ends(p, {"&", ";"}) = {}
  PROVE  ScanAt(buckets, i + 1, n, "VALUE", nl, Counted(vl, p), len, text, done \o p,
                kept \o <<p>>, rest)
<1>1. Meets(buckets, i, kept, ahead, n) /\ done \in Token /\ text = done \o FlattenSeq(ahead)
      /\ WordKept("VALUE", nl, vl, len, done, kept)
  BY DEF ScanAt
<1>2. /\ Meets(buckets, i + 1, kept \o <<p>>, rest, n)
      /\ kept \in Seq(Token) /\ p \in Token /\ p \in Piece /\ rest \in Seq(Token) /\ n \in Nat
      /\ FlattenSeq(ahead) = p \o FlattenSeq(rest) /\ FlattenSeq(rest) \in Token
  <2>1. Passed(buckets, i, kept, ahead, n, p, rest)
    BY <1>1, MeetsNext, Zenon
  <2> QED
    BY ONLY <2>1 DEF Passed
<1>3. text = (done \o p) \o FlattenSeq(rest) /\ done \o p \in Token
  <2>1. /\ done \o (p \o FlattenSeq(rest)) = (done \o p) \o FlattenSeq(rest)
        /\ done \o p \in Token
    BY <1>1, <1>2, TextMoves, Zenon
  <2> QED
    BY ONLY <1>1, <1>2, <2>1
<1>4. PICK r : r = Reading(done)
  OBVIOUS
<1>5. /\ r \in ReadState /\ r.in = "VALUE" /\ nl = Len(r.name) /\ vl = Len(r.value)
      /\ len = Len(r.words) /\ r.value \in Token
      /\ \E b, x, vb : ValueKept(kept, b, x, vb, r.name, r.value)
  BY <1>1, <1>4, ReadingFacts DEF WordKept
<1>6. Reading(done \o p) = [r EXCEPT !.value = @ \o p]
  <2>1. Lacks(p, {"&", ";"})
    BY <1>2, PieceWhole
  <2> QED
    BY <1>1, <1>2, <1>4, <1>5, <2>1, ReadingValue DEF Token
<1>7. PICK s : s = Reading(done \o p)
  OBVIOUS
<1>8. s.in = "VALUE" /\ s.name = r.name /\ s.value = r.value \o p /\ s.words = r.words
  BY <1>5, <1>6, <1>7 DEF ReadState
<1>9. Len(r.value \o p) = Counted(vl, p)
  BY <1>2, <1>5, ConcatProperties DEF Counted, Token
<1>10. PICK b, x, vb : ValueKept(kept, b, x, vb, r.name, r.value)
  BY <1>5
<1>11. ValueKept(kept \o <<p>>, b, x, vb \o <<p>>, s.name, s.value)
  <2>1. /\ b \in Seq(Token) /\ x \in Token /\ vb \in Seq(Token)
        /\ kept = (b \o <<x \o <<"=">>>>) \o vb
        /\ FlattenSeq(b) \o x = r.name
        /\ FlattenSeq(vb) = r.value
    BY <1>10 DEF ValueKept
  <2>2. b \o <<x \o <<"=">>>> \in Seq(Token)
    <3>1. x \o <<"=">> \in Token
      BY <2>1, UnterminatedIs, "=" \in Sym, ZenonT(40) DEF Sym, Chars
    <3> QED
      BY <2>1, <3>1, SnocFacts
  <2>3. PICK bl \in Seq(Token) : bl = b \o <<x \o <<"=">>>>
    BY <2>2
  <2>4. kept \o <<p>> = bl \o (vb \o <<p>>)
    <3>1. <<p>> \in Seq(Token)
      BY <1>2, OneToken
    <3>2. PICK o \in Seq(Token) : o = <<p>>
      BY <3>1
    <3>3. (bl \o vb) \o o = bl \o (vb \o o)
      BY <2>1, JoinTokens, ZenonT(40)
    <3> QED
      BY ONLY <2>1, <2>3, <3>2, <3>3
  <2>5. FlattenSeq(vb \o <<p>>) = FlattenSeq(vb) \o p /\ vb \o <<p>> \in Seq(Token)
    BY <1>2, <2>1, FlattenSnoc, SnocFacts
  <2> QED
    BY ONLY <1>8, <2>1, <2>3, <2>4, <2>5 DEF ValueKept
<1>12. WordKept("VALUE", nl, Counted(vl, p), len, done \o p, kept \o <<p>>)
  BY ONLY <1>5, <1>7, <1>8, <1>9, <1>11 DEF WordKept
<1> QED
  BY <1>2, <1>3, <1>12 DEF ScanAt

\* The buckets when the one at i is cut behind its first k bytes.
Cut(buckets, i, k) ==
    SubSeq(buckets, 1, i - 1) \o <<SubSeq(buckets[i], 1, k), SubSeq(buckets[i], k + 1, Len(buckets[i]))>>
    \o SubSeq(buckets, i + 1, Len(buckets))

\* apr_bucket_split cuts the bucket at the place the parser looks at.
LEMMA SplitIsCut == \A k : Split(k) = Cut(bb, e, k)
BY DEF Split, Cut

\* One and one are two.
LEMMA TwoOnes == ASSUME NEW S, NEW a \in S, NEW z \in S PROVE <<a>> \o <<z>> = <<a, z>>
<1>1. <<a>> \in Seq(S) /\ <<a, z>> \in Seq(S) /\ Len(<<a, z>>) = 2
      /\ <<a, z>>[1] = a /\ <<a, z>>[2] = z /\ Len(<<a>>) = 1 /\ <<a>>[1] = a
  OBVIOUS
<1>2. PICK o \in Seq(S) : o = <<a>>
  BY <1>1
<1>3. PICK t \in Seq(S) : t = <<a, z>>
  BY <1>1
<1>4. /\ o \o <<z>> \in Seq(S) /\ Len(o \o <<z>>) = 2
      /\ (o \o <<z>>)[1] = a /\ (o \o <<z>>)[2] = z
  <2>1. Len(o) = 1 /\ o[1] = a
    BY <1>1, <1>2
  <2>2. /\ o \o <<z>> \in Seq(S) /\ Len(o \o <<z>>) = Len(o) + 1
        /\ \A i \in 1 .. Len(o) + 1 : (o \o <<z>>)[i] = IF i <= Len(o) THEN o[i] ELSE z
    BY SnocFacts
  <2> QED
    BY ONLY <2>1, <2>2
<1>5. PICK u \in Seq(S) : u = o \o <<z>>
  BY <1>4
<1>6. Len(u) = 2 /\ Len(t) = 2 /\ u[1] = t[1] /\ u[2] = t[2]
  BY ONLY <1>1, <1>3, <1>4, <1>5
<1>7. \A i \in 1 .. Len(u) : u[i] = t[i]
  BY ONLY <1>6
<1>8. u = t
  BY ONLY <1>6, <1>7, u \in Seq(S), t \in Seq(S), SeqEqual
<1> QED
  BY ONLY <1>2, <1>3, <1>5, <1>8

\* Two buckets behind those kept, the second of which is ahead.
LEMMA TwoTokens ==
  ASSUME NEW kept \in Seq(Token), NEW a \in Token, NEW z \in Token, NEW t \in Seq(Token)
  PROVE  (kept \o <<a, z>>) \o t = (kept \o <<a>>) \o (<<z>> \o t)
<1>1. PICK oa \in Seq(Token) : oa = <<a>>
  BY OneToken
<1>2. PICK oz \in Seq(Token) : oz = <<z>>
  BY OneToken
<1>3. <<a, z>> = oa \o oz
  BY <1>1, <1>2, TwoOnes, Zenon
<1>4. (kept \o oa) \o oz = kept \o (oa \o oz) /\ kept \o oa \in Seq(Token)
  BY JoinTokens
<1>5. ((kept \o oa) \o oz) \o t = (kept \o oa) \o (oz \o t)
  BY <1>4, JoinTokens
<1> QED
  BY ONLY <1>1, <1>2, <1>3, <1>4, <1>5

\* A bucket in which something ends becomes two: one is done with, one ahead.
CutAt(cut, i, kept, n, x, c, z, rest) ==
    /\ Meets(cut, i + 1, kept \o <<x \o <<c>>>>, <<z>> \o rest, n)
    /\ cut = (kept \o <<x \o <<c>>>>) \o (<<z>> \o (rest \o Ending(n)))
    /\ kept \in Seq(Token) /\ rest \in Seq(Piece) /\ n \in Nat /\ i = Len(kept) + 1
    /\ x \in Token /\ c \in Sym /\ z \in Token /\ z \in Piece
    /\ <<z>> \o rest \in Seq(Piece) /\ rest \o Ending(n) \in Seq(Token)
    /\ x \o <<c>> \in Token

\* The bucket is cut behind the character that ends the name or the value.
LEMMA CutIs ==
  ASSUME NEW buckets, NEW i, NEW kept, NEW ahead, NEW n, NEW p, NEW rest, NEW C, NEW k, NEW x, NEW c,
         NEW z, Meets(buckets, i, kept, ahead, n), AtPiece(buckets, i, kept, ahead, n, p, rest),
         Parted(p, C, k, x, c, z)
  PROVE  CutAt(Cut(buckets, i, k), i, kept, n, x, c, z, rest)
<1>1. /\ kept \in Seq(Token) /\ n \in Nat /\ i = Len(kept) + 1
      /\ p \in Piece /\ rest \in Seq(Piece)
      /\ buckets[i] = p /\ SubSeq(buckets, 1, i - 1) = kept
      /\ SubSeq(buckets, i + 1, Len(buckets)) = rest \o Ending(n)
  BY DEF Meets, AtPiece
<1>2. /\ x \in Token /\ c \in Sym /\ z \in Token /\ z \in Piece
      /\ SubSeq(p, 1, k) = x \o <<c>> /\ SubSeq(p, k + 1, Len(p)) = z
  BY PieceFacts DEF Parted, Sym
<1>3. PICK a \in Token : a = x \o <<c>>
  BY <1>2, UnterminatedIs, << >> \in Seq(Token)
<1>4. PICK t \in Seq(Token) : t = Ending(n)
  BY <1>1, EndingIs
<1>5. rest \in Seq(Token)
  BY <1>1, PieceFacts
<1>6. PICK rt \in Seq(Token) : rt = rest \o t
  BY <1>5, JoinTokens
<1>7. Cut(buckets, i, k) = (kept \o <<a, z>>) \o rt
  BY ONLY <1>1, <1>2, <1>3, <1>4, <1>6 DEF Cut
<1>8. Cut(buckets, i, k) = (kept \o <<a>>) \o (<<z>> \o rt)
  <2>1. (kept \o <<a, z>>) \o rt = (kept \o <<a>>) \o (<<z>> \o rt)
    <3>1. kept \in Seq(Token) /\ z \in Token
      BY <1>1, <1>2
    <3> QED
      BY <3>1, TwoTokens, Zenon
  <2> QED
    BY ONLY <1>7, <2>1
<1>9. <<z>> \o rt = (<<z>> \o rest) \o t
  <2>1. PICK oz \in Seq(Token) : oz = <<z>>
    BY <1>2, OneToken
  <2>2. (oz \o rest) \o t = oz \o (rest \o t)
    BY <1>5, JoinTokens
  <2> QED
    BY ONLY <1>6, <2>1, <2>2
<1>10. <<z>> \o rest \in Seq(Piece)
  BY <1>1, <1>2, ConsBehind, << >> \in Seq(Piece)
<1>11. kept \o <<a>> \in Seq(Token) /\ Len(kept \o <<a>>) = Len(kept) + 1
  BY <1>1, SnocFacts
<1>12. Meets(Cut(buckets, i, k), i + 1, kept \o <<a>>, <<z>> \o rest, n)
  BY ONLY <1>1, <1>4, <1>8, <1>9, <1>10, <1>11 DEF Meets
<1> QED
  BY ONLY <1>1, <1>2, <1>3, <1>4, <1>6, <1>8, <1>10, <1>12 DEF CutAt

\* The text behind a bucket that has been cut.
TextCut(done, x, c, z, f) ==
    /\ done \o (((x \o <<c>>) \o z) \o f) = (done \o (x \o <<c>>)) \o (z \o f)
    /\ done \o (x \o <<c>>) \in Token

\* The text, around that character,
LEMMA CutText ==
  ASSUME NEW done \in Token, NEW x \in Token, NEW c \in Sym, NEW z \in Token, NEW f \in Token
  PROVE  TextCut(done, x, c, z, f)
<1>1. PICK a \in Token : a = x \o <<c>>
  BY UnterminatedIs, << >> \in Seq(Token)
<1>2. (a \o z) \o f = a \o (z \o f) /\ z \o f \in Token
  <2>1. a \o (z \o f) = (a \o z) \o f /\ a \o z \in Token
    BY TextMoves
  <2>2. z \o f \in Token
    BY TextMoves, Zenon
  <2> QED
    BY <2>1, <2>2
<1>3. done \o (a \o (z \o f)) = (done \o a) \o (z \o f) /\ done \o a \in Token
  <2>1. PICK y \in Token : y = z \o f
    BY <1>2
  <2>2. done \o (a \o y) = (done \o a) \o y /\ done \o a \in Token
    BY TextMoves, Zenon
  <2> QED
    BY ONLY <2>1, <2>2
<1> QED
  BY ONLY <1>1, <1>2, <1>3 DEF TextCut

\* The text that is done and the one ahead, when p has been parted.
TextParted(text, done, x, c, z, rest) ==
    /\ text = (done \o (x \o <<c>>)) \o FlattenSeq(<<z>> \o rest)
    /\ done \o (x \o <<c>>) \in Token

\* and the same with what was ahead.
LEMMA PartedText ==
  ASSUME NEW text, NEW done \in Token, NEW p \in Token, NEW rest \in Seq(Token), NEW ahead,
         NEW x \in Token, NEW c \in Sym, NEW z \in Token,
         text = done \o FlattenSeq(ahead), ahead = <<p>> \o rest, p = (x \o <<c>>) \o z
  PROVE  TextParted(text, done, x, c, z, rest)
<1>1. FlattenSeq(ahead) = p \o FlattenSeq(rest) /\ FlattenSeq(rest) \in Token
  BY FlattenCons DEF Token
<1>2. FlattenSeq(<<z>> \o rest) = z \o FlattenSeq(rest)
  BY FlattenCons
<1>3. PICK f \in Token : f = FlattenSeq(rest)
  BY <1>1
<1>4. /\ done \o (((x \o <<c>>) \o z) \o f) = (done \o (x \o <<c>>)) \o (z \o f)
      /\ done \o (x \o <<c>>) \in Token
  <2>1. TextCut(done, x, c, z, f)
    BY CutText
  <2> QED
    BY ONLY <2>1 DEF TextCut
<1> QED
  BY ONLY <1>1, <1>2, <1>3, <1>4, text = done \o FlattenSeq(ahead), p = (x \o <<c>>) \o z
     DEF TextParted

\* The bucket in which the name ends.
LEMMA NameParted ==
  ASSUME NEW buckets, NEW i, NEW n, NEW nl, NEW vl, NEW len, NEW text, NEW done, NEW kept, NEW ahead,
         NEW p, NEW rest, NEW k, NEW x, NEW c, NEW z,
         ScanAt(buckets, i, n, "NAME", nl, vl, len, text, done, kept, ahead),
         AtPiece(buckets, i, kept, ahead, n, p, rest), Parted(p, {"="}, k, x, c, z)
  PROVE  ScanAt(Cut(buckets, i, k), i + 1, n, "VALUE", nl + k - 1, vl, len, text,
                done \o (x \o <<c>>), kept \o <<x \o <<c>>>>, <<z>> \o rest)
<1>1. Meets(buckets, i, kept, ahead, n) /\ done \in Token /\ text = done \o FlattenSeq(ahead)
      /\ WordKept("NAME", nl, vl, len, done, kept)
  BY DEF ScanAt
<1>2. CutAt(Cut(buckets, i, k), i, kept, n, x, c, z, rest)
  BY <1>1, CutIs, Zenon
<1>3. /\ Meets(Cut(buckets, i, k), i + 1, kept \o <<x \o <<c>>>>, <<z>> \o rest, n)
      /\ kept \in Seq(Token) /\ rest \in Seq(Piece) /\ x \in Token /\ c \in Sym /\ z \in Token
      /\ x \o <<c>> \in Token
  BY ONLY <1>2 DEF CutAt
<1>4. /\ p \in Token /\ rest \in Seq(Token) /\ ahead = <<p>> \o rest /\ p = (x \o <<c>>) \o z
      /\ c = "=" /\ Lacks(x, {"="}) /\ Len(x) = k - 1 /\ k \in Int
  BY <1>3, PieceFacts DEF AtPiece, Parted
<1>5. text = (done \o (x \o <<c>>)) \o FlattenSeq(<<z>> \o rest) /\ done \o (x \o <<c>>) \in Token
  <2>1. PICK d \in Token : d = done
    BY <1>1
  <2>2. TextParted(text, d, x, c, z, rest)
    <3>1. text = d \o FlattenSeq(ahead)
      BY <1>1, <2>1
    <3>2. /\ x \in Token /\ c \in Sym /\ z \in Token /\ p \in Token /\ rest \in Seq(Token)
          /\ ahead = <<p>> \o rest /\ p = (x \o <<c>>) \o z
      BY <1>3, <1>4
    <3> QED
      BY ONLY <3>1, <3>2, d \in Token, PartedText
  <2> QED
    BY ONLY <2>1, <2>2 DEF TextParted
<1>6. PICK r : r = Reading(done)
  OBVIOUS
<1>7. /\ r \in ReadState /\ r.in = "NAME" /\ nl = Len(r.name) /\ vl = Len(r.value)
      /\ len = Len(r.words) /\ FlattenSeq(kept) = r.name /\ r.name \in Token /\ r.value = << >>
  BY <1>1, <1>6, ReadingFacts DEF WordKept
<1>8. PICK s : s = Reading(done \o (x \o <<c>>))
  OBVIOUS
<1>9. s = [in |-> "VALUE", name |-> r.name \o x, value |-> << >>, words |-> r.words]
  BY <1>1, <1>3, <1>4, <1>6, <1>7, <1>8, ReadingEnds, ZenonT(40) DEF Token
<1>10. s.in = "VALUE" /\ s.name = r.name \o x /\ s.value = << >> /\ s.words = r.words
  BY ONLY <1>9
<1>11. Len(s.name) = nl + k - 1
  <2>1. Len(r.name \o x) = Len(r.name) + Len(x) /\ Len(r.name) \in Nat
    BY <1>3, <1>7, ConcatProperties, LenProperties DEF Token
  <2> QED
    BY ONLY <1>4, <1>7, <1>10, <2>1
<1>12. ValueKept(kept \o <<x \o <<c>>>>, kept, x, << >>, s.name, s.value)
  <2>1. kept \o <<x \o <<c>>>> \in Seq(Token)
    BY <1>3, SnocFacts
  <2>2. (kept \o <<x \o <<c>>>>) \o << >> = kept \o <<x \o <<c>>>>
    BY <2>1, ConcatEmptySeq
  <2>3. << >> \in Seq(Token)
    OBVIOUS
  <2> QED
    BY ONLY <1>3, <1>4, <1>7, <1>10, <2>2, <2>3, FlattenEmpty DEF ValueKept
<1>13. WordKept("VALUE", nl + k - 1, vl, len, done \o (x \o <<c>>), kept \o <<x \o <<c>>>>)
  BY ONLY <1>7, <1>8, <1>10, <1>11, <1>12 DEF WordKept
<1> QED
  BY ONLY <1>3, <1>5, <1>13 DEF ScanAt

\* The name and the value that have been kept, by their bytes.
LEMMA KeptBytes ==
  ASSUME NEW kept, NEW b, NEW x, NEW vb, NEW name, NEW value, ValueKept(kept, b, x, vb, name, value)
  PROVE  /\ Len(name) = Bytes(b) + Len(x) /\ Len(value) = Bytes(vb)
         /\ Len(kept) = Len(b) + Len(vb) + 1
         /\ Bytes(b) \in Nat /\ Bytes(vb) \in Nat /\ Len(x) \in Nat
         /\ Len(b) \in Nat /\ Len(vb) \in Nat
         /\ x \o <<"=">> \in Token
<1>1. /\ b \in Seq(Token) /\ x \in Token /\ vb \in Seq(Token)
      /\ kept = (b \o <<x \o <<"=">>>>) \o vb
      /\ FlattenSeq(b) \o x = name /\ FlattenSeq(vb) = value
  BY DEF ValueKept
<1>2. FlattenSeq(b) \in Seq(Sym) /\ Bytes(b) \in Nat /\ Bytes(vb) \in Nat
  BY <1>1, BytesConcat
<1>3. Len(name) = Bytes(b) + Len(x) /\ Len(x) \in Nat
  BY <1>1, <1>2, ConcatProperties, LenProperties DEF Bytes, Token
<1>4. Len(value) = Bytes(vb)
  BY <1>1 DEF Bytes
<1>5. x \o <<"=">> \in Token
  BY <1>1, UnterminatedIs, "=" \in Sym DEF Sym, Chars
<1>6. PICK l \in Token : l = x \o <<"=">>
  BY <1>5
<1>7. b \o <<l>> \in Seq(Token) /\ Len(b \o <<l>>) = Len(b) + 1 /\ Len(b) \in Nat /\ Len(vb) \in Nat
  BY <1>1, SnocFacts, LenProperties
<1>8. Len((b \o <<l>>) \o vb) = Len(b \o <<l>>) + Len(vb)
  BY <1>1, <1>7, ConcatProperties
<1> QED
  BY ONLY <1>1, <1>2, <1>3, <1>4, <1>5, <1>6, <1>7, <1>8

\* Four, put together from either side.
SameFour(a, b, c, d) == ((a \o b) \o c) \o d = a \o ((b \o c) \o d)

\* Four together.
LEMMA JoinFour ==
  ASSUME NEW a \in Seq(Token), NEW b \in Seq(Token), NEW c \in Seq(Token), NEW d \in Seq(Token)
  PROVE  SameFour(a, b, c, d)
<1>1. PICK y \in Seq(Token) : y = b \o c
  BY ConcatProperties
<1>2. (a \o b) \o c = a \o y
  BY <1>1, JoinThree
<1>3. (a \o y) \o d = a \o (y \o d)
  BY JoinThree, SMTT(30)
<1> QED
  BY ONLY <1>1, <1>2, <1>3 DEF SameFour

\* The word that ends with x \o <<c>>, its buckets, and those behind them.
LEMMA WordEnds ==
  ASSUME NEW kept, NEW b, NEW xn, NEW vb, NEW name, NEW value, ValueKept(kept, b, xn, vb, name, value),
         NEW x \in Token, NEW c \in Sym, NEW q \in Seq(Token)
  PROVE  /\ Found(Word((kept \o <<x \o <<c>>>>) \o q, Len(name), Len(value) + Len(x)),
                  name, value \o x, Len(kept) + 1)
<1>1. /\ b \in Seq(Token) /\ xn \in Token /\ vb \in Seq(Token)
      /\ kept = (b \o <<xn \o <<"=">>>>) \o vb
      /\ FlattenSeq(b) \o xn = name /\ FlattenSeq(vb) = value
  BY DEF ValueKept
<1>2. /\ Len(name) = Bytes(b) + Len(xn) /\ Len(value) = Bytes(vb)
      /\ Len(kept) = Len(b) + Len(vb) + 1 /\ Len(b) \in Nat /\ Len(vb) \in Nat
      /\ xn \o <<"=">> \in Token
  BY KeptBytes
<1>3. PICK bl \in Seq(Token) : bl = b \o <<xn \o <<"=">>>>
  BY <1>1, <1>2, SnocFacts
<1>4. x \o <<c>> \in Token
  BY UnterminatedIs, << >> \in Seq(Token)
<1>5. PICK o \in Seq(Token) : o = <<x \o <<c>>>>
  BY <1>4, OneToken
<1>6. ((bl \o vb) \o o) \o q = bl \o ((vb \o o) \o q)
  <2>1. SameFour(bl, vb, o, q)
    BY <1>1, JoinFour
  <2> QED
    BY ONLY <2>1 DEF SameFour
<1> DEFINE all == (kept \o <<x \o <<c>>>>) \o q
<1>7. all = (b \o <<xn \o <<"=">>>>) \o ((vb \o <<x \o <<c>>>>) \o q)
  BY ONLY <1>1, <1>3, <1>5, <1>6
<1>8. "=" \in Sym
  BY DEF Sym, Chars
<1> HIDE DEF all
<1>9. Laid(all, b, xn, "=", vb, x, c, q)
  BY <1>1, <1>7, <1>8 DEF Laid
<1>10. Found(Word(all, Bytes(b) + Len(xn), Bytes(vb) + Len(x)),
             FlattenSeq(b) \o xn, FlattenSeq(vb) \o x, Len(b) + Len(vb) + 2)
  BY <1>9, WordIs, Zenon
<1>11. Len(kept) + 1 = Len(b) + Len(vb) + 2
  BY ONLY <1>2
<1> QED
  BY ONLY <1>1, <1>2, <1>10, <1>11 DEF all

\* At the beginning of a word nothing is kept.
LEMMA NothingKept == << >> \in Seq(Token) /\ 1 = Len(<< >>) + 1
OBVIOUS

\* A word that has ended: what is found of it among the buckets, and where it
\* comes among the words of the text.
Ended(word, used, words, len, name, value) ==
    /\ Found(word, name, value, used)
    /\ <<name, value>> \in Pair
    /\ Follows(words, len, <<name, value>>)

\* The bucket in which a value ends.
LEMMA ValueParted ==
  ASSUME NEW buckets, NEW i, NEW n, NEW nl, NEW vl, NEW len, NEW text, NEW done, NEW kept, NEW ahead,
         NEW p, NEW rest, NEW k, NEW x, NEW c, NEW z,
         ScanAt(buckets, i, n, "VALUE", nl, vl, len, text, done, kept, ahead),
         AtPiece(buckets, i, kept, ahead, n, p, rest), Parted(p, {"&", ";"}, k, x, c, z)
  PROVE  /\ \E name, value : Ended(Word(Cut(buckets, i, k), nl, vl + k - 1), i,
                                   WordsOf(text, n), len, name, value)
         /\ ScanAt(SubSeq(Cut(buckets, i, k), i + 1, Len(Cut(buckets, i, k))), 1, n, "NAME", 0, 0,
                   len + 1, text, done \o (x \o <<c>>), << >>, <<z>> \o rest)
<1>1. Meets(buckets, i, kept, ahead, n) /\ done \in Token /\ text = done \o FlattenSeq(ahead)
      /\ WordKept("VALUE", nl, vl, len, done, kept)
  BY DEF ScanAt
<1> DEFINE cut == Cut(buckets, i, k)
           next == done \o (x \o <<c>>)
<1>2. CutAt(cut, i, kept, n, x, c, z, rest)
  BY <1>1, CutIs, Zenon
<1> HIDE DEF cut
<1>3. /\ Meets(cut, i + 1, kept \o <<x \o <<c>>>>, <<z>> \o rest, n)
      /\ cut = (kept \o <<x \o <<c>>>>) \o (<<z>> \o (rest \o Ending(n)))
      /\ kept \in Seq(Token) /\ rest \in Seq(Piece) /\ x \in Token /\ c \in Sym /\ z \in Token
      /\ x \o <<c>> \in Token /\ n \in Nat /\ i = Len(kept) + 1
      /\ <<z>> \o rest \in Seq(Piece) /\ rest \o Ending(n) \in Seq(Token)
  BY ONLY <1>2 DEF CutAt
<1>4. /\ p \in Token /\ rest \in Seq(Token) /\ ahead = <<p>> \o rest /\ p = (x \o <<c>>) \o z
      /\ c \in {"&", ";"} /\ Lacks(x, {"&", ";"}) /\ Len(x) = k - 1 /\ k \in Int
  <2>1. /\ p \in Piece /\ rest \in Seq(Piece) /\ ahead = <<p>> \o rest
    BY DEF AtPiece
  <2>2. /\ p = (x \o <<c>>) \o z /\ c \in {"&", ";"} /\ Lacks(x, {"&", ";"})
        /\ Len(x) = k - 1 /\ k \in 1 .. Len(p)
    BY DEF Parted
  <2>3. p \in Token /\ rest \in Seq(Token)
    BY <2>1, PieceFacts
  <2>4. k \in Int
    <3>1. k \in 1 .. Len(p)
      BY DEF Parted
    <3>2. Len(p) \in Nat
      BY <2>1, LenProperties DEF Piece
    <3> QED
      BY ONLY <3>1, <3>2
  <2> QED
    BY ONLY <2>1, <2>2, <2>3, <2>4
<1>5. text = next \o FlattenSeq(<<z>> \o rest) /\ next \in Token
  <2>1. PICK d \in Token : d = done
    BY <1>1
  <2>2. TextParted(text, d, x, c, z, rest)
    <3>1. text = d \o FlattenSeq(ahead)
      BY <1>1, <2>1
    <3>2. /\ x \in Token /\ c \in Sym /\ z \in Token /\ p \in Token /\ rest \in Seq(Token)
          /\ ahead = <<p>> \o rest /\ p = (x \o <<c>>) \o z
      BY <1>3, <1>4
    <3> QED
      BY ONLY <3>1, <3>2, d \in Token, PartedText
  <2> QED
    BY ONLY <2>1, <2>2 DEF TextParted
<1>6. PICK r : r = Reading(done)
  OBVIOUS
<1>7. /\ r \in ReadState /\ r.in = "VALUE" /\ nl = Len(r.name) /\ vl = Len(r.value)
      /\ len = Len(r.words) /\ r.name \in Token /\ r.value \in Token /\ r.words \in Seq(Pair)
      /\ len \in Nat /\ vl \in Nat
      /\ \E b, xn, vb : ValueKept(kept, b, xn, vb, r.name, r.value)
  BY <1>1, <1>6, ReadingFacts DEF WordKept
<1>8. PICK s : s = Reading(next)
  OBVIOUS
<1> DEFINE w == <<r.name, r.value \o x>>
<1>9. s = [in |-> "NAME", name |-> << >>, value |-> << >>, words |-> Append(r.words, w)]
  BY <1>1, <1>3, <1>4, <1>6, <1>7, <1>8, ReadingEnds, ZenonT(40) DEF Token
<1>10. r.value \o x \in Token /\ Len(r.value \o x) = vl + Len(x) /\ w \in Pair
  <2>1. r.value \o x \in Token /\ Len(r.value \o x) = vl + Len(x)
    BY <1>3, <1>7, ConcatProperties DEF Token
  <2> QED
    BY <1>7, <2>1 DEF Pair
<1>11. /\ Append(r.words, w) \in Seq(Pair) /\ Len(Append(r.words, w)) = len + 1
       /\ Append(r.words, w)[len + 1] = w
  <2> HIDE DEF w
  <2> QED
    BY <1>7, <1>10, AppendProperties, ZenonT(40)
<1>12. s.in = "NAME" /\ s.name = << >> /\ s.value = << >> /\ s.words = Append(r.words, w)
  BY ONLY <1>9
<1>13. Follows(WordsOf(text, n), len, w)
  <2>1. PICK f \in Token : f = FlattenSeq(<<z>> \o rest)
    <3>1. <<z>> \o rest \in Seq(Token)
      BY <1>3, <1>4, FlattenCons
    <3> QED
      BY <3>1, BytesConcat DEF Token
  <2>2. PICK d \in Token : d = next
    BY <1>5
  <2>3. Grows(Reading(d).words, WordsOf(d \o f, n))
    BY <1>3, WordsGrow
  <2>4. Grows(Append(r.words, w), WordsOf(text, n))
    BY ONLY <1>5, <1>8, <1>12, <2>1, <2>2, <2>3
  <2>5. Len(WordsOf(text, n)) \in Nat
    <3>1. WordsOf(d \o f, n) \in Seq(Pair)
      BY <1>3, TextMoves, WordsFacts
    <3> QED
      BY <1>5, <2>1, <2>2, <3>1, LenProperties
  <2>6. len + 1 \in 1 .. len + 1
    BY ONLY <1>7
  <2> HIDE DEF w
  <2> QED
    BY ONLY <1>7, <1>11, <2>4, <2>5, <2>6 DEF Grows, Follows
<1>14. Found(Word(cut, nl, vl + k - 1), r.name, r.value \o x, i)
  <2>1. PICK b, xn, vb : ValueKept(kept, b, xn, vb, r.name, r.value)
    BY <1>7
  <2>2. PICK q \in Seq(Token) : q = <<z>> \o (rest \o Ending(n))
    BY <1>3, ConsBehind
  <2>3. Found(Word((kept \o <<x \o <<c>>>>) \o q, Len(r.name), Len(r.value) + Len(x)),
              r.name, r.value \o x, Len(kept) + 1)
    BY <1>3, <2>1, WordEnds
  <2>4. vl + k - 1 = Len(r.value) + Len(x)
    BY ONLY <1>4, <1>7
  <2> QED
    BY ONLY <1>3, <1>7, <2>2, <2>3, <2>4
<1>15. SubSeq(cut, i + 1, Len(cut)) = << >> \o ((<<z>> \o rest) \o Ending(n))
  <2>1. PICK o \in Seq(Token) : o = kept \o <<x \o <<c>>>> /\ Len(o) = i
    BY <1>3, SnocFacts
  <2>2. PICK q \in Seq(Token) : q = <<z>> \o (rest \o Ending(n))
    BY <1>3, ConsBehind
  <2>3. SubSeq(o \o q, Len(o) + 1, Len(o \o q)) = q
    BY PartsOf
  <2>4. q = (<<z>> \o rest) \o Ending(n)
    <3>1. PICK oz \in Seq(Token) : oz = <<z>>
      BY <1>3, OneToken
    <3>2. PICK t \in Seq(Token) : t = Ending(n)
      BY <1>3, EndingIs
    <3>3. (oz \o rest) \o t = oz \o (rest \o t)
      BY <1>4, JoinTokens, ZenonT(40)
    <3> QED
      BY ONLY <2>2, <3>1, <3>2, <3>3
  <2>5. << >> \o q = q
    BY ConcatEmptySeq
  <2> QED
    BY ONLY <1>3, <2>1, <2>2, <2>3, <2>4, <2>5
<1>16. Meets(SubSeq(cut, i + 1, Len(cut)), 1, << >>, <<z>> \o rest, n)
  BY ONLY <1>3, <1>15, NothingKept DEF Meets
<1>17. WordKept("NAME", 0, 0, len + 1, next, << >>)
  <2>1. Len(<< >>) = 0
    OBVIOUS
  <2> HIDE DEF w, next
  <2> QED
    BY ONLY <1>8, <1>11, <1>12, <2>1, FlattenEmpty DEF WordKept
<1>18. ScanAt(SubSeq(cut, i + 1, Len(cut)), 1, n, "NAME", 0, 0, len + 1, text, next, << >>, <<z>> \o rest)
  BY ONLY <1>5, <1>16, <1>17 DEF ScanAt
<1>19. Ended(Word(cut, nl, vl + k - 1), i, WordsOf(text, n), len, r.name, r.value \o x)
  BY ONLY <1>10, <1>13, <1>14 DEF Ended
<1> QED
  BY <1>18, <1>19 DEF cut

\* The end of the stream in a name: there are no more words.
LEMMA NameAtEos ==
  ASSUME NEW buckets, NEW i, NEW n, NEW nl, NEW vl, NEW len, NEW text, NEW done, NEW kept, NEW ahead,
         ScanAt(buckets, i, n, "NAME", nl, vl, len, text, done, kept, ahead),
         ahead = << >>
  PROVE  Len(WordsOf(text, n)) = len
<1>1. /\ Meets(buckets, i, kept, ahead, n) /\ done \in Token /\ text = done \o << >>
      /\ WordKept("NAME", nl, vl, len, done, kept)
  BY FlattenEmpty DEF ScanAt
<1>2. text = done /\ n \in Nat
  BY <1>1, ConcatEmptySeq DEF Token, Meets
<1>3. Reading(done).in = "NAME" /\ len = Len(Reading(done).words)
  BY <1>1 DEF WordKept
<1>4. WordsOf(done, n) = Reading(done).words
  BY <1>1, <1>2, <1>3, WordsFacts
<1> QED
  BY ONLY <1>2, <1>3, <1>4

\* The end of the stream in a value: it ends the last word.
LEMMA ValueAtEos ==
  ASSUME NEW buckets, NEW i, NEW n, NEW nl, NEW vl, NEW len, NEW text, NEW done, NEW kept, NEW ahead,
         ScanAt(buckets, i, n, "VALUE", nl, vl, len, text, done, kept, ahead),
         AtEos(buckets, kept, ahead, n)
  PROVE  /\ \E name, value : Ended(Word(buckets, nl, vl), i, WordsOf(text, n), len, name, value)
         /\ Len(WordsOf(text, n)) = len + 1
<1>1. /\ Meets(buckets, i, kept, ahead, n) /\ done \in Token /\ text = done \o << >>
      /\ WordKept("VALUE", nl, vl, len, done, kept)
      /\ n > 0 /\ buckets = kept \o <<Eos>>
  BY FlattenEmpty DEF ScanAt, AtEos
<1>2. text = done /\ n \in Nat /\ kept \in Seq(Token) /\ i = Len(kept) + 1
  BY <1>1, ConcatEmptySeq DEF Token, Meets
<1>3. PICK r : r = Reading(done)
  OBVIOUS
<1>4. /\ r \in ReadState /\ r.in = "VALUE" /\ nl = Len(r.name) /\ vl = Len(r.value)
      /\ len = Len(r.words) /\ r.name \in Token /\ r.value \in Token /\ r.words \in Seq(Pair)
      /\ len \in Nat /\ vl \in Nat
      /\ \E b, xn, vb : ValueKept(kept, b, xn, vb, r.name, r.value)
  BY <1>1, <1>3, ReadingFacts DEF WordKept
<1> DEFINE w == <<r.name, r.value>>
<1>5. w \in Pair
  BY <1>4 DEF Pair
<1>6. WordsOf(text, n) = r.words \o <<w>>
  BY <1>1, <1>2, <1>3, <1>4, WordsFacts
<1> HIDE DEF w
<1>7. Len(WordsOf(text, n)) = len + 1 /\ WordsOf(text, n)[len + 1] = w
  <2>1. /\ Len(r.words \o <<w>>) = Len(r.words) + 1
        /\ \A j \in 1 .. Len(r.words) + 1 : (r.words \o <<w>>)[j] = IF j <= Len(r.words) THEN r.words[j] ELSE w
    BY <1>4, <1>5, SnocFacts
  <2>2. len + 1 \in 1 .. Len(r.words) + 1 /\ ~(len + 1 <= Len(r.words))
    BY <1>4
  <2> QED
    BY ONLY <1>4, <1>6, <2>1, <2>2
<1>8. Follows(WordsOf(text, n), len, w)
  BY ONLY <1>4, <1>7 DEF Follows
<1>9. Found(Word(buckets, nl, vl), r.name, r.value, i)
  <2>1. PICK b, xn, vb : ValueKept(kept, b, xn, vb, r.name, r.value)
    BY <1>4
  <2>2. << >> \in Token /\ "EOS" \in Sym /\ << >> \in Seq(Token)
    BY DEF Token, Sym
  <2>3. Found(Word((kept \o <<<< >> \o <<"EOS">>>>) \o << >>, Len(r.name), Len(r.value) + Len(<< >>)),
              r.name, r.value \o << >>, Len(kept) + 1)
    BY <2>1, <2>2, WordEnds
  <2>4. << >> \o <<"EOS">> = Eos
    <3>1. <<"EOS">> \in Seq(Sym)
      BY <2>2
    <3> QED
      BY <3>1, ConcatEmptySeq DEF Eos
  <2>5. kept \o <<Eos>> \in Seq(Token)
    BY <1>2, EndingIs, SnocFacts
  <2>6. (kept \o <<Eos>>) \o << >> = buckets
    BY <1>1, <2>5, ConcatEmptySeq
  <2>7. r.value \o << >> = r.value /\ Len(r.value) + Len(<< >>) = vl
    BY <1>4, ConcatEmptySeq DEF Token
  <2> QED
    BY ONLY <1>2, <1>4, <2>3, <2>4, <2>6, <2>7
<1>10. Ended(Word(buckets, nl, vl), i, WordsOf(text, n), len, r.name, r.value)
  BY ONLY <1>5, <1>8, <1>9 DEF Ended, w
<1> QED
  BY ONLY <1>7, <1>10

------------------------------------------------------------------------------
(* The invariant *)

Typed ==
    /\ status \in {"NAME", "VALUE", "COMPLETE", "ERROR"} /\ pc \in {"idle", "scan"}
    /\ table \in Seq(Entry)
    /\ body \in Bodies /\ fed \in 0 .. Len(body) /\ eos \in Nat
    /\ stopped \in BOOLEAN

\* In a call: the parser has kept the word it is in.
Scans(buckets, i, n, st, nl, vl, t, text) ==
    /\ st \in {"NAME", "VALUE"} /\ n <= 1
    /\ \E done, kept, ahead : ScanAt(buckets, i, n, st, nl, vl, Len(t), text, done, kept, ahead)

\* Between calls, as long as more may come.
Waits(buckets, st, nl, vl, t, text) ==
    buckets \in Seq(Token) /\ WordKept(st, nl, vl, Len(t), text, buckets)

\* A word has been refused: the one that follows those in the table.
Refused(t, words, r) ==
    \E w : Follows(words, Len(t), w) /\ WordStatus(w) # "SUCCESS" /\ r \in {WordStatus(w), "GENERAL"}

\* All words have been added, and the caller has been told.
AllAdded(t, words, r) == r = "SUCCESS" /\ Len(t) = Len(words)

Idles(buckets, n, st, nl, vl, t, r, text, stop) ==
    /\ st \in {"NAME", "VALUE"} /\ n = 0 => Waits(buckets, st, nl, vl, t, text)
    /\ st \in {"NAME", "VALUE"} /\ n > 0 => AllAdded(t, WordsOf(text, n), r)
    /\ st = "COMPLETE" => n > 0 /\ AllAdded(t, WordsOf(text, n), r)
    /\ st = "ERROR" /\ ~stop => Refused(t, WordsOf(text, n), r)
    /\ n > 1 => st = "ERROR" /\ r = "GENERAL"

Inv ==
    /\ Typed
    /\ Sound(table, WordsOf(Text, eos))
    /\ pc = "scan" => Scans(bb, e, eos, status, nlen, vlen, table, Text)
    /\ pc = "idle" => Idles(bb, eos, status, nlen, vlen, table, rv, Text, stopped)

\* The text is characters.
LEMMA TextIs ==
  ASSUME Typed PROVE Text \in Piece /\ Text \in Token
<1>1. body \in Seq(Chars) /\ fed \in 0 .. Len(body)
  BY BodyAssumption DEF Typed, Chars
<1>2. Text \in Piece
  <2>1. Len(body) \in Nat /\ fed \in Int /\ fed <= Len(body) /\ 1 \in Nat \ {0}
    BY <1>1, LenProperties
  <2> QED
    BY <1>1, <2>1, SubSeqType DEF Text, Piece
<1> QED
  BY <1>2, PieceFacts

\* A step of a call leaves the caller alone.
LEMMA SameCaller ==
  ASSUME caller' = caller
  PROVE  Text' = Text /\ eos' = eos /\ body' = body /\ fed' = fed
BY DEF caller, Text

\* Init.
LEMMA InitInv ==
  ASSUME Init PROVE Inv
<1>1. /\ bb = << >> /\ nlen = 0 /\ vlen = 0 /\ status = "NAME" /\ pc = "idle"
      /\ table = << >> /\ body \in Bodies /\ fed = 0 /\ eos = 0 /\ stopped = FALSE
  BY DEF Init
<1>2. Typed
  <2>1. Len(body) \in Nat
    BY <1>1, BodyAssumption, LenProperties
  <2>2. << >> \in Seq(Entry) /\ 0 \in Nat /\ 0 \in 0 .. Len(body)
    BY <2>1
  <2> QED
    BY ONLY <1>1, <2>2 DEF Typed
<1>3. Text = << >>
  BY <1>1, SubSeqEmpty DEF Text
<1>4. Reading(Text) = Read0
  BY <1>3, ReadingEmpty
<1>5. << >> \in Seq(Token) /\ Len(<< >>) = 0
  OBVIOUS
<1>6. Waits(bb, status, nlen, vlen, table, Text)
  BY <1>1, <1>4, <1>5, FlattenEmpty DEF Waits, WordKept, Read0
<1>7. Sound(table, WordsOf(Text, eos))
  <2>1. WordsOf(Text, eos) \in Seq(Pair)
    BY <1>1, <1>2, TextIs, WordsFacts
  <2>2. Len(WordsOf(Text, eos)) \in Nat
    BY <2>1, LenProperties
  <2> QED
    BY <1>1, <1>5, <2>2 DEF Sound
<1> QED
  BY ONLY <1>1, <1>2, <1>6, <1>7 DEF Inv, Idles

\* The brigade ends.
LEMMA BrigadeEndsInv ==
  ASSUME Inv, BrigadeEnds PROVE Inv'
<1>1. /\ pc = "scan" /\ e > Len(bb) /\ pc' = "idle" /\ rv' = "INCOMPLETE"
      /\ bb' = bb /\ nlen' = nlen /\ vlen' = vlen /\ status' = status
      /\ table' = table /\ caller' = caller /\ stopped' = stopped
  BY DEF BrigadeEnds, Return, ctx
<1>2. Text' = Text /\ eos' = eos /\ body' = body /\ fed' = fed
  BY <1>1, SameCaller
<1>3. Scans(bb, e, eos, status, nlen, vlen, table, Text)
  BY <1>1 DEF Inv
<1>4. PICK done, kept, ahead :
          ScanAt(bb, e, eos, status, nlen, vlen, Len(table), Text, done, kept, ahead)
  BY <1>3 DEF Scans
<1>5. /\ Meets(bb, e, kept, ahead, eos) /\ done \in Token /\ Text = done \o FlattenSeq(ahead)
      /\ WordKept(status, nlen, vlen, Len(table), done, kept)
  BY <1>4 DEF ScanAt
<1>6. ahead = << >> /\ eos = 0 /\ bb \in Seq(Token)
  BY <1>1, <1>5, AheadIs
<1>7. Text = done
  BY <1>5, <1>6, FlattenEmpty, ConcatEmptySeq DEF Token
<1>8. bb = kept
  <2>1. Ending(eos) = << >> /\ kept \in Seq(Token)
    BY <1>5, <1>6 DEF Ending, Meets
  <2>2. bb = kept \o (<< >> \o << >>)
    BY <1>5, <1>6, <2>1 DEF Meets
  <2>3. << >> \in Seq(Token) /\ << >> \o << >> = << >>
    BY ConcatEmptySeq
  <2> QED
    BY <2>1, <2>2, <2>3, ConcatEmptySeq
<1>9. Waits(bb', status', nlen', vlen', table', Text')
  BY ONLY <1>1, <1>2, <1>5, <1>6, <1>7, <1>8 DEF Waits
<1>10. status \in {"NAME", "VALUE"}
  BY <1>3 DEF Scans
<1>11. Idles(bb', eos', status', nlen', vlen', table', rv', Text', stopped')
  BY ONLY <1>1, <1>2, <1>6, <1>9, <1>10 DEF Idles
<1>12. Typed' /\ Sound(table', WordsOf(Text', eos'))
  BY <1>1, <1>2 DEF Inv, Typed
<1> QED
  BY ONLY <1>1, <1>11, <1>12 DEF Inv

\* A call that looks at a piece, and what of the state it looks at.
OnPiece(done, kept, ahead, p, rest) ==
    /\ ScanAt(bb, e, eos, status, nlen, vlen, Len(table), Text, done, kept, ahead)
    /\ AtPiece(bb, e, kept, ahead, eos, p, rest)
    /\ bb[e] = p /\ p \in Piece

\* A parser that scans a bucket other than the end has it ahead, and what was
\* kept behind it.
LEMMA PieceAhead ==
  ASSUME Inv, Scanning, bb[e] # Eos
  PROVE  /\ \E done, kept, ahead, p, rest : OnPiece(done, kept, ahead, p, rest)
         /\ pc = "scan" /\ status \in {"NAME", "VALUE"} /\ eos <= 1 /\ eos \in Nat
<1>1. pc = "scan" /\ e <= Len(bb)
  BY DEF Scanning
<1>2. Scans(bb, e, eos, status, nlen, vlen, table, Text) /\ eos \in Nat
  BY <1>1 DEF Inv, Typed
<1>3. PICK done, kept, ahead :
          ScanAt(bb, e, eos, status, nlen, vlen, Len(table), Text, done, kept, ahead)
  BY <1>2 DEF Scans
<1>4. Meets(bb, e, kept, ahead, eos)
  BY <1>3 DEF ScanAt
<1>5. PICK p, rest : AtPiece(bb, e, kept, ahead, eos, p, rest)
  BY <1>1, <1>4, AheadIs
<1>6. bb[e] = p /\ p \in Piece
  BY <1>5 DEF AtPiece
<1>7. OnPiece(done, kept, ahead, p, rest)
  BY ONLY <1>3, <1>5, <1>6 DEF OnPiece
<1> QED
  BY ONLY <1>1, <1>2, <1>7 DEF Scans

\* A call that looks at the end of the stream.
LEMMA EosAhead ==
  ASSUME Inv, Scanning, bb[e] = Eos
  PROVE  /\ \E done, kept, ahead :
              /\ ScanAt(bb, e, eos, status, nlen, vlen, Len(table), Text, done, kept, ahead)
              /\ AtEos(bb, kept, ahead, eos)
         /\ pc = "scan" /\ eos = 1
<1>1. pc = "scan" /\ e <= Len(bb)
  BY DEF Scanning
<1>2. Scans(bb, e, eos, status, nlen, vlen, table, Text) /\ eos \in Nat
  BY <1>1 DEF Inv, Typed
<1>3. PICK done, kept, ahead :
          ScanAt(bb, e, eos, status, nlen, vlen, Len(table), Text, done, kept, ahead)
  BY <1>2 DEF Scans
<1>4. Meets(bb, e, kept, ahead, eos)
  BY <1>3 DEF ScanAt
<1>5. AtEos(bb, kept, ahead, eos)
  BY <1>1, <1>4, AheadIs
<1>6. eos = 1
  <2>1. eos > 0 /\ eos <= 1
    BY <1>2, <1>5 DEF AtEos, Scans
  <2> QED
    BY <1>2, <2>1
<1> QED
  BY ONLY <1>1, <1>3, <1>5, <1>6

\* A step that stays in the call.
LEMMA StaysInCall ==
  ASSUME Inv, pc = "scan", pc' = "scan", table' = table, caller' = caller, stopped' = stopped,
         Scans(bb', e', eos, status', nlen', vlen', table, Text)
  PROVE  Inv'
<1>1. Text' = Text /\ eos' = eos /\ body' = body /\ fed' = fed
  BY SameCaller
<1>2. status' \in {"NAME", "VALUE"}
  BY DEF Scans
<1>3. Typed' /\ Sound(table', WordsOf(Text', eos'))
  BY <1>1, <1>2 DEF Inv, Typed
<1>4. Scans(bb', e', eos', status', nlen', vlen', table', Text')
  BY <1>1
<1> QED
  BY ONLY <1>3, <1>4, pc' = "scan" DEF Inv

\* A bucket that cannot be read, which ends the parser,
LEMMA ReadFailsInv ==
  ASSUME Inv, ReadFails PROVE Inv'
<1>1. /\ Scanning /\ bb[e] # Eos /\ pc' = "idle" /\ status' = "ERROR" /\ stopped' = TRUE
      /\ table' = table /\ caller' = caller
  BY DEF ReadFails, Return
<1>2. Text' = Text /\ eos' = eos /\ body' = body /\ fed' = fed
  BY <1>1, SameCaller
<1>3. eos <= 1 /\ eos \in Nat
  BY <1>1, PieceAhead
<1>4. Typed' /\ Sound(table', WordsOf(Text', eos'))
  BY <1>1, <1>2 DEF Inv, Typed
<1>5. Idles(bb', eos', status', nlen', vlen', table', rv', Text', stopped')
  <2>1. ~(eos' > 1)
    BY <1>2, <1>3
  <2> QED
    BY ONLY <1>1, <2>1 DEF Idles
<1> QED
  BY ONLY <1>1, <1>4, <1>5 DEF Inv

\* a bucket in which the name does not end,
LEMMA NameGoesOnInv ==
  ASSUME Inv, NameGoesOn PROVE Inv'
<1>1. /\ Scanning /\ bb[e] # Eos /\ status = "NAME" /\ Ends(bb[e], {"="}) = {}
      /\ nlen' = Counted(nlen, bb[e]) /\ e' = e + 1
      /\ bb' = bb /\ vlen' = vlen /\ status' = status /\ pc' = pc
      /\ table' = table /\ caller' = caller /\ stopped' = stopped
  BY DEF NameGoesOn
<1>2. PICK done, kept, ahead, p, rest : OnPiece(done, kept, ahead, p, rest)
  BY <1>1, PieceAhead
<1>3. pc = "scan" /\ eos <= 1
  BY <1>1, PieceAhead
<1>4. /\ ScanAt(bb, e, eos, "NAME", nlen, vlen, Len(table), Text, done, kept, ahead)
      /\ AtPiece(bb, e, kept, ahead, eos, p, rest) /\ bb[e] = p
  BY <1>1, <1>2 DEF OnPiece
<1>5. ScanAt(bb, e + 1, eos, "NAME", Counted(nlen, p), vlen, Len(table), Text, done \o p,
             kept \o <<p>>, rest)
  BY <1>1, <1>4, NameMore
<1>6. Scans(bb', e', eos, status', nlen', vlen', table, Text)
  BY ONLY <1>1, <1>3, <1>4, <1>5 DEF Scans
<1> QED
  BY <1>1, <1>3, <1>6, StaysInCall

\* one in which the value does not end,
LEMMA ValueGoesOnInv ==
  ASSUME Inv, ValueGoesOn PROVE Inv'
<1>1. /\ Scanning /\ bb[e] # Eos /\ status = "VALUE" /\ Ends(bb[e], {"&", ";"}) = {}
      /\ vlen' = Counted(vlen, bb[e]) /\ e' = e + 1
      /\ bb' = bb /\ nlen' = nlen /\ status' = status /\ pc' = pc
      /\ table' = table /\ caller' = caller /\ stopped' = stopped
  BY DEF ValueGoesOn
<1>2. PICK done, kept, ahead, p, rest : OnPiece(done, kept, ahead, p, rest)
  BY <1>1, PieceAhead
<1>3. pc = "scan" /\ eos <= 1
  BY <1>1, PieceAhead
<1>4. /\ ScanAt(bb, e, eos, "VALUE", nlen, vlen, Len(table), Text, done, kept, ahead)
      /\ AtPiece(bb, e, kept, ahead, eos, p, rest) /\ bb[e] = p
  BY <1>1, <1>2 DEF OnPiece
<1>5. ScanAt(bb, e + 1, eos, "VALUE", nlen, Counted(vlen, p), Len(table), Text, done \o p,
             kept \o <<p>>, rest)
  BY <1>1, <1>4, ValueMore
<1>6. Scans(bb', e', eos, status', nlen', vlen', table, Text)
  BY ONLY <1>1, <1>3, <1>4, <1>5 DEF Scans
<1> QED
  BY <1>1, <1>3, <1>6, StaysInCall

\* one with the "=" that ends the name,
LEMMA NameEndsInv ==
  ASSUME Inv, NameEnds PROVE Inv'
<1> DEFINE k == FirstEnd(bb[e], {"="})
<1>1. /\ Scanning /\ bb[e] # Eos /\ status = "NAME" /\ Ends(bb[e], {"="}) # {}
      /\ bb' = Cut(bb, e, k) /\ nlen' = nlen + k - 1 /\ e' = e + 1
      /\ vlen' = vlen /\ status' = "VALUE" /\ pc' = pc
      /\ table' = table /\ caller' = caller /\ stopped' = stopped
  BY SplitIsCut DEF NameEnds
<1>2. PICK done, kept, ahead, p, rest : OnPiece(done, kept, ahead, p, rest)
  BY <1>1, PieceAhead
<1>3. pc = "scan" /\ eos <= 1
  BY <1>1, PieceAhead
<1>4. /\ ScanAt(bb, e, eos, "NAME", nlen, vlen, Len(table), Text, done, kept, ahead)
      /\ AtPiece(bb, e, kept, ahead, eos, p, rest) /\ bb[e] = p /\ p \in Piece
  BY <1>1, <1>2 DEF OnPiece
<1>5. PICK x, c, z : Parted(p, {"="}, k, x, c, z)
  BY <1>1, <1>4, PieceParted
<1> HIDE DEF k
<1>6. ScanAt(Cut(bb, e, k), e + 1, eos, "VALUE", nlen + k - 1, vlen, Len(table), Text,
             done \o (x \o <<c>>), kept \o <<x \o <<c>>>>, <<z>> \o rest)
  BY <1>4, <1>5, NameParted
<1>7. Scans(bb', e', eos, status', nlen', vlen', table, Text)
  BY ONLY <1>1, <1>3, <1>6 DEF Scans
<1> QED
  BY <1>1, <1>3, <1>7, StaysInCall

\* the end of the stream inside a name,
LEMMA EosInNameInv ==
  ASSUME Inv, EosInName PROVE Inv'
<1>1. /\ Scanning /\ bb[e] = Eos /\ status = "NAME" /\ status' = status
      /\ pc' = "idle" /\ rv' = "SUCCESS"
      /\ table' = table /\ caller' = caller /\ stopped' = stopped
  BY DEF EosInName, Return
<1>2. Text' = Text /\ eos' = eos /\ body' = body /\ fed' = fed
  BY <1>1, SameCaller
<1>3. PICK done, kept, ahead :
          /\ ScanAt(bb, e, eos, status, nlen, vlen, Len(table), Text, done, kept, ahead)
          /\ AtEos(bb, kept, ahead, eos)
  BY <1>1, EosAhead
<1>4. eos = 1
  BY <1>1, EosAhead
<1>5. Len(WordsOf(Text, eos)) = Len(table)
  <2>1. ahead = << >>
    BY <1>3 DEF AtEos
  <2> QED
    BY <1>1, <1>3, <2>1, NameAtEos
<1>6. Typed' /\ Sound(table', WordsOf(Text', eos'))
  BY <1>1, <1>2 DEF Inv, Typed
<1>7. Idles(bb', eos', status', nlen', vlen', table', rv', Text', stopped')
  <2>1. eos' > 0 /\ eos' # 0 /\ ~(eos' > 1)
    BY <1>2, <1>4
  <2> QED
    BY ONLY <1>1, <1>2, <1>5, <2>1 DEF Idles, AllAdded
<1> QED
  BY ONLY <1>1, <1>6, <1>7 DEF Inv

\* A word of the text that has been decoded, and is good.
LEMMA GoodWord ==
  ASSUME Typed, NEW word, NEW used, NEW name, NEW value,
         Sound(table, WordsOf(Text, eos)),
         Ended(word, used, WordsOf(Text, eos), Len(table), name, value), word.status = "SUCCESS"
  PROVE  /\ Sound(Append(table, word.param), WordsOf(Text, eos))
         /\ Append(table, word.param) \in Seq(Entry)
         /\ Len(Append(table, word.param)) = Len(table) + 1
<1> DEFINE w == <<name, value>>
<1>1. /\ w \in Pair /\ Follows(WordsOf(Text, eos), Len(table), w)
      /\ WordStatus(w) = "SUCCESS" /\ word.param = Meaning(w)
  BY DEF Ended, Found
<1>2. table \in Seq(Entry) /\ WordsOf(Text, eos) \in Seq(Pair)
  BY TextIs, WordsFacts DEF Typed
<1> HIDE DEF w
<1>3. /\ Sound(Append(table, Meaning(w)), WordsOf(Text, eos))
      /\ Append(table, Meaning(w)) \in Seq(Entry)
      /\ Len(Append(table, Meaning(w))) = Len(table) + 1
  BY <1>1, <1>2, SoundSnoc
<1> QED
  BY ONLY <1>1, <1>3

\* a bucket with the "&" that ends the value,
LEMMA ValueEndsInv ==
  ASSUME Inv, ValueEnds PROVE Inv'
<1> DEFINE k == FirstEnd(bb[e], {"&", ";"})
           v == vlen + k - 1
           cut == Cut(bb, e, k)
           word == Word(cut, nlen, v)
<1>1. /\ Scanning /\ bb[e] # Eos /\ status = "VALUE" /\ Ends(bb[e], {"&", ";"}) # {}
      /\ caller' = caller
  BY DEF ValueEnds
<1>2. PICK answer \in HookAnswers :
            IF word.status = "SUCCESS" /\ answer = "SUCCESS"
            THEN /\ table' = Append(table, word.param)
                 /\ AfterWord(cut, word.used)
                 /\ status' = "NAME"
                 /\ e' = 1
                 /\ UNCHANGED <<pc, rv, stopped>>
            ELSE /\ bb' = cut /\ vlen' = v
                 /\ status' = "ERROR"
                 /\ Return(IF word.status # "SUCCESS" THEN word.status ELSE answer)
                 /\ stopped' = (stopped \/ word.status = "SUCCESS")
                 /\ UNCHANGED <<nlen, e, table>>
  BY SplitIsCut DEF ValueEnds
<1>3. PICK done, kept, ahead, p, rest : OnPiece(done, kept, ahead, p, rest)
  BY <1>1, PieceAhead
<1>4. pc = "scan" /\ eos <= 1 /\ eos \in Nat
  BY <1>1, PieceAhead
<1>5. /\ ScanAt(bb, e, eos, "VALUE", nlen, vlen, Len(table), Text, done, kept, ahead)
      /\ AtPiece(bb, e, kept, ahead, eos, p, rest) /\ bb[e] = p /\ p \in Piece
  BY <1>1, <1>3 DEF OnPiece
<1>6. PICK x, c, z : Parted(p, {"&", ";"}, k, x, c, z)
  BY <1>1, <1>5, PieceParted
<1>7. Text' = Text /\ eos' = eos /\ body' = body /\ fed' = fed
  BY <1>1, SameCaller
<1>8. Typed /\ Sound(table, WordsOf(Text, eos))
  BY DEF Inv
<1> HIDE DEF k
<1>9. /\ \E name, value : Ended(word, e, WordsOf(Text, eos), Len(table), name, value)
      /\ ScanAt(SubSeq(cut, e + 1, Len(cut)), 1, eos, "NAME", 0, 0,
                Len(table) + 1, Text, done \o (x \o <<c>>), << >>, <<z>> \o rest)
  BY <1>5, <1>6, ValueParted
<1> HIDE DEF word, cut, v
<1>10. PICK name, value : Ended(word, e, WordsOf(Text, eos), Len(table), name, value)
  BY <1>9
<1>11. CASE word.status = "SUCCESS" /\ answer = "SUCCESS"
  <2>1. /\ table' = Append(table, word.param) /\ status' = "NAME" /\ e' = 1
        /\ pc' = pc /\ stopped' = stopped
        /\ bb' = SubSeq(cut, word.used + 1, Len(cut)) /\ nlen' = 0 /\ vlen' = 0
    BY <1>2, <1>11 DEF AfterWord
  <2>2. word.used = e
    BY <1>10 DEF Ended, Found
  <2>3. /\ Sound(table', WordsOf(Text, eos)) /\ table' \in Seq(Entry) /\ Len(table') = Len(table) + 1
    BY <1>8, <1>10, <1>11, <2>1, GoodWord
  <2>4. Scans(bb', e', eos', status', nlen', vlen', table', Text')
    BY ONLY <1>4, <1>7, <1>9, <2>1, <2>2, <2>3 DEF Scans
  <2>5. Typed'
    BY <1>7, <1>8, <2>1, <2>3 DEF Typed
  <2> QED
    BY ONLY <1>4, <1>7, <2>1, <2>3, <2>4, <2>5 DEF Inv
<1>12. CASE ~(word.status = "SUCCESS" /\ answer = "SUCCESS")
  <2>1. /\ status' = "ERROR" /\ pc' = "idle" /\ table' = table
        /\ rv' = (IF word.status # "SUCCESS" THEN word.status ELSE answer)
        /\ stopped' = (stopped \/ word.status = "SUCCESS")
    BY <1>2, <1>12 DEF Return
  <2>2. ~stopped' => Refused(table, WordsOf(Text, eos), rv')
    <3>1. SUFFICES ASSUME word.status # "SUCCESS" PROVE Refused(table, WordsOf(Text, eos), rv')
      BY <2>1
    <3>2. Follows(WordsOf(Text, eos), Len(table), <<name, value>>)
          /\ word.status = WordStatus(<<name, value>>) /\ rv' = word.status
      BY <1>10, <2>1, <3>1 DEF Ended, Found
    <3> QED
      BY ONLY <3>1, <3>2 DEF Refused
  <2>3. Idles(bb', eos', status', nlen', vlen', table', rv', Text', stopped')
    <3>1. ~(eos' > 1)
      BY <1>4, <1>7
    <3> QED
      BY ONLY <1>7, <2>1, <2>2, <3>1 DEF Idles
  <2>4. Typed'
    BY <1>7, <1>8, <2>1 DEF Typed
  <2> QED
    BY ONLY <1>7, <1>8, <2>1, <2>3, <2>4 DEF Inv
<1> QED
  BY <1>11, <1>12

\* the end of the stream inside a value,
LEMMA EosInValueInv ==
  ASSUME Inv, EosInValue PROVE Inv'
<1> DEFINE word == Word(bb, nlen, vlen)
<1>1. Scanning /\ bb[e] = Eos /\ status = "VALUE" /\ caller' = caller
  BY DEF EosInValue, caller
<1>2. PICK answer \in HookAnswers :
          LET s == IF word.status # "SUCCESS" THEN word.status ELSE answer IN
            /\ table' = IF s = "SUCCESS" THEN Append(table, word.param) ELSE table
            /\ AfterLastWord(s)
            /\ Return(s)
            /\ stopped' = (stopped \/ (word.status = "SUCCESS" /\ s # "SUCCESS"))
  BY DEF EosInValue
<1>3. PICK done, kept, ahead :
          /\ ScanAt(bb, e, eos, status, nlen, vlen, Len(table), Text, done, kept, ahead)
          /\ AtEos(bb, kept, ahead, eos)
  BY <1>1, EosAhead
<1>4. eos = 1 /\ pc = "scan"
  BY <1>1, EosAhead
<1>5. /\ \E name, value : Ended(word, e, WordsOf(Text, eos), Len(table), name, value)
      /\ Len(WordsOf(Text, eos)) = Len(table) + 1
  BY <1>1, <1>3, ValueAtEos
<1>6. Text' = Text /\ eos' = eos /\ body' = body /\ fed' = fed
  BY <1>1, SameCaller
<1>7. Typed /\ Sound(table, WordsOf(Text, eos))
  BY DEF Inv
<1> HIDE DEF word
<1>8. PICK name, value : Ended(word, e, WordsOf(Text, eos), Len(table), name, value)
  BY <1>5
<1>9. ~(eos' > 1) /\ eos' > 0 /\ eos' # 0
  BY <1>4, <1>6
<1>10. CASE word.status = "SUCCESS" /\ answer = "SUCCESS"
  <2>1. /\ table' = Append(table, word.param) /\ status' = "COMPLETE" /\ pc' = "idle"
        /\ rv' = "SUCCESS" /\ stopped' = (stopped \/ FALSE)
    BY <1>2, <1>10 DEF AfterLastWord, Return
  <2>2. /\ Sound(table', WordsOf(Text, eos)) /\ table' \in Seq(Entry) /\ Len(table') = Len(table) + 1
    BY <1>7, <1>8, <1>10, <2>1, GoodWord
  <2>3. Idles(bb', eos', status', nlen', vlen', table', rv', Text', stopped')
    BY ONLY <1>5, <1>6, <1>9, <2>1, <2>2 DEF Idles, AllAdded
  <2>4. Typed'
    BY <1>6, <1>7, <2>1, <2>2 DEF Typed
  <2> QED
    BY ONLY <1>6, <2>1, <2>2, <2>3, <2>4 DEF Inv
<1>11. CASE ~(word.status = "SUCCESS" /\ answer = "SUCCESS")
  <2>1. /\ status' = "ERROR" /\ pc' = "idle" /\ table' = table
        /\ rv' = (IF word.status # "SUCCESS" THEN word.status ELSE answer)
        /\ stopped' = (stopped \/ word.status = "SUCCESS")
    <3>1. CASE word.status = "SUCCESS" /\ answer # "SUCCESS"
      BY <1>2, <3>1 DEF AfterLastWord, Return
    <3>2. CASE word.status # "SUCCESS"
      BY <1>2, <3>2 DEF AfterLastWord, Return
    <3> QED
      BY <1>11, <3>1, <3>2
  <2>2. ~stopped' => Refused(table, WordsOf(Text, eos), rv')
    <3>1. SUFFICES ASSUME word.status # "SUCCESS" PROVE Refused(table, WordsOf(Text, eos), rv')
      BY <2>1
    <3>2. Follows(WordsOf(Text, eos), Len(table), <<name, value>>)
          /\ word.status = WordStatus(<<name, value>>) /\ rv' = word.status
      BY <1>8, <2>1, <3>1 DEF Ended, Found
    <3> QED
      BY ONLY <3>1, <3>2 DEF Refused
  <2>3. Idles(bb', eos', status', nlen', vlen', table', rv', Text', stopped')
    BY ONLY <1>6, <1>9, <2>1, <2>2 DEF Idles
  <2>4. Typed'
    BY <1>6, <1>7, <2>1 DEF Typed
  <2> QED
    BY ONLY <1>6, <1>7, <2>1, <2>3, <2>4 DEF Inv
<1> QED
  BY <1>10, <1>11

\* What is fed goes behind the text.
LEMMA FedText ==
  ASSUME NEW b \in Seq(Chars), NEW f \in 0 .. Len(b), NEW k \in 0 .. Len(b) - f
  PROVE  /\ SubSeq(b, f + 1, f + k) \in Piece
         /\ SubSeq(b, 1, f + k) = SubSeq(b, 1, f) \o SubSeq(b, f + 1, f + k)
         /\ f + k \in 0 .. Len(b)
         /\ k = 0 => SubSeq(b, f + 1, f + k) = << >>
<1>1. Len(b) \in Nat
  BY LenProperties
<1>2. f + k \in 0 .. Len(b) /\ f + 1 \in Nat \ {0} /\ f + k \in Int /\ f + k <= Len(b)
  BY <1>1
<1>3. SubSeq(b, f + 1, f + k) \in Seq(Chars)
  BY <1>2, SubSeqType
<1>4. SubSeq(b, 1, f) \o SubSeq(b, f + 1, f + k) = SubSeq(b, 1, f + k)
  <2>1. 1 \in 1 .. Len(b) + 1 /\ f \in 1 - 1 .. Len(b) /\ f + k \in f .. Len(b)
    BY <1>1, <1>2
  <2> QED
    BY <2>1, ConcatAdjacentSubSeq
<1>5. ASSUME k = 0 PROVE SubSeq(b, f + 1, f + k) = << >>
  <2>1. Len(SubSeq(b, f + 1, f + k)) = 0
    <3>1. Len(SubSeq(b, f + 1, f + k)) = IF f + 1 <= f + k THEN (f + k) - (f + 1) + 1 ELSE 0
      BY <1>2, SubSeqType
    <3>2. ~(f + 1 <= f + k)
      BY <1>5
    <3> QED
      BY ONLY <3>1, <3>2
  <2> QED
    BY <1>3, <2>1, EmptySeq
<1> QED
  BY <1>2, <1>3, <1>4, <1>5 DEF Piece

\* The buckets that are fed.
LEMMA FedBuckets ==
  ASSUME NEW piece \in Piece, NEW k \in Nat, k = 0 => piece = << >>
  PROVE  /\ (IF k > 0 THEN <<piece>> ELSE << >>) \in Seq(Piece)
         /\ FlattenSeq(IF k > 0 THEN <<piece>> ELSE << >>) = piece
<1>1. piece \in Token
  BY PieceFacts
<1>2. <<piece>> \in Seq(Piece) /\ << >> \in Seq(Piece)
  OBVIOUS
<1>3. FlattenSeq(<<piece>>) = piece
  BY <1>1, FlattenOne DEF Token
<1> QED
  BY <1>2, <1>3, FlattenEmpty

\* A call that is refused, because the parser has failed.
LEMMA RefusedStays ==
  ASSUME Inv, NEW x \in Token, NEW n \in Nat, eos = 0
  PROVE  /\ Sound(table, WordsOf(Text \o x, n))
         /\ \A r : Refused(table, WordsOf(Text, eos), r) => Refused(table, WordsOf(Text \o x, n), "GENERAL")
<1>1. Text \in Token /\ table \in Seq(Entry) /\ Sound(table, WordsOf(Text, eos)) /\ Len(table) \in Nat
  BY TextIs, LenProperties DEF Inv, Typed
<1>2. PICK y \in Token : y = Text \o x
  BY <1>1, TextMoves
<1>3. WordsOf(Text, eos) \in Seq(Pair) /\ WordsOf(y, n) \in Seq(Pair)
  BY <1>1, WordsFacts, eos \in Nat
<1>4. Grows(WordsOf(Text, eos), WordsOf(y, n))
  BY <1>1, <1>2, WordsGrow
<1>5. Sound(table, WordsOf(y, n))
  BY <1>1, <1>3, <1>4, SoundGrows
<1>6. ASSUME NEW r, Refused(table, WordsOf(Text, eos), r) PROVE Refused(table, WordsOf(y, n), "GENERAL")
  <2>1. PICK w : Follows(WordsOf(Text, eos), Len(table), w) /\ WordStatus(w) # "SUCCESS"
    BY <1>6 DEF Refused
  <2>2. Follows(WordsOf(y, n), Len(table), w)
    BY <1>1, <1>3, <1>4, <2>1, FollowsGrows
  <2> QED
    BY ONLY <2>1, <2>2 DEF Refused
<1> QED
  BY ONLY <1>2, <1>5, <1>6

\* a call that brings more of the body,
LEMMA FeedInv ==
  ASSUME Inv, Feed PROVE Inv'
<1>1. PICK k \in 0 .. Len(body) - fed, end \in BOOLEAN :
        /\ Run((IF k > 0 THEN <<SubSeq(body, fed + 1, fed + k)>> ELSE << >>)
               \o IF end THEN <<Eos>> ELSE << >>)
        /\ fed' = fed + k
        /\ eos' = IF end THEN 1 ELSE 0
  BY DEF Feed
<1>2. eos = 0 /\ body' = body /\ Typed
  BY DEF Feed, Inv
<1>3. body \in Seq(Chars) /\ fed \in 0 .. Len(body)
  BY <1>2, BodyAssumption DEF Typed, Chars
<1> DEFINE piece == SubSeq(body, fed + 1, fed + k)
           ahead == IF k > 0 THEN <<piece>> ELSE << >>
           chunk == ahead \o Ending(eos')
<1>4. /\ piece \in Piece /\ SubSeq(body, 1, fed + k) = Text \o piece
      /\ fed + k \in 0 .. Len(body) /\ (k = 0 => piece = << >>)
  BY <1>3, FedText DEF Text
<1>5. Text' = Text \o piece
  BY <1>1, <1>2, <1>4 DEF Text
<1> HIDE DEF piece
<1>6. k \in Nat /\ ahead \in Seq(Piece) /\ FlattenSeq(ahead) = piece
  <2>1. k \in Nat
    OBVIOUS
  <2> QED
    BY <1>4, <2>1, FedBuckets
<1>7. eos' \in {0, 1} /\ eos' \in Nat /\ Ending(eos') = IF end THEN <<Eos>> ELSE << >>
  BY <1>1 DEF Ending
<1>8. Run(chunk)
  BY <1>1, <1>7 DEF piece
<1> HIDE DEF ahead, chunk
<1>9. /\ pc = "idle" /\ nlen' = nlen /\ vlen' = vlen /\ status' = status /\ table' = table
      /\ stopped' = stopped
  BY <1>8 DEF Run
<1>10. Idles(bb, eos, status, nlen, vlen, table, rv, Text, stopped)
  BY <1>9 DEF Inv
<1>11. piece \in Token /\ Text \in Token
  BY <1>2, <1>4, PieceFacts, TextIs
<1>12. Sound(table', WordsOf(Text', eos'))
  BY <1>2, <1>5, <1>7, <1>9, <1>11, RefusedStays
<1>13. status # "COMPLETE"
  BY ONLY <1>2, <1>10 DEF Idles
<1>14. CASE status = "ERROR"
  <2>1. pc' = "idle" /\ rv' = "GENERAL"
    BY <1>8, <1>14 DEF Run, Return
  <2>2. ~stopped => Refused(table, WordsOf(Text \o piece, eos'), "GENERAL")
    <3>1. ~stopped => Refused(table, WordsOf(Text, eos), rv)
      BY ONLY <1>10, <1>14 DEF Idles
    <3> QED
      BY <1>2, <1>7, <1>11, <3>1, RefusedStays
  <2>3. ~(eos' > 1)
    BY <1>7
  <2>4. Idles(bb', eos', status', nlen', vlen', table', rv', Text', stopped')
    BY ONLY <1>5, <1>9, <1>14, <2>1, <2>2, <2>3 DEF Idles
  <2>5. Typed'
    BY <1>1, <1>2, <1>4, <1>7, <1>9, <2>1 DEF Typed
  <2> QED
    BY ONLY <1>12, <2>1, <2>4, <2>5 DEF Inv
<1>15. CASE status # "ERROR"
  <2>1. status \in {"NAME", "VALUE"}
    BY <1>2, <1>13, <1>15 DEF Typed
  <2>2. bb' = bb \o chunk /\ e' = Len(bb) + 1 /\ pc' = "scan"
    BY <1>8, <2>1 DEF Run
  <2>3. Waits(bb, status, nlen, vlen, table, Text)
    BY ONLY <1>2, <1>10, <2>1 DEF Idles
  <2>4. Meets(bb', e', bb, ahead, eos')
    BY ONLY <1>6, <1>7, <2>2, <2>3 DEF Meets, Waits, chunk
  <2>5. ScanAt(bb', e', eos', status, nlen, vlen, Len(table), Text', Text, bb, ahead)
    BY ONLY <1>5, <1>6, <1>11, <2>3, <2>4 DEF ScanAt, Waits
  <2>6. eos' <= 1
    BY <1>7
  <2>7. Scans(bb', e', eos', status', nlen', vlen', table', Text')
    BY ONLY <1>9, <2>1, <2>5, <2>6 DEF Scans
  <2>8. Typed'
    BY <1>1, <1>2, <1>4, <1>7, <1>9, <2>2 DEF Typed
  <2> QED
    BY ONLY <1>12, <2>2, <2>7, <2>8 DEF Inv
<1> QED
  BY <1>14, <1>15

\* and one after the end keep the invariant.
LEMMA FeedEosAgainInv ==
  ASSUME Inv, FeedEosAgain PROVE Inv'
<1>1. /\ eos \in {1, 2} /\ rv = "INCOMPLETE" /\ Run(<<Eos>>) /\ eos' = eos + 1
      /\ body' = body /\ fed' = fed
  BY DEF FeedEosAgain
<1>2. /\ pc = "idle" /\ nlen' = nlen /\ vlen' = vlen /\ status' = status /\ table' = table
      /\ stopped' = stopped
  BY <1>1 DEF Run
<1>3. Text' = Text
  BY <1>1 DEF Text
<1>4. Typed /\ Sound(table, WordsOf(Text, eos))
      /\ Idles(bb, eos, status, nlen, vlen, table, rv, Text, stopped)
  BY <1>2 DEF Inv
<1>5. eos > 0 /\ eos' > 0 /\ eos' \in Nat /\ eos' # 0
  BY <1>1
<1>6. status = "ERROR"
  <2>1. status \in {"NAME", "VALUE", "COMPLETE", "ERROR"}
    BY <1>4 DEF Typed
  <2>2. ~AllAdded(table, WordsOf(Text, eos), rv)
    BY <1>1 DEF AllAdded
  <2> QED
    BY ONLY <1>4, <1>5, <2>1, <2>2 DEF Idles
<1>7. pc' = "idle" /\ rv' = "GENERAL"
  BY <1>1, <1>6 DEF Run, Return
<1>8. WordsOf(Text, eos') = WordsOf(Text, eos)
  BY <1>5 DEF WordsOf
<1>9. Idles(bb', eos', status', nlen', vlen', table', rv', Text', stopped')
  <2>1. ~stopped => Refused(table, WordsOf(Text, eos), "GENERAL")
    <3>1. ~stopped => Refused(table, WordsOf(Text, eos), rv)
      BY ONLY <1>4, <1>6 DEF Idles
    <3> QED
      BY ONLY <3>1 DEF Refused
  <2> QED
    BY ONLY <1>2, <1>3, <1>6, <1>7, <1>8, <2>1 DEF Idles
<1>10. Typed'
  BY <1>1, <1>2, <1>4, <1>5, <1>7 DEF Typed
<1>11. Sound(table', WordsOf(Text', eos'))
  BY ONLY <1>2, <1>3, <1>4, <1>8
<1> QED
  BY ONLY <1>7, <1>9, <1>10, <1>11 DEF Inv

\* The words in front of the first bad one.
GoodAre(words, g) ==
    /\ g \in Nat /\ g <= Len(words)
    /\ Expected(words) = [j \in 1 .. g |-> Meaning(words[j])]
    /\ BadWords(words) = {} => g = Len(words)
    /\ BadWords(words) # {} => /\ g = FirstBad(words) - 1 /\ g < Len(words)
                               /\ WordStatus(words[g + 1]) # "SUCCESS"
    /\ \A j \in 1 .. g : j \notin BadWords(words)
    /\ \A j \in 1 .. Len(words) : j \in BadWords(words) <=> WordStatus(words[j]) # "SUCCESS"

\* Every sequence of words has some in front of the first bad one.
LEMMA GoodWordsAre ==
  ASSUME NEW words \in Seq(Pair)
  PROVE  \E g : GoodAre(words, g)
<1>1. Len(words) \in Nat /\ DOMAIN words = 1 .. Len(words)
  BY LenProperties
<1>2. /\ BadWords(words) \in SUBSET (1 .. Len(words))
      /\ \A j \in 1 .. Len(words) : j \in BadWords(words) <=> WordStatus(words[j]) # "SUCCESS"
  BY <1>1 DEF BadWords
<1>3. CASE BadWords(words) = {}
  <2>1. GoodWords(words) = words
    BY <1>3 DEF GoodWords
  <2>2. Expected(words) = [j \in 1 .. Len(words) |-> Meaning(words[j])]
    BY <1>1, <2>1 DEF Expected, Meaning
  <2>3. GoodAre(words, Len(words))
    BY <1>1, <1>2, <1>3, <2>2 DEF GoodAre
  <2> QED
    BY <2>3
<1>4. CASE BadWords(words) # {}
  <2> DEFINE f == FirstBad(words)
  <2>1. f \in BadWords(words) /\ \A j \in BadWords(words) : f <= j
    <3>1. \E i \in BadWords(words) : \A j \in BadWords(words) : i <= j
      BY <1>1, <1>2, <1>4, LeastIn
    <3> QED
      BY <3>1 DEF FirstBad
  <2>2. GoodWords(words) = SubSeq(words, 1, f - 1)
    BY <1>4 DEF GoodWords
  <2> HIDE DEF f
  <2>3. f \in 1 .. Len(words) /\ f - 1 \in Nat /\ f - 1 < Len(words) /\ (f - 1) + 1 = f
    BY <1>1, <1>2, <2>1
  <2>4. SubSeq(words, 1, f - 1) \in Seq(Pair) /\ Len(SubSeq(words, 1, f - 1)) = f - 1
    <3>1. 1 \in Nat \ {0} /\ f - 1 \in Int /\ f - 1 <= Len(words)
      BY <1>1, <2>3
    <3>2. /\ SubSeq(words, 1, f - 1) \in Seq(Pair)
          /\ Len(SubSeq(words, 1, f - 1)) = IF 1 <= f - 1 THEN (f - 1) - 1 + 1 ELSE 0
      BY <3>1, SubSeqType
    <3> QED
      BY <2>3, <3>2
  <2>5. DOMAIN GoodWords(words) = 1 .. f - 1
    BY <2>2, <2>4, LenProperties
  <2>6. Expected(words) = [j \in 1 .. f - 1 |-> Meaning(words[j])]
    BY <2>5 DEF Expected, Meaning
  <2>7. \A j \in 1 .. f - 1 : j \notin BadWords(words)
    BY <2>1, <2>3
  <2>8. WordStatus(words[(f - 1) + 1]) # "SUCCESS"
    BY <1>2, <2>1, <2>3
  <2>9. GoodAre(words, f - 1)
    BY <1>2, <1>4, <2>3, <2>6, <2>7, <2>8 DEF GoodAre, f
  <2> QED
    BY <2>9
<1> QED
  BY <1>3, <1>4

\* A sound table has no more than the good words, and is part of what is expected.
LEMMA SoundFacts ==
  ASSUME NEW t \in Seq(Entry), NEW words \in Seq(Pair), NEW g, Sound(t, words), GoodAre(words, g)
  PROVE  /\ Len(t) \in Nat /\ g \in Nat /\ Len(t) <= g /\ g <= Len(words) /\ Len(words) \in Nat
         /\ IsPrefix(t, Expected(words))
         /\ Len(t) = g => t = Expected(words)
<1>1. /\ Len(t) \in Nat /\ Len(words) \in Nat /\ g \in Nat /\ g <= Len(words)
      /\ Len(t) <= Len(words)
      /\ \A j \in 1 .. Len(t) : WordStatus(words[j]) = "SUCCESS" /\ t[j] = Meaning(words[j])
      /\ Expected(words) = [j \in 1 .. g |-> Meaning(words[j])]
  BY LenProperties DEF Sound, GoodAre
<1>2. Len(t) <= g
  <2>1. SUFFICES ASSUME g < Len(t) PROVE FALSE
    BY <1>1
  <2>2. g + 1 \in 1 .. Len(t) /\ g # Len(words)
    BY <1>1, <2>1
  <2>3. WordStatus(words[g + 1]) # "SUCCESS"
    BY <2>2 DEF GoodAre
  <2> QED
    BY <1>1, <2>2, <2>3
<1>3. \A j \in 1 .. g : Meaning(words[j]) \in Seq(Token) \X Seq(Token)
  <2>1. ASSUME NEW j \in 1 .. g PROVE Meaning(words[j]) \in Seq(Token) \X Seq(Token)
    <3>1. words[j] \in Pair
      BY <1>1, ElementOfSeq
    <3>2. PICK w \in Pair : w = words[j]
      BY <3>1
    <3>3. w[1] \in Seq(Sym) /\ w[2] \in Seq(Sym)
      BY DEF Pair, Token
    <3>4. UrlDecode(w[1]) \in Decoding /\ UrlDecode(w[2]) \in Decoding
      BY <3>3, UrlDecodeType
    <3> QED
      BY <3>2, <3>4 DEF Meaning, Decoding
  <2> QED
    BY <2>1
<1>4. PICK ex : ex = Expected(words)
  OBVIOUS
<1>5. ex \in Seq(Entry) /\ Len(ex) = g /\ \A j \in 1 .. g : ex[j] = Meaning(words[j])
  <2>1. \A j \in 1 .. g : Meaning(words[j]) \in Entry
    BY <1>3 DEF Entry
  <2>2. ex \in [1 .. g -> Entry] /\ \A j \in 1 .. g : ex[j] = Meaning(words[j])
    BY ONLY <1>1, <1>4, <2>1
  <2> QED
    BY ONLY <1>1, <2>2
<1>6. \A j \in 1 .. Len(t) : j \in 1 .. g /\ t[j] = ex[j]
  BY ONLY <1>1, <1>2, <1>5
<1>7. Len(t) = g => t = ex
  BY ONLY <1>1, <1>5, <1>6, SeqEqual, t \in Seq(Entry)
<1>8. IsPrefix(t, ex)
  <2>1. SubSeq(t, 1, Len(t)) = t
    BY SubSeqFull
  <2>2. SubSeq(ex, 1, Len(t)) = t
    <3>1. 1 \in Nat \ {0} /\ Len(t) \in Int /\ Len(t) <= Len(ex)
      BY <1>1, <1>2, <1>5
    <3>2. /\ SubSeq(ex, 1, Len(t)) \in Seq(Entry)
          /\ Len(SubSeq(ex, 1, Len(t))) = IF 1 <= Len(t) THEN Len(t) - 1 + 1 ELSE 0
          /\ \A i \in 1 .. Len(t) - 1 + 1 : SubSeq(ex, 1, Len(t))[i] = ex[1 + i - 1]
      BY <1>5, <3>1, SubSeqType
    <3>3. PICK s \in Seq(Entry) : s = SubSeq(ex, 1, Len(t))
      BY <3>2
    <3>4. Len(s) = Len(t)
      BY ONLY <1>1, <3>2, <3>3
    <3>5. \A i \in 1 .. Len(s) : s[i] = t[i]
      <4>1. \A i \in 1 .. Len(t) : i \in 1 .. Len(t) - 1 + 1 /\ 1 + i - 1 = i
        BY <1>1
      <4> QED
        BY ONLY <1>6, <3>2, <3>3, <3>4, <4>1
    <3>6. s = t
      BY ONLY <3>4, <3>5, SeqEqual, s \in Seq(Entry), t \in Seq(Entry)
    <3> QED
      BY <3>3, <3>6
  <2> QED
    BY ONLY <1>2, <1>5, <2>1, <2>2 DEF IsPrefix
<1> QED
  BY ONLY <1>1, <1>2, <1>4, <1>7, <1>8

\* All words are in the table: none is bad.
LEMMA AllGood ==
  ASSUME NEW t \in Seq(Entry), NEW words \in Seq(Pair), Sound(t, words), Len(t) = Len(words)
  PROVE  t = Expected(words) /\ BadWords(words) = {}
<1>1. PICK g : GoodAre(words, g)
  BY GoodWordsAre
<1>2. /\ Len(t) \in Nat /\ g \in Nat /\ Len(t) <= g /\ g <= Len(words) /\ Len(words) \in Nat
      /\ Len(t) = g => t = Expected(words)
  BY <1>1, SoundFacts
<1>3. g = Len(words)
  BY <1>2
<1>4. BadWords(words) = {}
  BY <1>1, <1>2, <1>3 DEF GoodAre
<1> QED
  BY <1>2, <1>3, <1>4

\* A word has been refused: it is the first bad one, and the table has all in
\* front of it.
LEMMA OneBad ==
  ASSUME NEW t \in Seq(Entry), NEW words \in Seq(Pair), NEW r, Sound(t, words), Refused(t, words, r)
  PROVE  /\ t = Expected(words) /\ BadWords(words) # {}
         /\ r \in {WordStatus(words[FirstBad(words)]), "GENERAL"}
<1>1. PICK g : GoodAre(words, g)
  BY GoodWordsAre
<1>2. /\ Len(t) \in Nat /\ g \in Nat /\ Len(t) <= g /\ g <= Len(words) /\ Len(words) \in Nat
      /\ Len(t) = g => t = Expected(words)
  BY <1>1, SoundFacts
<1>3. PICK w : /\ Len(t) < Len(words) /\ words[Len(t) + 1] = w
               /\ WordStatus(w) # "SUCCESS" /\ r \in {WordStatus(w), "GENERAL"}
  BY DEF Refused, Follows
<1>4. Len(t) + 1 \in BadWords(words)
  <2>1. Len(t) + 1 \in 1 .. Len(words)
    BY <1>2, <1>3
  <2> QED
    BY <1>1, <1>3, <2>1 DEF GoodAre
<1>5. g = Len(t)
  <2>1. ~(Len(t) + 1 \in 1 .. g)
    BY <1>1, <1>4 DEF GoodAre
  <2> QED
    BY <1>2, <2>1
<1>6. g = FirstBad(words) - 1 /\ g + 1 = FirstBad(words)
  <2>1. g = FirstBad(words) - 1 /\ FirstBad(words) \in BadWords(words) /\ BadWords(words) \subseteq 1 .. Len(words)
    <3>1. BadWords(words) \in SUBSET (1 .. Len(words))
      BY LenProperties DEF BadWords
    <3>2. \E i \in BadWords(words) : \A j \in BadWords(words) : i <= j
      BY <1>2, <1>4, <3>1, LeastIn
    <3>3. FirstBad(words) \in BadWords(words)
      BY <3>2 DEF FirstBad
    <3> QED
      BY <1>1, <1>4, <3>1, <3>3 DEF GoodAre
  <2> QED
    BY <1>2, <2>1
<1> QED
  BY <1>2, <1>3, <1>4, <1>5, <1>6

\* The invariant says what it is for.
LEMMA InvParsed ==
  ASSUME Inv PROVE ParsedAsText
<1> DEFINE words == WordsOf(Text, eos)
<1>1. /\ table \in Seq(Entry) /\ words \in Seq(Pair) /\ Sound(table, words) /\ eos \in Nat
      /\ status \in {"NAME", "VALUE", "COMPLETE", "ERROR"}
  BY TextIs, WordsFacts DEF Inv, Typed
<1>2. pc = "idle" => Idles(bb, eos, status, nlen, vlen, table, rv, Text, stopped)
  BY DEF Inv
<1>3. words = Words
  BY WordsIs
<1>4. Text \in Token
  BY TextIs DEF Inv
<1>5. eos = 0 => words = Reading(Text).words
  BY <1>1, <1>4, WordsFacts
<1> HIDE DEF words
<1>6. IsPrefix(table, Expected(words))
  <2>1. PICK g : GoodAre(words, g)
    BY <1>1, GoodWordsAre
  <2> QED
    BY <1>1, <2>1, SoundFacts
<1>7. ASSUME pc = "idle", ~stopped
      PROVE  /\ table = Expected(words)
             /\ (status = "ERROR") = (BadWords(words) # {})
             /\ status = "ERROR" => rv \in {WordStatus(words[FirstBad(words)]), "GENERAL"}
  <2>1. Idles(bb, eos, status, nlen, vlen, table, rv, Text, stopped)
    BY <1>2, <1>7
  <2>2. CASE status = "ERROR"
    <3>1. Refused(table, words, rv)
      BY ONLY <1>7, <2>1, <2>2 DEF Idles, words
    <3> QED
      BY <1>1, <2>2, <3>1, OneBad
  <2>3. CASE status # "ERROR"
    <3>1. Len(table) = Len(words)
      <4>1. CASE status = "COMPLETE"
        BY ONLY <2>1, <4>1 DEF Idles, words, AllAdded
      <4>2. CASE status \in {"NAME", "VALUE"} /\ eos = 0
        <5>1. Len(table) = Len(Reading(Text).words)
          BY ONLY <2>1, <4>2 DEF Idles, Waits, WordKept
        <5> QED
          BY <1>5, <4>2, <5>1
      <4>3. CASE status \in {"NAME", "VALUE"} /\ eos > 0
        BY ONLY <2>1, <4>3 DEF Idles, words, AllAdded
      <4> QED
        BY <1>1, <2>3, <4>1, <4>2, <4>3
    <3> QED
      BY <1>1, <2>3, <3>1, AllGood
  <2> QED
    BY <2>2, <2>3
<1>8. pc = "idle" /\ eos > 1 => rv # "INCOMPLETE"
  BY ONLY <1>2 DEF Idles
<1> QED
  BY ONLY <1>3, <1>6, <1>7, <1>8 DEF ParsedAsText

\* Every step keeps the invariant.
LEMMA StepInv ==
  ASSUME Inv, [Next]_vars PROVE Inv'
<1>1. CASE BrigadeEnds
  BY <1>1, BrigadeEndsInv
<1>2. CASE ReadFails
  BY <1>2, ReadFailsInv
<1>3. CASE NameGoesOn
  BY <1>3, NameGoesOnInv
<1>4. CASE NameEnds
  BY <1>4, NameEndsInv
<1>5. CASE ValueGoesOn
  BY <1>5, ValueGoesOnInv
<1>6. CASE ValueEnds
  BY <1>6, ValueEndsInv
<1>7. CASE EosInName
  BY <1>7, EosInNameInv
<1>8. CASE EosInValue
  BY <1>8, EosInValueInv
<1>9. CASE Feed
  BY <1>9, FeedInv
<1>10. CASE FeedEosAgain
  BY <1>10, FeedEosAgainInv
<1>11. CASE UNCHANGED vars
  <2>1. /\ bb' = bb /\ e' = e /\ eos' = eos /\ status' = status /\ nlen' = nlen /\ vlen' = vlen
        /\ pc' = pc /\ table' = table /\ rv' = rv /\ body' = body /\ fed' = fed
        /\ stopped' = stopped
    BY <1>11 DEF vars, ctx, caller
  <2>2. Text' = Text
    BY <2>1 DEF Text
  <2> QED
    BY <2>1, <2>2 DEF Inv, Typed
<1> QED
  BY <1>1, <1>2, <1>3, <1>4, <1>5, <1>6, <1>7, <1>8, <1>9, <1>10, <1>11 DEF Next, Step

------------------------------------------------------------------------------
(* Progress *)

\* The bytes ahead of the bucket at i.
AheadOf(buckets, i) == Bytes(SubSeq(buckets, i, Len(buckets)))

\* What is ahead, counted.
LEMMA AheadBytes ==
  ASSUME NEW buckets, NEW i, NEW kept, NEW ahead, NEW n, Meets(buckets, i, kept, ahead, n)
  PROVE  AheadOf(buckets, i) = Bytes(ahead \o Ending(n))
<1>1. SubSeq(buckets, i, Len(buckets)) = ahead \o Ending(n)
  BY AheadIs
<1> QED
  BY ONLY <1>1 DEF AheadOf

\* Those of a piece and of what is behind it.
PieceBytes(p, rest, n) ==
    /\ Bytes((<<p>> \o rest) \o Ending(n)) = Len(p) + Bytes(rest \o Ending(n))
    /\ Len(p) \in Nat /\ Bytes(rest \o Ending(n)) \in Nat

\* What is ahead is less behind a bucket, and behind a part of one.
LEMMA PieceBytesAre ==
  ASSUME NEW p \in Piece, NEW rest \in Seq(Piece), NEW n \in Nat
  PROVE  PieceBytes(p, rest, n)
<1>1. p \in Token /\ rest \in Seq(Token)
  BY PieceFacts
<1>2. PICK t \in Seq(Token) : t = Ending(n)
  BY EndingIs
<1>3. PICK o \in Seq(Token) : o = <<p>>
  BY <1>1, OneToken
<1>4. PICK y \in Seq(Token) : y = rest \o t
  BY <1>1, JoinTokens
<1>5. (o \o rest) \o t = o \o y
  <2>1. (o \o rest) \o t = o \o (rest \o t)
    BY <1>1, JoinTokens
  <2> QED
    BY ONLY <1>4, <2>1
<1>6. Bytes(o \o y) = Bytes(o) + Bytes(y) /\ Bytes(y) \in Nat
  BY BytesConcat
<1>7. Bytes(o) = Len(p)
  <2>1. FlattenSeq(<<p>>) = p
    BY <1>1, FlattenOne DEF Token
  <2> QED
    BY ONLY <1>3, <2>1 DEF Bytes
<1>8. Len(p) \in Nat
  BY <1>1, LenProperties DEF Token
<1> QED
  BY ONLY <1>2, <1>3, <1>4, <1>5, <1>6, <1>7, <1>8 DEF PieceBytes

\* One step of a call is nearer to its end than another.
Nearer(b1, i1, b0, i0) ==
    \/ AheadOf(b1, i1) < AheadOf(b0, i0)
    \/ AheadOf(b1, i1) = AheadOf(b0, i0) /\ Len(b1) - i1 < Len(b0) - i0

\* To go on behind a piece.
LEMMA GoesOnNearer ==
  ASSUME NEW buckets, NEW i, NEW kept, NEW ahead, NEW n, NEW p, NEW rest,
         Meets(buckets, i, kept, ahead, n), AtPiece(buckets, i, kept, ahead, n, p, rest)
  PROVE  Nearer(buckets, i + 1, buckets, i)
<1>1. p \in Piece /\ rest \in Seq(Piece) /\ n \in Nat /\ ahead = <<p>> \o rest
  BY DEF AtPiece, Meets
<1>2. AheadOf(buckets, i) = Bytes(ahead \o Ending(n))
  BY AheadBytes
<1>3. Passed(buckets, i, kept, ahead, n, p, rest)
  BY MeetsNext, Zenon
<1>4. Meets(buckets, i + 1, kept \o <<p>>, rest, n)
  BY ONLY <1>3 DEF Passed
<1>5. AheadOf(buckets, i + 1) = Bytes(rest \o Ending(n))
  BY <1>4, AheadBytes
<1>6. PieceBytes(p, rest, n)
  BY <1>1, PieceBytesAre
<1>7. AheadOf(buckets, i) = Len(p) + AheadOf(buckets, i + 1) /\ Len(p) \in Nat
      /\ AheadOf(buckets, i + 1) \in Nat
  BY ONLY <1>1, <1>2, <1>5, <1>6 DEF PieceBytes
<1>8. i \in Nat /\ Len(buckets) \in Nat
  BY AheadIs
<1> QED
  BY ONLY <1>7, <1>8 DEF Nearer

\* To go on behind what has been cut off a piece.
LEMMA CutNearer ==
  ASSUME NEW buckets, NEW i, NEW kept, NEW ahead, NEW n, NEW p, NEW rest, NEW C, NEW k, NEW x, NEW c,
         NEW z, Meets(buckets, i, kept, ahead, n), AtPiece(buckets, i, kept, ahead, n, p, rest),
         Parted(p, C, k, x, c, z),
         NEW b1, NEW i1, NEW kept1, Meets(b1, i1, kept1, <<z>> \o rest, n)
  PROVE  AheadOf(b1, i1) < AheadOf(buckets, i)
<1>1. p \in Piece /\ rest \in Seq(Piece) /\ n \in Nat /\ ahead = <<p>> \o rest
  BY DEF AtPiece, Meets
<1>2. z \in Piece /\ x \in Token /\ c \in Sym /\ p = (x \o <<c>>) \o z
  BY PieceFacts DEF Parted, Sym
<1>3. Len(p) > Len(z) /\ Len(z) \in Nat
  <2>1. PICK a \in Token : a = x \o <<c>> /\ Len(a) = Len(x) + 1 /\ Len(x) \in Nat
    BY <1>2, UnterminatedIs, << >> \in Seq(Token)
  <2>2. z \in Token
    BY <1>2, PieceFacts
  <2>3. Len(a \o z) = Len(a) + Len(z) /\ Len(z) \in Nat
    BY <2>2, ConcatProperties, LenProperties DEF Token
  <2> QED
    BY ONLY <1>2, <2>1, <2>3
<1>4. AheadOf(buckets, i) = Bytes(ahead \o Ending(n))
  BY AheadBytes
<1>5. AheadOf(b1, i1) = Bytes((<<z>> \o rest) \o Ending(n))
  BY AheadBytes
<1>6. PieceBytes(p, rest, n) /\ PieceBytes(z, rest, n)
  BY <1>1, <1>2, PieceBytesAre
<1> QED
  BY ONLY <1>1, <1>3, <1>4, <1>5, <1>6 DEF PieceBytes

\* A step that stays in the call.
LEMMA StepAdvances ==
  ASSUME Inv, Next, pc = "scan", pc' = "scan"
  PROVE  Nearer(bb', e', bb, e)
<1>1. CASE NameGoesOn \/ ValueGoesOn
  <2>1. Scanning /\ bb[e] # Eos /\ bb' = bb /\ e' = e + 1
    BY <1>1 DEF NameGoesOn, ValueGoesOn
  <2>2. PICK done, kept, ahead, p, rest : OnPiece(done, kept, ahead, p, rest)
    BY <2>1, PieceAhead
  <2>3. Meets(bb, e, kept, ahead, eos) /\ AtPiece(bb, e, kept, ahead, eos, p, rest)
    BY ONLY <2>2 DEF OnPiece, ScanAt
  <2>4. Nearer(bb, e + 1, bb, e)
    BY <2>3, GoesOnNearer
  <2> QED
    BY ONLY <2>1, <2>4
<1>2. CASE NameEnds
  <2> DEFINE k == FirstEnd(bb[e], {"="})
  <2>1. /\ Scanning /\ bb[e] # Eos /\ status = "NAME" /\ Ends(bb[e], {"="}) # {}
        /\ bb' = Cut(bb, e, k) /\ e' = e + 1
    BY <1>2, SplitIsCut DEF NameEnds
  <2>2. PICK done, kept, ahead, p, rest : OnPiece(done, kept, ahead, p, rest)
    BY <2>1, PieceAhead
  <2>3. /\ Meets(bb, e, kept, ahead, eos) /\ AtPiece(bb, e, kept, ahead, eos, p, rest)
        /\ bb[e] = p /\ p \in Piece
    BY ONLY <2>2 DEF OnPiece, ScanAt
  <2>4. PICK x, c, z : Parted(p, {"="}, k, x, c, z)
    BY <2>1, <2>3, PieceParted
  <2> HIDE DEF k
  <2>5. CutAt(Cut(bb, e, k), e, kept, eos, x, c, z, rest)
    BY <2>3, <2>4, CutIs, Zenon
  <2>6. Meets(bb', e', kept \o <<x \o <<c>>>>, <<z>> \o rest, eos)
    BY ONLY <2>1, <2>5 DEF CutAt
  <2>7. AheadOf(bb', e') < AheadOf(bb, e)
    BY <2>3, <2>4, <2>6, CutNearer
  <2> QED
    BY ONLY <2>7 DEF Nearer
<1>3. CASE ValueEnds
  <2> DEFINE k == FirstEnd(bb[e], {"&", ";"})
             v == vlen + k - 1
             cut == Cut(bb, e, k)
             word == Word(cut, nlen, v)
  <2>1. /\ Scanning /\ bb[e] # Eos /\ status = "VALUE" /\ Ends(bb[e], {"&", ";"}) # {}
    BY <1>3 DEF ValueEnds
  <2>2. AfterWord(cut, word.used) /\ e' = 1
    BY <1>3, SplitIsCut DEF ValueEnds, Return
  <2>3. PICK done, kept, ahead, p, rest : OnPiece(done, kept, ahead, p, rest)
    BY <2>1, PieceAhead
  <2>4. /\ Meets(bb, e, kept, ahead, eos) /\ AtPiece(bb, e, kept, ahead, eos, p, rest)
        /\ bb[e] = p /\ p \in Piece
        /\ ScanAt(bb, e, eos, "VALUE", nlen, vlen, Len(table), Text, done, kept, ahead)
    BY ONLY <2>1, <2>3 DEF OnPiece, ScanAt
  <2>5. PICK x, c, z : Parted(p, {"&", ";"}, k, x, c, z)
    BY <2>1, <2>4, PieceParted
  <2> HIDE DEF k
  <2>6. /\ \E name, value : Ended(word, e, WordsOf(Text, eos), Len(table), name, value)
        /\ ScanAt(SubSeq(cut, e + 1, Len(cut)), 1, eos, "NAME", 0, 0,
                  Len(table) + 1, Text, done \o (x \o <<c>>), << >>, <<z>> \o rest)
    BY <2>4, <2>5, ValueParted
  <2> HIDE DEF word, cut, v
  <2>7. word.used = e
    BY ONLY <2>6 DEF Ended, Found
  <2>8. bb' = SubSeq(cut, e + 1, Len(cut))
    BY ONLY <2>2, <2>7 DEF AfterWord
  <2>9. Meets(bb', e', << >>, <<z>> \o rest, eos)
    BY ONLY <2>2, <2>6, <2>8 DEF ScanAt
  <2>10. AheadOf(bb', e') < AheadOf(bb, e)
    BY <2>4, <2>5, <2>9, CutNearer
  <2> QED
    BY ONLY <2>10 DEF Nearer
<1>4. CASE BrigadeEnds \/ ReadFails \/ EosInName \/ EosInValue
  BY <1>4 DEF BrigadeEnds, ReadFails, EosInName, EosInValue, Return
<1>5. CASE Feed \/ FeedEosAgain
  BY <1>5 DEF Feed, FeedEosAgain, Run
<1> QED
  BY <1>1, <1>2, <1>3, <1>4, <1>5 DEF Next, Step

------------------------------------------------------------------------------

\* In every state the buckets kept are those of the word the parser is in, its
\* counts are their bytes, and the table holds the words in front of it.
THEOREM WordInBuckets == Spec => []Inv
<1>1. Init => Inv
  BY InitInv
<1>2. Inv /\ [Next]_vars => Inv'
  BY StepInv
<1> QED
  BY <1>1, <1>2, PTL DEF Spec

\* Whatever the body, however it is cut and whatever the hooks answer, the
\* parameters are those of the text, and a caller that reads on is told to stop.
THEOREM TextParsed == Spec => []ParsedAsText
<1>1. Inv => ParsedAsText
  BY InvParsed
<1> QED
  BY <1>1, WordInBuckets, PTL

\* Every step of a call brings it nearer to its end, so a call on a brigade ends.
THEOREM CallsAdvance == Spec => CallAdvances
<1>1. Inv /\ [Next]_vars =>
        [pc = "scan" /\ pc' = "scan" =>
           \/ Ahead' < Ahead
           \/ Ahead' = Ahead /\ Len(bb') - e' < Len(bb) - e]_vars
  <2>1. ASSUME Inv, Next, pc = "scan", pc' = "scan"
        PROVE  \/ Ahead' < Ahead
               \/ Ahead' = Ahead /\ Len(bb') - e' < Len(bb) - e
    <3>1. Nearer(bb', e', bb, e)
      BY <2>1, StepAdvances
    <3>2. Ahead = AheadOf(bb, e) /\ Ahead' = AheadOf(bb', e')
      BY DEF Ahead, AheadOf
    <3> QED
      BY ONLY <3>1, <3>2 DEF Nearer
  <2> QED
    BY <2>1
<1> QED
  BY <1>1, WordInBuckets, PTL DEF Spec, CallAdvances

==============================================================================
