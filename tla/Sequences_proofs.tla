-------------------------- MODULE Sequences_proofs --------------------------
(***************************************************************************)
(* What the proofs of the other modules use and the libraries do not say:  *)
(* induction over numbers and over sequences without an operator           *)
(* parameter, what FlattenSeq makes of sequences of sequences, parts of    *)
(* sequences, and the largest of some positions.                           *)
(***************************************************************************)
EXTENDS Integers, Sequences, SequencesExt, FiniteSets, SequenceTheorems, FiniteSetTheorems,
        WellFoundedInduction, TLAPS

\* A set that holds 0, and n + 1 whenever it holds n, holds every number.
LEMMA SetInduction ==
  ASSUME NEW T, 0 \in T, \A n \in Nat : n \in T => n + 1 \in T
  PROVE  Nat \subseteq T
<1> SUFFICES ASSUME Nat \ T # {} PROVE FALSE
  OBVIOUS
<1> DEFINE R == OpToRel(<, Nat)
<1>1. \E x \in Nat \ T : \A y \in Nat \ T : <<y, x>> \notin R
  <2>1. IsWellFoundedOn(R, Nat) /\ Nat \ T \subseteq Nat
    BY NatLessThanWellFounded
  <2> HIDE DEF R
  <2> QED
    BY <2>1, WFMin
<1>2. PICK x \in Nat \ T : \A y \in Nat \ T : <<y, x>> \notin R
  BY <1>1
<1>3. \A y \in Nat \ T : ~(y < x)
  BY <1>2 DEF OpToRel
<1>4. x - 1 \in Nat /\ x - 1 < x
  <2>1. x # 0
    OBVIOUS
  <2> QED
    BY <2>1
<1>5. x - 1 \in T
  BY <1>3, <1>4
<1> QED
  BY <1>4, <1>5

\* The largest of some of the first n positions.
LEMMA MaxIs ==
  ASSUME NEW n \in Nat, NEW S \in SUBSET (1 .. n), S # {}
  PROVE  Max(S) \in S /\ \A y \in S : y <= Max(S)
<1> DEFINE Bounded == {m \in Nat : \A R \in SUBSET (1 .. m) : R # {} => \E x \in R : \A y \in R : x >= y}
<1>1. 0 \in Bounded
  <2>1. 1 .. 0 = {}
    OBVIOUS
  <2> QED
    BY <2>1
<1>2. ASSUME NEW m \in Nat, m \in Bounded PROVE m + 1 \in Bounded
  <2>1. ASSUME NEW R \in SUBSET (1 .. m + 1), R # {} PROVE \E x \in R : \A y \in R : x >= y
    <3>1. CASE m + 1 \in R
      BY <3>1
    <3>2. CASE m + 1 \notin R
      <4>1. R \in SUBSET (1 .. m)
        BY <3>2
      <4> QED
        BY <1>2, <2>1, <4>1
    <3> QED
      BY <3>1, <3>2
  <2> QED
    BY <2>1
<1> HIDE DEF Bounded
<1>3. Nat \subseteq Bounded
  BY <1>1, <1>2, SetInduction
<1>4. \E x \in S : \A y \in S : x >= y
  BY <1>3 DEF Bounded
<1>5. Max(S) \in S /\ \A y \in S : Max(S) >= y
  BY <1>4 DEF Max
<1> QED
  BY <1>5

\* The largest of the first n positions is n.
LEMMA MaxOfInterval ==
  ASSUME NEW n \in Nat \ {0}
  PROVE  Max(1 .. n) = n
<1>1. Max(1 .. n) \in 1 .. n /\ \A y \in 1 .. n : y <= Max(1 .. n)
  <2>1. 1 .. n \in SUBSET (1 .. n) /\ 1 .. n # {}
    OBVIOUS
  <2> QED
    BY <2>1, MaxIs
<1> QED
  BY <1>1

\* Where a sum that starts below k passes k.
LEMMA Crossing ==
  ASSUME NEW n \in Nat, NEW t \in [0 .. n -> Nat], NEW k \in Nat, t[0] <= k
  PROVE  \E m \in 0 .. n : t[m] <= k /\ (m < n => t[m + 1] > k)
<1> SUFFICES ASSUME \A m \in 0 .. n : t[m] <= k => m < n /\ t[m + 1] <= k
             PROVE  FALSE
  <2>1. \A m \in 0 .. n : m < n => t[m + 1] \in Nat
    OBVIOUS
  <2> QED
    BY <2>1
<1> DEFINE Below == {m \in Nat : m <= n /\ t[m] <= k}
<1>1. 0 \in Below
  OBVIOUS
<1>2. ASSUME NEW m \in Nat, m \in Below PROVE m + 1 \in Below
  BY <1>2
<1> HIDE DEF Below
<1>3. Nat \subseteq Below
  BY <1>1, <1>2, SetInduction
<1>4. n + 1 \in Below
  BY <1>3
<1> QED
  BY <1>4 DEF Below

------------------------------------------------------------------------------
(* Parts of sequences. *)

\* Part of a sequence: what it is over, how long, and what is where.
LEMMA SubSeqType ==
  ASSUME NEW S, NEW s \in Seq(S), NEW m \in Nat \ {0}, NEW n \in Int, n <= Len(s)
  PROVE  /\ SubSeq(s, m, n) \in Seq(S)
         /\ Len(SubSeq(s, m, n)) = IF m <= n THEN n - m + 1 ELSE 0
         /\ \A i \in 1 .. n - m + 1 : SubSeq(s, m, n)[i] = s[m + i - 1]
<1>1. \A i \in m .. n : s[i] \in S
  BY ElementOfSeq, LenProperties
<1> QED
  BY <1>1, SubSeqProperties

\* A sequence is its front and its rest.
LEMMA InTwo ==
  ASSUME NEW S, NEW s \in Seq(S), NEW n \in 0 .. Len(s)
  PROVE  s = SubSeq(s, 1, n) \o SubSeq(s, n + 1, Len(s))
<1>1. Len(s) \in Nat
  BY LenProperties
<1>2. SubSeq(s, 1, n) \o SubSeq(s, n + 1, Len(s)) = SubSeq(s, 1, Len(s))
  <2>1. 1 \in 1 .. Len(s) + 1 /\ n \in 1 - 1 .. Len(s) /\ Len(s) \in n .. Len(s)
    BY <1>1
  <2> QED
    BY <2>1, ConcatAdjacentSubSeq
<1> QED
  BY <1>2, SubSeqFull

\* A sequence is what is before a position, what is there and what is behind.
LEMMA SplitAt ==
  ASSUME NEW S, NEW s \in Seq(S), NEW n \in 1 .. Len(s)
  PROVE  s = SubSeq(s, 1, n - 1) \o (<<s[n]>> \o SubSeq(s, n + 1, Len(s)))
<1>1. Len(s) \in Nat
  BY LenProperties
<1>2. SubSeq(s, n, Len(s)) = <<s[n]>> \o SubSeq(s, n + 1, Len(s))
  BY <1>1, SubSeqRecursiveFirst, Len(s) \in n .. Len(s)
<1>3. n - 1 \in 0 .. Len(s) /\ (n - 1) + 1 = n
  BY <1>1
<1>4. s = SubSeq(s, 1, n - 1) \o SubSeq(s, n, Len(s))
  BY <1>3, InTwo
<1> QED
  BY <1>2, <1>4

\* A sequence that is not empty is its front and its last.
LEMMA FrontLast ==
  ASSUME NEW S, NEW s \in Seq(S), s # << >>
  PROVE  /\ Front(s) \in Seq(S) /\ Last(s) \in S
         /\ s = Front(s) \o <<Last(s)>>
<1>1. Len(s) \in Nat \ {0}
  BY EmptySeq, LenProperties
<1>2. Front(s) \in Seq(S)
  BY <1>1, SubSeqType DEF Front
<1>3. Last(s) \in S
  BY <1>1, ElementOfSeq DEF Last
<1>4. SubSeq(s, 1, Len(s)) = SubSeq(s, 1, Len(s) - 1) \o <<s[Len(s)]>>
  BY <1>1, SubSeqRecursiveSecond, 1 \in 1 .. Len(s), Len(s) \in 1 .. Len(s)
<1> QED
  BY <1>2, <1>3, <1>4, SubSeqFull DEF Front, Last

\* A sequence that is not empty has one that is last.
LEMMA SomeSnoc ==
  ASSUME NEW S, NEW s \in Seq(S), s # << >>
  PROVE  \E r \in Seq(S), e \in S : s = r \o <<e>>
BY FrontLast

\* A sequence with one more behind it.
LEMMA SnocFacts ==
  ASSUME NEW S, NEW r \in Seq(S), NEW e \in S
  PROVE  /\ r \o <<e>> \in Seq(S) /\ Len(r) \in Nat /\ Len(r \o <<e>>) = Len(r) + 1
         /\ \A i \in 1 .. Len(r) + 1 : (r \o <<e>>)[i] = IF i <= Len(r) THEN r[i] ELSE e
<1>1. <<e>> \in Seq(S) /\ Len(<<e>>) = 1 /\ <<e>>[1] = e
  OBVIOUS
<1>2. PICK o \in Seq(S) : o = <<e>>
  BY <1>1
<1>3. Len(r) \in Nat /\ Len(o) = 1 /\ o[1] = e
  BY <1>1, <1>2, LenProperties
<1>4. /\ r \o o \in Seq(S) /\ Len(r \o o) = Len(r) + 1
      /\ \A i \in 1 .. Len(r) + 1 : (r \o o)[i] = IF i <= Len(r) THEN r[i] ELSE o[i - Len(r)]
  BY <1>3, ConcatProperties
<1>5. \A i \in 1 .. Len(r) + 1 : ~(i <= Len(r)) => i - Len(r) = 1
  BY <1>3
<1> QED
  BY <1>2, <1>3, <1>4, <1>5

\* A set with the empty sequence that has each of its sequences with one more
\* behind it too has all sequences.
LEMMA SnocInduction ==
  ASSUME NEW S, NEW T, << >> \in T,
         \A r \in Seq(S) : r \in T => \A e \in S : r \o <<e>> \in T
  PROVE  Seq(S) \subseteq T
<1> DEFINE N == {m \in Nat : \A s \in Seq(S) : Len(s) = m => s \in T}
<1>1. 0 \in N
  <2>1. \A s \in Seq(S) : Len(s) = 0 => s = << >>
    BY EmptySeq
  <2> QED
    BY <2>1
<1>2. ASSUME NEW m \in Nat, m \in N PROVE m + 1 \in N
  <2>1. ASSUME NEW s \in Seq(S), Len(s) = m + 1 PROVE s \in T
    <3>1. s # << >>
      BY <2>1, EmptySeq
    <3>2. PICK r \in Seq(S) : \E e \in S : s = r \o <<e>>
      BY <3>1, SomeSnoc
    <3>3. PICK e \in S : s = r \o <<e>>
      BY <3>2
    <3>4. Len(r) = m
      BY <2>1, <3>3, SnocFacts
    <3> QED
      BY <1>2, <3>3, <3>4
  <2> QED
    BY <2>1
<1> HIDE DEF N
<1>3. Nat \subseteq N
  BY <1>1, <1>2, SetInduction
<1>4. ASSUME NEW s \in Seq(S) PROVE s \in T
  <2>1. Len(s) \in N
    BY <1>3, LenProperties
  <2> QED
    BY <2>1 DEF N
<1> QED
  BY <1>4

\* Putting sequences together is associative.
LEMMA JoinThree ==
  ASSUME NEW S, NEW a \in Seq(S), NEW b \in Seq(S), NEW c \in Seq(S)
  PROVE  (a \o b) \o c = a \o (b \o c)
BY SMT

------------------------------------------------------------------------------
(* Sequences of sequences, put together. *)

\* t are the first 0, 1, ..., m of the sequences ss put together.
Joins(t, ss, m, S) ==
    /\ t \in [0 .. m -> Seq(S)]
    /\ t[0] = << >>
    /\ \A i \in 1 .. m : t[i] = t[i - 1] \o ss[i]

\* What the sequences ss are put together is what the partial ones come to.
LEMMA FlattenIs ==
  ASSUME NEW S, NEW ss \in Seq(Seq(S)), NEW t, Joins(t, ss, Len(ss), S)
  PROVE  FlattenSeq(ss) = t[Len(ss)]
<1> DEFINE n == Len(ss)
           is(f) == f = [i \in 1 .. n |-> IF i = 1 THEN ss[i] ELSE f[i - 1] \o ss[i]]
           flat == CHOOSE f : is(f)
           g == [i \in 1 .. n |-> t[i]]
<1>1. CASE n = 0
  <2>1. ss = << >>
    BY <1>1, EmptySeq
  <2>2. FlattenSeq(ss) = ss
    BY <1>1 DEF FlattenSeq
  <2> QED
    BY <1>1, <2>1, <2>2 DEF Joins
<1>2. CASE n # 0
  <2>1. n \in Nat \ {0}
    BY <1>2
  <2>2. FlattenSeq(ss) = flat[n]
    BY <1>2 DEF FlattenSeq
  <2>3. is(g)
    <3>1. ASSUME NEW i \in 1 .. n PROVE g[i] = IF i = 1 THEN ss[i] ELSE g[i - 1] \o ss[i]
      <4>1. t[i] = t[i - 1] \o ss[i]
        BY DEF Joins
      <4>2. CASE i = 1
        <5>1. t[i - 1] = << >> /\ ss[i] \in Seq(S)
          BY <4>2 DEF Joins
        <5>2. << >> \o ss[i] = ss[i]
          BY <5>1, ConcatEmptySeq
        <5> QED
          BY <4>1, <4>2, <5>1, <5>2
      <4>3. CASE i # 1
        <5>1. i - 1 \in 1 .. n
          BY <4>3
        <5> QED
          BY <4>1, <4>3, <5>1
      <4> QED
        BY <4>2, <4>3
    <3> QED
      BY <3>1
  <2>4. is(flat)
    <3> HIDE DEF g
    <3> QED
      BY <2>3
  <2> HIDE DEF flat
  <2>5. \A i \in 1 .. n : flat[i] = IF i = 1 THEN ss[i] ELSE flat[i - 1] \o ss[i]
    BY <2>4
  <2> HIDE DEF is, g
  <2>6. \A i \in 1 .. n : g[i] = IF i = 1 THEN ss[i] ELSE g[i - 1] \o ss[i]
    BY <2>3 DEF is
  <2> DEFINE Same == {m \in Nat : m + 1 <= n => flat[m + 1] = g[m + 1]}
  <2>7. 0 \in Same
    <3>1. 0 + 1 = 1 /\ 1 \in 1 .. n
      BY <2>1
    <3> QED
      BY <2>5, <2>6, <3>1
  <2>8. ASSUME NEW m \in Nat, m \in Same PROVE m + 1 \in Same
    <3>1. SUFFICES ASSUME (m + 1) + 1 <= n PROVE flat[(m + 1) + 1] = g[(m + 1) + 1]
      OBVIOUS
    <3>2. (m + 1) + 1 \in 1 .. n /\ (m + 1) + 1 # 1 /\ ((m + 1) + 1) - 1 = m + 1 /\ m + 1 <= n
      BY <3>1, <2>1
    <3>3. flat[m + 1] = g[m + 1]
      BY <2>8, <3>2
    <3> QED
      BY <2>5, <2>6, <3>2, <3>3
  <2> HIDE DEF Same
  <2>9. Nat \subseteq Same
    BY <2>7, <2>8, SetInduction
  <2>10. n - 1 \in Nat /\ (n - 1) + 1 = n /\ n \in 1 .. n
    BY <2>1
  <2>11. \A m \in Nat : m + 1 <= n => flat[m + 1] = g[m + 1]
    BY <2>9 DEF Same
  <2>12. flat[n] = g[n]
    <3> HIDE DEF n
    <3> QED
      BY <2>10, <2>11
  <2> QED
    BY <2>2, <2>10, <2>12 DEF g
<1> QED
  BY <1>1, <1>2

\* Sequences have partial concatenations, and all of them is the last.
LEMMA JoinsExist ==
  ASSUME NEW S, NEW ss \in Seq(Seq(S))
  PROVE  \E t : Joins(t, ss, Len(ss), S) /\ FlattenSeq(ss) = t[Len(ss)]
<1> DEFINE Joinable == {m \in Nat : m <= Len(ss) => \E t : Joins(t, ss, m, S)}
<1>1. 0 \in Joinable
  <2> DEFINE z == [i \in 0 .. 0 |-> << >>]
  <2>1. z \in [0 .. 0 -> Seq(S)] /\ z[0] = << >> /\ 1 .. 0 = {}
    OBVIOUS
  <2>2. Joins(z, ss, 0, S)
    BY <2>1 DEF Joins
  <2> QED
    BY <2>2
<1>2. ASSUME NEW m \in Nat, m \in Joinable PROVE m + 1 \in Joinable
  <2>1. SUFFICES ASSUME m + 1 <= Len(ss) PROVE \E t : Joins(t, ss, m + 1, S)
    BY m + 1 \in Nat
  <2>2. PICK t : Joins(t, ss, m, S)
    BY <1>2, <2>1
  <2>3. ss[m + 1] \in Seq(S)
    BY <2>1
  <2> DEFINE u == [i \in 0 .. m + 1 |-> IF i <= m THEN t[i] ELSE t[m] \o ss[m + 1]]
  <2>4. u \in [0 .. m + 1 -> Seq(S)]
    <3>1. \A i \in 0 .. m : t[i] \in Seq(S)
      BY <2>2 DEF Joins
    <3>2. t[m] \o ss[m + 1] \in Seq(S)
      BY <2>3, <3>1, ConcatProperties, m \in 0 .. m
    <3> QED
      BY <3>1, <3>2
  <2>5. ASSUME NEW i \in 1 .. m + 1 PROVE u[i] = u[i - 1] \o ss[i]
    <3>1. i - 1 \in 0 .. m /\ u[i - 1] = t[i - 1]
      OBVIOUS
    <3>2. CASE i = m + 1
      <4>1. i - 1 = m /\ ~(i <= m) /\ i \in 0 .. m + 1
        BY <3>2
      <4>2. u[i] = t[m] \o ss[m + 1]
        BY <4>1
      <4> QED
        BY ONLY <3>1, <3>2, <4>1, <4>2
    <3>3. CASE i # m + 1
      <4>1. i \in 1 .. m /\ u[i] = t[i]
        BY <3>3
      <4>2. t[i] = t[i - 1] \o ss[i]
        BY <2>2, <4>1 DEF Joins
      <4> QED
        BY ONLY <3>1, <4>1, <4>2
    <3> QED
      BY <3>2, <3>3
  <2>6. u[0] = << >>
    <3>1. 0 \in 0 .. m + 1 /\ 0 <= m /\ t[0] = << >>
      BY <2>2 DEF Joins
    <3> QED
      BY <3>1
  <2> HIDE DEF u
  <2>7. Joins(u, ss, m + 1, S)
    BY <2>4, <2>5, <2>6 DEF Joins
  <2> QED
    BY ONLY <2>7
<1> HIDE DEF Joinable
<1>3. Nat \subseteq Joinable
  BY <1>1, <1>2, SetInduction
<1>4. PICK t : Joins(t, ss, Len(ss), S)
  BY <1>3 DEF Joinable
<1>5. FlattenSeq(ss) = t[Len(ss)]
  BY <1>4, FlattenIs
<1> QED
  BY <1>4, <1>5

\* Sequences over S put together are a sequence over S.
LEMMA FlattenType ==
  ASSUME NEW S, NEW ss \in Seq(Seq(S)) PROVE FlattenSeq(ss) \in Seq(S)
<1>1. PICK t : Joins(t, ss, Len(ss), S) /\ FlattenSeq(ss) = t[Len(ss)]
  BY JoinsExist
<1> QED
  BY <1>1 DEF Joins

\* No sequences put together are empty.
LEMMA FlattenEmpty == FlattenSeq(<< >>) = << >>
BY DEF FlattenSeq

\* One sequence put together is itself.
LEMMA FlattenOne ==
  ASSUME NEW S, NEW s \in Seq(S) PROVE FlattenSeq(<<s>>) = s
<1>1. <<s>> \in Seq(Seq(S)) /\ Len(<<s>>) = 1 /\ <<s>>[1] = s
  OBVIOUS
<1>2. PICK t : Joins(t, <<s>>, 1, S) /\ FlattenSeq(<<s>>) = t[1]
  BY <1>1, JoinsExist
<1>3. t[1] = << >> \o s
  BY <1>1, <1>2 DEF Joins
<1>4. << >> \o s = s
  BY ConcatEmptySeq
<1> QED
  BY <1>2, <1>3, <1>4

\* Putting together goes through concatenation.
LEMMA FlattenConcat ==
  ASSUME NEW S, NEW a \in Seq(Seq(S)), NEW b \in Seq(Seq(S))
  PROVE  FlattenSeq(a \o b) = FlattenSeq(a) \o FlattenSeq(b)
<1>1. PICK ja : Joins(ja, a, Len(a), S) /\ FlattenSeq(a) = ja[Len(a)]
  BY JoinsExist
<1>2. PICK jb : Joins(jb, b, Len(b), S) /\ FlattenSeq(b) = jb[Len(b)]
  BY JoinsExist
<1> DEFINE fa == FlattenSeq(a)
           n == Len(a) + Len(b)
           v == [i \in 0 .. n |-> IF i <= Len(a) THEN ja[i] ELSE fa \o jb[i - Len(a)]]
           ab == a \o b
<1>3. /\ n \in Nat /\ Len(ab) = n /\ Len(a) \in Nat /\ Len(b) \in Nat
      /\ ab \in Seq(Seq(S))
      /\ \A i \in 1 .. n : ab[i] = IF i <= Len(a) THEN a[i] ELSE b[i - Len(a)]
  BY ConcatProperties
<1>3a. fa \in Seq(S) /\ FlattenSeq(b) \in Seq(S) /\ \A i \in 0 .. Len(b) : jb[i] \in Seq(S)
  BY <1>2, FlattenType DEF Joins
<1>3b. fa \o << >> = fa
  BY <1>3a, ConcatEmptySeq
<1>3c. v[Len(a)] = fa /\ \A i \in 0 .. Len(b) : Len(a) + i \in 0 .. n /\ v[Len(a) + i] = fa \o jb[i]
  <2>1. v[Len(a)] = fa
    BY <1>1, <1>3
  <2>2. ASSUME NEW i \in 0 .. Len(b) PROVE Len(a) + i \in 0 .. n /\ v[Len(a) + i] = fa \o jb[i]
    <3>1. CASE i = 0
      <4>1. jb[i] = << >> /\ Len(a) + i = Len(a)
        BY <1>2, <1>3, <3>1 DEF Joins
      <4> QED
        BY <1>3, <1>3b, <2>1, <4>1
    <3>2. CASE i # 0
      <4>1. Len(a) + i \in 0 .. n /\ ~(Len(a) + i <= Len(a)) /\ (Len(a) + i) - Len(a) = i
        BY <1>3, <3>2
      <4> QED
        BY <4>1
    <3> QED
      BY <3>1, <3>2
  <2> QED
    BY <2>1, <2>2
<1>4. v[0] = << >>
  BY <1>1, <1>3 DEF Joins
<1>5. ASSUME NEW i \in 1 .. n PROVE v[i] = v[i - 1] \o ab[i]
  <2>1. CASE i <= Len(a)
    <3>1. v[i] = ja[i] /\ v[i - 1] = ja[i - 1] /\ ab[i] = a[i] /\ i \in 1 .. Len(a)
      BY <1>3, <2>1
    <3> QED
      BY <1>1, <3>1 DEF Joins
  <2>2. CASE i > Len(a)
    <3> DEFINE j == i - Len(a)
    <3>1. /\ j \in 1 .. Len(b) /\ j - 1 \in 0 .. Len(b) /\ j \in 0 .. Len(b) /\ ab[i] = b[j]
          /\ Len(a) + j = i /\ Len(a) + (j - 1) = i - 1
      BY <1>3, <2>2
    <3> HIDE DEF j, v
    <3>2. v[i] = fa \o jb[j] /\ v[i - 1] = fa \o jb[j - 1]
      BY <1>3c, <3>1
    <3>3. jb[j] = jb[j - 1] \o b[j]
      BY <1>2, <3>1 DEF Joins
    <3>4. jb[j - 1] \in Seq(S) /\ b[j] \in Seq(S)
      <4>1. jb[j - 1] \in Seq(S)
        BY ONLY <1>3a, <3>1
      <4>2. b[j] \in Seq(S)
        BY <3>1, ElementOfSeq
      <4> QED
        BY ONLY <4>1, <4>2
    <3>5. (fa \o jb[j - 1]) \o b[j] = fa \o (jb[j - 1] \o b[j])
      <4>1. PICK f \in Seq(S) : f = fa
        BY <1>3a
      <4>2. PICK p \in Seq(S) : p = jb[j - 1]
        BY <3>4
      <4>3. PICK q \in Seq(S) : q = b[j]
        BY <3>4
      <4>4. (f \o p) \o q = f \o (p \o q)
        BY SMT
      <4> QED
        BY ONLY <4>1, <4>2, <4>3, <4>4
    <3> QED
      BY ONLY <3>1, <3>2, <3>3, <3>5
  <2> HIDE DEF v, ab
  <2>3. i <= Len(a) \/ i > Len(a)
    BY <1>3
  <2> QED
    BY ONLY <2>1, <2>2, <2>3
<1>6. v \in [0 .. n -> Seq(S)]
  <2>1. \A i \in 0 .. Len(a) : ja[i] \in Seq(S)
    BY <1>1 DEF Joins
  <2>2. \A i \in 0 .. Len(b) : fa \o jb[i] \in Seq(S)
    BY <1>3a, ConcatProperties
  <2> QED
    BY <1>3, <2>1, <2>2
<1> HIDE DEF v, ab
<1>7. Joins(v, ab, n, S)
  BY <1>4, <1>5, <1>6 DEF Joins
<1>8. FlattenSeq(ab) = v[n]
  BY <1>3, <1>7, FlattenIs
<1>9. v[n] = fa \o jb[Len(b)]
  BY <1>3, <1>3c
<1> QED
  BY <1>2, <1>8, <1>9 DEF ab

==============================================================================
