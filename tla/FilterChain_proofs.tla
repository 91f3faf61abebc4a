------------------------- MODULE FilterChain_proofs -------------------------
(***************************************************************************)
(* Proofs about FilterChain, for any body, any number of filters and of    *)
(* redirects.  A chain is a sequence without repetitions, read through the *)
(* relation Above.  What has been taken from the connection and not been   *)
(* read by a content handler is spooled, in order, by the filters of the   *)
(* chain (Ordered, Feeds); and what a parser that is to go on has not seen *)
(* is spooled below its filter (InStep).                                   *)
(***************************************************************************)
EXTENDS FilterChain, Sequences_proofs, TLAPS

Filters == 1 .. MaxFilters
Others  == {Other(k) : k \in 1 .. MaxOthers}
Members == Filters \cup Others \cup {Http}
------------------------------------------------------------------------------
(* The order of the filters. *)

Distinct(s) == \A i, j \in DOMAIN s : s[i] = s[j] => i = j

\* f comes before g in s: nearer to the reader.
Above(s, f, g) == \E i, j \in DOMAIN s : i < j /\ s[i] = f /\ s[j] = g

Below(s, f) == {g \in ToSet(s) : Above(s, f, g)}

\* It is an order of the members of a sequence without repetitions.
LEMMA AboveOrder ==
  ASSUME NEW S, NEW s \in Seq(S), Distinct(s)
  PROVE  /\ \A f, g : Above(s, f, g) => f \in ToSet(s) /\ g \in ToSet(s) /\ f # g /\ ~Above(s, g, f)
         /\ \A f, g \in ToSet(s) : f = g \/ Above(s, f, g) \/ Above(s, g, f)
         /\ \A f, g, h : Above(s, f, g) /\ Above(s, g, h) => Above(s, f, h)
<1>1. DOMAIN s = 1 .. Len(s) /\ Len(s) \in Nat
  OBVIOUS
<1>2. ASSUME NEW f, NEW g, Above(s, f, g)
      PROVE  f \in ToSet(s) /\ g \in ToSet(s) /\ f # g /\ ~Above(s, g, f)
  <2>1. PICK i \in DOMAIN s, j \in DOMAIN s : i < j /\ s[i] = f /\ s[j] = g
    BY <1>2 DEF Above
  <2>2. ASSUME NEW k \in DOMAIN s, NEW l \in DOMAIN s, k < l, s[k] = g, s[l] = f PROVE FALSE
    <3>1. k = j /\ l = i
      BY <2>1, <2>2 DEF Distinct
    <3> QED
      BY <1>1, <2>1, <2>2, <3>1
  <2>3. i # j
    BY <1>1, <2>1
  <2> QED
    BY <2>1, <2>2, <2>3 DEF Above, ToSet, Distinct
<1>3. ASSUME NEW f \in ToSet(s), NEW g \in ToSet(s) PROVE f = g \/ Above(s, f, g) \/ Above(s, g, f)
  <2>1. PICK i \in DOMAIN s, j \in DOMAIN s : s[i] = f /\ s[j] = g
    BY DEF ToSet
  <2>2. i = j \/ i < j \/ j < i
    BY <1>1
  <2> QED
    BY <2>1, <2>2 DEF Above
<1>4. ASSUME NEW f, NEW g, NEW h, Above(s, f, g), Above(s, g, h) PROVE Above(s, f, h)
  <2>1. PICK i \in DOMAIN s, j \in DOMAIN s : i < j /\ s[i] = f /\ s[j] = g
    BY <1>4 DEF Above
  <2>2. PICK k \in DOMAIN s, l \in DOMAIN s : k < l /\ s[k] = g /\ s[l] = h
    BY <1>4 DEF Above
  <2>3. k = j
    BY <2>1, <2>2 DEF Distinct
  <2>4. i < l
    BY <1>1, <2>1, <2>2, <2>3
  <2> QED
    BY <2>1, <2>2, <2>4 DEF Above
<1> QED
  BY <1>2, <1>3, <1>4

\* The first n places of s that are not of gone, in order, are w.
Kept(w, s, n, gone) ==
    /\ \A x : x \in ToSet(w) <=> x \notin gone /\ \E k \in 1 .. n : s[k] = x
    /\ \A i, j \in DOMAIN w : i < j => \E k, l \in 1 .. n : k < l /\ s[k] = w[i] /\ s[l] = w[j]

LEMMA KeptMore ==
  ASSUME NEW S, NEW s \in Seq(S), NEW gone, NEW n \in Nat, n + 1 <= Len(s),
         NEW w \in Seq(S), Kept(w, s, n, gone)
  PROVE  Kept(w \o (IF s[n + 1] \in gone THEN << >> ELSE <<s[n + 1]>>), s, n + 1, gone)
<1> DEFINE x == s[n + 1]
<1>1. \A k : k \in 1 .. n + 1 <=> k \in 1 .. n \/ k = n + 1
  OBVIOUS
<1>2. CASE x \in gone
  <2>1. w \o << >> = w
    OBVIOUS
  <2> QED
    BY <1>1, <1>2, <2>1 DEF Kept
<1>3. CASE x \notin gone
  <2>1. x \in S
    BY n + 1 \in 1 .. Len(s)
  <2> DEFINE v == Append(w, x)
  <2>2. w \o <<x>> = v /\ DOMAIN v = 1 .. Len(w) + 1 /\ v[Len(w) + 1] = x
        /\ \A i \in 1 .. Len(w) : v[i] = w[i]
    BY <2>1
  <2>3. Len(w) \in Nat /\ DOMAIN w = 1 .. Len(w)
    OBVIOUS
  <2> HIDE DEF v, x
  <2>4. \A y : y \in ToSet(v) <=> y \in ToSet(w) \/ y = x
    <3>1. \A k : k \in DOMAIN v <=> k \in DOMAIN w \/ k = Len(w) + 1
      BY <2>2, <2>3
    <3> QED
      BY <2>2, <2>3, <3>1 DEF ToSet
  <2>5. \A y : y \in ToSet(v) <=> y \notin gone /\ \E k \in 1 .. n + 1 : s[k] = y
    BY <1>1, <1>3, <2>4 DEF Kept, x
  <2>6. ASSUME NEW i \in DOMAIN v, NEW j \in DOMAIN v, i < j
        PROVE  \E k, l \in 1 .. n + 1 : k < l /\ s[k] = v[i] /\ s[l] = v[j]
    <3>1. i \in DOMAIN w /\ v[i] = w[i]
      BY <2>2, <2>3, <2>6
    <3>2. CASE j \in DOMAIN w
      <4>1. PICK k \in 1 .. n, l \in 1 .. n : k < l /\ s[k] = w[i] /\ s[l] = w[j]
        BY <2>6, <3>1, <3>2 DEF Kept
      <4> QED
        BY <1>1, <2>2, <2>3, <3>1, <3>2, <4>1
    <3>3. CASE j \notin DOMAIN w
      <4>1. v[j] = s[n + 1]
        BY <2>2, <2>3, <3>3 DEF x
      <4>2. w[i] \in ToSet(w)
        BY <3>1 DEF ToSet
      <4>3. PICK k \in 1 .. n : s[k] = w[i]
        BY <4>2 DEF Kept
      <4>4. k < n + 1 /\ k \in 1 .. n + 1 /\ n + 1 \in 1 .. n + 1
        OBVIOUS
      <4> QED
        BY <3>1, <4>1, <4>3, <4>4
    <3> QED
      BY <3>2, <3>3
  <2>7. Kept(v, s, n + 1, gone)
    BY <2>5, <2>6 DEF Kept
  <2>8. w \o (IF s[n + 1] \in gone THEN << >> ELSE <<s[n + 1]>>) = v
    BY <1>3, <2>2 DEF x
  <2> QED
    BY <2>7, <2>8
<1> QED
  BY <1>2, <1>3

LEMMA WithoutKept ==
  ASSUME NEW S, NEW s \in Seq(S), NEW gone
  PROVE  Without(s, gone) \in Seq(S) /\ Kept(Without(s, gone), s, Len(s), gone)
<1> DEFINE ss == [i \in DOMAIN s |-> IF s[i] \in gone THEN << >> ELSE <<s[i]>>]
<1>1. ss \in Seq(Seq(S)) /\ Len(ss) = Len(s) /\ \A i \in 1 .. Len(s) : ss[i] = IF s[i] \in gone THEN << >> ELSE <<s[i]>>
  <2>1. \A i \in 1 .. Len(s) : (IF s[i] \in gone THEN << >> ELSE <<s[i]>>) \in Seq(S)
    OBVIOUS
  <2>2. ss \in [1 .. Len(s) -> Seq(S)] /\ Len(s) \in Nat
    BY <2>1
  <2>3. ss \in Seq(Seq(S)) /\ Len(ss) = Len(s)
    <3> HIDE DEF ss
    <3> QED
      BY <2>2
  <2> QED
    BY <2>3
<1> HIDE DEF ss
<1>2. PICK t : Joins(t, ss, Len(ss), S) /\ FlattenSeq(ss) = t[Len(ss)]
  BY <1>1, JoinsExist
<1>3. /\ t \in [0 .. Len(s) -> Seq(S)] /\ t[0] = << >>
      /\ \A i \in 1 .. Len(s) : t[i] = t[i - 1] \o ss[i]
  BY <1>1, <1>2 DEF Joins
<1> DEFINE Good == {n \in Nat : n <= Len(s) => Kept(t[n], s, n, gone)}
<1>4. 0 \in Good
  <2>1. ToSet(<< >>) = {} /\ DOMAIN << >> = {} /\ 1 .. 0 = {}
    BY DEF ToSet
  <2>2. Kept(<< >>, s, 0, gone)
    BY <2>1 DEF Kept
  <2> QED
    BY <1>3, <2>2
<1>5. ASSUME NEW n \in Nat, n \in Good PROVE n + 1 \in Good
  <2>1. SUFFICES ASSUME n + 1 <= Len(s) PROVE Kept(t[n + 1], s, n + 1, gone)
    BY n + 1 \in Nat
  <2>2. n + 1 \in 1 .. Len(s) /\ n \in 0 .. Len(s) /\ (n + 1) - 1 = n
    BY <2>1
  <2>3. Kept(t[n], s, n, gone) /\ t[n] \in Seq(S)
    BY <1>3, <1>5, <2>1, <2>2
  <2>4. t[n + 1] = t[n] \o (IF s[n + 1] \in gone THEN << >> ELSE <<s[n + 1]>>)
    BY <1>1, <1>3, <2>2
  <2> QED
    BY <2>1, <2>3, <2>4, KeptMore
<1> HIDE DEF Good
<1>6. Nat \subseteq Good
  BY <1>4, <1>5, SetInduction
<1>7. Kept(t[Len(s)], s, Len(s), gone)
  BY <1>6, Len(s) \in Nat DEF Good
<1>8. Without(s, gone) = t[Len(s)]
  BY <1>1, <1>2 DEF Without, ss
<1> QED
  BY <1>3, <1>7, <1>8, Len(s) \in 0 .. Len(s)

\* What is left when some are taken out: the others, in the same order.
LEMMA WithoutIs ==
  ASSUME NEW S, NEW s \in Seq(S), Distinct(s), NEW gone, NEW w, w = Without(s, gone)
  PROVE  /\ w \in Seq(S) /\ Distinct(w)
         /\ ToSet(w) = ToSet(s) \ gone
         /\ \A f, g : Above(w, f, g) <=> Above(s, f, g) /\ f \notin gone /\ g \notin gone
<1>1. w \in Seq(S) /\ Kept(w, s, Len(s), gone)
  BY WithoutKept
<1>2. DOMAIN s = 1 .. Len(s) /\ DOMAIN w = 1 .. Len(w) /\ Len(w) \in Nat
  BY <1>1
<1>3. ToSet(w) = ToSet(s) \ gone
  BY <1>1, <1>2 DEF Kept, ToSet
<1>4. \A i, j \in DOMAIN w : i < j => Above(s, w[i], w[j])
  <2>1. ASSUME NEW i \in DOMAIN w, NEW j \in DOMAIN w, i < j PROVE Above(s, w[i], w[j])
    <3>1. PICK k \in 1 .. Len(s), l \in 1 .. Len(s) : k < l /\ s[k] = w[i] /\ s[l] = w[j]
      BY <1>1, <2>1 DEF Kept
    <3> QED
      BY <1>2, <3>1 DEF Above
  <2> QED
    BY <2>1
<1>5. Distinct(w)
  <2>1. ASSUME NEW i \in DOMAIN w, NEW j \in DOMAIN w, w[i] = w[j], i # j PROVE FALSE
    <3>1. i < j \/ j < i
      BY <1>2, <2>1
    <3>2. Above(s, w[i], w[i])
      BY <1>4, <2>1, <3>1
    <3> QED
      BY <3>2, AboveOrder
  <2> QED
    BY <2>1 DEF Distinct
<1>6. ASSUME NEW f, NEW g, Above(w, f, g) PROVE Above(s, f, g) /\ f \notin gone /\ g \notin gone
  <2>1. f \in ToSet(w) /\ g \in ToSet(w)
    BY <1>1, <1>5, <1>6, AboveOrder
  <2> QED
    BY <1>3, <1>4, <1>6, <2>1 DEF Above
<1>7. ASSUME NEW f, NEW g, Above(s, f, g), f \notin gone, g \notin gone PROVE Above(w, f, g)
  <2>1. f \in ToSet(s) /\ g \in ToSet(s) /\ f # g /\ ~Above(s, g, f)
    BY <1>7, AboveOrder
  <2>2. f \in ToSet(w) /\ g \in ToSet(w)
    BY <1>3, <1>7, <2>1
  <2>3. f = g \/ Above(w, f, g) \/ Above(w, g, f)
    BY <1>1, <1>5, <2>2, AboveOrder
  <2> QED
    BY <1>6, <2>1, <2>3
<1> QED
  BY <1>1, <1>3, <1>5, <1>6, <1>7

\* One more in front.
Topped(w, x, s) == w = <<x>> \o s

LEMMA OnTop ==
  ASSUME NEW S, NEW s \in Seq(S), Distinct(s), NEW x \in S, x \notin ToSet(s), NEW w, Topped(w, x, s)
  PROVE  /\ w \in Seq(S) /\ Distinct(w) /\ Len(w) = Len(s) + 1 /\ w[1] = x
         /\ ToSet(w) = ToSet(s) \cup {x}
         /\ \A f, g : Above(w, f, g) <=> Above(s, f, g) \/ (f = x /\ g \in ToSet(s))
         /\ s # << >> => Last(w) = Last(s)
<1>1. /\ w \in Seq(S) /\ DOMAIN w = 1 .. Len(s) + 1 /\ Len(w) = Len(s) + 1 /\ w[1] = x
      /\ \A i \in 1 .. Len(s) : w[i + 1] = s[i]
      /\ DOMAIN s = 1 .. Len(s) /\ Len(s) \in Nat
  BY DEF Topped
<1>2. \A i : i \in DOMAIN w <=> i = 1 \/ \E j \in DOMAIN s : i = j + 1
  <2>1. ASSUME NEW i \in DOMAIN w, i # 1 PROVE i - 1 \in DOMAIN s /\ i = (i - 1) + 1
    BY <1>1, <2>1
  <2>2. \A j \in DOMAIN s : j + 1 \in DOMAIN w
    BY <1>1
  <2>3. 1 \in DOMAIN w
    BY <1>1
  <2> QED
    BY <2>1, <2>2, <2>3
<1>3. ToSet(w) = ToSet(s) \cup {x}
  <2>1. ASSUME NEW y \in ToSet(w) PROVE y \in ToSet(s) \cup {x}
    BY <1>1, <1>2 DEF ToSet
  <2>2. ASSUME NEW y \in ToSet(s) PROVE y \in ToSet(w)
    <3>1. PICK j \in DOMAIN s : s[j] = y
      BY DEF ToSet
    <3>2. w[j + 1] = y /\ j + 1 \in DOMAIN w
      BY <1>1, <3>1
    <3> QED
      BY <3>2 DEF ToSet
  <2>3. x \in ToSet(w)
    BY <1>1, <1>2 DEF ToSet
  <2> QED
    BY <2>1, <2>2, <2>3
<1>4. \A i \in DOMAIN s : s[i] # x
  BY DEF ToSet
<1>5. Distinct(w)
  <2>1. ASSUME NEW i \in DOMAIN w, NEW j \in DOMAIN w, w[i] = w[j] PROVE i = j
    <3>1. CASE i = 1 \/ j = 1
      BY <1>1, <1>2, <1>4, <2>1, <3>1
    <3>2. CASE ~(i = 1 \/ j = 1)
      <4>1. PICK k \in DOMAIN s, l \in DOMAIN s : i = k + 1 /\ j = l + 1
        BY <1>2, <3>2
      <4>2. s[k] = s[l]
        BY <1>1, <2>1, <4>1
      <4> QED
        BY <4>1, <4>2 DEF Distinct
    <3> QED
      BY <3>1, <3>2
  <2> QED
    BY <2>1 DEF Distinct
<1>6. ASSUME NEW f, NEW g, Above(w, f, g) PROVE Above(s, f, g) \/ (f = x /\ g \in ToSet(s))
  <2>1. PICK i \in DOMAIN w, j \in DOMAIN w : i < j /\ w[i] = f /\ w[j] = g
    BY <1>6 DEF Above
  <2>2. j # 1
    BY <1>1, <2>1
  <2>3. PICK l \in DOMAIN s : j = l + 1
    BY <1>2, <2>2
  <2>4. s[l] = g
    BY <1>1, <2>1, <2>3
  <2>5. CASE i = 1
    BY <1>1, <2>1, <2>4, <2>5 DEF ToSet
  <2>6. CASE i # 1
    <3>1. PICK k \in DOMAIN s : i = k + 1
      BY <1>2, <2>6
    <3>2. s[k] = f /\ k < l
      BY <1>1, <2>1, <2>3, <3>1
    <3> QED
      BY <2>4, <3>2 DEF Above
  <2> QED
    BY <2>5, <2>6
<1>7. ASSUME NEW f, NEW g, Above(s, f, g) PROVE Above(w, f, g)
  <2>1. PICK k \in DOMAIN s, l \in DOMAIN s : k < l /\ s[k] = f /\ s[l] = g
    BY <1>7 DEF Above
  <2>2. k + 1 \in DOMAIN w /\ l + 1 \in DOMAIN w /\ k + 1 < l + 1 /\ w[k + 1] = f /\ w[l + 1] = g
    BY <1>1, <2>1
  <2> QED
    BY <2>2 DEF Above
<1>8. ASSUME NEW g \in ToSet(s) PROVE Above(w, x, g)
  <2>1. PICK l \in DOMAIN s : s[l] = g
    BY DEF ToSet
  <2>2. l + 1 \in DOMAIN w /\ 1 \in DOMAIN w /\ 1 < l + 1 /\ w[1] = x /\ w[l + 1] = g
    BY <1>1, <2>1
  <2> QED
    BY <2>2 DEF Above
<1>9. ASSUME s # << >> PROVE Last(w) = Last(s)
  <2>1. Len(s) > 0
    BY <1>9
  <2>2. Last(w) = w[Len(s) + 1] /\ Last(s) = s[Len(s)]
    BY <1>1 DEF Last
  <2> QED
    BY <1>1, <2>1, <2>2
<1> QED
  BY <1>1, <1>3, <1>5, <1>6, <1>7, <1>8, <1>9

\* The first is above the others, the last below.
LEMMA Ends ==
  ASSUME NEW S, NEW s \in Seq(S), Distinct(s), s # << >>
  PROVE  /\ s[1] \in ToSet(s) /\ Last(s) \in ToSet(s)
         /\ \A g \in ToSet(s) : g = s[1] \/ Above(s, s[1], g)
         /\ \A g \in ToSet(s) : g = Last(s) \/ Above(s, g, Last(s))
<1>1. DOMAIN s = 1 .. Len(s) /\ Len(s) \in Nat \ {0} /\ Last(s) = s[Len(s)]
  BY DEF Last
<1>2. 1 \in DOMAIN s /\ Len(s) \in DOMAIN s
  BY <1>1
<1>3. ASSUME NEW g \in ToSet(s)
      PROVE  (g = s[1] \/ Above(s, s[1], g)) /\ (g = Last(s) \/ Above(s, g, Last(s)))
  <2>1. PICK i \in DOMAIN s : s[i] = g
    BY DEF ToSet
  <2>2. (i = 1 \/ 1 < i) /\ (i = Len(s) \/ i < Len(s))
    BY <1>1
  <2> QED
    BY <1>1, <1>2, <2>1, <2>2 DEF Above
<1> QED
  BY <1>1, <1>2, <1>3 DEF ToSet

\* Who is above everybody is the first; who is below, the last.
LEMMA FirstLastAre ==
  ASSUME NEW S, NEW s \in Seq(S), Distinct(s), NEW x \in ToSet(s)
  PROVE  /\ (\A g \in ToSet(s) : ~Above(s, g, x)) => s[1] = x
         /\ (\A g \in ToSet(s) : ~Above(s, x, g)) => Last(s) = x
         /\ s # << >>
<1>1. s # << >>
  BY DEF ToSet
<1> QED
  BY <1>1, Ends

\* What comes after f.
LEMMA AfterIs ==
  ASSUME NEW S, NEW s \in Seq(S), Distinct(s), NEW f \in ToSet(s), NEW w, w = After(s, f)
  PROVE  /\ w \in Seq(S) /\ Distinct(w) /\ ToSet(w) = Below(s, f)
         /\ \A g, h : Above(w, g, h) <=> Above(s, g, h) /\ Above(s, f, g)
<1> DEFINE i == CHOOSE k \in DOMAIN s : s[k] = f
           n == Len(s)
<1>1. i \in DOMAIN s /\ s[i] = f
  BY DEF ToSet
<1>2. w = SubSeq(s, i + 1, n)
  BY DEF After
<1> HIDE DEF i
<1>3. DOMAIN s = 1 .. n /\ n \in Nat /\ i \in 1 .. n
  BY <1>1
<1>4. /\ w \in Seq(S) /\ DOMAIN w = 1 .. n - i
      /\ \A k \in 1 .. n - i : w[k] = s[i + k]
  BY <1>2, <1>3
<1>5. \A j \in DOMAIN s : i < j => j - i \in DOMAIN w /\ w[j - i] = s[j]
  BY <1>3, <1>4
<1>6. \A k \in DOMAIN w : i + k \in DOMAIN s /\ i < i + k /\ w[k] = s[i + k]
  BY <1>3, <1>4
<1>7. ASSUME NEW g PROVE Above(s, f, g) <=> \E j \in DOMAIN s : i < j /\ s[j] = g
  BY <1>1 DEF Above, Distinct
<1>8. ASSUME NEW g PROVE g \in ToSet(w) <=> Above(s, f, g)
  <2>1. ASSUME g \in ToSet(w) PROVE \E j \in DOMAIN s : i < j /\ s[j] = g
    <3>1. PICK k \in DOMAIN w : w[k] = g
      BY <2>1 DEF ToSet
    <3> QED
      BY <1>6, <3>1
  <2>2. ASSUME NEW j \in DOMAIN s, i < j, s[j] = g PROVE g \in ToSet(w)
    BY <1>5, <2>2 DEF ToSet
  <2> QED
    BY <1>7, <2>1, <2>2
<1>9. Distinct(w)
  <2>1. ASSUME NEW k \in DOMAIN w, NEW l \in DOMAIN w, w[k] = w[l] PROVE k = l
    <3>1. i + k = i + l
      BY <1>6, <2>1 DEF Distinct
    <3> QED
      BY <1>3, <1>4, <3>1
  <2> QED
    BY <2>1 DEF Distinct
<1>10. ASSUME NEW g, NEW h, Above(w, g, h) PROVE Above(s, g, h) /\ Above(s, f, g)
  <2>1. PICK k \in DOMAIN w, l \in DOMAIN w : k < l /\ w[k] = g /\ w[l] = h
    BY <1>10 DEF Above
  <2>2. i + k < i + l
    BY <1>3, <1>4, <2>1
  <2>3. Above(s, g, h)
    BY <1>6, <2>1, <2>2 DEF Above
  <2>4. g \in ToSet(w)
    BY <2>1 DEF ToSet
  <2> QED
    BY <1>8, <2>3, <2>4
<1>11. ASSUME NEW g, NEW h, Above(s, g, h), Above(s, f, g) PROVE Above(w, g, h)
  <2>1. PICK k \in DOMAIN s, l \in DOMAIN s : k < l /\ s[k] = g /\ s[l] = h
    BY <1>11 DEF Above
  <2>2. PICK j \in DOMAIN s : i < j /\ s[j] = g
    BY <1>7, <1>11
  <2>3. j = k
    BY <2>1, <2>2 DEF Distinct
  <2>4. i < l /\ k - i < l - i
    BY <1>3, <2>1, <2>2, <2>3
  <2> QED
    BY <1>5, <2>1, <2>2, <2>3, <2>4 DEF Above
<1>12. ToSet(w) = Below(s, f)
  BY <1>8, AboveOrder DEF Below
<1> QED
  BY <1>4, <1>9, <1>10, <1>11, <1>12

\* One more in front of the last.
LEMMA InsertedIs ==
  ASSUME NEW S, NEW s \in Seq(S), Distinct(s), s # << >>, NEW x \in S, x \notin ToSet(s),
         NEW w, w = InsertAt(s, Len(s), x)
  PROVE  /\ w \in Seq(S) /\ Distinct(w) /\ Last(w) = Last(s)
         /\ ToSet(w) = ToSet(s) \cup {x}
         /\ \A f, g : Above(w, f, g) <=> \/ Above(s, f, g)
                                         \/ f = x /\ g = Last(s)
                                         \/ g = x /\ f \in ToSet(s) /\ f # Last(s)
<1> DEFINE n == Len(s)
<1>1. n \in Nat \ {0} /\ DOMAIN s = 1 .. n /\ Last(s) = s[n]
  BY DEF Last
<1>2. w = SubSeq(s, 1, n - 1) \o <<x>> \o SubSeq(s, n, n)
  BY <1>1 DEF InsertAt
<1>3. SubSeq(s, 1, n - 1) \in Seq(S) /\ Len(SubSeq(s, 1, n - 1)) = n - 1
      /\ \A i \in 1 .. n - 1 : SubSeq(s, 1, n - 1)[i] = s[i]
  BY <1>1
<1>4. SubSeq(s, n, n) \in Seq(S) /\ Len(SubSeq(s, n, n)) = 1 /\ SubSeq(s, n, n)[1] = s[n]
  BY <1>1
<1>5. w \in Seq(S) /\ Len(w) = n + 1 /\ w[n] = x /\ w[n + 1] = s[n] /\ \A i \in 1 .. n - 1 : w[i] = s[i]
  <2> DEFINE a == SubSeq(s, 1, n - 1)
             b == SubSeq(s, n, n)
  <2>1. a \in Seq(S) /\ Len(a) = n - 1 /\ b \in Seq(S) /\ Len(b) = 1
    BY <1>3, <1>4
  <2> HIDE DEF a, b
  <2>2. /\ a \o <<x>> \o b \in Seq(S) /\ Len(a \o <<x>> \o b) = n + 1
        /\ (a \o <<x>> \o b)[n] = x /\ (a \o <<x>> \o b)[n + 1] = b[1]
        /\ \A i \in 1 .. n - 1 : (a \o <<x>> \o b)[i] = a[i]
    <3> HIDE DEF n
    <3>1. n \in Nat \ {0}
      BY <1>1
    <3>2. /\ a \o <<x>> \in Seq(S) /\ Len(a \o <<x>>) = n /\ (a \o <<x>>)[n] = x
          /\ \A i \in 1 .. n - 1 : (a \o <<x>>)[i] = a[i]
      BY <2>1, <3>1
    <3> DEFINE c == a \o <<x>>
    <3>3. c \in Seq(S) /\ Len(c) = n
      BY <3>2
    <3> HIDE DEF c
    <3>4. /\ c \o b \in Seq(S) /\ Len(c \o b) = n + 1 /\ (c \o b)[n + 1] = b[1]
          /\ \A i \in 1 .. n : (c \o b)[i] = c[i]
      <4>1. /\ c \o b \in Seq(S) /\ Len(c \o b) = n + 1
            /\ \A i \in 1 .. n + 1 : (c \o b)[i] = IF i <= n THEN c[i] ELSE b[i - n]
        <5>1. /\ c \o b \in Seq(S) /\ Len(c \o b) = Len(c) + Len(b)
              /\ \A i \in 1 .. Len(c) + Len(b) : (c \o b)[i] = IF i <= Len(c) THEN c[i] ELSE b[i - Len(c)]
          BY ONLY <2>1, <3>3, ConcatProperties
        <5>2. Len(c) + Len(b) = n + 1 /\ Len(c) = n
          BY <2>1, <3>3
        <5> QED
          BY <5>1, <5>2
      <4>2. n + 1 \in 1 .. n + 1 /\ ~(n + 1 <= n) /\ (n + 1) - n = 1
            /\ \A i \in 1 .. n : i \in 1 .. n + 1 /\ i <= n
        BY <3>1
      <4> QED
        BY <4>1, <4>2
    <3>5. \A i \in 1 .. n - 1 : i \in 1 .. n
      BY <3>1
    <3>6. n \in 1 .. n
      BY <3>1
    <3> QED
      BY <3>2, <3>4, <3>5, <3>6 DEF c
  <2>3. w = a \o <<x>> \o b
    BY <1>2 DEF a, b
  <2>4. b[1] = s[n] /\ \A i \in 1 .. n - 1 : a[i] = s[i]
    BY <1>3, <1>4 DEF a, b
  <2> QED
    BY <2>2, <2>3, <2>4
<1>6. DOMAIN w = 1 .. n + 1 /\ Last(w) = w[n + 1]
  <2>1. w \in Seq(S) /\ Len(w) = n + 1 /\ n \in Nat
    BY <1>1, <1>5
  <2> HIDE DEF n
  <2> QED
    BY <2>1 DEF Last
<1>7. \A i : i \in DOMAIN w <=> i \in 1 .. n - 1 \/ i = n \/ i = n + 1
  BY <1>1, <1>6
<1>8. \A i : i \in DOMAIN s <=> i \in 1 .. n - 1 \/ i = n
  BY <1>1
<1>9. \A i \in 1 .. n - 1 : i \in DOMAIN s /\ i < n /\ i # n /\ i < n + 1
  <2> HIDE DEF n
  <2> QED
    BY <1>1
<1>10. ToSet(w) = ToSet(s) \cup {x}
  <2>1. \A y \in ToSet(w) : y \in ToSet(s) \cup {x}
    BY <1>5, <1>7, <1>8 DEF ToSet
  <2>2. \A y \in ToSet(s) : y \in ToSet(w)
    BY <1>5, <1>7, <1>8 DEF ToSet
  <2>3. x \in ToSet(w)
    BY <1>5, <1>7 DEF ToSet
  <2> QED
    BY <2>1, <2>2, <2>3
<1>11. \A i \in DOMAIN s : s[i] # x
  BY DEF ToSet
<1>12. Distinct(w)
  <2>1. ASSUME NEW i \in DOMAIN w, NEW j \in DOMAIN w, w[i] = w[j] PROVE i = j
    <3>1. n \in DOMAIN s
      BY <1>8
    <3>2. \A k \in 1 .. n - 1 : s[k] # s[n]
      BY <1>9, <3>1 DEF Distinct
    <3>3. \A k, l \in 1 .. n - 1 : s[k] = s[l] => k = l
      BY <1>9 DEF Distinct
    <3> QED
      BY <1>5, <1>7, <1>9, <1>11, <2>1, <3>1, <3>2, <3>3
  <2> QED
    BY <2>1 DEF Distinct
<1>13. ASSUME NEW f, NEW g, Above(s, f, g) PROVE Above(w, f, g)
  <2>1. PICK k \in DOMAIN s, l \in DOMAIN s : k < l /\ s[k] = f /\ s[l] = g
    BY <1>13 DEF Above
  <2>2. k \in 1 .. n - 1
    BY <1>1, <2>1
  <2>3. w[k] = f /\ k \in DOMAIN w /\ k < n + 1 /\ n + 1 \in DOMAIN w
    BY <1>5, <1>7, <1>9, <2>1, <2>2
  <2>4. CASE l = n
    BY <1>5, <2>1, <2>3, <2>4 DEF Above
  <2>5. CASE l # n
    BY <1>5, <1>7, <1>8, <2>1, <2>3, <2>5 DEF Above
  <2> QED
    BY <2>4, <2>5
<1>14. Above(w, x, s[n])
  BY <1>1, <1>5, <1>7, n < n + 1 DEF Above
<1>15. ASSUME NEW f \in ToSet(s), f # s[n] PROVE Above(w, f, x)
  <2>1. PICK k \in DOMAIN s : s[k] = f
    BY DEF ToSet
  <2>2. k \in 1 .. n - 1
    BY <1>8, <1>15, <2>1
  <2> QED
    BY <1>5, <1>7, <1>9, <2>1, <2>2 DEF Above
<1>16. ASSUME NEW f, NEW g, Above(w, f, g)
       PROVE  Above(s, f, g) \/ (f = x /\ g = s[n]) \/ (g = x /\ f \in ToSet(s) /\ f # s[n])
  <2>1. PICK i \in DOMAIN w, j \in DOMAIN w : i < j /\ w[i] = f /\ w[j] = g
    BY <1>16 DEF Above
  <2>2. CASE i \in 1 .. n - 1
    <3>1. f = s[i] /\ i \in DOMAIN s /\ f \in ToSet(s)
      BY <1>5, <1>9, <2>1, <2>2 DEF ToSet
    <3>2. CASE j = n
      <4>1. f # s[n]
        BY <1>8, <1>9, <2>2, <3>1 DEF Distinct
      <4> QED
        BY <1>5, <2>1, <3>1, <3>2, <4>1
    <3>3. CASE j = n + 1
      <4>1. g = s[n] /\ n \in DOMAIN s /\ i < n
        BY <1>5, <1>8, <1>9, <2>1, <2>2, <3>3
      <4> QED
        BY <3>1, <4>1 DEF Above
    <3>4. CASE j \in 1 .. n - 1
      <4>1. g = s[j] /\ j \in DOMAIN s
        BY <1>5, <1>9, <2>1, <3>4
      <4> QED
        BY <2>1, <3>1, <4>1 DEF Above
    <3> QED
      BY <1>7, <3>2, <3>3, <3>4
  <2>3. CASE i = n
    <3>1. j = n + 1
      BY <1>1, <1>6, <2>1, <2>3
    <3> QED
      BY <1>5, <2>1, <2>3, <3>1
  <2>4. CASE i = n + 1
    BY <1>1, <1>6, <2>1, <2>4
  <2> QED
    BY <1>7, <2>2, <2>3, <2>4
<1> QED
  BY <1>1, <1>5, <1>6, <1>10, <1>12, <1>13, <1>14, <1>15, <1>16

------------------------------------------------------------------------------
(* What filters have spooled.  sp has the spool of each filter of a chain.  *)

Tok == 1 .. EOS

\* x was taken from the connection before y; the end is there as often as it
\* is asked for.
Fresh(x, y) == x < y \/ (x = EOS /\ y = EOS)

Rising(q) == \A i, j \in DOMAIN q : i < j => q[i] < q[j]

\* What is nearer to the reader was taken earlier.
Ordered(s, sp) ==
    /\ \A f \in ToSet(s) : sp[f] \in Seq(Tok) /\ Rising(sp[f])
    /\ \A f, g : Above(s, f, g) => \A x \in ToSet(sp[f]), y \in ToSet(sp[g]) : Fresh(x, y)

\* The filters of W have spooled all that was taken after lo, up to hi.
Feeds(W, sp, lo, hi) ==
    /\ lo <= hi
    /\ \A g \in W : \A y \in ToSet(sp[g]) : y <= hi /\ (y > lo \/ y = EOS)
    /\ \A u \in lo + 1 .. hi : \E g \in W : u \in ToSet(sp[g])

\* The spool q when t has been added to it: the end only once.
Spooled(q, t) == IF q = << >> \/ Last(q) # EOS THEN Append(q, t) ELSE q

LEMMA EosTok == EOS \in Nat \ {0} /\ EOS \in Tok /\ Tok \subseteq Nat
  BY ChainAssumption DEF EOS, Tok

\* The first of a spool is the earliest.
LEMMA Dequeued ==
  ASSUME NEW q \in Seq(Tok), Rising(q), q # << >>
  PROVE  /\ Head(q) \in Tok /\ Tail(q) \in Seq(Tok) /\ Rising(Tail(q))
         /\ ToSet(q) = ToSet(Tail(q)) \cup {Head(q)}
         /\ \A y \in ToSet(Tail(q)) : Head(q) < y
<1>1. DOMAIN q = 1 .. Len(q) /\ Len(q) \in Nat \ {0} /\ Head(q) = q[1] /\ 1 \in DOMAIN q
  OBVIOUS
<1>2. Tail(q) \in Seq(Tok) /\ DOMAIN Tail(q) = 1 .. Len(q) - 1
      /\ \A i \in 1 .. Len(q) - 1 : Tail(q)[i] = q[i + 1]
  BY <1>1
<1>3. \A i \in DOMAIN Tail(q) : i + 1 \in DOMAIN q /\ 1 < i + 1 /\ Tail(q)[i] = q[i + 1]
  BY <1>1, <1>2
<1>4. \A j \in DOMAIN q : j = 1 \/ (j - 1 \in DOMAIN Tail(q) /\ Tail(q)[j - 1] = q[j])
  BY <1>1, <1>2
<1>5. Rising(Tail(q))
  <2>1. ASSUME NEW i \in DOMAIN Tail(q), NEW j \in DOMAIN Tail(q), i < j
        PROVE  Tail(q)[i] < Tail(q)[j]
    <3>1. i + 1 < j + 1
      BY <1>1, <1>2, <2>1
    <3> QED
      BY <1>3, <3>1 DEF Rising
  <2> QED
    BY <2>1 DEF Rising
<1>6. ToSet(q) = ToSet(Tail(q)) \cup {Head(q)}
  <2>1. \A y \in ToSet(q) : y \in ToSet(Tail(q)) \cup {Head(q)}
    BY <1>1, <1>4 DEF ToSet
  <2>2. \A y \in ToSet(Tail(q)) : y \in ToSet(q)
    BY <1>3 DEF ToSet
  <2>3. Head(q) \in ToSet(q)
    BY <1>1 DEF ToSet
  <2> QED
    BY <2>1, <2>2, <2>3
<1>7. \A y \in ToSet(Tail(q)) : Head(q) < y
  BY <1>1, <1>3 DEF ToSet, Rising
<1> QED
  BY <1>1, <1>2, <1>5, <1>6, <1>7

\* What is added to a spool comes last.
LEMMA Enqueued ==
  ASSUME NEW q \in Seq(Tok), Rising(q), NEW t \in Tok, \A y \in ToSet(q) : Fresh(y, t)
  PROVE  /\ Spooled(q, t) \in Seq(Tok) /\ Rising(Spooled(q, t))
         /\ ToSet(Spooled(q, t)) = ToSet(q) \cup {t}
<1>1. DOMAIN q = 1 .. Len(q) /\ Len(q) \in Nat
  OBVIOUS
<1>2. \A i \in DOMAIN q : q[i] \in Tok /\ q[i] \in Nat /\ q[i] \in ToSet(q)
  <2>1. ASSUME NEW i \in DOMAIN q PROVE q[i] \in Tok /\ q[i] \in ToSet(q)
    <3>1. q[i] \in Tok
      OBVIOUS
    <3> QED
      BY <3>1 DEF ToSet
  <2> QED
    BY <2>1, EosTok
<1>3. CASE q # << >> /\ Last(q) = EOS
  <2>1. Len(q) \in DOMAIN q /\ q[Len(q)] = EOS
    BY <1>1, <1>3 DEF Last
  <2>2. EOS \in ToSet(q)
    BY <1>2, <2>1
  <2>3. t = EOS
    BY <2>2, EosTok DEF Fresh, Tok
  <2>4. Spooled(q, t) = q
    BY <1>3 DEF Spooled
  <2> QED
    BY <2>2, <2>3, <2>4
<1>4. CASE ~(q # << >> /\ Last(q) = EOS)
  <2>1. ASSUME NEW i \in DOMAIN q PROVE q[i] < t
    <3>1. Fresh(q[i], t)
      BY <1>2
    <3>2. q[i] # EOS
      <4>1. SUFFICES ASSUME q[i] = EOS PROVE FALSE
        OBVIOUS
      <4>2. q # << >> /\ Len(q) \in DOMAIN q /\ Last(q) = q[Len(q)]
        BY <1>1 DEF Last
      <4>3. i # Len(q)
        BY <1>4, <4>1, <4>2
      <4>4. i < Len(q)
        BY <1>1, <4>3
      <4>5. q[i] < q[Len(q)]
        BY <4>2, <4>4 DEF Rising
      <4>6. q[Len(q)] \in Tok
        BY <1>2, <4>2
      <4> QED
        BY <4>1, <4>5, <4>6, EosTok DEF Tok
    <3> QED
      BY <3>1, <3>2 DEF Fresh
  <2> DEFINE v == Append(q, t)
  <2>2. Spooled(q, t) = v
    BY <1>4 DEF Spooled
  <2>3. /\ v \in Seq(Tok) /\ DOMAIN v = 1 .. Len(q) + 1 /\ v[Len(q) + 1] = t
        /\ \A i \in 1 .. Len(q) : v[i] = q[i]
    OBVIOUS
  <2> HIDE DEF v
  <2>4. \A i : i \in DOMAIN v <=> i \in DOMAIN q \/ i = Len(q) + 1
    BY <1>1, <2>3
  <2>5. ToSet(v) = ToSet(q) \cup {t}
    <3>1. \A y \in ToSet(v) : y \in ToSet(q) \cup {t}
      BY <1>1, <2>3, <2>4 DEF ToSet
    <3>2. \A y \in ToSet(q) : y \in ToSet(v)
      BY <1>1, <2>3, <2>4 DEF ToSet
    <3>3. t \in ToSet(v)
      BY <2>3, <2>4 DEF ToSet
    <3> QED
      BY <3>1, <3>2, <3>3
  <2>6. Rising(v)
    <3>1. ASSUME NEW i \in DOMAIN v, NEW j \in DOMAIN v, i < j PROVE v[i] < v[j]
      <4>1. i \in DOMAIN q /\ v[i] = q[i]
        BY <1>1, <2>3, <3>1
      <4>2. CASE j \in DOMAIN q
        <5>1. v[j] = q[j]
          BY <1>1, <2>3, <4>2
        <5>2. q[i] < q[j]
          BY <3>1, <4>1, <4>2 DEF Rising
        <5> QED
          BY <4>1, <5>1, <5>2
      <4>3. CASE j \notin DOMAIN q
        <5>1. v[j] = t
          BY <2>3, <2>4, <4>3
        <5> QED
          BY <2>1, <4>1, <5>1
      <4> QED
        BY <4>2, <4>3
    <3> QED
      BY <3>1 DEF Rising
  <2> QED
    BY <2>2, <2>3, <2>5, <2>6
<1> QED
  BY <1>3, <1>4

\* Filters that have nothing spooled may go.
LEMMA FeedsWithout ==
  ASSUME NEW W, NEW sp, NEW lo, NEW hi, Feeds(W, sp, lo, hi), NEW gone,
         \A g \in W : g \in gone => sp[g] = << >>
  PROVE  Feeds(W \ gone, sp, lo, hi)
<1>1. ToSet(<< >>) = {}
  BY DEF ToSet
<1> QED
  BY <1>1 DEF Feeds

\* It is the spools that matter.
LEMMA FeedsSame ==
  ASSUME NEW W, NEW sp, NEW sq, NEW lo, NEW hi, Feeds(W, sp, lo, hi),
         NEW V, \A g \in V : g \in W /\ sq[g] = sp[g], \A g \in W \ V : sp[g] = << >>
  PROVE  Feeds(V, sq, lo, hi)
<1>1. ToSet(<< >>) = {}
  BY DEF ToSet
<1> QED
  BY <1>1 DEF Feeds

------------------------------------------------------------------------------
(* A token comes up through the filters U of the chain s: those below f0, or *)
(* all of them if f0 is NULL.                                                 *)

\* t comes from the filter src, or, if that is NULL, from the connection, of
\* which hi tokens had been taken and hi2 have been taken then; sq are the
\* spools afterwards, and f0 has it in its own.
Drawn(s, U, sp, sq, f0, src, t, hi, hi2) ==
    /\ \/ f0 # NULL /\ U = Below(s, f0) /\ f0 \in ToSet(s)
       \/ f0 = NULL /\ U = ToSet(s)
    /\ NULL \notin ToSet(s)
    /\ \/ /\ src = NULL /\ \A g \in U : sp[g] = << >>
          /\ t = IF hi < EOS THEN hi + 1 ELSE EOS
          /\ hi2 = t
       \/ /\ src \in U /\ sp[src] # << >>
          /\ t = Head(sp[src]) /\ hi2 = hi
          /\ \A g \in U : Above(s, g, src) => sp[g] = << >>
    /\ \A g \in ToSet(s) : sq[g] = IF g = src THEN Tail(sp[g])
                                   ELSE IF g = f0 THEN Spooled(sp[g], t) ELSE sp[g]

\* W has all that is below each of its members.
Closed(s, W) == W \subseteq ToSet(s) /\ \A g \in W, h \in ToSet(s) : Above(s, g, h) => h \in W

\* It comes up a chain that is in order.
Drawing(s, U, sp, sq, f0, src, t, n, hi, hi2) ==
    /\ s \in Seq(Members) /\ Distinct(s) /\ Ordered(s, sp)
    /\ n \in Nat /\ hi \in 0 .. EOS /\ Feeds(ToSet(s), sp, n, hi)
    /\ Drawn(s, U, sp, sq, f0, src, t, hi, hi2)

LEMMA DrawnFacts ==
  ASSUME NEW s, NEW U, NEW sp, NEW sq, NEW f0, NEW src, NEW t, NEW n, NEW hi, NEW hi2,
         Drawing(s, U, sp, sq, f0, src, t, n, hi, hi2)
  PROVE  /\ t \in Tok /\ hi2 \in 0 .. EOS /\ t <= hi2 /\ hi <= hi2
         /\ Closed(s, U) /\ f0 \notin U
         /\ src # NULL => t \in ToSet(sp[src]) /\ src \in U /\ hi2 = hi
         /\ src = NULL => hi2 = t /\ (t = hi + 1 \/ (t = EOS /\ hi = EOS))
         /\ \A g \in U : \A y \in ToSet(sp[g]) : y = t \/ t < y \/ (y = EOS /\ t = EOS)
         /\ \A g \in U : \A y \in ToSet(sq[g]) : t < y \/ (y = EOS /\ t = EOS)
         /\ \A g \in U : ToSet(sp[g]) \subseteq ToSet(sq[g]) \cup {t}
         /\ \A g \in U : ToSet(sq[g]) \subseteq ToSet(sp[g])
<1>0. /\ s \in Seq(Members) /\ Distinct(s) /\ Ordered(s, sp)
      /\ n \in Nat /\ hi \in 0 .. EOS /\ Feeds(ToSet(s), sp, n, hi)
      /\ Drawn(s, U, sp, sq, f0, src, t, hi, hi2)
  BY DEF Drawing
<1>1. ToSet(<< >>) = {}
  BY DEF ToSet
<1>2. /\ \A g \in ToSet(s) : \A y \in ToSet(sp[g]) : y <= hi
      /\ \A g \in ToSet(s) : sp[g] \in Seq(Tok) /\ Rising(sp[g])
  BY <1>0 DEF Feeds, Ordered
<1>3. \A g \in ToSet(s) : ToSet(sp[g]) \subseteq Tok
  BY <1>2 DEF ToSet
<1>4. Closed(s, U) /\ f0 \notin U
  <2>1. \A f, g, h : Above(s, f, g) /\ Above(s, g, h) => Above(s, f, h)
    BY <1>0, AboveOrder
  <2>2. ~Above(s, f0, f0)
    BY <1>0, AboveOrder
  <2> QED
    BY <1>0, <2>1, <2>2 DEF Drawn, Closed, Below
<1>5. \A g \in U : g \in ToSet(s)
  BY <1>0, <1>4 DEF Closed
<1>6. CASE src = NULL
  <2>1. NULL \notin U
    BY <1>0, <1>5 DEF Drawn
  <2>2. /\ \A g \in U : sp[g] = << >>
        /\ t = IF hi < EOS THEN hi + 1 ELSE EOS
        /\ hi2 = t
    BY <1>0, <1>6, <2>1 DEF Drawn
  <2>3. \A g \in U : sq[g] = << >>
    BY <1>0, <1>4, <1>5, <1>6, <2>1, <2>2 DEF Drawn
  <2>4. t \in Tok /\ t \in 0 .. EOS /\ t <= t /\ hi <= t /\ (t = hi + 1 \/ (t = EOS /\ hi = EOS))
    BY <1>0, <2>2, EosTok DEF Tok
  <2> QED
    BY <1>1, <1>4, <1>6, <2>2, <2>3, <2>4
<1>7. CASE src # NULL
  <2>1. /\ src \in U /\ sp[src] # << >> /\ t = Head(sp[src]) /\ hi2 = hi
        /\ \A g \in U : Above(s, g, src) => sp[g] = << >>
    BY <1>0, <1>7 DEF Drawn
  <2>2. src \in ToSet(s) /\ src # f0
    BY <1>4, <1>5, <2>1
  <2>3. sq[src] = Tail(sp[src]) /\ \A g \in U : g # src => sq[g] = sp[g]
    BY <1>0, <1>4, <1>5, <2>2 DEF Drawn
  <2>4. /\ t \in Tok /\ ToSet(sp[src]) = ToSet(sq[src]) \cup {t}
        /\ \A y \in ToSet(sq[src]) : t < y
    BY <1>0, <1>2, <2>1, <2>2, <2>3, Dequeued
  <2>5. t \in ToSet(sp[src]) /\ t <= hi
    BY <1>2, <2>2, <2>4
  <2>6. ASSUME NEW g \in U, g # src, NEW y \in ToSet(sp[g]) PROVE t < y \/ (y = EOS /\ t = EOS)
    <3>1. Above(s, g, src) \/ Above(s, src, g)
      BY <1>0, <1>5, <2>2, <2>6, AboveOrder
    <3>2. ~Above(s, g, src)
      BY <1>1, <2>1, <2>6
    <3>3. Fresh(t, y)
      BY <1>0, <2>5, <2>6, <3>1, <3>2 DEF Ordered
    <3> QED
      BY <3>3 DEF Fresh
  <2> QED
    BY <1>0, <1>4, <1>7, <2>1, <2>3, <2>4, <2>5, <2>6, EosTok
<1> QED
  BY <1>6, <1>7

\* Who has had everything up to lo is given the next.
LEMMA DrawnNext ==
  ASSUME NEW s, NEW U, NEW sp, NEW sq, NEW f0, NEW src, NEW t, NEW n, NEW hi, NEW hi2,
         Drawing(s, U, sp, sq, f0, src, t, n, hi, hi2),
         NEW W, W \subseteq U, src # NULL => src \in W,
         NEW lo \in Nat, lo < EOS, Feeds(W, sp, lo, hi)
  PROVE  t = lo + 1
<1>0. /\ s \in Seq(Members) /\ Distinct(s) /\ Ordered(s, sp)
      /\ n \in Nat /\ hi \in 0 .. EOS /\ Feeds(ToSet(s), sp, n, hi)
      /\ Drawn(s, U, sp, sq, f0, src, t, hi, hi2)
  BY DEF Drawing
<1>1. /\ t \in Tok /\ hi2 \in 0 .. EOS /\ t <= hi2
      /\ src # NULL => t \in ToSet(sp[src]) /\ src \in U /\ hi2 = hi
      /\ src = NULL => hi2 = t /\ (t = hi + 1 \/ (t = EOS /\ hi = EOS))
      /\ \A g \in U : \A y \in ToSet(sp[g]) : y = t \/ t < y \/ (y = EOS /\ t = EOS)
  BY DrawnFacts
<1>2. CASE src # NULL
  <2>1. t <= hi /\ (t > lo \/ t = EOS)
    BY <1>0, <1>1, <1>2 DEF Feeds
  <2>2. lo + 1 \in lo + 1 .. hi
    BY <1>0, <1>1, <2>1, EosTok
  <2>3. PICK g \in W : lo + 1 \in ToSet(sp[g])
    BY <1>0, <2>2 DEF Feeds
  <2>4. lo + 1 = t \/ t < lo + 1
    BY <1>1, <2>3
  <2> QED
    BY <1>0, <1>1, <2>1, <2>4, EosTok
<1>3. CASE src = NULL
  <2>1. \A g \in W : ToSet(sp[g]) = {}
    <3>1. ToSet(<< >>) = {}
      BY DEF ToSet
    <3>2. \A g \in U : sp[g] = << >>
      BY <1>0, <1>3 DEF Drawn, Below
    <3> QED
      BY <3>1, <3>2
  <2>2. lo <= hi /\ \A u \in lo + 1 .. hi : FALSE
    BY <1>0, <2>1 DEF Feeds
  <2>3. hi = lo
    <3>1. hi \in Nat
      BY <1>0, EosTok
    <3> QED
      BY <2>2, <3>1
  <2> QED
    BY <1>0, <1>1, <1>3, <2>3, EosTok
<1> QED
  BY <1>2, <1>3

\* Who has had t then has had everything up to t.
LEMMA DrawnFeeds ==
  ASSUME NEW s, NEW U, NEW sp, NEW sq, NEW f0, NEW src, NEW t, NEW n, NEW hi, NEW hi2,
         Drawing(s, U, sp, sq, f0, src, t, n, hi, hi2),
         NEW W, W \subseteq U, Closed(s, W), src # NULL => src \in W
  PROVE  Feeds(W, sq, t, hi2)
<1>0. /\ s \in Seq(Members) /\ Distinct(s) /\ Ordered(s, sp)
      /\ n \in Nat /\ hi \in 0 .. EOS /\ Feeds(ToSet(s), sp, n, hi)
      /\ Drawn(s, U, sp, sq, f0, src, t, hi, hi2)
  BY DEF Drawing
<1>1. /\ t \in Tok /\ hi2 \in 0 .. EOS /\ t <= hi2 /\ hi <= hi2
      /\ src # NULL => t \in ToSet(sp[src]) /\ src \in U /\ hi2 = hi
      /\ src = NULL => hi2 = t /\ (t = hi + 1 \/ (t = EOS /\ hi = EOS))
      /\ \A g \in U : \A y \in ToSet(sq[g]) : t < y \/ (y = EOS /\ t = EOS)
      /\ \A g \in U : ToSet(sp[g]) \subseteq ToSet(sq[g]) \cup {t}
      /\ \A g \in U : ToSet(sq[g]) \subseteq ToSet(sp[g])
      /\ Closed(s, U)
  BY DrawnFacts
<1>2. ASSUME NEW g \in W, NEW y \in ToSet(sq[g]) PROVE y <= hi2 /\ (y > t \/ y = EOS)
  <2>1. g \in U /\ g \in ToSet(s) /\ y \in ToSet(sp[g])
    BY <1>0, <1>1, <1>2 DEF Closed
  <2>2. y <= hi
    BY <1>0, <2>1 DEF Feeds
  <2>3. y \in Tok
    BY <1>0, <2>1 DEF Ordered, ToSet
  <2>4. t < y \/ (y = EOS /\ t = EOS)
    BY <1>1, <1>2, <2>1
  <2> QED
    BY <1>0, <1>1, <2>2, <2>3, <2>4, EosTok
<1>3. ASSUME NEW u \in t + 1 .. hi2 PROVE \E g \in W : u \in ToSet(sq[g])
  <2>1. u \in Nat /\ t < u /\ u <= hi2 /\ t # hi2 /\ t \in Nat
    BY <1>0, <1>1, EosTok DEF Tok
  <2>2. src # NULL /\ hi2 = hi
    BY <1>1, <2>1
  <2>3. t \in ToSet(sp[src]) /\ src \in W /\ src \in ToSet(s)
    BY <1>0, <1>1, <2>2 DEF Closed
  <2>4. t > n \/ t = EOS
    BY <1>0, <2>3 DEF Feeds
  <2>5. t # EOS
    BY <1>0, <1>1, <2>1, EosTok
  <2>6. u \in n + 1 .. hi
    BY <1>0, <2>1, <2>2, <2>4, <2>5, EosTok
  <2>7. PICK g \in ToSet(s) : u \in ToSet(sp[g])
    BY <1>0, <2>6 DEF Feeds
  <2>8. ~Above(s, g, src)
    <3>1. SUFFICES ASSUME Above(s, g, src) PROVE FALSE
      OBVIOUS
    <3>2. Fresh(u, t)
      BY <1>0, <2>3, <2>7, <3>1 DEF Ordered
    <3> QED
      BY <2>1, <2>5, <3>2 DEF Fresh
  <2>9. g \in W
    <3>1. g = src \/ Above(s, src, g)
      BY <1>0, <2>3, <2>7, <2>8, AboveOrder
    <3> QED
      BY <1>0, <2>3, <2>7, <3>1 DEF Closed
  <2>10. u \in ToSet(sq[g])
    BY <1>1, <2>1, <2>7, <2>9
  <2> QED
    BY <2>9, <2>10
<1> QED
  BY <1>0, <1>1, <1>2, <1>3 DEF Feeds

\* Who is above f0 is still to be given it.
LEMMA DrawnKeeps ==
  ASSUME NEW s, NEW U, NEW sp, NEW sq, NEW f0, NEW src, NEW t, NEW n, NEW hi, NEW hi2,
         Drawing(s, U, sp, sq, f0, src, t, n, hi, hi2),
         ToSet(sq[f0]) = ToSet(sp[f0]) \cup {t},
         NEW W, Closed(s, W), f0 \in W, NEW lo \in Nat, Feeds(W, sp, lo, hi)
  PROVE  Feeds(W, sq, lo, hi2)
<1>0. /\ s \in Seq(Members) /\ Distinct(s) /\ Ordered(s, sp)
      /\ n \in Nat /\ hi \in 0 .. EOS /\ Feeds(ToSet(s), sp, n, hi)
      /\ Drawn(s, U, sp, sq, f0, src, t, hi, hi2)
  BY DEF Drawing
<1>1. /\ t \in Tok /\ hi2 \in 0 .. EOS /\ t <= hi2 /\ hi <= hi2
      /\ src # NULL => t \in ToSet(sp[src]) /\ src \in U /\ hi2 = hi
      /\ src = NULL => hi2 = t /\ (t = hi + 1 \/ (t = EOS /\ hi = EOS))
      /\ \A g \in U : ToSet(sp[g]) \subseteq ToSet(sq[g]) \cup {t}
      /\ \A g \in U : ToSet(sq[g]) \subseteq ToSet(sp[g])
      /\ Closed(s, U) /\ f0 \notin U
  BY DrawnFacts
<1>2. f0 # NULL /\ U = Below(s, f0)
  BY <1>0 DEF Drawn, Closed
<1>3. U \subseteq W
  BY <1>0, <1>2 DEF Closed, Below
<1>4. \A g \in W : g \notin U /\ g # f0 => sq[g] = sp[g]
  <2>1. \A g \in W : g \in ToSet(s)
    BY <1>0 DEF Closed
  <2>2. src = NULL \/ src \in U
    BY <1>1
  <2>3. NULL \notin ToSet(s)
    BY <1>0 DEF Drawn
  <2> QED
    BY <1>0, <2>1, <2>2, <2>3 DEF Drawn
<1>5. \A g \in W : ToSet(sp[g]) \subseteq ToSet(sq[g]) \cup {t} /\ ToSet(sq[g]) \subseteq ToSet(sp[g]) \cup {t}
  BY <1>1, <1>4
<1>6. t > lo \/ t = EOS
  <2>1. CASE src # NULL
    BY <1>0, <1>1, <1>3, <2>1 DEF Feeds
  <2>2. CASE src = NULL
    <3>1. lo <= hi /\ hi \in Nat
      BY <1>0, EosTok DEF Feeds
    <3> QED
      BY <1>1, <2>2, <3>1
  <2> QED
    BY <2>1, <2>2
<1>7. lo <= hi2
  BY <1>0, <1>1, EosTok DEF Feeds
<1>8. ASSUME NEW g \in W, NEW y \in ToSet(sq[g]) PROVE y <= hi2 /\ (y > lo \/ y = EOS)
  <2>1. CASE y = t
    BY <1>1, <1>6, <2>1
  <2>2. CASE y # t
    <3>1. y \in ToSet(sp[g])
      BY <1>5, <1>8, <2>2
    <3>2. y <= hi /\ (y > lo \/ y = EOS)
      BY <1>0, <3>1 DEF Feeds
    <3>3. y \in Tok
      BY <1>0, <3>1 DEF Ordered, ToSet, Closed
    <3> QED
      BY <1>0, <1>1, <3>2, <3>3, EosTok
  <2> QED
    BY <2>1, <2>2
<1>9. ASSUME NEW u \in lo + 1 .. hi2 PROVE \E g \in W : u \in ToSet(sq[g])
  <2>1. CASE u = t
    BY <2>1
  <2>2. CASE u # t
    <3>1. u \in lo + 1 .. hi
      BY <1>0, <1>1, <1>9, <2>2, EosTok
    <3>2. PICK g \in W : u \in ToSet(sp[g])
      BY <1>0, <3>1 DEF Feeds
    <3> QED
      BY <1>5, <2>2, <3>2
  <2> QED
    BY <2>1, <2>2
<1> QED
  BY <1>0, <1>7, <1>8, <1>9 DEF Feeds

\* Spools stay in order.
LEMMA DrawnOrdered ==
  ASSUME NEW s, NEW U, NEW sp, NEW sq, NEW f0, NEW src, NEW t, NEW n, NEW hi, NEW hi2,
         Drawing(s, U, sp, sq, f0, src, t, n, hi, hi2)
  PROVE  /\ Ordered(s, sq)
         /\ f0 # NULL => ToSet(sq[f0]) = ToSet(sp[f0]) \cup {t}
<1>0. /\ s \in Seq(Members) /\ Distinct(s) /\ Ordered(s, sp)
      /\ n \in Nat /\ hi \in 0 .. EOS /\ Feeds(ToSet(s), sp, n, hi)
      /\ Drawn(s, U, sp, sq, f0, src, t, hi, hi2)
  BY DEF Drawing
<1>1. /\ t \in Tok /\ hi2 \in 0 .. EOS /\ t <= hi2 /\ hi <= hi2
      /\ src # NULL => t \in ToSet(sp[src]) /\ src \in U /\ hi2 = hi
      /\ src = NULL => hi2 = t /\ (t = hi + 1 \/ (t = EOS /\ hi = EOS))
      /\ \A g \in U : \A y \in ToSet(sq[g]) : t < y \/ (y = EOS /\ t = EOS)
      /\ \A g \in U : ToSet(sq[g]) \subseteq ToSet(sp[g])
      /\ Closed(s, U) /\ f0 \notin U
  BY DrawnFacts
<1>2. NULL \notin ToSet(s) /\ \A g \in U : g \in ToSet(s)
  BY <1>0, <1>1 DEF Drawn, Closed
<1>3. \A g \in ToSet(s) : sp[g] \in Seq(Tok) /\ Rising(sp[g]) /\ ToSet(sp[g]) \subseteq Tok
  BY <1>0 DEF Ordered, ToSet
<1>4. \A g \in ToSet(s) : g # src /\ g # f0 => sq[g] = sp[g]
  BY <1>0 DEF Drawn
<1>5. src # NULL => sq[src] \in Seq(Tok) /\ Rising(sq[src])
  <2>1. SUFFICES ASSUME src # NULL PROVE sq[src] \in Seq(Tok) /\ Rising(sq[src])
    OBVIOUS
  <2>2. src \in ToSet(s) /\ sp[src] # << >> /\ sq[src] = Tail(sp[src])
    BY <1>0, <1>1, <1>2, <2>1 DEF Drawn
  <2> QED
    BY <1>0, <1>3, <2>2, Dequeued
\* What is above U came before t.
<1>6. ASSUME f0 # NULL, NEW g \in ToSet(s), g = f0 \/ Above(s, g, f0), NEW y \in ToSet(sp[g])
      PROVE  Fresh(y, t)
  <2>1. U = Below(s, f0)
    BY <1>0, <1>6 DEF Drawn
  <2>2. CASE src # NULL
    <3>1. Above(s, f0, src)
      BY <1>1, <2>1, <2>2 DEF Below
    <3>2. Above(s, g, src)
      BY <1>0, <1>6, <3>1, AboveOrder
    <3> QED
      BY <1>0, <1>1, <1>6, <2>2, <3>2 DEF Ordered
  <2>3. CASE src = NULL
    <3>1. y <= hi
      BY <1>0, <1>6 DEF Feeds
    <3>2. y \in Tok
      BY <1>3, <1>6
    <3> QED
      BY <1>0, <1>1, <2>3, <3>1, <3>2, EosTok DEF Fresh
  <2> QED
    BY <2>2, <2>3
<1>7. f0 # NULL => /\ sq[f0] \in Seq(Tok) /\ Rising(sq[f0])
                   /\ ToSet(sq[f0]) = ToSet(sp[f0]) \cup {t}
  <2>1. SUFFICES ASSUME f0 # NULL
                 PROVE  /\ sq[f0] \in Seq(Tok) /\ Rising(sq[f0])
                        /\ ToSet(sq[f0]) = ToSet(sp[f0]) \cup {t}
    OBVIOUS
  <2>2. f0 \in ToSet(s) /\ f0 # src
    BY <1>0, <1>1, <2>1 DEF Drawn
  <2>3. sq[f0] = Spooled(sp[f0], t)
    BY <1>0, <2>2 DEF Drawn
  <2>4. \A y \in ToSet(sp[f0]) : Fresh(y, t)
    BY <1>6, <2>1, <2>2
  <2> QED
    BY <1>1, <1>3, <2>2, <2>3, <2>4, Enqueued
<1>8. \A g \in ToSet(s) : sq[g] \in Seq(Tok) /\ Rising(sq[g])
  <2>1. ASSUME NEW g \in ToSet(s) PROVE sq[g] \in Seq(Tok) /\ Rising(sq[g])
    <3>1. g # NULL
      BY <1>2
    <3> QED
      BY <1>3, <1>4, <1>5, <1>7, <3>1
  <2> QED
    BY <2>1
<1>9. ASSUME NEW f, NEW g, Above(s, f, g), NEW x \in ToSet(sq[f]), NEW y \in ToSet(sq[g])
      PROVE  Fresh(x, y)
  <2>1. f \in ToSet(s) /\ g \in ToSet(s) /\ f # g
    BY <1>0, <1>9, AboveOrder
  <2>2. \A h \in ToSet(s) : h # f0 => ToSet(sq[h]) \subseteq ToSet(sp[h])
    BY <1>1, <1>2, <1>4
  <2>3. \A v \in ToSet(sp[f]), w \in ToSet(sp[g]) : Fresh(v, w)
    BY <1>0, <1>9 DEF Ordered
  <2>4. CASE f # f0 /\ g # f0
    BY <1>9, <2>1, <2>2, <2>3, <2>4
  <2>5. CASE g = f0
    <3>1. f0 # NULL /\ f # f0 /\ x \in ToSet(sp[f])
      BY <1>2, <1>9, <2>1, <2>2, <2>5
    <3>2. CASE y = t
      BY <1>6, <1>9, <2>1, <2>5, <3>1, <3>2
    <3>3. CASE y # t
      BY <1>7, <1>9, <2>3, <2>5, <3>1, <3>3
    <3> QED
      BY <3>2, <3>3
  <2>6. CASE f = f0
    <3>1. f0 # NULL /\ g \in U
      <4>1. f0 # NULL
        BY <1>2, <2>1, <2>6
      <4> QED
        BY <1>0, <1>9, <2>1, <2>6, <4>1 DEF Drawn, Below
    <3>2. CASE x = t
      BY <1>1, <1>9, <3>1, <3>2 DEF Fresh
    <3>3. CASE x # t
      <4>1. x \in ToSet(sp[f]) /\ y \in ToSet(sp[g])
        BY <1>1, <1>7, <1>9, <2>6, <3>1, <3>3
      <4> QED
        BY <2>3, <4>1
    <3> QED
      BY <3>2, <3>3
  <2> QED
    BY <2>4, <2>5, <2>6
<1> QED
  BY <1>0, <1>7, <1>8, <1>9 DEF Ordered


\* Without its first member.
LEMMA TailIs ==
  ASSUME NEW S, NEW s \in Seq(S), Distinct(s), s # << >>
  PROVE  /\ Tail(s) \in Seq(S) /\ Distinct(Tail(s)) /\ Head(s) = s[1] /\ Head(s) \in ToSet(s)
         /\ ToSet(Tail(s)) = ToSet(s) \ {Head(s)}
         /\ \A f, g : Above(Tail(s), f, g) => Above(s, f, g)
<1>1. DOMAIN s = 1 .. Len(s) /\ Len(s) \in Nat \ {0} /\ Head(s) = s[1] /\ 1 \in DOMAIN s
  OBVIOUS
<1>2. Tail(s) \in Seq(S) /\ DOMAIN Tail(s) = 1 .. Len(s) - 1
      /\ \A i \in 1 .. Len(s) - 1 : Tail(s)[i] = s[i + 1]
  BY <1>1
<1>3. \A i \in DOMAIN Tail(s) : i + 1 \in DOMAIN s /\ 1 < i + 1 /\ i + 1 # 1 /\ Tail(s)[i] = s[i + 1]
  BY <1>1, <1>2
<1>4. \A j \in DOMAIN s : j = 1 \/ (j - 1 \in DOMAIN Tail(s) /\ Tail(s)[j - 1] = s[j])
  BY <1>1, <1>2
<1>5. Distinct(Tail(s))
  <2>1. ASSUME NEW i \in DOMAIN Tail(s), NEW j \in DOMAIN Tail(s), Tail(s)[i] = Tail(s)[j]
        PROVE  i = j
    <3>1. i + 1 = j + 1
      BY <1>3, <2>1 DEF Distinct
    <3> QED
      BY <1>1, <1>2, <3>1
  <2> QED
    BY <2>1 DEF Distinct
<1>6. ToSet(Tail(s)) = ToSet(s) \ {Head(s)}
  <2>1. \A y \in ToSet(s) : y = Head(s) \/ y \in ToSet(Tail(s))
    BY <1>1, <1>4 DEF ToSet
  <2>2. \A y \in ToSet(Tail(s)) : y \in ToSet(s) /\ y # Head(s)
    BY <1>1, <1>3 DEF ToSet, Distinct
  <2> QED
    BY <2>1, <2>2
<1>7. ASSUME NEW f, NEW g, Above(Tail(s), f, g) PROVE Above(s, f, g)
  <2>1. PICK i \in DOMAIN Tail(s), j \in DOMAIN Tail(s) : i < j /\ Tail(s)[i] = f /\ Tail(s)[j] = g
    BY <1>7 DEF Above
  <2>2. i + 1 < j + 1
    BY <1>1, <1>2, <2>1
  <2> QED
    BY <1>3, <2>1, <2>2 DEF Above
<1>8. Head(s) \in ToSet(s)
  BY <1>1 DEF ToSet
<1> QED
  BY <1>1, <1>2, <1>5, <1>6, <1>7, <1>8

------------------------------------------------------------------------------
(* A chain is rearranged. *)

\* s has become w.  Those of K that are still there are in the same order;
\* others, that have left, were added or were moved, have nothing spooled.
Rearranged(s, w, K, sp) ==
    /\ s \in Seq(Members) /\ w \in Seq(Members) /\ Distinct(s) /\ Distinct(w)
    /\ K \subseteq ToSet(s)
    /\ \A g \in ToSet(s) : (g \in K /\ g \in ToSet(w)) \/ sp[g] = << >>
    /\ \A g \in ToSet(w) : g \in K \/ sp[g] = << >>
    /\ \A f, g \in K : f \in ToSet(w) /\ g \in ToSet(w) => (Above(w, f, g) <=> Above(s, f, g))

\* What has been spooled remains in order and complete.
LEMMA RearrangedReads ==
  ASSUME NEW s, NEW w, NEW K, NEW sp, Rearranged(s, w, K, sp)
  PROVE  /\ Ordered(s, sp) => Ordered(w, sp)
         /\ \A lo, hi : Feeds(ToSet(s), sp, lo, hi) => Feeds(ToSet(w), sp, lo, hi)
         /\ \A f \in K : f \in ToSet(w) =>
                \A lo, hi : Feeds(Below(s, f), sp, lo, hi) => Feeds(Below(w, f), sp, lo, hi)
<1>1. /\ s \in Seq(Members) /\ w \in Seq(Members) /\ Distinct(s) /\ Distinct(w)
      /\ K \subseteq ToSet(s)
      /\ \A g \in ToSet(s) : (g \in K /\ g \in ToSet(w)) \/ sp[g] = << >>
      /\ \A g \in ToSet(w) : g \in K \/ sp[g] = << >>
      /\ \A f, g \in K : f \in ToSet(w) /\ g \in ToSet(w) => (Above(w, f, g) <=> Above(s, f, g))
  BY DEF Rearranged
<1>2. ToSet(<< >>) = {} /\ << >> \in Seq(Tok) /\ Rising(<< >>)
  BY DEF ToSet, Rising
<1>3. ASSUME Ordered(s, sp) PROVE Ordered(w, sp)
  <2>1. ASSUME NEW f \in ToSet(w) PROVE sp[f] \in Seq(Tok) /\ Rising(sp[f])
    BY <1>1, <1>2, <1>3 DEF Ordered
  <2>2. ASSUME NEW f, NEW g, Above(w, f, g), NEW x \in ToSet(sp[f]), NEW y \in ToSet(sp[g])
        PROVE  Fresh(x, y)
    <3>1. f \in ToSet(w) /\ g \in ToSet(w)
      BY <1>1, <2>2, AboveOrder
    <3>2. f \in K /\ g \in K
      BY <1>1, <1>2, <2>2, <3>1
    <3>3. Above(s, f, g)
      BY <1>1, <2>2, <3>1, <3>2
    <3> QED
      BY <1>3, <2>2, <3>3 DEF Ordered
  <2> QED
    BY <2>1, <2>2 DEF Ordered
<1>4. ASSUME NEW lo, NEW hi, Feeds(ToSet(s), sp, lo, hi) PROVE Feeds(ToSet(w), sp, lo, hi)
  <2>1. \A g \in ToSet(w) : g \in ToSet(s) \/ ToSet(sp[g]) = {}
    BY <1>1, <1>2
  <2>2. \A g \in ToSet(s) : g \in ToSet(w) \/ ToSet(sp[g]) = {}
    BY <1>1, <1>2
  <2> QED
    BY <1>4, <2>1, <2>2 DEF Feeds
<1>5. ASSUME NEW f \in K, f \in ToSet(w), NEW lo, NEW hi, Feeds(Below(s, f), sp, lo, hi)
      PROVE  Feeds(Below(w, f), sp, lo, hi)
  <2>1. \A g \in Below(w, f) : g \in Below(s, f) \/ ToSet(sp[g]) = {}
    BY <1>1, <1>2, <1>5 DEF Below
  <2>2. \A g \in Below(s, f) : g \in Below(w, f) \/ ToSet(sp[g]) = {}
    BY <1>1, <1>2, <1>5 DEF Below
  <2> QED
    BY <1>5, <2>1, <2>2 DEF Feeds
<1> QED
  BY <1>3, <1>4, <1>5

------------------------------------------------------------------------------
(* The inductive invariant. *)

Statuses == {"EINIT", "NODATA", "INCOMPLETE", "INTERRUPT", "SUCCESS", "OVERLIMIT"}
Final    == {"NODATA", "SUCCESS", "OVERLIMIT"}

Contexts == [status : Statuses, limit : 0 .. Unset, bytes : Nat,
             shown : Seq(Tok), spool : Seq(Tok)]

TypeOK ==
    /\ chain \in Seq(Members) /\ cursor \in Seq(Members) /\ proto \in Members
    /\ made \in 0 .. MaxFilters
    /\ f_ctx \in [Filters -> 0 .. MaxFilters] /\ ctx \in [Filters -> Contexts]
    /\ r \in 0 .. MaxRedirects /\ get \in BOOLEAN /\ config \in 0 .. Unset
    /\ handle \in [0 .. MaxRedirects -> NoHandle .. MaxFilters]
    /\ phase \in {"early", "init", "content"}
    /\ pos \in 0 .. EOS /\ out \in Seq(Tok)

\* What each filter has spooled.
Spools == [f \in Members |-> IF IsApreq(f) /\ Live(f) THEN ctx[f_ctx[f]].spool ELSE << >>]

\* The chain ends with the protocol filter; the protocol filters begin with one
\* that has been read; no two filters of the chain have the same context; what
\* has not been made has none.
ChainInv ==
    /\ Distinct(chain)
    /\ Http \in ToSet(chain) /\ \A g : ~Above(chain, Http, g)
    /\ proto \in ToSet(chain)
    /\ IsApreq(proto) => Live(proto) /\ ctx[f_ctx[proto]].status # "EINIT"
    /\ \A f \in Filters : f \in ToSet(chain) \/ Live(f) => f <= made
    /\ \A f \in Filters : Live(f) => Live(f_ctx[f])
    /\ \A f, g \in Filters : f \in ToSet(chain) /\ g \in ToSet(chain) /\ Live(f) /\ f_ctx[f] = f_ctx[g]
                             => f = g
    /\ \A c \in Filters : ctx[c].status = "EINIT" => ctx[c].spool = << >> /\ ctx[c].shown = << >>
    /\ ~crashed

\* The filters whose init function is still to be called are in the chain, in
\* its order.
CursorInv ==
    phase = "init" =>
        /\ Distinct(cursor) /\ ToSet(cursor) \subseteq ToSet(chain)
        /\ \A f, g : Above(cursor, f, g) => Above(chain, f, g)

\* What the content handlers have not read is spooled, by the protocol filters.
ReadInv ==
    /\ Ordered(chain, Spools)
    /\ Feeds(ToSet(chain), Spools, Len(out), pos)
    /\ \A f : Above(chain, f, proto) => Spools[f] = << >>
    /\ BodyPassesOn

Follows(c) == c.status \in {"INCOMPLETE", "INTERRUPT"} /\ c.shown # << >>

\* What a parser that is to go on has not seen is spooled by the filters of W.
InStep(c, W, sp, hi) ==
    Follows(c) => Last(c.shown) # EOS /\ Feeds(W, sp, Last(c.shown), hi)

SyncInv ==
    /\ \A f \in Filters : f \in ToSet(chain) /\ Live(f) =>
            InStep(ctx[f_ctx[f]], Below(chain, f), Spools, pos)
    /\ NothingPassesBy

\* The filter a handle drives is in the chain, unless its parser has finished,
\* and no other apreq filter is above it; when the init functions have been
\* called, it is at the top.
HandleInv ==
    /\ \A q \in 0 .. MaxRedirects : q > r => handle[q] = NoHandle
    /\ Driven =>
        /\ Live(handle[r]) => /\ ctx[f_ctx[handle[r]]].status # "INTERRUPT"
                              /\ config # Unset => ctx[f_ctx[handle[r]]].limit = config
        /\ \/ handle[r] \in ToSet(chain)
           \/ Live(handle[r]) /\ ctx[f_ctx[handle[r]]].status \in Final
        /\ phase # "content" => handle[r] \in ToSet(chain)
        /\ \A g : Above(chain, g, handle[r]) => ~IsApreq(g)
        /\ phase = "init" /\ ~get /\ handle[r] \notin ToSet(cursor) =>
            \A g : ~Above(chain, g, handle[r])

Inv == TypeOK /\ ChainInv /\ CursorInv /\ ReadInv /\ SyncInv /\ HandleInv

LEMMA MembersAre ==
  /\ \A f \in Members : IsApreq(f) <=> f \in Filters
  /\ Http \in Members /\ Http \notin Filters /\ ~IsApreq(Http)
  /\ NULL \notin Members /\ NoHandle \notin Members /\ Filters \subseteq Members
  /\ \A k \in 1 .. MaxOthers : Other(k) \in Members /\ ~IsApreq(Other(k)) /\ Other(k) # Http
<1>1. \A f \in Others : f \in Int /\ f < -2
  BY ChainAssumption DEF Others, Other
<1>2. \A f \in Filters : f \in Int /\ f > 0
  BY ChainAssumption DEF Filters
<1>3. \A k \in 1 .. MaxOthers : Other(k) \in Others
  BY DEF Others
<1> QED
  BY <1>1, <1>2, <1>3 DEF Members, IsApreq, Filters, Http, NULL, NoHandle

\* Who is driven is a filter.
LEMMA DrivenIs ==
  ASSUME TypeOK
  PROVE  /\ Driven <=> handle[r] \in Filters
         /\ handle[r] \in NoHandle .. MaxFilters
<1>1. handle[r] \in NoHandle .. MaxFilters
  BY DEF TypeOK
<1> QED
  BY <1>1, ChainAssumption DEF Driven, Filters, NoHandle, NULL

\* A filter that is live has a context.
LEMMA LiveIs ==
  ASSUME TypeOK, NEW f
  PROVE  /\ Live(f) <=> f \in Filters /\ f_ctx[f] \in Filters
         /\ Live(f) => ctx[f_ctx[f]] \in Contexts
         /\ f \in Filters /\ ~Live(f) => f_ctx[f] = NULL
  BY ChainAssumption DEF TypeOK, Live, Filters, NULL

LEMMA SpoolsAre ==
  ASSUME TypeOK, NEW f \in Members
  PROVE  /\ Spools[f] \in Seq(Tok)
         /\ Live(f) => Spools[f] = ctx[f_ctx[f]].spool
         /\ ~Live(f) => Spools[f] = << >>
<1>1. Live(f) => f \in Filters /\ IsApreq(f) /\ ctx[f_ctx[f]] \in Contexts
  BY LiveIs DEF Filters, IsApreq
<1> QED
  BY <1>1 DEF Spools, Contexts

\* Chains are rearranged, and contexts made, without loss.
LEMMA Rearranging ==
  ASSUME TypeOK, ReadInv, SyncInv, UNCHANGED <<out, pos>>, Spools' = Spools,
         NEW K, Rearranged(chain, chain', K, Spools),
         \A f : Above(chain', f, proto') => Spools[f] = << >>,
         \A f \in Filters : f \in ToSet(chain') /\ Live(f)' =>
             \/ ctx'[f_ctx'[f]].shown = << >>
             \/ /\ f \in K /\ Live(f) /\ ctx'[f_ctx'[f]].shown = ctx[f_ctx[f]].shown
                /\ Follows(ctx'[f_ctx'[f]]) => Follows(ctx[f_ctx[f]]),
         NothingPassesBy'
  PROVE  ReadInv' /\ SyncInv'
<1>1. Ordered(chain', Spools) /\ Feeds(ToSet(chain'), Spools, Len(out), pos)
  BY RearrangedReads DEF ReadInv
<1>2. BodyPassesOn'
  BY DEF ReadInv, BodyPassesOn
<1>3. ReadInv'
  BY <1>1, <1>2 DEF ReadInv
<1>4. ASSUME NEW f \in Filters, f \in ToSet(chain'), Live(f)'
      PROVE  InStep(ctx'[f_ctx'[f]], Below(chain', f), Spools, pos)
  <2>1. CASE ctx'[f_ctx'[f]].shown = << >>
    BY <2>1 DEF InStep, Follows
  <2>2. CASE /\ f \in K /\ Live(f) /\ ctx'[f_ctx'[f]].shown = ctx[f_ctx[f]].shown
             /\ Follows(ctx'[f_ctx'[f]]) => Follows(ctx[f_ctx[f]])
    <3>1. f \in ToSet(chain)
      BY <2>2 DEF Rearranged
    <3>2. InStep(ctx[f_ctx[f]], Below(chain, f), Spools, pos)
      BY <2>2, <3>1 DEF SyncInv
    <3>3. \A lo, hi : Feeds(Below(chain, f), Spools, lo, hi) => Feeds(Below(chain', f), Spools, lo, hi)
      BY <1>4, <2>2, RearrangedReads
    <3> QED
      BY <2>2, <3>2, <3>3 DEF InStep
  <2> QED
    BY <1>4, <2>1, <2>2
<1>5. SyncInv'
  BY <1>4 DEF SyncInv
<1> QED
  BY <1>3, <1>5

------------------------------------------------------------------------------
(* Filters are added. *)

\* The next filter to be made is new.
LEMMA NextIsNew ==
  ASSUME TypeOK, ChainInv, made < MaxFilters
  PROVE  /\ made + 1 \in Filters /\ made + 1 \in Members /\ IsApreq(made + 1)
         /\ made + 1 \notin ToSet(chain) /\ ~Live(made + 1) /\ Spools[made + 1] = << >>
         /\ made + 1 \in 0 .. MaxFilters
<1>1. made \in Nat /\ MaxFilters \in Nat
  BY ChainAssumption DEF TypeOK
<1>2. made + 1 \in Filters /\ made + 1 \in 0 .. MaxFilters /\ ~(made + 1 <= made)
  BY <1>1 DEF Filters
<1>3. made + 1 \notin ToSet(chain) /\ ~Live(made + 1)
  BY <1>2 DEF ChainInv
<1> QED
  BY <1>2, <1>3, MembersAre, SpoolsAre

\* The filter has seen nothing and spooled nothing.
Idle(f) == Spools[f] = << >> /\ (Live(f) => ctx[f_ctx[f]].shown = << >>)

\* The context c has become d, which has no more to be given.
Continues(c, d) ==
    /\ d.spool = c.spool /\ d.shown = c.shown
    /\ d.status = "EINIT" => c.status = "EINIT"
    /\ Follows(d) => Follows(c)

\* Filters are added, moved and removed, and those of K are left as they are.
LEMMA Moving ==
  ASSUME TypeOK, ChainInv, ReadInv, SyncInv,
         NEW K, K \subseteq ToSet(chain), K \subseteq ToSet(chain'), proto \in K, Http \in K,
         \A g \in ToSet(chain) : g \in K \/ Spools[g] = << >>,
         \A g \in ToSet(chain') : g \in K \/ Idle(g),
         \A g \in ToSet(chain') : g \in ToSet(chain) \/ (~Live(g) /\ (g \in Filters => g <= made')),
         made' \in 0 .. MaxFilters, made <= made',
         chain' \in Seq(Members), Distinct(chain'),
         \A f, g \in K : Above(chain', f, g) <=> Above(chain, f, g),
         \A f : ~Above(chain', Http, f),
         DOMAIN ctx' = Filters, \A c \in Filters : Continues(ctx[c], ctx'[c]),
         UNCHANGED <<proto, f_ctx, crashed, out, pos>>
  PROVE  ChainInv' /\ ReadInv' /\ SyncInv'
<1>0. \A f : Live(f)' <=> Live(f)
  BY DEF Live
<1>1. Spools' = Spools
  <2>1. ASSUME NEW f \in Members
        PROVE  (IF IsApreq(f) /\ Live(f)' THEN ctx'[f_ctx'[f]].spool ELSE << >>)
               = (IF IsApreq(f) /\ Live(f) THEN ctx[f_ctx[f]].spool ELSE << >>)
    BY <1>0, LiveIs DEF Continues
  <2> QED
    BY <2>1 DEF Spools
<1>2. Rearranged(chain, chain', K, Spools)
  BY DEF Rearranged, TypeOK, ChainInv, Idle
<1>3. \A f : Above(chain', f, proto') => Spools[f] = << >>
  <2>1. ASSUME NEW f, Above(chain', f, proto') PROVE Spools[f] = << >>
    <3>1. f \in ToSet(chain')
      BY <2>1, AboveOrder
    <3>2. CASE f \notin K
      BY <3>1, <3>2 DEF Idle
    <3>3. CASE f \in K
      <4>1. Above(chain, f, proto)
        BY <2>1, <3>3
      <4> QED
        BY <4>1 DEF ReadInv
    <3> QED
      BY <3>2, <3>3
  <2> QED
    BY <2>1
<1>4. \A f \in Filters : f \in ToSet(chain') /\ Live(f)' =>
        \/ ctx'[f_ctx'[f]].shown = << >>
        \/ /\ f \in K /\ Live(f) /\ ctx'[f_ctx'[f]].shown = ctx[f_ctx[f]].shown
           /\ Follows(ctx'[f_ctx'[f]]) => Follows(ctx[f_ctx[f]])
  BY <1>0, LiveIs DEF Continues, Idle
<1>5. NothingPassesBy'
  <2>1. DOMAIN ctx = Filters
    BY DEF TypeOK
  <2>2. \A c \in DOMAIN ctx' : c \in Filters /\ ctx'[c].shown = ctx[c].shown
    BY DEF Continues
  <2> QED
    BY <2>1, <2>2 DEF SyncInv, NothingPassesBy
<1>6. ReadInv' /\ SyncInv'
  BY <1>1, <1>2, <1>3, <1>4, <1>5, Rearranging
<1>7. ChainInv'
  <2>2. \A f \in Filters : f \in ToSet(chain') \/ Live(f)' => f <= made'
    <3>1. ASSUME NEW f \in Filters, f \in ToSet(chain) \/ Live(f)' PROVE f <= made'
      <4>1. f <= made
        BY <1>0, <3>1 DEF ChainInv
      <4>2. f \in Int /\ made \in Int /\ made' \in Int
        BY DEF Filters, TypeOK
      <4> QED
        BY <4>1, <4>2
    <3> QED
      BY <1>0, <3>1
  <2>3. \A f, g \in Filters : f \in ToSet(chain') /\ g \in ToSet(chain') /\ Live(f)' /\ f_ctx'[f] = f_ctx'[g]
          => f = g
    <3>1. ASSUME NEW f \in Filters, NEW g \in Filters, f \in ToSet(chain'), g \in ToSet(chain'),
                 Live(f), f_ctx[f] = f_ctx[g]
          PROVE  f = g
      <4>1. f_ctx[f] # NULL
        BY <3>1 DEF Live
      <4>2. Live(g)
        BY <3>1, <4>1, LiveIs
      <4> QED
        BY <3>1, <4>2 DEF ChainInv
    <3> QED
      BY <1>0, <3>1
  <2>4. \A f \in Filters : Live(f)' => Live(f_ctx[f])'
    BY DEF ChainInv, Live
  <2>5. IsApreq(proto') => Live(proto)' /\ ctx'[f_ctx'[proto']].status # "EINIT"
    <3>1. SUFFICES ASSUME IsApreq(proto) PROVE Live(proto) /\ ctx'[f_ctx[proto]].status # "EINIT"
      BY DEF Live
    <3>2. Live(proto) /\ ctx[f_ctx[proto]].status # "EINIT"
      BY <3>1 DEF ChainInv
    <3>3. f_ctx[proto] \in Filters
      BY <3>2, LiveIs
    <3> QED
      BY <3>2, <3>3 DEF Continues
  <2>6. \A c \in Filters : ctx'[c].status = "EINIT" => ctx'[c].spool = << >> /\ ctx'[c].shown = << >>
    BY DEF ChainInv, Continues
  <2> QED
    BY <2>2, <2>3, <2>4, <2>5, <2>6 DEF ChainInv
<1> QED
  BY <1>6, <1>7

\* A filter that is not live is added, and nothing else is done to the others.
LEMMA Adding ==
  ASSUME TypeOK, ChainInv, ReadInv, SyncInv,
         NEW m \in Members, m \notin ToSet(chain), ~Live(m), m # Http,
         m \in Filters => m <= made',
         made' \in 0 .. MaxFilters, made <= made',
         chain' \in Seq(Members), Distinct(chain'), ToSet(chain') = ToSet(chain) \cup {m},
         \A f, g \in ToSet(chain) : Above(chain', f, g) <=> Above(chain, f, g),
         \A f : ~Above(chain', Http, f),
         UNCHANGED <<proto, f_ctx, ctx, crashed, out, pos>>
  PROVE  ChainInv' /\ ReadInv' /\ SyncInv'
<1>1. proto \in ToSet(chain) /\ Http \in ToSet(chain)
  BY DEF ChainInv
<1>2. \A g \in ToSet(chain') : g \in ToSet(chain) \/ Idle(g)
  BY SpoolsAre DEF Idle
<1>3. DOMAIN ctx' = Filters /\ \A c \in Filters : Continues(ctx[c], ctx'[c])
  BY DEF Continues, TypeOK
<1> QED
  BY <1>1, <1>2, <1>3, Moving

LEMMA HandleStep ==
  ASSUME Inv, Handle
  PROVE  Inv'
<1>1. /\ TypeOK /\ ChainInv /\ CursorInv /\ ReadInv /\ SyncInv /\ HandleInv
  BY DEF Inv
<1>0. PICK m \in Members : m = made + 1
  BY <1>1, NextIsNew DEF Handle
<1>2. /\ m \in Filters /\ m \in Members /\ IsApreq(m) /\ m \notin ToSet(chain) /\ ~Live(m)
      /\ m \in 0 .. MaxFilters /\ m # Http
  BY <1>0, <1>1, NextIsNew, MembersAre DEF Handle
<1>3. /\ phase # "init" /\ made' = m /\ chain' = <<m>> \o chain
      /\ handle' = [handle EXCEPT ![r] = m]
      /\ UNCHANGED <<proto, f_ctx, ctx, r, get, config, phase, cursor, pos, out, crashed>>
  BY <1>0 DEF Handle
<1>4. made \in Nat /\ m <= made' /\ made <= made' /\ made' \in 0 .. MaxFilters
  BY <1>0, <1>1, <1>2, <1>3 DEF TypeOK
<1>5. /\ chain' \in Seq(Members) /\ Distinct(chain') /\ ToSet(chain') = ToSet(chain) \cup {m}
      /\ \A f, g : Above(chain', f, g) <=> Above(chain, f, g) \/ (f = m /\ g \in ToSet(chain))
  <2>1. chain \in Seq(Members) /\ Distinct(chain)
    BY <1>1 DEF TypeOK, ChainInv
  <2>2. Topped(chain', m, chain)
    BY <1>3 DEF Topped
  <2> QED
    BY <1>2, <2>1, <2>2, OnTop
<1>6. ChainInv' /\ ReadInv' /\ SyncInv'
  <2>1. \A f, g \in ToSet(chain) : Above(chain', f, g) <=> Above(chain, f, g)
    BY <1>2, <1>5
  <2>2. \A f : ~Above(chain', Http, f)
    BY <1>1, <1>2, <1>5 DEF ChainInv
  <2> QED
    BY <1>1, <1>2, <1>3, <1>4, <1>5, <2>1, <2>2, Adding
<1>7. TypeOK'
  <2>1. handle' \in [0 .. MaxRedirects -> NoHandle .. MaxFilters]
    <3>1. m \in NoHandle .. MaxFilters
      BY <1>2 DEF NoHandle
    <3> QED
      BY <1>1, <1>3, <3>1 DEF TypeOK
  <2> QED
    BY <1>1, <1>3, <1>4, <1>5, <2>1 DEF TypeOK
<1>8. CursorInv'
  BY <1>3 DEF CursorInv
<1>9. HandleInv'
  <2>1. handle'[r'] = m /\ \A q \in 0 .. MaxRedirects : q > r' => handle'[q] = NoHandle
    <3>1. r \in 0 .. MaxRedirects /\ handle \in [0 .. MaxRedirects -> NoHandle .. MaxFilters]
      BY <1>1 DEF TypeOK
    <3>2. ASSUME NEW q \in 0 .. MaxRedirects, q > r PROVE handle'[q] = NoHandle
      <4>1. q # r
        BY <3>1, <3>2
      <4> QED
        BY <1>1, <1>3, <3>1, <3>2, <4>1 DEF HandleInv
    <3> QED
      BY <1>3, <3>1, <3>2
  <2>2. ~Live(m)'
    BY <1>2, <1>3 DEF Live
  <2>3. \A g : ~Above(chain, g, m)
    BY <1>1, <1>2, AboveOrder DEF TypeOK, ChainInv
  <2>4. \A g : ~Above(chain', g, m)
    BY <1>2, <1>5, <2>3
  <2> QED
    BY <1>3, <1>5, <2>1, <2>2, <2>4 DEF HandleInv
<1> QED
  BY <1>6, <1>7, <1>8, <1>9 DEF Inv

LEMMA ConfigureStep ==
  ASSUME Inv, Configure
  PROVE  Inv'
<1>1. /\ TypeOK /\ ChainInv /\ CursorInv /\ ReadInv /\ SyncInv /\ HandleInv
  BY DEF Inv
<1>0. PICK m \in Members : m = made + 1
  BY <1>1, NextIsNew DEF Configure
<1>2. /\ m \in Filters /\ m \in Members /\ IsApreq(m) /\ m \notin ToSet(chain) /\ ~Live(m)
      /\ m \in 0 .. MaxFilters /\ m # Http
  BY <1>0, <1>1, NextIsNew, MembersAre DEF Configure
<1>3. /\ phase = "early" /\ made' = m /\ chain' = InsertAt(chain, Len(chain), m)
      /\ UNCHANGED <<proto, f_ctx, ctx, r, get, config, handle, phase, cursor, pos, out, crashed>>
  BY <1>0 DEF Configure
<1>4. made \in Nat /\ m <= made' /\ made <= made' /\ made' \in 0 .. MaxFilters
  BY <1>0, <1>1, <1>2, <1>3 DEF TypeOK
<1>5. /\ chain' \in Seq(Members) /\ Distinct(chain') /\ ToSet(chain') = ToSet(chain) \cup {m}
      /\ \A f, g : Above(chain', f, g) <=> \/ Above(chain, f, g)
                                           \/ f = m /\ g = Http
                                           \/ g = m /\ f \in ToSet(chain) /\ f # Http
  <2>1. chain \in Seq(Members) /\ Distinct(chain)
    BY <1>1 DEF TypeOK, ChainInv
  <2>2. Last(chain) = Http /\ chain # << >>
    BY <1>1, <2>1, FirstLastAre DEF ChainInv
  <2>3. PICK w : w = InsertAt(chain, Len(chain), m)
    OBVIOUS
  <2> QED
    BY <1>2, <1>3, <2>1, <2>2, <2>3, InsertedIs
<1>6. ChainInv' /\ ReadInv' /\ SyncInv'
  <2>1. \A f, g \in ToSet(chain) : Above(chain', f, g) <=> Above(chain, f, g)
    BY <1>2, <1>5
  <2>2. \A f : ~Above(chain', Http, f)
    BY <1>1, <1>2, <1>5 DEF ChainInv
  <2> QED
    BY <1>1, <1>2, <1>3, <1>4, <1>5, <2>1, <2>2, Adding
<1>7. TypeOK'
  BY <1>1, <1>3, <1>4, <1>5 DEF TypeOK
<1>8. CursorInv'
  BY <1>3 DEF CursorInv
<1>9. HandleInv'
  <2>1. SUFFICES ASSUME Driven
                 PROVE  /\ handle[r] \in ToSet(chain')
                        /\ \A g : Above(chain', g, handle[r]) => ~IsApreq(g)
    BY <1>1, <1>3 DEF HandleInv, Driven, Live
  <2>2. handle[r] \in ToSet(chain) /\ handle[r] # m /\ handle[r] # Http
    BY <1>1, <1>2, <1>3, <2>1, DrivenIs, MembersAre DEF HandleInv
  <2> QED
    BY <1>1, <1>5, <2>1, <2>2 DEF HandleInv
<1> QED
  BY <1>6, <1>7, <1>8, <1>9 DEF Inv

LEMMA AddOtherStep ==
  ASSUME Inv, AddOther
  PROVE  Inv'
<1>1. /\ TypeOK /\ ChainInv /\ CursorInv /\ ReadInv /\ SyncInv /\ HandleInv
  BY DEF Inv
<1>2. PICK k \in 1 .. MaxOthers : Other(k) \notin ToSet(chain) /\ chain' = <<Other(k)>> \o chain
  BY DEF AddOther
<1>0. PICK m \in Members : m = Other(k)
  BY MembersAre
<1>3. /\ phase = "early" /\ chain' = <<m>> \o chain
      /\ UNCHANGED <<proto, made, f_ctx, ctx, r, get, config, handle, phase, cursor, pos, out, crashed>>
  BY <1>0, <1>2 DEF AddOther
<1>4. /\ m \notin ToSet(chain) /\ m # Http /\ ~IsApreq(m) /\ m \notin Filters /\ ~Live(m)
      /\ made' \in 0 .. MaxFilters /\ made <= made'
  <2>1. m \notin ToSet(chain) /\ m # Http /\ ~IsApreq(m) /\ m \notin Filters
    BY <1>0, <1>2, MembersAre
  <2>2. made \in 0 .. MaxFilters /\ made \in Int
    BY <1>1 DEF TypeOK
  <2> QED
    BY <1>1, <1>3, <2>1, <2>2, LiveIs
<1>5. /\ chain' \in Seq(Members) /\ Distinct(chain') /\ ToSet(chain') = ToSet(chain) \cup {m}
      /\ \A f, g : Above(chain', f, g) <=> Above(chain, f, g) \/ (f = m /\ g \in ToSet(chain))
  <2>1. chain \in Seq(Members) /\ Distinct(chain)
    BY <1>1 DEF TypeOK, ChainInv
  <2>2. Topped(chain', m, chain)
    BY <1>3 DEF Topped
  <2> QED
    BY <1>4, <2>1, <2>2, OnTop
<1>6. ChainInv' /\ ReadInv' /\ SyncInv'
  <2>1. \A f, g \in ToSet(chain) : Above(chain', f, g) <=> Above(chain, f, g)
    BY <1>4, <1>5
  <2>2. \A f : ~Above(chain', Http, f)
    BY <1>1, <1>4, <1>5 DEF ChainInv
  <2> QED
    BY <1>1, <1>3, <1>4, <1>5, <2>1, <2>2, Adding
<1>7. TypeOK'
  BY <1>1, <1>3, <1>4, <1>5 DEF TypeOK
<1>8. CursorInv'
  BY <1>3 DEF CursorInv
<1>9. HandleInv'
  <2>1. SUFFICES ASSUME Driven
                 PROVE  /\ handle[r] \in ToSet(chain')
                        /\ \A g : Above(chain', g, handle[r]) => ~IsApreq(g)
    BY <1>1, <1>3 DEF HandleInv, Driven, Live
  <2>2. handle[r] \in ToSet(chain)
    BY <1>1, <1>3, <2>1 DEF HandleInv
  <2> QED
    BY <1>1, <1>4, <1>5, <2>1, <2>2 DEF HandleInv
<1> QED
  BY <1>6, <1>7, <1>8, <1>9 DEF Inv

\* Nothing is done to the filters.
LEMMA FiltersStay ==
  ASSUME TypeOK, ChainInv, ReadInv, SyncInv,
         UNCHANGED <<chain, proto, made, f_ctx, ctx, crashed, out, pos>>
  PROVE  ChainInv' /\ ReadInv' /\ SyncInv'
<1>1. \A f : Live(f)' <=> Live(f)
  BY DEF Live
<1>2. Spools' = Spools
  BY <1>1 DEF Spools
<1>3. ChainInv'
  BY <1>1 DEF ChainInv, Live
<1>4. ReadInv'
  BY <1>2 DEF ReadInv, BodyPassesOn
<1>5. SyncInv'
  BY <1>1, <1>2 DEF SyncInv, NothingPassesBy
<1> QED
  BY <1>3, <1>4, <1>5

LEMMA PhaseSteps ==
  ASSUME Inv, StartInit \/ InitOther \/ EndInit
  PROVE  Inv'
<1>1. /\ TypeOK /\ ChainInv /\ CursorInv /\ ReadInv /\ SyncInv /\ HandleInv
  BY DEF Inv
<1>2. UNCHANGED <<chain, proto, made, f_ctx, ctx, r, get, config, handle, pos, out, crashed>>
  BY DEF StartInit, InitOther, EndInit
<1>3. ChainInv' /\ ReadInv' /\ SyncInv'
  BY <1>1, <1>2, FiltersStay
<1>4. CASE StartInit
  <2>1. phase = "early" /\ phase' = "init" /\ cursor' = chain
    BY <1>4 DEF StartInit
  <2>2. TypeOK'
    BY <1>1, <1>2, <2>1 DEF TypeOK
  <2>3. CursorInv'
    BY <1>1, <1>2, <2>1 DEF CursorInv, ChainInv
  <2>4. HandleInv'
    BY <1>1, <1>2, <2>1 DEF HandleInv, Driven, Live
  <2> QED
    BY <1>3, <2>2, <2>3, <2>4 DEF Inv
<1>5. CASE InitOther
  <2>1. phase = "init" /\ phase' = "init" /\ cursor # << >> /\ ~IsApreq(Head(cursor)) /\ cursor' = Tail(cursor)
    BY <1>5 DEF InitOther
  <2>2. cursor \in Seq(Members) /\ Distinct(cursor)
    BY <1>1, <2>1 DEF TypeOK, CursorInv
  <2>3. /\ cursor' \in Seq(Members) /\ Distinct(cursor') /\ ToSet(cursor') = ToSet(cursor) \ {Head(cursor)}
        /\ \A f, g : Above(cursor', f, g) => Above(cursor, f, g)
    BY <2>1, <2>2, TailIs
  <2>4. TypeOK'
    BY <1>1, <1>2, <2>1, <2>3 DEF TypeOK
  <2>5. CursorInv'
    BY <1>1, <1>2, <2>1, <2>3 DEF CursorInv
  <2>6. HandleInv'
    <3>1. ASSUME Driven PROVE handle[r] # Head(cursor)
      BY <1>1, <2>1, <3>1, DrivenIs, MembersAre
    <3>2. Driven /\ handle[r] \notin ToSet(cursor') => handle[r] \notin ToSet(cursor)
      BY <2>3, <3>1
    <3> QED
      BY <1>1, <1>2, <2>1, <3>2 DEF HandleInv, Driven, Live
  <2> QED
    BY <1>3, <2>4, <2>5, <2>6 DEF Inv
<1>6. CASE EndInit
  <2>1. phase' = "content" /\ cursor' = cursor
    BY <1>6 DEF EndInit
  <2>2. TypeOK'
    BY <1>1, <1>2, <2>1 DEF TypeOK
  <2>3. CursorInv'
    BY <2>1 DEF CursorInv
  <2>4. HandleInv'
    BY <1>1, <1>2, <2>1 DEF HandleInv, Driven, Live
  <2> QED
    BY <1>3, <2>2, <2>3, <2>4 DEF Inv
<1> QED
  BY <1>4, <1>5, <1>6

------------------------------------------------------------------------------
(* The init functions are called. *)

\* When the handle has been asked for: ca is the chain, d is what the handle
\* drives and m the number of filters.
Asked(ca, d, m) ==
    /\ ca \in Seq(Members) /\ Distinct(ca) /\ ToSet(chain) \subseteq ToSet(ca)
    /\ d \in Filters /\ d \in ToSet(ca) /\ \A g : Above(ca, g, d) => ~IsApreq(g)
    /\ \/ ca = chain
       \/ d \notin ToSet(chain) /\ ~Live(d) /\ d <= m /\ \A g : ~Above(ca, g, d)
    /\ \A g \in ToSet(ca) : g \in ToSet(chain) \/ g = d
    /\ \A f, g \in ToSet(chain) : Above(ca, f, g) <=> Above(chain, f, g)
    /\ \A f : ~Above(ca, Http, f)
    /\ Live(d) => /\ ctx[f_ctx[d]].status # "INTERRUPT"
                  /\ config # Unset => ctx[f_ctx[d]].limit = config
    /\ ~get /\ d \notin ToSet(cursor) => \A g : ~Above(ca, g, d)
    /\ m \in 0 .. MaxFilters /\ made <= m

LEMMA AskedIs ==
  ASSUME Inv, InitFilter
  PROVE  Asked(ChainAdded, DrivenBy, IF Added = NULL THEN made ELSE Added)
<1>1. /\ TypeOK /\ ChainInv /\ CursorInv /\ ReadInv /\ SyncInv /\ HandleInv
  BY DEF Inv
<1>2. phase = "init" /\ (~Driven => made < MaxFilters)
  BY DEF InitFilter
<1>3. made \in Nat /\ MaxFilters \in Nat /\ made \in 0 .. MaxFilters
  BY <1>1, ChainAssumption DEF TypeOK
<1>4. chain \in Seq(Members) /\ Distinct(chain)
  BY <1>1 DEF TypeOK, ChainInv
<1>5. CASE Driven
  <2>1. Added = NULL /\ ChainAdded = chain /\ DrivenBy = handle[r]
    BY <1>5 DEF Added, ChainAdded, DrivenBy
  <2>2. handle[r] \in Filters /\ handle[r] \in ToSet(chain)
    BY <1>1, <1>2, <1>5, DrivenIs DEF HandleInv
  <2>3. Asked(chain, handle[r], made)
    BY <1>1, <1>2, <1>3, <1>4, <1>5, <2>2 DEF Asked, HandleInv, ChainInv
  <2> QED
    BY <2>1, <2>3
<1>6. CASE ~Driven
  <2>0. PICK m \in Members : m = made + 1
    BY <1>1, <1>2, <1>6, NextIsNew
  <2>1. /\ m \in Filters /\ m \notin ToSet(chain) /\ ~Live(m) /\ m # Http
        /\ m \in 0 .. MaxFilters /\ made <= m /\ m <= m
    BY <1>1, <1>2, <1>3, <1>6, <2>0, NextIsNew, MembersAre
  <2>2. Added = m /\ m # NULL
    BY <1>2, <1>3, <1>6, <2>0 DEF Added, NULL
  <2>3. ChainAdded = <<m>> \o chain /\ DrivenBy = m
    BY <2>2 DEF ChainAdded, DrivenBy
  <2>4. PICK ca : ca = ChainAdded
    OBVIOUS
  <2>5. Topped(ca, m, chain)
    BY <2>3, <2>4 DEF Topped
  <2>6. /\ ca \in Seq(Members) /\ Distinct(ca) /\ ToSet(ca) = ToSet(chain) \cup {m}
        /\ \A f, g : Above(ca, f, g) <=> Above(chain, f, g) \/ (f = m /\ g \in ToSet(chain))
    BY <1>4, <2>1, <2>5, OnTop
  <2>7. \A g : ~Above(chain, g, m)
    BY <1>4, <2>1, AboveOrder
  <2>8. \A g : ~Above(ca, g, m)
    BY <2>1, <2>6, <2>7
  <2>9. Asked(ca, m, m)
    BY <1>1, <2>1, <2>6, <2>8 DEF Asked, ChainInv
  <2> QED
    BY <2>2, <2>3, <2>4, <2>9
<1> QED
  BY <1>5, <1>6

\* A filter that is not ready has nothing, and is not the first of the
\* protocol filters.
LEMMA UnreadyIs ==
  ASSUME TypeOK, ChainInv, NEW f \in Filters,
         IF f_ctx[f] = NULL THEN TRUE ELSE ctx[f_ctx[f]].status = "EINIT"
  PROVE  Idle(f) /\ Spools[f] = << >> /\ proto # f
<1>1. f \in Members /\ IsApreq(f)
  BY MembersAre
<1>2. Live(f) => ctx[f_ctx[f]].status = "EINIT" /\ f_ctx[f] \in Filters
  BY LiveIs DEF Live
<1> QED
  BY <1>1, <1>2, SpoolsAre DEF ChainInv, Idle

LEMMA InitFilterStep ==
  ASSUME Inv, InitFilter
  PROVE  Inv'
<1>1. /\ TypeOK /\ ChainInv /\ CursorInv /\ ReadInv /\ SyncInv /\ HandleInv
  BY DEF Inv
<1>2. PICK ca, d, m : /\ ca = ChainAdded /\ d = DrivenBy
                      /\ m = IF Added = NULL THEN made ELSE Added
                      /\ Asked(ca, d, m)
  BY AskedIs
<1>3. PICK f : f = Head(cursor)
  OBVIOUS
<1>4. /\ phase = "init" /\ phase' = "init" /\ cursor # << >> /\ IsApreq(f) /\ made' = m
      /\ UNCHANGED <<f_ctx, r, get, config, pos, out, crashed>>
  BY <1>2, <1>3 DEF InitFilter
<1> DEFINE unready == IF f_ctx[f] = NULL THEN TRUE ELSE ctx[f_ctx[f]].status = "EINIT"
           drive(g) == handle' = [handle EXCEPT ![r] = g]
<1>5. /\ cursor \in Seq(Members) /\ Distinct(cursor) /\ ToSet(cursor) \subseteq ToSet(chain)
      /\ \A g, h : Above(cursor, g, h) => Above(chain, g, h)
  BY <1>1, <1>4 DEF TypeOK, CursorInv
<1>6. /\ Tail(cursor) \in Seq(Members) /\ Distinct(Tail(cursor)) /\ f \in ToSet(cursor)
      /\ ToSet(Tail(cursor)) = ToSet(cursor) \ {f} /\ f = cursor[1]
      /\ \A g, h : Above(Tail(cursor), g, h) => Above(cursor, g, h)
  BY <1>3, <1>4, <1>5, TailIs
<1>7. f \in Filters /\ f \in ToSet(chain) /\ f \in Members /\ f # Http
  <2>1. f \in ToSet(chain)
    BY <1>5, <1>6
  <2>2. f \in Members
    BY <1>1, <2>1 DEF TypeOK, ToSet
  <2> QED
    BY <1>4, <2>1, <2>2, MembersAre
<1>8. /\ ca \in Seq(Members) /\ Distinct(ca) /\ ToSet(chain) \subseteq ToSet(ca)
      /\ d \in Filters /\ d \in ToSet(ca) /\ \A g : Above(ca, g, d) => ~IsApreq(g)
      /\ \/ ca = chain
         \/ d \notin ToSet(chain) /\ ~Live(d) /\ d <= m /\ \A g : ~Above(ca, g, d)
      /\ \A g \in ToSet(ca) : g \in ToSet(chain) \/ g = d
      /\ \A g, h \in ToSet(chain) : Above(ca, g, h) <=> Above(chain, g, h)
      /\ \A g : ~Above(ca, Http, g)
      /\ Live(d) => /\ ctx[f_ctx[d]].status # "INTERRUPT"
                    /\ config # Unset => ctx[f_ctx[d]].limit = config
      /\ ~get /\ d \notin ToSet(cursor) => \A g : ~Above(ca, g, d)
      /\ m \in 0 .. MaxFilters /\ made <= m
  BY <1>2 DEF Asked
\* Who is at the top of the chain, if an apreq filter is there.
<1>9. /\ ca[1] \in ToSet(ca) /\ \A g : ~Above(ca, g, ca[1])
      /\ IsApreq(ca[1]) => ca[1] = d
  <2>1. ca # << >>
    BY <1>8, FirstLastAre
  <2>2. ca[1] \in ToSet(ca) /\ \A g \in ToSet(ca) : g = ca[1] \/ Above(ca, ca[1], g)
    BY <1>8, <2>1, Ends
  <2> QED
    BY <1>8, <2>2, AboveOrder
\* What has been added is idle.
<1>10. \A g \in ToSet(ca) : g \in ToSet(chain) \/ (Idle(g) /\ ~Live(g) /\ (g \in Filters => g <= m))
  BY <1>8, MembersAre, SpoolsAre, <1>1 DEF Idle
<1>11. /\ proto \in ToSet(chain) /\ Http \in ToSet(chain) /\ DOMAIN ctx = Filters
       /\ made' \in 0 .. MaxFilters /\ made <= made'
  BY <1>1, <1>4, <1>8 DEF ChainInv, TypeOK
<1>12. ASSUME chain' = ca, proto' = proto, DOMAIN ctx' = Filters,
              \A c \in Filters : Continues(ctx[c], ctx'[c])
       PROVE  ChainInv' /\ ReadInv' /\ SyncInv'
  <2> DEFINE K == ToSet(chain)
  <2>1. /\ K \subseteq ToSet(chain) /\ K \subseteq ToSet(chain') /\ proto \in K /\ Http \in K
        /\ chain' \in Seq(Members) /\ Distinct(chain')
        /\ \A g, h \in K : Above(chain', g, h) <=> Above(chain, g, h)
        /\ \A g : ~Above(chain', Http, g)
    BY <1>8, <1>11, <1>12
  <2>2. \A g \in ToSet(chain') : g \in K \/ Idle(g)
    BY <1>10, <1>12
  <2>3. \A g \in ToSet(chain') : g \in ToSet(chain) \/ (~Live(g) /\ (g \in Filters => g <= made'))
    BY <1>4, <1>10, <1>12
  <2>4. \A g \in ToSet(chain) : g \in K \/ Spools[g] = << >>
    OBVIOUS
  <2> HIDE DEF K
  <2> QED
    BY <1>1, <1>4, <1>11, <1>12, <2>1, <2>2, <2>3, <2>4, Moving
<1>13. ASSUME unready, ctx' = ctx, proto' = IF proto = f THEN Head(After(chain, f)) ELSE proto,
              chain' \in Seq(Members), Distinct(chain'),
              ToSet(ca) \ {f} \subseteq ToSet(chain'), ToSet(chain') \subseteq ToSet(ca),
              \A g, h : g # f /\ h # f => (Above(chain', g, h) <=> Above(ca, g, h)),
              \A g : ~Above(chain', Http, g)
       PROVE  ChainInv' /\ ReadInv' /\ SyncInv'
  <2> DEFINE K == ToSet(chain) \ {f}
  <2>0. Idle(f) /\ Spools[f] = << >> /\ proto # f
    BY <1>1, <1>7, <1>13, UnreadyIs
  <2>1. /\ K \subseteq ToSet(chain) /\ K \subseteq ToSet(chain') /\ proto \in K /\ Http \in K
    BY <1>7, <1>8, <1>11, <1>13, <2>0
  <2>2. \A g \in ToSet(chain') : g \in K \/ Idle(g)
    BY <1>10, <1>13, <2>0
  <2>3. \A g \in ToSet(chain') : g \in ToSet(chain) \/ (~Live(g) /\ (g \in Filters => g <= made'))
    BY <1>4, <1>10, <1>13
  <2>4. \A g \in ToSet(chain) : g \in K \/ Spools[g] = << >>
    BY <2>0
  <2>5. \A g, h \in K : Above(chain', g, h) <=> Above(chain, g, h)
    BY <1>8, <1>13
  <2>6. DOMAIN ctx' = Filters /\ (\A c \in Filters : Continues(ctx[c], ctx'[c])) /\ proto' = proto
    BY <1>11, <1>13, <2>0 DEF Continues
  <2> HIDE DEF K
  <2> QED
    BY <1>1, <1>4, <1>11, <1>13, <2>1, <2>2, <2>3, <2>4, <2>5, <2>6, Moving
\* The handle, when it drives d and contexts stay as they are.
<1>14. ASSUME drive(d), ctx' = ctx, d \in ToSet(chain'),
              \A g : Above(chain', g, d) => ~IsApreq(g),
              ~get /\ d \notin ToSet(cursor') => \A g : ~Above(chain', g, d)
       PROVE  HandleInv'
  <2>1. r \in 0 .. MaxRedirects /\ handle \in [0 .. MaxRedirects -> NoHandle .. MaxFilters] /\ r' = r
    BY <1>1, <1>4 DEF TypeOK
  <2>2. handle'[r'] = d
    BY <1>14, <2>1
  <2>3. ASSUME NEW q \in 0 .. MaxRedirects, q > r PROVE handle'[q] = NoHandle
    <3>1. q # r
      BY <2>1, <2>3
    <3> QED
      BY <1>1, <1>14, <2>1, <2>3, <3>1 DEF HandleInv
  <2>4. Live(d)' <=> Live(d)
    BY <1>4 DEF Live
  <2> QED
    BY <1>4, <1>8, <1>14, <2>1, <2>2, <2>3, <2>4 DEF HandleInv
\* The types, whatever is driven.
<1>15. ASSUME NEW g, drive(g), g \in Filters \/ g = NULL,
              chain' \in Seq(Members), cursor' \in Seq(Members), proto' \in Members,
              ctx' \in [Filters -> Contexts]
       PROVE  TypeOK'
  <2>1. g \in NoHandle .. MaxFilters
    BY <1>15, ChainAssumption DEF Filters, NoHandle, NULL
  <2>2. handle' \in [0 .. MaxRedirects -> NoHandle .. MaxFilters]
    BY <1>1, <1>15, <2>1 DEF TypeOK
  <2> QED
    BY <1>1, <1>4, <1>8, <1>15, <2>2 DEF TypeOK
<1>16. /\ ToSet(Tail(cursor)) \subseteq ToSet(chain)
       /\ \A g, h : Above(Tail(cursor), g, h) => Above(chain, g, h)
  BY <1>5, <1>6
<1>17. CASE get /\ chain' = ca /\ drive(d) /\ cursor' = Tail(cursor) /\ UNCHANGED <<proto, ctx>>
  <2>1. ChainInv' /\ ReadInv' /\ SyncInv'
    BY <1>11, <1>12, <1>17 DEF Continues
  <2>2. HandleInv'
    BY <1>8, <1>14, <1>17
  <2>3. TypeOK'
    BY <1>1, <1>6, <1>8, <1>15, <1>17 DEF TypeOK
  <2>4. CursorInv'
    BY <1>6, <1>8, <1>16, <1>17, AboveOrder DEF CursorInv
  <2> QED
    BY <2>1, <2>2, <2>3, <2>4 DEF Inv
<1>18. CASE /\ ~get /\ unready /\ f = ca[1] /\ chain' = ca /\ drive(f)
            /\ cursor' = Tail(cursor) /\ UNCHANGED <<proto, ctx>>
  <2>0. f = d
    BY <1>4, <1>9, <1>18
  <2>1. ChainInv' /\ ReadInv' /\ SyncInv'
    BY <1>11, <1>12, <1>18 DEF Continues
  <2>2. HandleInv'
    BY <1>8, <1>9, <1>14, <1>18, <2>0
  <2>3. TypeOK'
    BY <1>1, <1>6, <1>7, <1>8, <1>15, <1>18 DEF TypeOK
  <2>4. CursorInv'
    BY <1>6, <1>8, <1>16, <1>18, AboveOrder DEF CursorInv
  <2> QED
    BY <2>1, <2>2, <2>3, <2>4 DEF Inv
<1>19. CASE /\ ~get /\ unready /\ f # ca[1] /\ IsApreq(ca[1])
            /\ chain' = Without(ca, {f}) /\ drive(IF d = f THEN ca[1] ELSE d)
            /\ cursor' = Tail(cursor)
            /\ proto' = IF proto = f THEN Head(After(chain, f)) ELSE proto
            /\ UNCHANGED ctx
  <2>0. d = ca[1] /\ d # f /\ drive(d)
    BY <1>9, <1>19
  <2>1. PICK w : w = Without(ca, {f})
    OBVIOUS
  <2>2. /\ w \in Seq(Members) /\ Distinct(w) /\ ToSet(w) = ToSet(ca) \ {f}
        /\ \A g, h : Above(w, g, h) <=> Above(ca, g, h) /\ g \notin {f} /\ h \notin {f}
    BY <1>8, <2>1, WithoutIs
  <2>3. chain' = w /\ ctx' = ctx /\ proto' = IF proto = f THEN Head(After(chain, f)) ELSE proto
    BY <1>19, <2>1
  <2>4. ChainInv' /\ ReadInv' /\ SyncInv'
    <3>1. \A g, h : g # f /\ h # f => (Above(chain', g, h) <=> Above(ca, g, h))
      BY <2>2, <2>3
    <3>2. \A g : ~Above(chain', Http, g)
      BY <1>8, <2>2, <2>3
    <3>3. /\ ToSet(ca) \ {f} \subseteq ToSet(chain') /\ ToSet(chain') \subseteq ToSet(ca)
          /\ chain' \in Seq(Members) /\ Distinct(chain')
      BY <2>2, <2>3
    <3> QED
      BY <1>13, <1>19, <2>3, <3>1, <3>2, <3>3
  <2>5. HandleInv'
    <3>1. d \in ToSet(chain') /\ \A g : ~Above(chain', g, d)
      BY <1>8, <1>9, <2>0, <2>2, <2>3
    <3> QED
      BY <1>14, <2>0, <2>3, <3>1
  <2>6. TypeOK'
    <3>1. proto' = proto
      BY <1>1, <1>7, <1>19, UnreadyIs
    <3>2. proto \in Members /\ ctx \in [Filters -> Contexts]
      BY <1>1 DEF TypeOK
    <3>3. chain' \in Seq(Members) /\ cursor' \in Seq(Members) /\ proto' \in Members /\ ctx' \in [Filters -> Contexts]
      BY <1>6, <1>19, <2>2, <2>3, <3>1, <3>2
    <3> QED
      BY <1>8, <1>15, <2>0, <3>3
  <2>7. CursorInv'
    <3>1. ToSet(Tail(cursor)) \subseteq ToSet(w)
      BY <1>6, <1>8, <1>16, <2>2
    <3>2. ASSUME NEW g, NEW h, Above(Tail(cursor), g, h) PROVE Above(w, g, h)
      <4>1. g \in ToSet(Tail(cursor)) /\ h \in ToSet(Tail(cursor)) /\ Above(chain, g, h)
        BY <1>6, <1>16, <3>2, AboveOrder
      <4> QED
        BY <1>6, <1>8, <1>16, <2>2, <4>1
    <3> QED
      BY <1>6, <1>19, <2>3, <3>1, <3>2 DEF CursorInv
  <2> QED
    BY <2>4, <2>5, <2>6, <2>7 DEF Inv
<1>20. CASE /\ ~get /\ unready /\ f # ca[1] /\ ~IsApreq(ca[1])
            /\ chain' = <<f>> \o Without(ca, {f}) /\ drive(f)
            /\ cursor' = Without(ca, {f})
            /\ proto' = IF proto = f THEN Head(After(chain, f)) ELSE proto
            /\ UNCHANGED ctx
  <2>0. d = f
    <3>1. d # ca[1]
      BY <1>8, <1>20, MembersAre
    <3>2. Above(ca, ca[1], d)
      <4>1. ca # << >>
        BY <1>8, FirstLastAre
      <4> QED
        BY <1>8, <3>1, <4>1, Ends
    <3>3. ca = chain /\ d \in ToSet(cursor)
      BY <1>8, <1>20, <3>2
    <3>4. d = f \/ Above(cursor, f, d)
      BY <1>4, <1>5, <1>6, <3>3, Ends
    <3> QED
      BY <1>4, <1>5, <1>8, <3>3, <3>4
  <2>1. PICK v : v = Without(ca, {f})
    OBVIOUS
  <2>2. /\ v \in Seq(Members) /\ Distinct(v) /\ ToSet(v) = ToSet(ca) \ {f}
        /\ \A g, h : Above(v, g, h) <=> Above(ca, g, h) /\ g \notin {f} /\ h \notin {f}
    BY <1>8, <2>1, WithoutIs
  <2>3. chain' = <<f>> \o v /\ cursor' = v
    BY <1>20, <2>1
  <2>4. Topped(chain', f, v) /\ f \notin ToSet(v)
    BY <2>2, <2>3 DEF Topped
  <2>5. /\ chain' \in Seq(Members) /\ Distinct(chain') /\ ToSet(chain') = ToSet(v) \cup {f}
        /\ \A g, h : Above(chain', g, h) <=> Above(v, g, h) \/ (g = f /\ h \in ToSet(v))
    BY <1>7, <2>2, <2>4, OnTop
  <2>6. ChainInv' /\ ReadInv' /\ SyncInv'
    <3>1. \A g, h : g # f /\ h # f => (Above(chain', g, h) <=> Above(ca, g, h))
      BY <2>2, <2>5
    <3>2. \A g : ~Above(chain', Http, g)
      BY <1>7, <1>8, <2>2, <2>5
    <3>3. ToSet(ca) \ {f} \subseteq ToSet(chain') /\ ToSet(chain') \subseteq ToSet(ca)
      BY <1>7, <1>8, <2>2, <2>5
    <3> QED
      BY <1>13, <1>20, <2>5, <3>1, <3>2, <3>3
  <2>7. HandleInv'
    <3>1. \A g : ~Above(chain', g, f)
      BY <2>2, <2>4, <2>5
    <3> QED
      BY <1>14, <1>20, <2>0, <2>5, <3>1
  <2>8. TypeOK'
    <3>1. proto' = proto
      BY <1>1, <1>7, <1>20, UnreadyIs
    <3>2. proto \in Members /\ ctx \in [Filters -> Contexts]
      BY <1>1 DEF TypeOK
    <3>3. chain' \in Seq(Members) /\ cursor' \in Seq(Members) /\ proto' \in Members /\ ctx' \in [Filters -> Contexts]
      BY <1>20, <2>2, <2>3, <2>5, <3>1, <3>2
    <3> QED
      BY <1>7, <1>15, <1>20, <3>3
  <2>9. CursorInv'
    BY <2>2, <2>3, <2>5 DEF CursorInv
  <2> QED
    BY <2>6, <2>7, <2>8, <2>9 DEF Inv
<1>21. CASE /\ ~get /\ ~unready /\ chain' = ca
            /\ ctx' = IF d = f THEN [ctx EXCEPT ![f_ctx[f]] = Stopped(@)] ELSE ctx
            /\ drive(HandleAfterStop(f))
            /\ cursor' = Tail(cursor)
            /\ UNCHANGED proto
  <2>1. HandleAfterStop(f) = IF d = f THEN NULL ELSE d
    BY <1>2 DEF HandleAfterStop
  <2>2. f_ctx[f] \in Filters /\ ctx[f_ctx[f]] \in Contexts
    BY <1>1, <1>7, <1>21, LiveIs DEF Live, TypeOK
  <2>3. /\ ctx' \in [Filters -> Contexts] /\ DOMAIN ctx' = Filters
        /\ \A c \in Filters : ctx'[c] = ctx[c] \/ ctx'[c] = Stopped(ctx[c])
    <3>1. Stopped(ctx[f_ctx[f]]) \in Contexts
      BY <2>2 DEF Stopped, Contexts, Statuses
    <3> QED
      BY <1>1, <1>21, <2>2, <3>1 DEF TypeOK
  <2>4. \A c \in Filters : Continues(ctx[c], ctx'[c])
    <3>1. \A c \in Filters : ctx[c] \in Contexts
      BY <1>1 DEF TypeOK
    <3>2. ASSUME NEW x \in Contexts PROVE Continues(x, x) /\ Continues(x, Stopped(x))
      <4>1. /\ Stopped(x).spool = x.spool /\ Stopped(x).shown = x.shown
            /\ Stopped(x).status = IF x.status = "INCOMPLETE" THEN "INTERRUPT" ELSE x.status
        BY DEF Stopped, Contexts
      <4>2. Continues(x, Stopped(x))
        BY <4>1 DEF Continues, Follows
      <4> QED
        BY <4>2 DEF Continues
    <3> QED
      BY <2>3, <3>1, <3>2, Zenon
  <2>5. ChainInv' /\ ReadInv' /\ SyncInv'
    BY <1>12, <1>21, <2>3, <2>4
  <2>6. HandleInv'
    <3>1. CASE d # f
      <4>1. drive(d) /\ ctx' = ctx
        BY <1>21, <2>1, <3>1
      <4> QED
        BY <1>6, <1>8, <1>14, <1>21, <3>1, <4>1
    <3>2. CASE d = f
      <4>1. drive(NULL)
        BY <1>21, <2>1, <3>2
      <4>2. r \in 0 .. MaxRedirects /\ handle \in [0 .. MaxRedirects -> NoHandle .. MaxFilters] /\ r' = r
        BY <1>1, <1>4 DEF TypeOK
      <4>3. handle'[r'] = NULL
        BY <4>1, <4>2
      <4>4. ASSUME NEW q \in 0 .. MaxRedirects, q > r PROVE handle'[q] = NoHandle
        <5>1. q # r
          BY <4>2, <4>4
        <5> QED
          BY <1>1, <4>1, <4>2, <4>4, <5>1 DEF HandleInv
      <4> QED
        BY <4>2, <4>3, <4>4 DEF HandleInv, Driven
    <3> QED
      BY <3>1, <3>2
  <2>7. TypeOK'
    BY <1>1, <1>6, <1>8, <1>15, <1>21, <2>1, <2>3 DEF TypeOK
  <2>8. CursorInv'
    BY <1>6, <1>8, <1>16, <1>21, AboveOrder DEF CursorInv
  <2> QED
    BY <2>5, <2>6, <2>7, <2>8 DEF Inv
<1> QED
  BY <1>2, <1>3, <1>17, <1>18, <1>19, <1>20, <1>21 DEF InitFilter

------------------------------------------------------------------------------
(* A request is redirected; contexts are made. *)

LEMMA RedirectStep ==
  ASSUME Inv, Redirect
  PROVE  Inv'
<1>1. /\ TypeOK /\ ChainInv /\ CursorInv /\ ReadInv /\ SyncInv /\ HandleInv
  BY DEF Inv
<1>2. /\ r < MaxRedirects /\ r' = r + 1 /\ chain' = <<proto>> \o After(chain, proto)
      /\ get' \in {get, TRUE} /\ config' \in Configs /\ phase' = "early"
      /\ UNCHANGED <<proto, made, f_ctx, ctx, handle, cursor, pos, out, crashed>>
  BY DEF Redirect
<1>3. /\ chain \in Seq(Members) /\ Distinct(chain) /\ proto \in ToSet(chain)
      /\ Http \in ToSet(chain) /\ proto \in Members
  BY <1>1 DEF TypeOK, ChainInv
<1>4. PICK v : v = After(chain, proto)
  OBVIOUS
<1>5. /\ v \in Seq(Members) /\ Distinct(v) /\ ToSet(v) = Below(chain, proto)
      /\ \A g, h : Above(v, g, h) <=> Above(chain, g, h) /\ Above(chain, proto, g)
  BY <1>3, <1>4, AfterIs
<1>6. Topped(chain', proto, v) /\ proto \notin ToSet(v)
  <2>1. ~Above(chain, proto, proto)
    BY <1>3, AboveOrder
  <2> QED
    BY <1>2, <1>4, <1>5, <2>1 DEF Topped, Below
<1>7. /\ chain' \in Seq(Members) /\ Distinct(chain') /\ ToSet(chain') = ToSet(v) \cup {proto}
      /\ \A g, h : Above(chain', g, h) <=> Above(v, g, h) \/ (g = proto /\ h \in ToSet(v))
  BY <1>3, <1>5, <1>6, OnTop
<1>8. ChainInv' /\ ReadInv' /\ SyncInv'
  <2> DEFINE K == ToSet(v) \cup {proto}
  <2>1. K \subseteq ToSet(chain) /\ K \subseteq ToSet(chain') /\ proto \in K
    BY <1>3, <1>5, <1>7 DEF Below
  <2>2. \A g \in ToSet(chain) : g \in K \/ Above(chain, g, proto)
    BY <1>3, <1>5, AboveOrder DEF Below
  <2>3. Http \in K
    BY <1>1, <1>3, <2>2 DEF ChainInv
  <2>4. \A g \in ToSet(chain) : g \in K \/ Spools[g] = << >>
    BY <1>1, <2>2 DEF ReadInv
  <2>5. \A f, g \in K : Above(chain', f, g) <=> Above(chain, f, g)
    <3>1. \A f, g : Above(chain, f, g) => ~Above(chain, g, f) /\ f # g
      BY <1>3, AboveOrder
    <3> QED
      BY <1>3, <1>5, <1>7, <3>1 DEF Below
  <2>6. \A f : ~Above(chain', Http, f)
    BY <1>1, <1>5, <1>7 DEF ChainInv, Below
  <2>7. DOMAIN ctx' = Filters /\ \A c \in Filters : Continues(ctx[c], ctx'[c])
    BY <1>1, <1>2 DEF Continues, TypeOK
  <2>8. made' \in 0 .. MaxFilters /\ made <= made'
    BY <1>1, <1>2 DEF TypeOK
  <2>9. \A g \in ToSet(chain') : g \in K /\ g \in ToSet(chain)
    BY <1>7, <2>1
  <2> HIDE DEF K
  <2> QED
    BY <1>1, <1>2, <1>7, <2>1, <2>3, <2>4, <2>5, <2>6, <2>7, <2>8, <2>9, Moving
<1>9. r + 1 \in 0 .. MaxRedirects /\ r + 1 > r
  BY <1>1, <1>2, ChainAssumption DEF TypeOK
<1>10. TypeOK'
  BY <1>1, <1>2, <1>7, <1>9, ChainAssumption DEF TypeOK
<1>11. CursorInv'
  BY <1>2 DEF CursorInv
<1>12. HandleInv'
  <2>1. \A q \in 0 .. MaxRedirects : q > r + 1 => q > r
    BY <1>1 DEF TypeOK
  <2>2. handle'[r'] = NoHandle
    BY <1>1, <1>2, <1>9 DEF HandleInv
  <2> QED
    BY <1>1, <1>2, <2>1, <2>2 DEF HandleInv, Driven
<1> QED
  BY <1>8, <1>10, <1>11, <1>12 DEF Inv

LEMMA ReadyStep ==
  ASSUME Inv, NEW f \in Filters, f \in ToSet(chain), phase # "init",
         Live(f), ctx[f_ctx[f]].status = "EINIT",
         ctx' = [ctx EXCEPT ![f_ctx[f]] = Ready(@)],
         UNCHANGED <<chain, proto, f_ctx, crashed, made, r, get, config, handle, phase, cursor, pos, out>>
  PROVE  Inv'
<1>1. /\ TypeOK /\ ChainInv /\ CursorInv /\ ReadInv /\ SyncInv /\ HandleInv
  BY DEF Inv
<1>2. PICK c \in Filters : c = f_ctx[f]
  BY <1>1, LiveIs
<1>3. PICK d : d = Ready(ctx[c])
  OBVIOUS
<1>4. ctx[c] \in Contexts /\ ctx[c].status = "EINIT" /\ ctx[c].shown = << >>
  BY <1>1, <1>2 DEF TypeOK, ChainInv
<1>5. /\ d \in Contexts /\ d.status \in {"NODATA", "INCOMPLETE"} /\ d.shown = << >>
      /\ d.spool = ctx[c].spool /\ d.limit = ctx[c].limit
  BY <1>3, <1>4 DEF Ready, Contexts, Statuses
<1>6. /\ ctx' \in [Filters -> Contexts] /\ DOMAIN ctx' = Filters
      /\ ctx'[c] = d /\ \A e \in Filters : e # c => ctx'[e] = ctx[e]
  BY <1>1, <1>2, <1>3, <1>5 DEF TypeOK
<1>7. \A e \in Filters : Continues(ctx[e], ctx'[e])
  BY <1>4, <1>5, <1>6 DEF Continues, Follows
<1>8. ChainInv' /\ ReadInv' /\ SyncInv'
  <2>1. proto \in ToSet(chain) /\ Http \in ToSet(chain)
    BY <1>1 DEF ChainInv
  <2>2. made' \in 0 .. MaxFilters /\ made <= made'
    BY <1>1 DEF TypeOK
  <2>3. chain' \in Seq(Members) /\ Distinct(chain') /\ \A g : ~Above(chain', Http, g)
    BY <1>1 DEF TypeOK, ChainInv
  <2> QED
    BY <1>1, <1>6, <1>7, <2>1, <2>2, <2>3, Moving
<1>9. TypeOK'
  BY <1>1, <1>6 DEF TypeOK
<1>10. CursorInv'
  BY <1>1 DEF CursorInv
<1>11. HandleInv'
  <2>1. \A g : Live(g)' <=> Live(g)
    BY DEF Live
  <2>2. ASSUME Driven, Live(handle[r])
        PROVE  /\ ctx'[f_ctx[handle[r]]].status # "INTERRUPT"
               /\ ctx'[f_ctx[handle[r]]].limit = ctx[f_ctx[handle[r]]].limit
               /\ ctx[f_ctx[handle[r]]].status \in Final => ctx'[f_ctx[handle[r]]].status \in Final
    <3>1. f_ctx[handle[r]] \in Filters
      BY <1>1, <2>2, LiveIs
    <3>2. CASE f_ctx[handle[r]] = c
      BY <1>4, <1>5, <1>6, <3>2 DEF Final
    <3>3. CASE f_ctx[handle[r]] # c
      BY <1>1, <1>6, <2>2, <3>1, <3>3 DEF HandleInv
    <3> QED
      BY <3>2, <3>3
  <2>3. ASSUME Driven
        PROVE  /\ Live(handle[r])' => /\ ctx'[f_ctx[handle[r]]].status # "INTERRUPT"
                                      /\ config # Unset => ctx'[f_ctx[handle[r]]].limit = config
               /\ \/ handle[r] \in ToSet(chain)
                  \/ Live(handle[r])' /\ ctx'[f_ctx[handle[r]]].status \in Final
    BY <1>1, <2>1, <2>2, <2>3 DEF HandleInv, Live
  <2> QED
    BY <1>1, <2>3 DEF HandleInv, Driven
<1> QED
  BY <1>8, <1>9, <1>10, <1>11 DEF Inv

LEMMA OwnContextStep ==
  ASSUME Inv, NEW f \in Filters, f \in ToSet(chain), phase # "init", ~Live(f),
         f_ctx' = [f_ctx EXCEPT ![f] = f],
         ctx' = [ctx EXCEPT ![f] = NewCtx(IF config = Unset THEN DefaultLimit ELSE config)],
         UNCHANGED <<chain, proto, crashed, made, r, get, config, handle, phase, cursor, pos, out>>
  PROVE  Inv'
<1>1. /\ TypeOK /\ ChainInv /\ CursorInv /\ ReadInv /\ SyncInv /\ HandleInv
  BY DEF Inv
<1>2. PICK d : d = NewCtx(IF config = Unset THEN DefaultLimit ELSE config)
  OBVIOUS
<1>3. /\ d \in Contexts /\ d.status = "EINIT" /\ d.shown = << >> /\ d.spool = << >>
      /\ config # Unset => d.limit = config
  BY <1>1, <1>2, ChainAssumption DEF NewCtx, Contexts, Statuses, TypeOK, Unset
<1>4. /\ ctx' \in [Filters -> Contexts] /\ ctx'[f] = d
      /\ \A e \in Filters : e # f => ctx'[e] = ctx[e]
      /\ f_ctx' \in [Filters -> 0 .. MaxFilters] /\ f_ctx'[f] = f
      /\ \A g \in Filters : g # f => f_ctx'[g] = f_ctx[g]
  <2>1. f \in 0 .. MaxFilters
    BY DEF Filters
  <2> QED
    BY <1>1, <1>2, <1>3, <2>1 DEF TypeOK
<1>5. \A g \in Filters : Live(g) => f_ctx[g] # f /\ g # f /\ f_ctx[g] \in Filters
  BY <1>1, LiveIs DEF ChainInv
<1>6. \A g : Live(g)' <=> Live(g) \/ g = f
  <2>1. f # NULL /\ f_ctx \in [Filters -> 0 .. MaxFilters]
    BY <1>1 DEF Filters, NULL, TypeOK
  <2> QED
    BY <1>4, <2>1 DEF Live
<1>7. Spools' = Spools
  <2>1. ASSUME NEW g \in Members
        PROVE  (IF IsApreq(g) /\ Live(g)' THEN ctx'[f_ctx'[g]].spool ELSE << >>)
               = (IF IsApreq(g) /\ Live(g) THEN ctx[f_ctx[g]].spool ELSE << >>)
    <3>1. IsApreq(g) => g \in Filters
      BY MembersAre
    <3> QED
      BY <1>3, <1>4, <1>5, <1>6, <3>1
  <2> QED
    BY <2>1 DEF Spools
<1>8. ReadInv' /\ SyncInv'
  <2>1. Rearranged(chain, chain', ToSet(chain), Spools)
    BY <1>1 DEF Rearranged, TypeOK, ChainInv
  <2>2. \A g : Above(chain', g, proto') => Spools[g] = << >>
    BY <1>1 DEF ReadInv
  <2>3. \A g \in Filters : g \in ToSet(chain') /\ Live(g)' =>
          \/ ctx'[f_ctx'[g]].shown = << >>
          \/ /\ g \in ToSet(chain) /\ Live(g) /\ ctx'[f_ctx'[g]].shown = ctx[f_ctx[g]].shown
             /\ Follows(ctx'[f_ctx'[g]]) => Follows(ctx[f_ctx[g]])
    BY <1>3, <1>4, <1>5, <1>6
  <2>4. NothingPassesBy'
    <3>1. DOMAIN ctx' = Filters /\ DOMAIN ctx = Filters
      BY <1>1, <1>4 DEF TypeOK
    <3>2. Len(ctx'[f].shown) = 0 /\ 1 .. 0 - 1 = {}
      BY <1>3, <1>4
    <3>3. ASSUME NEW e \in Filters, NEW i \in 1 .. Len(ctx'[e].shown) - 1, ctx'[e].shown[i] # EOS
          PROVE  ctx'[e].shown[i + 1] = ctx'[e].shown[i] + 1
      <4>1. e # f
        BY <3>2, <3>3
      <4> QED
        BY <1>1, <1>4, <3>1, <3>3, <4>1 DEF SyncInv, NothingPassesBy
    <3> QED
      BY <3>1, <3>3 DEF NothingPassesBy
  <2> QED
    BY <1>1, <1>7, <2>1, <2>2, <2>3, <2>4, Rearranging
<1>9. ChainInv'
  <2>1. IsApreq(proto) => Live(proto)' /\ ctx'[f_ctx'[proto]].status # "EINIT"
    BY <1>1, <1>4, <1>5, <1>6, LiveIs DEF ChainInv
  <2>2. \A g \in Filters : g \in ToSet(chain) \/ Live(g)' => g <= made
    BY <1>1, <1>6 DEF ChainInv
  <2>3. \A g \in Filters : Live(g)' => f_ctx'[g] \in Filters /\ (Live(f_ctx[g]) \/ f_ctx'[g] = f) 
    BY <1>1, <1>4, <1>5, <1>6 DEF ChainInv
  <2>4. \A g \in Filters : Live(g)' => Live(f_ctx[g])'
    <3>1. ASSUME NEW g \in Filters, Live(g)' PROVE f_ctx'[g] \in DOMAIN f_ctx' /\ f_ctx'[f_ctx'[g]] # NULL
      <4>1. CASE g = f
        BY <1>4, <1>6, <3>1, <4>1 DEF Live
      <4>2. CASE g # f
        <5>1. Live(g) /\ f_ctx'[g] = f_ctx[g]
          BY <1>4, <1>6, <3>1, <4>2
        <5>2. PICK e : e = f_ctx[g]
          OBVIOUS
        <5>3. Live(e)
          BY <1>1, <5>1, <5>2 DEF ChainInv
        <5>4. Live(e)'
          BY <1>6, <5>3
        <5> QED
          BY <5>1, <5>2, <5>4 DEF Live
      <4> QED
        BY <4>1, <4>2
    <3> QED
      BY <3>1 DEF Live
  <2>5. \A g, h \in Filters : g \in ToSet(chain) /\ h \in ToSet(chain) /\ Live(g)' /\ f_ctx'[g] = f_ctx'[h]
          => g = h
    <3>1. ASSUME NEW g \in Filters, NEW h \in Filters, g \in ToSet(chain), h \in ToSet(chain),
                 Live(g)', f_ctx'[g] = f_ctx'[h]
          PROVE  g = h
      <4>1. \A e \in Filters : e # f /\ f_ctx[e] = f => Live(e)
        BY <1>1 DEF Live, TypeOK, Filters, NULL
      <4>2. \A e \in Filters : e # f => f_ctx[e] # f
        BY <1>5, <4>1
      <4>3. g # f => Live(g)
        BY <1>6, <3>1
      <4> QED
        BY <1>1, <1>4, <3>1, <4>2, <4>3 DEF ChainInv
    <3> QED
      BY <3>1
  <2>6. \A e \in Filters : ctx'[e].status = "EINIT" => ctx'[e].spool = << >> /\ ctx'[e].shown = << >>
    BY <1>1, <1>3, <1>4 DEF ChainInv
  <2> QED
    BY <1>1, <2>1, <2>2, <2>4, <2>5, <2>6 DEF ChainInv
<1>10. TypeOK'
  BY <1>1, <1>4 DEF TypeOK
<1>11. CursorInv'
  BY <1>1 DEF CursorInv
<1>12. HandleInv'
  <2>1. ASSUME Driven
        PROVE  /\ Live(handle[r])' => /\ ctx'[f_ctx'[handle[r]]].status # "INTERRUPT"
                                      /\ config # Unset => ctx'[f_ctx'[handle[r]]].limit = config
               /\ \/ handle[r] \in ToSet(chain)
                  \/ Live(handle[r])' /\ ctx'[f_ctx'[handle[r]]].status \in Final
    <3>1. PICK h \in Filters : h = handle[r]
      BY <1>1, <2>1, DrivenIs
    <3>2. h = f => ctx'[f_ctx'[h]] = d
      BY <1>4
    <3>3. h # f => (Live(h)' <=> Live(h))
      BY <1>6 DEF Live
    <3>4. h # f /\ Live(h) => ctx'[f_ctx'[h]] = ctx[f_ctx[h]]
      BY <1>4, <1>5
    <3>5. /\ Live(h) => /\ ctx[f_ctx[h]].status # "INTERRUPT"
                        /\ config # Unset => ctx[f_ctx[h]].limit = config
          /\ h \in ToSet(chain) \/ (Live(h) /\ ctx[f_ctx[h]].status \in Final)
      BY <1>1, <2>1, <3>1 DEF HandleInv, Live
    <3>6. /\ Live(h)' => /\ ctx'[f_ctx'[h]].status # "INTERRUPT"
                         /\ config # Unset => ctx'[f_ctx'[h]].limit = config
          /\ h \in ToSet(chain) \/ (Live(h)' /\ ctx'[f_ctx'[h]].status \in Final)
      <4>1. CASE h = f
        BY <1>3, <3>2, <4>1 DEF Live
      <4>2. CASE h # f
        BY <3>3, <3>4, <3>5, <4>2 DEF Live
      <4> QED
        BY <4>1, <4>2
    <3> QED
      BY <3>1, <3>6 DEF Live
  <2> QED
    BY <1>1, <2>1 DEF HandleInv, Driven
<1> QED
  BY <1>8, <1>9, <1>10, <1>11, <1>12 DEF Inv

\* f is on top, and takes the context of p, which is next and leaves.
LEMMA TakeOverStep ==
  ASSUME Inv, NEW f \in Filters, f \in ToSet(chain), phase # "init", ~Live(f),
         AboveProto(f), Stealable(f_ctx[chain[2]]),
         f_ctx' = [f_ctx EXCEPT ![f] = f_ctx[chain[2]]],
         ctx' = [ctx EXCEPT ![f_ctx[chain[2]]] = Taken(@)],
         proto' = f, chain' = Without(chain, {chain[2]}),
         UNCHANGED <<crashed, made, r, get, config, handle, phase, cursor, pos, out>>
  PROVE  Inv'
<1>1. /\ TypeOK /\ ChainInv /\ CursorInv /\ ReadInv /\ SyncInv /\ HandleInv
  BY DEF Inv
<1>2. /\ chain \in Seq(Members) /\ Distinct(chain) /\ Http \in ToSet(chain)
      /\ proto \in ToSet(chain) /\ f \in Members /\ IsApreq(f) /\ f # Http
  BY <1>1, MembersAre DEF TypeOK, ChainInv
<1>3. PICK p : p = proto
  OBVIOUS
<1>4. chain[1] = f /\ p # f /\ chain[2] = p /\ IsApreq(p) /\ p \in Filters /\ p \in ToSet(chain) /\ p \in Members
  <2>1. chain[1] = f /\ p # f /\ chain[2] = p /\ IsApreq(p) /\ p \in ToSet(chain)
    BY <1>2, <1>3 DEF AboveProto
  <2>2. p \in Members
    BY <1>1, <1>3 DEF TypeOK
  <2> QED
    BY <2>1, <2>2, MembersAre
<1>5. PICK c \in Filters : c = f_ctx[p] /\ Live(p)
  BY <1>1, <1>3, <1>4, LiveIs DEF ChainInv
<1>6. PICK d : d = Taken(ctx[c])
  OBVIOUS
<1>7. ctx[c] \in Contexts /\ ctx[c].status \in {"INTERRUPT", "SUCCESS"} /\ config \in 0 .. Unset
  BY <1>1, <1>4, <1>5 DEF TypeOK, Stealable
<1>8. /\ d \in Contexts /\ d.shown = ctx[c].shown /\ d.spool = ctx[c].spool /\ d.limit = config
      /\ d.status \in {"INCOMPLETE", "SUCCESS"}
      /\ Follows(d) => Follows(ctx[c])
      /\ ctx[c].status \in Final => d.status \in Final
  BY <1>6, <1>7 DEF Taken, Contexts, Statuses, Final, Follows
<1>9. /\ ctx' \in [Filters -> Contexts] /\ ctx'[c] = d
      /\ \A e \in Filters : e # c => ctx'[e] = ctx[e]
      /\ f_ctx' \in [Filters -> 0 .. MaxFilters] /\ f_ctx'[f] = c
      /\ \A g \in Filters : g # f => f_ctx'[g] = f_ctx[g]
  <2>1. c \in 0 .. MaxFilters
    BY DEF Filters
  <2> QED
    BY <1>1, <1>4, <1>5, <1>6, <1>8, <2>1 DEF TypeOK
<1>10. PICK w : w = Without(chain, {p})
  OBVIOUS
<1>11. /\ chain' = w /\ w \in Seq(Members) /\ Distinct(w) /\ ToSet(w) = ToSet(chain) \ {p}
       /\ \A g, h : Above(w, g, h) <=> Above(chain, g, h) /\ g \notin {p} /\ h \notin {p}
  <2>1. chain' = w
    BY <1>4, <1>10
  <2> QED
    BY <1>2, <1>10, <2>1, WithoutIs
\* f is above all others, and p next.
<1>12. /\ \A g \in ToSet(chain) : g = f \/ Above(chain, f, g)
       /\ \A g : ~Above(chain, g, f)
  <2>1. \A g \in ToSet(chain) : g = f \/ Above(chain, f, g)
    BY <1>2, <1>4, FirstLastAre, Ends
  <2> QED
    BY <1>2, <2>1, AboveOrder
<1>13. \A g \in ToSet(chain) : g = f \/ g = p \/ Above(chain, p, g)
  <2>1. DOMAIN chain = 1 .. Len(chain) /\ Len(chain) \in Nat
    BY <1>2
  <2>2. PICK k \in DOMAIN chain : chain[k] = Http
    BY <1>2 DEF ToSet
  <2>3. 2 \in DOMAIN chain
    <3>1. k # 1
      BY <1>2, <1>4, <2>2
    <3> QED
      BY <2>1, <2>2, <3>1
  <2>4. ASSUME NEW g \in ToSet(chain), g # f, g # p PROVE Above(chain, p, g)
    <3>1. PICK i \in DOMAIN chain : chain[i] = g
      BY DEF ToSet
    <3>2. i # 1 /\ i # 2
      BY <1>4, <2>4, <3>1
    <3>3. 2 < i
      BY <2>1, <3>1, <3>2
    <3> QED
      BY <1>4, <2>3, <3>1, <3>3 DEF Above
  <2> QED
    BY <2>4
<1>14. \A g : Live(g)' <=> Live(g) \/ g = f
  <2>1. f # NULL /\ c # NULL /\ f_ctx \in [Filters -> 0 .. MaxFilters]
    BY <1>1 DEF Filters, NULL, TypeOK
  <2> QED
    BY <1>9, <2>1 DEF Live
<1>15. \A g \in Filters : Live(g) => g # f /\ f_ctx[g] \in Filters /\ f_ctx'[g] = f_ctx[g]
  BY <1>1, <1>9, LiveIs
<1>16. \A g \in Filters : g \in ToSet(chain) /\ Live(g) /\ g # p => f_ctx[g] # c
  BY <1>1, <1>4, <1>5 DEF ChainInv
\* The spools afterwards.
<1>17. /\ Spools'[f] = Spools[p] /\ Spools[f] = << >>
       /\ \A g \in Members : g # f => Spools'[g] = Spools[g]
  <2>1. Spools'[f] = ctx'[c].spool
    BY <1>2, <1>9, <1>14 DEF Spools
  <2>2. Spools[p] = ctx[c].spool /\ Spools[f] = << >>
    BY <1>1, <1>2, <1>4, <1>5, SpoolsAre
  <2>3. ASSUME NEW g \in Members, g # f PROVE Spools'[g] = Spools[g]
    <3>1. IsApreq(g) => g \in Filters
      BY MembersAre
    <3>2. (IF IsApreq(g) /\ Live(g)' THEN ctx'[f_ctx'[g]].spool ELSE << >>)
          = (IF IsApreq(g) /\ Live(g) THEN ctx[f_ctx[g]].spool ELSE << >>)
      BY <1>8, <1>9, <1>14, <1>15, <2>3, <3>1
    <3> QED
      BY <3>2 DEF Spools
  <2> QED
    BY <1>8, <1>9, <2>1, <2>2, <2>3
<1>18. ToSet(w) \subseteq Members /\ ToSet(chain) \subseteq Members
  BY <1>2, <1>11 DEF ToSet
<1>19. ToSet(<< >>) = {}
  BY DEF ToSet
<1>20. Ordered(w, Spools')
  <2>1. /\ \A g \in ToSet(chain) : Spools[g] \in Seq(Tok) /\ Rising(Spools[g])
        /\ \A g, h : Above(chain, g, h) => \A x \in ToSet(Spools[g]), y \in ToSet(Spools[h]) : Fresh(x, y)
    BY <1>1 DEF ReadInv, Ordered
  <2>2. ASSUME NEW g \in ToSet(w) PROVE Spools'[g] \in Seq(Tok) /\ Rising(Spools'[g])
    BY <1>4, <1>11, <1>17, <1>18, <2>1
  <2>3. ASSUME NEW g, NEW h, Above(w, g, h), NEW x \in ToSet(Spools'[g]), NEW y \in ToSet(Spools'[h])
        PROVE  Fresh(x, y)
    <3>1. g \in ToSet(w) /\ h \in ToSet(w) /\ g # h /\ Above(chain, g, h) /\ h # p /\ h # f
      BY <1>11, <1>12, <2>3, AboveOrder
    <3>2. y \in ToSet(Spools[h])
      BY <1>17, <1>18, <2>3, <3>1
    <3>3. CASE g = f
      <4>1. Above(chain, p, h)
        BY <1>11, <1>13, <3>1
      <4> QED
        BY <1>17, <2>1, <2>3, <3>2, <3>3, <4>1
    <3>4. CASE g # f
      BY <1>17, <1>18, <2>1, <2>3, <3>1, <3>2, <3>4
    <3> QED
      BY <3>3, <3>4
  <2> QED
    BY <2>2, <2>3 DEF Ordered
<1>21. Feeds(ToSet(w), Spools', Len(out), pos)
  <2>1. Feeds(ToSet(chain), Spools, Len(out), pos)
    BY <1>1 DEF ReadInv
  <2>2. ASSUME NEW g \in ToSet(w), NEW y \in ToSet(Spools'[g])
        PROVE  \E h \in ToSet(chain) : y \in ToSet(Spools[h])
    BY <1>4, <1>11, <1>17, <1>18, <2>2
  <2>3. ASSUME NEW h \in ToSet(chain), NEW y \in ToSet(Spools[h])
        PROVE  \E g \in ToSet(w) : y \in ToSet(Spools'[g])
    <3>1. f \in ToSet(w) /\ h # f
      BY <1>4, <1>11, <1>17, <1>19, <2>3
    <3>2. CASE h = p
      BY <1>17, <2>3, <3>1, <3>2
    <3>3. CASE h # p
      BY <1>11, <1>17, <1>18, <2>3, <3>1, <3>3
    <3> QED
      BY <3>2, <3>3
  <2> QED
    BY <2>1, <2>2, <2>3 DEF Feeds
<1>22. ReadInv'
  <2>1. \A g : ~Above(w, g, f)
    BY <1>11, <1>12
  <2>2. BodyPassesOn'
    BY <1>1 DEF ReadInv, BodyPassesOn
  <2> QED
    BY <1>11, <1>20, <1>21, <2>1, <2>2 DEF ReadInv
<1>23. InStep(ctx'[f_ctx'[f]], Below(w, f), Spools', pos)
  <2>1. InStep(ctx[c], Below(chain, p), Spools, pos)
    BY <1>1, <1>4, <1>5 DEF SyncInv
  <2>2. Below(w, f) = Below(chain, p)
    <3>1. \A g, h : Above(chain, g, h) => g \in ToSet(chain) /\ h \in ToSet(chain) /\ g # h /\ ~Above(chain, h, g)
      BY <1>2, AboveOrder
    <3>2. ASSUME NEW g \in Below(w, f) PROVE g \in Below(chain, p)
      BY <1>11, <1>13, <3>1, <3>2 DEF Below
    <3>3. ASSUME NEW g \in Below(chain, p) PROVE g \in Below(w, f)
      BY <1>4, <1>11, <1>12, <3>1, <3>3 DEF Below
    <3> QED
      BY <3>2, <3>3
  <2>3. \A g \in Below(w, f) : g \in Below(chain, p) /\ Spools'[g] = Spools[g]
    <3>1. ~Above(w, f, f)
      BY <1>11, AboveOrder
    <3> QED
      BY <1>17, <1>18, <2>2, <3>1 DEF Below
  <2>4. \A lo : Feeds(Below(chain, p), Spools, lo, pos) => Feeds(Below(w, f), Spools', lo, pos)
    BY <2>2, <2>3 DEF Feeds
  <2> QED
    BY <1>8, <1>9, <2>1, <2>4 DEF InStep
<1>24. ASSUME NEW g \in Filters, g \in ToSet(w), Live(g), g # f
       PROVE  InStep(ctx'[f_ctx'[g]], Below(w, g), Spools', pos)
  <2>1. g \in ToSet(chain) /\ g # p
    BY <1>11, <1>24
  <2>2. ctx'[f_ctx'[g]] = ctx[f_ctx[g]]
    BY <1>9, <1>15, <1>16, <1>24, <2>1
  <2>3. InStep(ctx[f_ctx[g]], Below(chain, g), Spools, pos)
    BY <1>1, <1>24, <2>1 DEF SyncInv
  <2>4. Below(w, g) = Below(chain, g)
    <3>1. \A h, k : Above(chain, h, k) => h \in ToSet(chain) /\ k \in ToSet(chain) /\ ~Above(chain, k, h)
      BY <1>2, AboveOrder
    <3>2. Above(chain, p, g)
      BY <1>13, <1>24, <2>1
    <3>3. \A h : Above(w, g, h) <=> Above(chain, g, h)
      BY <1>11, <2>1, <3>1, <3>2
    <3>4. \A h : Above(chain, g, h) => h # p
      BY <3>1, <3>2
    <3> QED
      BY <1>11, <3>3, <3>4 DEF Below
  <2>5. \A h \in Below(w, g) : Spools'[h] = Spools[h]
    <3>1. ~Above(w, g, f)
      BY <1>11, <1>12
    <3> QED
      BY <1>17, <1>18, <3>1 DEF Below
  <2>6. \A lo : Feeds(Below(chain, g), Spools, lo, pos) => Feeds(Below(w, g), Spools', lo, pos)
    BY <2>4, <2>5 DEF Feeds
  <2> QED
    BY <2>2, <2>3, <2>6 DEF InStep
<1>25. SyncInv'
  <2>1. NothingPassesBy'
    <3>1. DOMAIN ctx' = Filters /\ DOMAIN ctx = Filters
      BY <1>1, <1>9 DEF TypeOK
    <3>2. \A e \in Filters : ctx'[e].shown = ctx[e].shown
      BY <1>8, <1>9
    <3> QED
      BY <1>1, <3>1, <3>2 DEF SyncInv, NothingPassesBy
  <2>2. \A g \in Filters : g \in ToSet(w) /\ Live(g)' => InStep(ctx'[f_ctx'[g]], Below(w, g), Spools', pos)
    BY <1>14, <1>23, <1>24
  <2> QED
    BY <1>11, <2>1, <2>2 DEF SyncInv
<1>26. ChainInv'
  <2>1. Http \in ToSet(w) /\ f \in ToSet(w) /\ \A g : ~Above(w, Http, g)
    BY <1>1, <1>4, <1>11, MembersAre DEF ChainInv
  <2>2. Live(proto)' /\ ctx'[f_ctx'[proto']].status # "EINIT" /\ proto' \in ToSet(w) /\ ~crashed'
    BY <1>1, <1>4, <1>8, <1>9, <1>11, <1>14 DEF Live, ChainInv
  <2>3. \A g \in Filters : g \in ToSet(w) \/ Live(g)' => g <= made
    BY <1>1, <1>11, <1>14 DEF ChainInv
  <2>4. \A g \in Filters : Live(g)' => Live(f_ctx[g])'
    <3>1. ASSUME NEW g \in Filters, Live(g)' PROVE f_ctx'[g] \in DOMAIN f_ctx' /\ f_ctx'[f_ctx'[g]] # NULL
      <4>1. PICK e : e = f_ctx'[g]
        OBVIOUS
      <4>2. Live(e)
        BY <1>1, <1>4, <1>5, <1>9, <1>14, <1>15, <3>1, <4>1 DEF ChainInv
      <4>3. Live(e)'
        BY <1>14, <4>2
      <4> QED
        BY <4>1, <4>3 DEF Live
    <3> QED
      BY <3>1 DEF Live
  <2>5. \A g, h \in Filters : g \in ToSet(w) /\ h \in ToSet(w) /\ Live(g)' /\ f_ctx'[g] = f_ctx'[h]
          => g = h
    <3>1. ASSUME NEW g \in Filters, NEW h \in Filters, g \in ToSet(w), h \in ToSet(w),
                 Live(g)', f_ctx'[g] = f_ctx'[h]
          PROVE  g = h
      <4>1. \A e \in Filters : e \in ToSet(w) /\ e # f => f_ctx'[e] # c /\ f_ctx'[e] = f_ctx[e] /\ e \in ToSet(chain)
        <5>1. ASSUME NEW e \in Filters, e \in ToSet(w), e # f, f_ctx[e] = c PROVE FALSE
          <6>1. Live(e)
            BY <1>1, <5>1, LiveIs
          <6> QED
            BY <1>11, <1>16, <5>1, <6>1
        <5> QED
          BY <1>9, <1>11, <5>1
      <4>2. g # f => Live(g)
        BY <1>14, <3>1
      <4>3. CASE g = f \/ h = f
        BY <1>9, <3>1, <4>1, <4>3
      <4>4. CASE g # f /\ h # f
        BY <1>1, <3>1, <4>1, <4>2, <4>4 DEF ChainInv
      <4> QED
        BY <4>3, <4>4
    <3> QED
      BY <3>1
  <2>6. \A e \in Filters : ctx'[e].status = "EINIT" => ctx'[e].spool = << >> /\ ctx'[e].shown = << >>
    BY <1>1, <1>8, <1>9 DEF ChainInv
  <2>7. chain' = w /\ Distinct(w) /\ made' = made
    BY <1>11
  <2> QED
    BY ONLY <2>1, <2>2, <2>3, <2>4, <2>5, <2>6, <2>7 DEF ChainInv
<1>27. TypeOK'
  BY <1>1, <1>2, <1>9, <1>11 DEF TypeOK
<1>28. CursorInv'
  BY DEF CursorInv
<1>29. HandleInv'
  <2>1. ASSUME Driven
        PROVE  /\ Live(handle[r])' => /\ ctx'[f_ctx'[handle[r]]].status # "INTERRUPT"
                                      /\ config # Unset => ctx'[f_ctx'[handle[r]]].limit = config
               /\ \/ handle[r] \in ToSet(w)
                  \/ Live(handle[r])' /\ ctx'[f_ctx'[handle[r]]].status \in Final
               /\ phase # "content" => handle[r] \in ToSet(w)
               /\ \A g : Above(w, g, handle[r]) => ~IsApreq(g)
    <3>1. PICK h \in Filters : h = handle[r]
      BY <1>1, <2>1, DrivenIs
    <3>2. /\ Live(h) => /\ ctx[f_ctx[h]].status # "INTERRUPT"
                        /\ config # Unset => ctx[f_ctx[h]].limit = config
          /\ h \in ToSet(chain) \/ (Live(h) /\ ctx[f_ctx[h]].status \in Final)
          /\ phase # "content" => h \in ToSet(chain)
          /\ \A g : Above(chain, g, h) => ~IsApreq(g)
      BY <1>1, <2>1, <3>1 DEF HandleInv, Live
    <3>3. h \in ToSet(chain) => h = f
      BY <1>2, <1>12, <3>2
    <3>4. CASE h = f
      <4>1. ctx'[f_ctx'[h]] = d /\ h \in ToSet(w)
        BY <1>4, <1>9, <1>11, <3>4
      <4> QED
        BY <1>8, <1>11, <3>1, <3>2, <4>1
    <3>5. CASE h # f
      <4>1. h \notin ToSet(chain) /\ Live(h) /\ ctx[f_ctx[h]].status \in Final
        BY <3>2, <3>3, <3>5
      <4>2. Live(h)'
        BY <1>14, <4>1
      <4>3. f_ctx'[h] = f_ctx[h] /\ f_ctx[h] \in Filters
        BY <1>15, <4>1
      <4>4. /\ ctx'[f_ctx'[h]].status \in Final
            /\ ctx'[f_ctx'[h]].limit = ctx[f_ctx[h]].limit \/ ctx'[f_ctx'[h]].limit = config
        BY <1>8, <1>9, <4>1, <4>3
      <4>5. "INTERRUPT" \notin Final
        BY DEF Final
      <4> QED
        BY <1>11, <3>1, <3>2, <4>1, <4>2, <4>4, <4>5 DEF Live
    <3> QED
      BY <3>4, <3>5
  <2> QED
    BY <1>1, <1>11, <2>1 DEF HandleInv, Driven
<1> QED
  BY <1>22, <1>25, <1>26, <1>27, <1>28, <1>29 DEF Inv

LEMMA PrepareStep ==
  ASSUME Inv, NEW f \in 1 .. MaxFilters, Prepare(f)
  PROVE  Inv'
<1>1. /\ f \in Filters /\ f \in ToSet(chain) /\ phase # "init"
      /\ UNCHANGED <<made, r, get, config, handle, phase, cursor, pos, out>>
  BY DEF Prepare, Filters
<1>2. CASE ~Live(f) /\ MakeContext(f)
  <2>1. AboveProto(f) => chain[2] = proto /\ Live(proto) /\ f_ctx[chain[2]] # NULL
    BY DEF AboveProto, Inv, ChainInv, Live
  <2>2. CASE AboveProto(f) /\ Stealable(f_ctx[chain[2]])
    BY <1>1, <1>2, <2>1, <2>2, TakeOverStep DEF MakeContext
  <2>3. CASE ~(AboveProto(f) /\ Stealable(f_ctx[chain[2]]))
    BY <1>1, <1>2, <2>1, <2>3, OwnContextStep DEF MakeContext
  <2> QED
    BY <2>2, <2>3
<1>3. CASE /\ Live(f) /\ ctx[f_ctx[f]].status = "EINIT"
           /\ ctx' = [ctx EXCEPT ![f_ctx[f]] = Ready(@)]
           /\ UNCHANGED <<chain, proto, f_ctx, crashed>>
  BY <1>1, <1>3, ReadyStep
<1> QED
  BY <1>2, <1>3 DEF Prepare

------------------------------------------------------------------------------
(* A token is read. *)

LEMMA Least ==
  ASSUME NEW S, S \subseteq Nat, S # {}
  PROVE  \E i \in S : \A j \in S : i <= j
<1> SUFFICES ASSUME \A i \in S : \E j \in S : ~(i <= j) PROVE FALSE
  OBVIOUS
<1> DEFINE T == {n \in Nat : \A k \in 0 .. n : k \notin S}
<1>1. 0 \in T
  <2>1. 0 \in S => \A j \in S : 0 <= j
    OBVIOUS
  <2>2. \A k \in 0 .. 0 : k = 0
    OBVIOUS
  <2> QED
    BY <2>1, <2>2
<1>2. ASSUME NEW n \in Nat, n \in T PROVE n + 1 \in T
  <2>1. \A k \in 0 .. n : k \notin S
    BY <1>2
  <2>2. \A k \in 0 .. n + 1 : k \in 0 .. n \/ k = n + 1
    OBVIOUS
  <2>3. n + 1 \notin S
    <3>1. SUFFICES ASSUME n + 1 \in S PROVE FALSE
      OBVIOUS
    <3>2. PICK j \in S : ~(n + 1 <= j)
      BY <3>1
    <3>3. j \in 0 .. n
      BY <3>2
    <3> QED
      BY <2>1, <3>3
  <2> QED
    BY <2>1, <2>2, <2>3
<1> HIDE DEF T
<1>3. Nat \subseteq T
  BY <1>1, <1>2, SetInduction
<1>4. PICK n \in S : TRUE
  OBVIOUS
<1>5. n \in T /\ n \in 0 .. n
  BY <1>3
<1> QED
  BY <1>5 DEF T

\* Those who are read through have a context, and it is ready.
LEMMA PreparedIs ==
  ASSUME NEW s \in Seq(Members), Prepared(s), NEW g \in ToSet(s), IsApreq(g)
  PROVE  Live(g) /\ ctx[f_ctx[g]].status # "EINIT"
<1>1. PICK i \in DOMAIN s : s[i] = g
  BY DEF ToSet
<1> QED
  BY <1>1 DEF Prepared

\* Where the token comes from and whom it passes.
LEMMA ReadIs ==
  ASSUME TypeOK, NEW s \in Seq(Members), Distinct(s), Prepared(s)
  PROVE  \/ /\ Source(s) = NULL /\ ToSet(Passed(s)) = ToSet(s)
            /\ \A g \in ToSet(s) : Spools[g] = << >>
            /\ Token(s) = IF pos < EOS THEN pos + 1 ELSE EOS
         \/ /\ Source(s) \in ToSet(s) /\ IsApreq(Source(s)) /\ Spools[Source(s)] # << >>
            /\ Token(s) = Head(Spools[Source(s)])
            /\ ToSet(Passed(s)) = {g \in ToSet(s) : Above(s, g, Source(s))}
            /\ \A g \in ToSet(Passed(s)) : Spools[g] = << >>
<1>1. DOMAIN s = 1 .. Len(s) /\ Len(s) \in Nat
  OBVIOUS
<1>2. \A i \in DOMAIN s : s[i] \in Members /\ s[i] \in ToSet(s)
  <2>1. \A i \in DOMAIN s : s[i] \in Members
    OBVIOUS
  <2> QED
    BY <2>1 DEF ToSet
<1>3. \A i \in DOMAIN s : i \in Spooling(s) <=> Spools[s[i]] # << >>
  <2>1. ASSUME NEW i \in DOMAIN s PROVE i \in Spooling(s) <=> Spools[s[i]] # << >>
    <3>1. CASE IsApreq(s[i])
      <4>1. Live(s[i])
        BY <3>1, <2>1 DEF Prepared
      <4>2. Spools[s[i]] = ctx[f_ctx[s[i]]].spool
        BY <1>2, <4>1, SpoolsAre
      <4> QED
        BY <3>1, <4>2 DEF Spooling
    <3>2. CASE ~IsApreq(s[i])
      BY <1>2, <3>2 DEF Spooling, Spools
    <3> QED
      BY <3>1, <3>2
  <2> QED
    BY <2>1
<1>4. CASE Spooling(s) = {}
  <2>1. Passed(s) = s /\ Source(s) = NULL
    BY <1>4 DEF Passed, Source
  <2>2. \A g \in ToSet(s) : Spools[g] = << >>
    BY <1>3, <1>4 DEF ToSet
  <2>3. Token(s) = IF pos < EOS THEN pos + 1 ELSE EOS
    BY <2>1 DEF Token
  <2> QED
    BY <2>1, <2>2, <2>3
<1>5. CASE Spooling(s) # {}
  <2> DEFINE i0 == CHOOSE i \in Spooling(s) : \A j \in Spooling(s) : i <= j
  <2>1. Spooling(s) \subseteq DOMAIN s /\ Spooling(s) \subseteq Nat
    BY <1>1 DEF Spooling
  <2>2. i0 \in Spooling(s) /\ \A j \in Spooling(s) : i0 <= j
    BY <1>5, <2>1, Least
  <2>3. Passed(s) = SubSeq(s, 1, i0 - 1)
    BY <1>5 DEF Passed
  <2> HIDE DEF i0
  <2>4. i0 \in 1 .. Len(s)
    BY <1>1, <2>1, <2>2
  <2>5. /\ DOMAIN Passed(s) = 1 .. i0 - 1 /\ Len(Passed(s)) = i0 - 1
        /\ \A k \in 1 .. i0 - 1 : Passed(s)[k] = s[k]
    BY <2>3, <2>4
  <2>6. Source(s) = s[i0]
    BY <1>5, <2>4, <2>5 DEF Source
  <2>7. s[i0] \in ToSet(s) /\ IsApreq(s[i0]) /\ s[i0] # NULL
    <3>1. IsApreq(s[i0])
      BY <2>2 DEF Spooling
    <3> QED
      BY <1>1, <1>2, <2>4, <3>1, MembersAre
  <2>8. Spools[s[i0]] # << >> /\ Spools[s[i0]] = ctx[f_ctx[s[i0]]].spool
    <3>1. Live(s[i0])
      BY <2>7, PreparedIs
    <3> QED
      BY <1>1, <1>2, <1>3, <2>2, <2>4, <3>1, SpoolsAre
  <2>9. Token(s) = Head(Spools[s[i0]])
    BY <2>6, <2>7, <2>8 DEF Token
  <2>10. ASSUME NEW g PROVE g \in ToSet(Passed(s)) <=> g \in ToSet(s) /\ Above(s, g, s[i0])
    <3>1. ASSUME g \in ToSet(Passed(s)) PROVE g \in ToSet(s) /\ Above(s, g, s[i0])
      <4>1. PICK k \in 1 .. i0 - 1 : s[k] = g
        BY <2>5, <3>1 DEF ToSet
      <4>2. k \in DOMAIN s /\ k < i0 /\ i0 \in DOMAIN s
        BY <1>1, <2>4
      <4> QED
        BY <1>2, <4>1, <4>2 DEF Above
    <3>2. ASSUME Above(s, g, s[i0]) PROVE g \in ToSet(Passed(s))
      <4>1. PICK k \in DOMAIN s, l \in DOMAIN s : k < l /\ s[k] = g /\ s[l] = s[i0]
        BY <3>2 DEF Above
      <4>2. l = i0
        BY <1>1, <2>4, <4>1 DEF Distinct
      <4>3. k \in 1 .. i0 - 1
        BY <1>1, <2>4, <4>1, <4>2
      <4> QED
        BY <2>5, <4>1, <4>3 DEF ToSet
    <3> QED
      BY <3>1, <3>2
  <2>11. ASSUME NEW g \in ToSet(Passed(s)) PROVE Spools[g] = << >>
    <3>1. PICK k \in 1 .. i0 - 1 : s[k] = g
      BY <2>5 DEF ToSet
    <3>2. k \in DOMAIN s /\ ~(i0 <= k)
      BY <1>1, <2>4
    <3> QED
      BY <1>3, <2>2, <3>1, <3>2
  <2> QED
    BY <2>6, <2>7, <2>8, <2>9, <2>10, <2>11
<1> QED
  BY <1>4, <1>5

\* s is what is read through, on behalf of f0 or, if that is NULL, of a content
\* handler.
Reading(s, f0) ==
    /\ s \in Seq(Members) /\ Distinct(s) /\ Prepared(s)
    /\ \A g, h \in ToSet(s) : Above(s, g, h) <=> Above(chain, g, h)
    /\ \/ f0 = NULL /\ ToSet(s) = ToSet(chain)
       \/ /\ f0 \in Filters /\ f0 \in ToSet(chain) /\ ToSet(s) = Below(chain, f0)
          /\ Live(f0) /\ ctx[f_ctx[f0]].status = "INCOMPLETE"

\* The parser of the context c, that is now d, has seen t, or has refused it.
Seen(c, d, t) ==
    /\ c.status = "INCOMPLETE" /\ d.limit = c.limit
    /\ \/ d.status = "OVERLIMIT" /\ d.shown = c.shown
       \/ /\ d.shown = Append(c.shown, t)
          /\ d.status = "SUCCESS" \/ (d.status = "INCOMPLETE" /\ t # EOS)

Same(c, d) == d.status = c.status /\ d.limit = c.limit /\ d.shown = c.shown

LEMMA ShownIs ==
  ASSUME NEW c \in Contexts, c.status = "INCOMPLETE", NEW t \in Tok,
         NEW verdict \in {"INCOMPLETE", "SUCCESS"}, NEW d, d = Shown(c, t, verdict)
  PROVE  d \in Contexts /\ Seen(c, d, t) /\ d.spool = c.spool
<1> DEFINE n == c.bytes + (IF t = EOS THEN 0 ELSE 1)
<1>1. n \in Nat
  BY DEF Contexts
<1>2. PICK m : m = n
  OBVIOUS
<1>3. d = IF m > c.limit
          THEN [c EXCEPT !.bytes = m, !.status = "OVERLIMIT"]
          ELSE [c EXCEPT !.bytes = m,
                         !.shown = Append(c.shown, t),
                         !.status = IF t = EOS THEN "SUCCESS" ELSE verdict]
  BY <1>2 DEF Shown
<1>4. m \in Nat /\ Append(c.shown, t) \in Seq(Tok)
  BY <1>1, <1>2 DEF Contexts
<1> HIDE DEF n
<1>5. CASE m > c.limit
  <2>1. d = [c EXCEPT !.bytes = m, !.status = "OVERLIMIT"]
    BY <1>3, <1>5
  <2> QED
    BY <1>4, <2>1 DEF Contexts, Statuses, Seen
<1>6. CASE ~(m > c.limit)
  <2>1. d = [c EXCEPT !.bytes = m, !.shown = Append(c.shown, t),
                      !.status = IF t = EOS THEN "SUCCESS" ELSE verdict]
    BY <1>3, <1>6
  <2>2. PICK st \in {"INCOMPLETE", "SUCCESS"} : st = IF t = EOS THEN "SUCCESS" ELSE verdict
    OBVIOUS
  <2>3. PICK q \in Seq(Tok) : q = Append(c.shown, t)
    BY <1>4
  <2>4. d = [c EXCEPT !.bytes = m, !.shown = q, !.status = st]
    BY <2>1, <2>2, <2>3
  <2>5. d \in Contexts /\ d.spool = c.spool /\ d.limit = c.limit /\ d.shown = q /\ d.status = st
    BY <1>4, <2>4 DEF Contexts, Statuses
  <2> QED
    BY <2>2, <2>3, <2>5 DEF Seen
<1> QED
  BY <1>5, <1>6

LEMMA ThroughIs ==
  ASSUME TypeOK, ChainInv, ReadInv, NEW s, NEW f0, Reading(s, f0),
         NEW verdict \in {"INCOMPLETE", "SUCCESS"},
         NEW by, by = (IF f0 = NULL THEN {} ELSE {f_ctx[f0]}),
         Through(s, by, verdict), UNCHANGED f_ctx,
         NEW src, src = Source(s), NEW t, t = Token(s)
  PROVE  /\ Drawing(chain, ToSet(s), Spools, Spools', f0, src, t, Len(out), pos, pos')
         /\ ctx' \in [Filters -> Contexts]
         /\ \A e \in Filters :
                \/ /\ Seen(ctx[e], ctx'[e], t)
                   /\ \E g \in Filters : /\ g \in ToSet(chain) /\ Live(g) /\ f_ctx[g] = e
                                         /\ g \in Parsing(s) \/ g = f0
                \/ Same(ctx[e], ctx'[e])
         /\ \A g \in Filters : g \in ToSet(chain) /\ Live(g) =>
                IF g \in Parsing(s) \/ g = f0
                THEN Seen(ctx[f_ctx[g]], ctx'[f_ctx[g]], t)
                ELSE Same(ctx[f_ctx[g]], ctx'[f_ctx[g]])
         /\ \A e \in Filters : ctx'[e].status = "EINIT" => ctx'[e] = ctx[e]
<1>1. /\ s \in Seq(Members) /\ Distinct(s) /\ Prepared(s)
      /\ \A g, h \in ToSet(s) : Above(s, g, h) <=> Above(chain, g, h)
      /\ \/ f0 = NULL /\ ToSet(s) = ToSet(chain)
         \/ /\ f0 \in Filters /\ f0 \in ToSet(chain) /\ ToSet(s) = Below(chain, f0)
            /\ Live(f0) /\ ctx[f_ctx[f0]].status = "INCOMPLETE"
  BY DEF Reading
<1>2. chain \in Seq(Members) /\ Distinct(chain) /\ ToSet(s) \subseteq ToSet(chain) /\ f0 \notin ToSet(s)
  <2>1. chain \in Seq(Members) /\ Distinct(chain)
    BY DEF TypeOK, ChainInv
  <2>2. ~Above(chain, f0, f0) /\ NULL \notin ToSet(chain)
    BY <2>1, AboveOrder, MembersAre DEF ToSet
  <2> QED
    BY <1>1, <2>1, <2>2 DEF Below
<1>3. ToSet(chain) \subseteq Members /\ NULL \notin ToSet(chain)
  BY <1>2, MembersAre DEF ToSet
\* The source, and the others that are read through.
<1>4. \/ /\ src = NULL /\ \A g \in ToSet(s) : Spools[g] = << >>
         /\ t = IF pos < EOS THEN pos + 1 ELSE EOS
      \/ /\ src \in ToSet(s) /\ IsApreq(src) /\ Spools[src] # << >> /\ t = Head(Spools[src])
         /\ src \notin ToSet(Passed(s))
         /\ \A g \in ToSet(s) : Above(chain, g, src) => Spools[g] = << >>
  <2>1. \A g : ~Above(s, g, g)
    BY <1>1, AboveOrder
  <2> QED
    BY <1>1, <2>1, ReadIs
<1>5. src # NULL => /\ src \in ToSet(chain) /\ src \in Filters /\ Live(src) /\ f_ctx[src] \in Filters
                    /\ ctx[f_ctx[src]].status # "EINIT" /\ Spools[src] = ctx[f_ctx[src]].spool
                    /\ src # f0
  <2>1. SUFFICES ASSUME src # NULL
                 PROVE  /\ src \in ToSet(chain) /\ src \in Filters /\ Live(src) /\ f_ctx[src] \in Filters
                        /\ ctx[f_ctx[src]].status # "EINIT" /\ Spools[src] = ctx[f_ctx[src]].spool
                        /\ src # f0
    OBVIOUS
  <2>2. src \in ToSet(s) /\ IsApreq(src) /\ src \in Members /\ src \in Filters
    BY <1>2, <1>3, <1>4, <2>1, MembersAre
  <2>3. Live(src) /\ ctx[f_ctx[src]].status # "EINIT"
    BY <1>1, <2>2, PreparedIs
  <2> QED
    BY <1>2, <2>2, <2>3, LiveIs, SpoolsAre
<1>6. t \in Tok
  <2>1. Spools[src] \in Seq(Tok) /\ Spools[src] # << >> => Head(Spools[src]) \in Tok
    OBVIOUS
  <2>2. src # NULL => Spools[src] \in Seq(Tok)
    BY <1>3, <1>5, SpoolsAre
  <2>3. pos \in 0 .. EOS
    BY DEF TypeOK
  <2>4. CASE src = NULL
    <3>1. t = IF pos < EOS THEN pos + 1 ELSE EOS
      BY <1>2, <1>3, <1>4, <2>4
    <3> QED
      BY <2>3, <3>1, EosTok DEF Tok
  <2>5. CASE src # NULL
    <3>1. Spools[src] # << >> /\ t = Head(Spools[src])
      BY <1>4, <2>5
    <3> QED
      BY <2>1, <2>2, <2>5, <3>1
  <2> QED
    BY <2>4, <2>5
<1>7. \A g \in Parsing(s) : /\ g \in Filters /\ g \in ToSet(chain) /\ Live(g) /\ f_ctx[g] \in Filters
                            /\ ctx[f_ctx[g]].status = "INCOMPLETE"
                            /\ g # src /\ g # f0
  <2>1. ASSUME NEW g \in Parsing(s)
        PROVE  /\ g \in Filters /\ g \in ToSet(chain) /\ Live(g) /\ f_ctx[g] \in Filters
               /\ ctx[f_ctx[g]].status = "INCOMPLETE"
               /\ g # src /\ g # f0
    <3>1. g \in ToSet(Passed(s)) /\ IsApreq(g) /\ ctx[f_ctx[g]].status = "INCOMPLETE"
      BY DEF Parsing
    <3>2. g \in ToSet(s)
      BY <1>1, <3>1, ReadIs
    <3>3. g \in ToSet(chain) /\ g \in Members /\ g \in Filters
      BY <1>2, <1>3, <3>1, <3>2, MembersAre
    <3>4. Live(g)
      BY <1>1, <3>1, <3>2, PreparedIs
    <3>5. g # src
      BY <1>3, <1>4, <3>1, <3>3
    <3> QED
      BY <1>2, <3>1, <3>2, <3>3, <3>4, <3>5, LiveIs
  <2> QED
    BY <2>1
<1>8. f0 # NULL => /\ f0 \in Filters /\ f0 \in ToSet(chain) /\ Live(f0) /\ f_ctx[f0] \in Filters
                   /\ ctx[f_ctx[f0]].status = "INCOMPLETE"
  BY <1>1, LiveIs
<1>9. \A g, h \in Filters : g \in ToSet(chain) /\ h \in ToSet(chain) /\ Live(g) /\ f_ctx[g] = f_ctx[h] => g = h
  BY DEF ChainInv
<1> DEFINE sees == {f_ctx[f] : f \in Parsing(s)} \cup by
           drained(e) == IF src # NULL /\ e = f_ctx[src] THEN [ctx[e] EXCEPT !.spool = Tail(@)] ELSE ctx[e]
           seen(e) == IF e \in sees THEN Shown(drained(e), t, verdict) ELSE drained(e)
<1>10. /\ DOMAIN ctx' = Filters /\ DOMAIN ctx = Filters
       /\ \A e \in Filters : ctx'[e] = IF e \in by /\ (seen(e).spool = << >> \/ Last(seen(e).spool) # EOS)
                                       THEN [seen(e) EXCEPT !.spool = Append(@, t)] ELSE seen(e)
       /\ pos' = IF src = NULL /\ pos < EOS THEN pos + 1 ELSE pos
  <2>1. DOMAIN ctx = Filters
    BY DEF TypeOK
  <2> QED
    BY <2>1 DEF Through
\* Whose context sees the token.
<1>11. \A e \in sees : /\ \E g \in Filters : /\ g \in ToSet(chain) /\ Live(g) /\ f_ctx[g] = e
                                             /\ g \in Parsing(s) \/ g = f0
                       /\ ctx[e].status = "INCOMPLETE" /\ e \in Filters
                       /\ src # NULL => e # f_ctx[src]
  <2>1. ASSUME NEW e \in sees
        PROVE  \E g \in Filters : /\ g \in ToSet(chain) /\ Live(g) /\ f_ctx[g] = e
                                  /\ g \in Parsing(s) \/ g = f0
    BY <1>7, <1>8, <2>1
  <2>2. ASSUME NEW g \in Filters, g \in Parsing(s) \/ g = f0
        PROVE  ctx[f_ctx[g]].status = "INCOMPLETE" /\ f_ctx[g] \in Filters /\ g # src
    <3>1. NULL \notin Filters
      BY DEF Filters, NULL
    <3> QED
      BY <1>5, <1>7, <1>8, <2>2, <3>1
  <2> QED
    BY <1>5, <1>9, <2>1, <2>2
<1>12. \A g \in Filters : g \in ToSet(chain) /\ Live(g) =>
         /\ f_ctx[g] \in sees <=> g \in Parsing(s) \/ g = f0
         /\ f_ctx[g] \in by <=> g = f0
  <2>1. NULL \notin Filters
    BY DEF Filters, NULL
  <2> QED
    BY <1>7, <1>8, <1>9, <2>1
<1>13. by \subseteq sees
  OBVIOUS
<1> HIDE DEF sees
\* What becomes of each context.
<1>14. ASSUME NEW e \in Filters, e \notin sees, src = NULL \/ e # f_ctx[src]
       PROVE  ctx'[e] = ctx[e]
  BY <1>10, <1>13, <1>14
<1>15. ASSUME src # NULL
       PROVE  ctx'[f_ctx[src]] = [ctx[f_ctx[src]] EXCEPT !.spool = Tail(@)]
  BY <1>5, <1>10, <1>11, <1>13, <1>15
<1>16. ASSUME NEW e \in Filters, e \in sees
       PROVE  /\ ctx'[e] \in Contexts /\ Seen(ctx[e], ctx'[e], t)
              /\ ctx'[e].spool = IF e \in by THEN Spooled(ctx[e].spool, t) ELSE ctx[e].spool
  <2>1. drained(e) = ctx[e] /\ ctx[e] \in Contexts /\ ctx[e].status = "INCOMPLETE"
    BY <1>11, <1>16 DEF TypeOK
  <2>2. PICK d : d = Shown(ctx[e], t, verdict)
    OBVIOUS
  <2>3. d \in Contexts /\ Seen(ctx[e], d, t) /\ d.spool = ctx[e].spool
    BY <1>6, <2>1, <2>2, ShownIs
  <2>4. seen(e) = d
    BY <1>16, <2>1, <2>2
  <2>5. ctx'[e] = IF e \in by /\ (d.spool = << >> \/ Last(d.spool) # EOS)
                  THEN [d EXCEPT !.spool = Append(d.spool, t)] ELSE d
    BY <1>10, <2>4
  <2>6. CASE e \in by /\ (d.spool = << >> \/ Last(d.spool) # EOS)
    <3>1. ctx'[e] = [d EXCEPT !.spool = Append(d.spool, t)]
      BY <2>5, <2>6
    <3>2. PICK q \in Seq(Tok) : q = Append(d.spool, t)
      <4>1. d.spool \in Seq(Tok)
        BY <2>3 DEF Contexts
      <4>2. Append(d.spool, t) \in Seq(Tok)
        BY <1>6, <4>1
      <4> QED
        BY <4>2
    <3>3. /\ ctx'[e] \in Contexts /\ ctx'[e].spool = q /\ ctx'[e].status = d.status
          /\ ctx'[e].shown = d.shown /\ ctx'[e].limit = d.limit
      BY <2>3, <3>1, <3>2 DEF Contexts
    <3>4. Seen(ctx[e], ctx'[e], t)
      BY <2>3, <3>3 DEF Seen
    <3>5. q = Spooled(ctx[e].spool, t)
      BY <2>3, <2>6, <3>2 DEF Spooled
    <3> QED
      BY <2>6, <3>3, <3>4, <3>5
  <2>7. CASE ~(e \in by /\ (d.spool = << >> \/ Last(d.spool) # EOS))
    <3>1. ctx'[e] = d
      BY <2>5, <2>7
    <3>2. e \in by => Spooled(ctx[e].spool, t) = ctx[e].spool
      BY <2>3, <2>7 DEF Spooled
    <3> QED
      BY <2>3, <3>1, <3>2
  <2> QED
    BY <2>6, <2>7
<1>17. src # NULL => /\ ctx'[f_ctx[src]] \in Contexts /\ Same(ctx[f_ctx[src]], ctx'[f_ctx[src]])
                     /\ ctx'[f_ctx[src]].spool = Tail(Spools[src])
                     /\ ctx'[f_ctx[src]].status # "EINIT"
  <2>1. SUFFICES ASSUME src # NULL
                 PROVE  /\ ctx'[f_ctx[src]] \in Contexts /\ Same(ctx[f_ctx[src]], ctx'[f_ctx[src]])
                        /\ ctx'[f_ctx[src]].spool = Tail(Spools[src])
                        /\ ctx'[f_ctx[src]].status # "EINIT"
    OBVIOUS
  <2>2. PICK c : c = ctx[f_ctx[src]]
    OBVIOUS
  <2>3. c \in Contexts /\ c.spool = Spools[src] /\ c.spool # << >> /\ c.status # "EINIT"
    BY <1>4, <1>5, <2>1, <2>2, <1>3 DEF TypeOK
  <2>4. PICK q \in Seq(Tok) : q = Tail(c.spool)
    <3>1. c.spool \in Seq(Tok)
      BY <2>3 DEF Contexts
    <3>2. Tail(c.spool) \in Seq(Tok)
      BY <2>3, <3>1
    <3> QED
      BY <3>2
  <2>5. ctx'[f_ctx[src]] = [c EXCEPT !.spool = q]
    BY <1>15, <2>1, <2>2, <2>4
  <2> QED
    BY <2>2, <2>3, <2>4, <2>5 DEF Contexts, Same
<1>18. ctx' \in [Filters -> Contexts]
  <2>1. ctx \in [Filters -> Contexts]
    BY DEF TypeOK
  <2>2. ASSUME NEW e \in Filters PROVE ctx'[e] \in Contexts
    BY <1>14, <1>16, <1>17, <2>1
  <2>3. ctx' = [e \in Filters |-> ctx'[e]]
    BY <1>10 DEF Through
  <2> QED
    BY <2>2, <2>3
<1>19. \A e \in Filters : \/ e \in sees /\ Seen(ctx[e], ctx'[e], t)
                          \/ e \notin sees /\ Same(ctx[e], ctx'[e])
  BY <1>11, <1>14, <1>16, <1>17 DEF Same
<1>20. \A e \in Filters : ctx'[e].status = "EINIT" => ctx'[e] = ctx[e]
  BY <1>14, <1>16, <1>17 DEF Seen
<1>21. \A g \in Filters : g \in ToSet(chain) /\ Live(g) =>
                IF g \in Parsing(s) \/ g = f0
                THEN Seen(ctx[f_ctx[g]], ctx'[f_ctx[g]], t)
                ELSE Same(ctx[f_ctx[g]], ctx'[f_ctx[g]])
  BY <1>12, <1>19, LiveIs
\* What becomes of the spools.
<1>22. ASSUME NEW g \in ToSet(chain)
       PROVE  Spools'[g] = IF g = src THEN Tail(Spools[g])
                           ELSE IF g = f0 THEN Spooled(Spools[g], t) ELSE Spools[g]
  <2>1. g \in Members /\ g # NULL /\ (IsApreq(g) <=> g \in Filters) /\ (Live(g)' <=> Live(g))
    BY <1>3, MembersAre DEF Live
  <2>2. Spools'[g] = IF IsApreq(g) /\ Live(g) THEN ctx'[f_ctx[g]].spool ELSE << >>
    BY <2>1 DEF Spools
  <2>3. CASE ~Live(g)
    <3>1. g # src /\ g # f0
      BY <1>5, <1>8, <2>1, <2>3
    <3> QED
      BY <2>1, <2>2, <2>3, <3>1, SpoolsAre
  <2>4. CASE Live(g)
    <3>1. /\ g \in Filters /\ f_ctx[g] \in Filters /\ IsApreq(g) /\ Spools[g] = ctx[f_ctx[g]].spool
          /\ Spools'[g] = ctx'[f_ctx[g]].spool
      BY <2>1, <2>2, <2>4, LiveIs, SpoolsAre
    <3>2. CASE g = src
      BY <1>17, <2>1, <3>1, <3>2
    <3>3. CASE g # src /\ g = f0
      BY <1>12, <1>13, <1>16, <2>4, <3>1, <3>3
    <3>4. CASE g # src /\ g # f0
      <4>1. src = NULL \/ f_ctx[g] # f_ctx[src]
        BY <1>5, <1>9, <2>4, <3>1, <3>4
      <4>2. f_ctx[g] \notin by
        BY <1>12, <2>4, <3>1, <3>4
      <4> QED
        BY <1>14, <1>16, <3>1, <3>4, <4>1, <4>2
    <3> QED
      BY <3>2, <3>3, <3>4
  <2> QED
    BY <2>3, <2>4
<1>23. Drawn(chain, ToSet(s), Spools, Spools', f0, src, t, pos, pos')
  <2>1. \/ f0 # NULL /\ ToSet(s) = Below(chain, f0) /\ f0 \in ToSet(chain)
        \/ f0 = NULL /\ ToSet(s) = ToSet(chain)
    BY <1>1, <1>3
  <2>2. \/ /\ src = NULL /\ \A g \in ToSet(s) : Spools[g] = << >>
           /\ t = IF pos < EOS THEN pos + 1 ELSE EOS
           /\ pos' = t
        \/ /\ src \in ToSet(s) /\ Spools[src] # << >>
           /\ t = Head(Spools[src]) /\ pos' = pos
           /\ \A g \in ToSet(s) : Above(chain, g, src) => Spools[g] = << >>
    <3>1. pos \in 0 .. EOS
      BY DEF TypeOK
    <3>2. src \in ToSet(s) => src # NULL
      BY <1>2, <1>3
    <3>3. src = NULL /\ (t = IF pos < EOS THEN pos + 1 ELSE EOS) => pos' = t
      BY <1>10, <3>1, EosTok
    <3>4. src # NULL => pos' = pos
      BY <1>10
    <3> QED
      BY <1>4, <3>2, <3>3, <3>4
  <2> QED
    BY <1>3, <1>22, <2>1, <2>2 DEF Drawn
<1>24. Drawing(chain, ToSet(s), Spools, Spools', f0, src, t, Len(out), pos, pos')
  <2>1. Len(out) \in Nat /\ pos \in 0 .. EOS
    BY DEF TypeOK
  <2> QED
    BY <1>2, <1>23, <2>1 DEF Drawing, ReadInv
<1> QED
  BY <1>11, <1>18, <1>19, <1>20, <1>21, <1>24

\* Those that leave have nothing spooled, and their parsers have finished.
LEMMA LeavingIs ==
  ASSUME TypeOK, ChainInv, NEW s, NEW f0, Reading(s, f0), NEW g \in Leaving(s)
  PROVE  /\ g \in Filters /\ g \in ToSet(s) /\ g \in ToSet(chain) /\ Live(g) /\ Spools[g] = << >>
         /\ ctx[f_ctx[g]].status \notin {"INCOMPLETE", "EINIT"}
         /\ g # f0 /\ g # Source(s) /\ g \notin Parsing(s)
<1>1. /\ s \in Seq(Members) /\ Distinct(s) /\ Prepared(s)
      /\ \/ f0 = NULL /\ ToSet(s) = ToSet(chain)
         \/ ToSet(s) = Below(chain, f0)
      /\ chain \in Seq(Members) /\ Distinct(chain)
  BY DEF Reading, TypeOK, ChainInv
<1>2. /\ g \in ToSet(Passed(s)) /\ IsApreq(g) /\ ctx[f_ctx[g]].status # "INCOMPLETE"
      /\ g \notin Parsing(s)
  BY DEF Leaving, Parsing
<1>3. \A h : ~Above(s, h, h) /\ ~Above(chain, h, h)
  BY <1>1, AboveOrder
<1>4. g \in ToSet(s) /\ Spools[g] = << >> /\ g # Source(s)
  <2>1. ToSet(s) \subseteq Members
    BY <1>1 DEF ToSet
  <2>2. NULL \notin Members
    BY MembersAre
  <2>3. CASE Source(s) = NULL /\ ToSet(Passed(s)) = ToSet(s) /\ \A h \in ToSet(s) : Spools[h] = << >>
    BY <1>2, <2>1, <2>2, <2>3
  <2>4. CASE /\ ToSet(Passed(s)) = {h \in ToSet(s) : Above(s, h, Source(s))}
             /\ \A h \in ToSet(Passed(s)) : Spools[h] = << >>
    BY <1>2, <1>3, <2>4
  <2> QED
    BY <1>1, <2>3, <2>4, ReadIs
<1>5. g \in ToSet(chain) /\ g # f0
  <2>1. ToSet(s) \subseteq ToSet(chain) /\ f0 \notin ToSet(s)
    <3>1. NULL \notin ToSet(chain)
      BY <1>1, MembersAre DEF ToSet
    <3> QED
      BY <1>1, <1>3, <3>1 DEF Below
  <2> QED
    BY <1>4, <2>1
<1>6. g \in Filters
  BY <1>2 DEF IsApreq, Filters
<1> QED
  BY <1>1, <1>2, <1>4, <1>5, <1>6, PreparedIs

\* A filter whose parser sees what is read: all that it has not seen comes from
\* below it.
LEMMA SeeingIs ==
  ASSUME TypeOK, ChainInv, NEW s, NEW f0, Reading(s, f0),
         NEW g \in ToSet(chain), g \in Parsing(s) \/ g = f0,
         NEW src, src = Source(s)
  PROVE  /\ Below(chain, g) \subseteq ToSet(s) /\ Closed(chain, Below(chain, g))
         /\ src # NULL => src \in Below(chain, g)
<1>1. /\ s \in Seq(Members) /\ Distinct(s) /\ Prepared(s)
      /\ \A x, h \in ToSet(s) : Above(s, x, h) <=> Above(chain, x, h)
      /\ \/ f0 = NULL /\ ToSet(s) = ToSet(chain)
         \/ ToSet(s) = Below(chain, f0)
      /\ chain \in Seq(Members) /\ Distinct(chain)
  BY DEF Reading, TypeOK, ChainInv
<1>2. /\ \A x, y, z : Above(chain, x, y) /\ Above(chain, y, z) => Above(chain, x, z)
      /\ \A x, y : Above(chain, x, y) => x \in ToSet(chain) /\ y \in ToSet(chain)
  BY <1>1, AboveOrder
<1>3. Closed(chain, Below(chain, g))
  BY <1>2 DEF Closed, Below
<1>4. NULL \notin ToSet(chain)
  BY <1>1, MembersAre DEF ToSet
<1>5. CASE g = f0
  <2>1. ToSet(s) = Below(chain, g)
    BY <1>1, <1>4, <1>5
  <2>2. src # NULL => src \in ToSet(s)
    BY <1>1, ReadIs
  <2> QED
    BY <1>3, <2>1, <2>2
<1>6. CASE g \in Parsing(s)
  <2>1. g \in ToSet(Passed(s))
    BY <1>6 DEF Parsing
  <2>2. g \in ToSet(s) /\ (src # NULL => src \in ToSet(s) /\ Above(s, g, src))
    BY <1>1, <2>1, ReadIs
  <2>3. Below(chain, g) \subseteq ToSet(s)
    BY <1>1, <1>2, <2>2 DEF Below
  <2>4. src # NULL => Above(chain, g, src)
    BY <1>1, <2>2
  <2> QED
    BY <1>2, <1>3, <2>3, <2>4 DEF Below
<1> QED
  BY <1>5, <1>6

\* The other filters that stay: they are above f0, or below what is read.
LEMMA UnseeingIs ==
  ASSUME TypeOK, ChainInv, NEW s, NEW f0, Reading(s, f0),
         NEW g \in Filters, g \in ToSet(chain), g \notin Parsing(s), g # f0, g \notin Leaving(s),
         NEW src, src = Source(s)
  PROVE  /\ Closed(chain, Below(chain, g))
         /\ \/ f0 \in Below(chain, g)
            \/ /\ src # NULL /\ src \notin Below(chain, g) /\ f0 \notin Below(chain, g)
               /\ g \in ToSet(s)
<1>1. /\ s \in Seq(Members) /\ Distinct(s) /\ Prepared(s)
      /\ \A x, h \in ToSet(s) : Above(s, x, h) <=> Above(chain, x, h)
      /\ \/ f0 = NULL /\ ToSet(s) = ToSet(chain)
         \/ f0 \in ToSet(chain) /\ ToSet(s) = Below(chain, f0)
      /\ chain \in Seq(Members) /\ Distinct(chain)
  BY DEF Reading, TypeOK, ChainInv
<1>2. /\ \A x, y, z : Above(chain, x, y) /\ Above(chain, y, z) => Above(chain, x, z)
      /\ \A x, y : Above(chain, x, y) => x \in ToSet(chain) /\ y \in ToSet(chain) /\ ~Above(chain, y, x)
      /\ \A x, y \in ToSet(chain) : x = y \/ Above(chain, x, y) \/ Above(chain, y, x)
  BY <1>1, AboveOrder
<1>3. Closed(chain, Below(chain, g))
  BY <1>2 DEF Closed, Below
<1>4. NULL \notin ToSet(chain)
  BY <1>1, MembersAre DEF ToSet
<1>5. CASE f0 \in Below(chain, g)
  BY <1>3, <1>5
<1>6. CASE f0 \notin Below(chain, g)
  <2>1. g \in ToSet(s)
    BY <1>1, <1>2, <1>6 DEF Below
  <2>2. g \notin ToSet(Passed(s))
    <3>1. IsApreq(g)
      BY DEF Filters, IsApreq
    <3>2. g \notin {f \in ToSet(Passed(s)) : IsApreq(f) /\ ctx[f_ctx[f]].status = "INCOMPLETE"}
      BY DEF Parsing
    <3>3. g \notin {f \in ToSet(Passed(s)) : IsApreq(f) /\ ctx[f_ctx[f]].status # "INCOMPLETE"}
      BY DEF Leaving
    <3> QED
      BY <3>1, <3>2, <3>3
  <2>3. src # NULL /\ src \in ToSet(s) /\ ~Above(s, g, src)
    <3>1. NULL \notin ToSet(s)
      BY <1>1, MembersAre DEF ToSet
    <3>2. \/ src = NULL /\ ToSet(Passed(s)) = ToSet(s)
          \/ src \in ToSet(s) /\ ToSet(Passed(s)) = {h \in ToSet(s) : Above(s, h, src)}
      BY <1>1, ReadIs
    <3> QED
      BY <2>1, <2>2, <3>1, <3>2
  <2>4. ~Above(chain, g, src)
    BY <1>1, <2>1, <2>3
  <2> QED
    BY <1>3, <1>6, <2>1, <2>3, <2>4 DEF Below
<1> QED
  BY <1>5, <1>6

\* w is the chain when those of L, who have nothing spooled, have left it.
Stays(w, L, sq) ==
    /\ w \in Seq(Members) /\ Distinct(w) /\ ToSet(w) = ToSet(chain) \ L
    /\ \A f, g : Above(w, f, g) <=> Above(chain, f, g) /\ f \notin L /\ g \notin L
    /\ Http \in ToSet(w) /\ \A g : ~Above(w, Http, g)
    /\ \A g \in L : sq[g] = << >>
    /\ Rearranged(chain, w, ToSet(chain) \ L, sq)

LEMMA StayingIs ==
  ASSUME TypeOK, ChainInv, ReadInv, NEW s, NEW f0, Reading(s, f0),
         NEW L, L = Leaving(s), NEW w, w = Without(chain, L),
         NEW src, src = Source(s), NEW t, NEW sq, NEW hi2,
         Drawing(chain, ToSet(s), Spools, sq, f0, src, t, Len(out), pos, hi2)
  PROVE  Stays(w, L, sq)
<1>1. chain \in Seq(Members) /\ Distinct(chain) /\ Http \in ToSet(chain) /\ \A g : ~Above(chain, Http, g)
  BY DEF TypeOK, ChainInv
<1>2. /\ w \in Seq(Members) /\ Distinct(w) /\ ToSet(w) = ToSet(chain) \ L
      /\ \A f, g : Above(w, f, g) <=> Above(chain, f, g) /\ f \notin L /\ g \notin L
  BY <1>1, WithoutIs
<1>3. \A g \in L : g \in ToSet(chain) /\ Spools[g] = << >> /\ g # f0 /\ g # src /\ g # Http
  BY LeavingIs, MembersAre
<1>4. \A g \in L : sq[g] = << >>
  <2>1. \A g \in ToSet(chain) : sq[g] = IF g = src THEN Tail(Spools[g])
                                        ELSE IF g = f0 THEN Spooled(Spools[g], t) ELSE Spools[g]
    BY DEF Drawing, Drawn
  <2> QED
    BY <1>3, <2>1
<1>5. Rearranged(chain, w, ToSet(chain) \ L, sq)
  BY <1>1, <1>2, <1>4 DEF Rearranged
<1> QED
  BY <1>1, <1>2, <1>3, <1>4, <1>5 DEF Stays

\* What each parser that stays has not seen is still below it.
LEMMA StaysInStep ==
  ASSUME TypeOK, ChainInv, ReadInv, SyncInv, NEW s, NEW f0, Reading(s, f0),
         NEW src, src = Source(s), NEW t, NEW sq, NEW hi2,
         Drawing(chain, ToSet(s), Spools, sq, f0, src, t, Len(out), pos, hi2),
         NEW g \in Filters, g \in ToSet(chain), g \notin Leaving(s), Live(g), NEW d \in Contexts,
         IF g \in Parsing(s) \/ g = f0 THEN Seen(ctx[f_ctx[g]], d, t) ELSE Same(ctx[f_ctx[g]], d)
  PROVE  InStep(d, Below(chain, g), sq, hi2)
<1>1. PICK c : c = ctx[f_ctx[g]]
  OBVIOUS
<1>2. c \in Contexts /\ InStep(c, Below(chain, g), Spools, pos)
  BY <1>1, LiveIs DEF SyncInv
<1>3. SUFFICES ASSUME Follows(d)
               PROVE  Last(d.shown) # EOS /\ Feeds(Below(chain, g), sq, Last(d.shown), hi2)
  BY DEF InStep
<1>4. c.shown \in Seq(Tok) /\ t \in Tok
  BY <1>2, DrawnFacts DEF Contexts
<1>5. CASE g \in Parsing(s) \/ g = f0
  <2>1. Seen(c, d, t)
    BY <1>1, <1>5
  <2>2. d.shown = Append(c.shown, t) /\ t # EOS
    BY <1>3, <2>1 DEF Seen, Follows
  <2>3. Last(d.shown) = t
    BY <1>4, <2>2 DEF Last
  <2>4. /\ Below(chain, g) \subseteq ToSet(s) /\ Closed(chain, Below(chain, g))
        /\ src # NULL => src \in Below(chain, g)
    BY <1>5, SeeingIs
  <2>5. Feeds(Below(chain, g), sq, t, hi2)
    BY <2>4, DrawnFeeds
  <2> QED
    BY <2>2, <2>3, <2>5
<1>6. CASE g \notin Parsing(s) /\ g # f0
  <2>1. Same(c, d)
    BY <1>1, <1>6
  <2>2. /\ Follows(c) /\ d.shown = c.shown
        /\ Last(c.shown) # EOS /\ Feeds(Below(chain, g), Spools, Last(c.shown), pos)
    BY <1>2, <1>3, <2>1 DEF Same, Follows, InStep
  <2>3. Last(c.shown) \in Nat
    <3>1. c.shown # << >>
      BY <2>2 DEF Follows
    <3>2. \A q \in Seq(Tok) : q # << >> => q[Len(q)] \in Tok
      OBVIOUS
    <3>3. Last(c.shown) = c.shown[Len(c.shown)]
      BY DEF Last
    <3> QED
      BY <1>4, <3>1, <3>2, <3>3, EosTok
  <2>4. Closed(chain, Below(chain, g))
    BY <1>6, UnseeingIs
  <2>5. CASE f0 \in Below(chain, g)
    <3>1. f0 # NULL
      <4>1. NULL \notin ToSet(chain)
        BY MembersAre DEF ToSet, TypeOK
      <4> QED
        BY <2>5, <4>1 DEF Below
    <3>2. ToSet(sq[f0]) = ToSet(Spools[f0]) \cup {t}
      BY <3>1, DrawnOrdered
    <3>3. Feeds(Below(chain, g), sq, Last(c.shown), hi2)
      BY <2>2, <2>3, <2>4, <2>5, <3>2, DrawnKeeps
    <3> QED
      BY <2>2, <3>3
  <2>6. CASE f0 \notin Below(chain, g)
    <3>1. src # NULL /\ src \notin Below(chain, g)
      BY <1>6, <2>6, UnseeingIs
    <3>2. hi2 = pos
      BY <3>1, DrawnFacts
    <3>3. \A h \in ToSet(chain) : sq[h] = IF h = src THEN Tail(Spools[h])
                                          ELSE IF h = f0 THEN Spooled(Spools[h], t) ELSE Spools[h]
      BY DEF Drawing, Drawn
    <3>4. \A h \in Below(chain, g) : sq[h] = Spools[h]
      BY <2>6, <3>1, <3>3 DEF Below
    <3>5. PICK W : W = Below(chain, g)
      OBVIOUS
    <3>6. Feeds(W, sq, Last(c.shown), pos)
      BY <2>2, <3>4, <3>5, FeedsSame
    <3> QED
      BY <2>2, <3>2, <3>5, <3>6
  <2> QED
    BY <2>5, <2>6
<1> QED
  BY <1>5, <1>6

\* What a parser is shown is what follows what it has seen.
LEMMA ShownNext ==
  ASSUME TypeOK, ChainInv, ReadInv, SyncInv, NEW s, NEW f0, Reading(s, f0),
         NEW src, src = Source(s), NEW t, NEW sq, NEW hi2,
         Drawing(chain, ToSet(s), Spools, sq, f0, src, t, Len(out), pos, hi2),
         NEW g \in Filters, g \in ToSet(chain), Live(g), g \in Parsing(s) \/ g = f0,
         NEW d, Seen(ctx[f_ctx[g]], d, t)
  PROVE  \A i \in 1 .. Len(d.shown) - 1 : d.shown[i] # EOS => d.shown[i + 1] = d.shown[i] + 1
<1>1. PICK c : c = ctx[f_ctx[g]]
  OBVIOUS
<1>2. /\ c \in Contexts /\ InStep(c, Below(chain, g), Spools, pos)
      /\ \A i \in 1 .. Len(c.shown) - 1 : c.shown[i] # EOS => c.shown[i + 1] = c.shown[i] + 1
  <2>1. f_ctx[g] \in DOMAIN ctx
    BY LiveIs DEF TypeOK
  <2> QED
    BY <1>1, <2>1, LiveIs DEF SyncInv, NothingPassesBy
<1>3. c.shown \in Seq(Tok) /\ t \in Tok
  BY <1>2, DrawnFacts DEF Contexts
<1>4. c.status = "INCOMPLETE" /\ (d.shown = c.shown \/ d.shown = Append(c.shown, t))
  BY <1>1 DEF Seen
<1>5. CASE d.shown = c.shown
  BY <1>2, <1>5
<1>6. CASE d.shown = Append(c.shown, t) /\ c.shown = << >>
  BY <1>3, <1>6
<1>7. CASE d.shown = Append(c.shown, t) /\ c.shown # << >>
  <2>1. PICK l : l = Last(c.shown)
    OBVIOUS
  <2>2. l # EOS /\ Feeds(Below(chain, g), Spools, l, pos)
    BY <1>2, <1>4, <1>7, <2>1 DEF InStep, Follows
  <2>3. l \in Tok /\ l = c.shown[Len(c.shown)]
    BY <1>3, <1>7, <2>1 DEF Last
  <2>4. l \in Nat /\ l < EOS
    BY <2>2, <2>3, EosTok DEF Tok
  <2>5. /\ Below(chain, g) \subseteq ToSet(s)
        /\ src # NULL => src \in Below(chain, g)
    BY SeeingIs
  <2>6. t = l + 1
    BY <2>2, <2>4, <2>5, DrawnNext
  <2>7. PICK q \in Seq(Tok) : q = c.shown
    BY <1>3
  <2>8. PICK p : p = d.shown
    OBVIOUS
  <2>9. p = Append(q, t) /\ l = q[Len(q)] /\ Len(q) \in Nat
    BY <1>7, <2>3, <2>7, <2>8
  <2>10. ASSUME NEW i \in 1 .. Len(p) - 1, p[i] # EOS
         PROVE  p[i + 1] = p[i] + 1
    <3>1. Len(p) = Len(q) + 1 /\ p[Len(q) + 1] = t /\ \A k \in 1 .. Len(q) : p[k] = q[k]
      BY <1>3, <2>9
    <3>2. CASE i = Len(q)
      BY <2>6, <2>9, <2>10, <3>1, <3>2
    <3>3. CASE i # Len(q)
      <4>1. i \in 1 .. Len(q) - 1 /\ i + 1 \in 1 .. Len(q) /\ i \in 1 .. Len(q)
        BY <2>9, <2>10, <3>1, <3>3
      <4>2. q[i] # EOS => q[i + 1] = q[i] + 1
        BY <1>2, <2>7, <4>1
      <4> QED
        BY <2>10, <3>1, <4>1, <4>2
    <3> QED
      BY <3>2, <3>3
  <2> QED
    BY <2>8, <2>10
<1> QED
  BY <1>4, <1>5, <1>6, <1>7

\* Whoever reads, the invariant is kept if what the content handlers have read,
\* and the head of the protocol filters, are.
LEMMA ThroughStep ==
  ASSUME Inv, phase # "init", NEW s, NEW f0, Reading(s, f0),
         f0 = NULL => phase = "content", f0 # NULL => f0 = handle[r],
         NEW verdict \in {"INCOMPLETE", "SUCCESS"},
         NEW by, by = (IF f0 = NULL THEN {} ELSE {f_ctx[f0]}), Through(s, by, verdict),
         UNCHANGED <<made, f_ctx, r, get, config, handle, phase, cursor, crashed>>,
         out' \in Seq(Tok), BodyPassesOn', Feeds(ToSet(chain), Spools', Len(out'), pos'),
         NEW p, p = proto', p \in ToSet(chain'),
         IsApreq(p) => Live(p) /\ ctx[f_ctx[p]].status # "EINIT",
         \A g : Above(chain', g, p) => Spools'[g] = << >>
  PROVE  Inv'
<1>1. TypeOK /\ ChainInv /\ ReadInv /\ SyncInv /\ HandleInv
  BY DEF Inv
<1>2. PICK src : src = Source(s)
  OBVIOUS
<1>3. PICK t : t = Token(s)
  OBVIOUS
<1>4. PICK L : L = Leaving(s)
  OBVIOUS
<1>5. PICK w : w = chain'
  OBVIOUS
<1>6. PICK sq : sq = Spools'
  OBVIOUS
<1>7. PICK hi2 : hi2 = pos'
  OBVIOUS
<1>8. PICK cx : cx = ctx'
  OBVIOUS
<1>9. w = Without(chain, L)
  BY <1>4, <1>5 DEF Through
<1>10. /\ Drawing(chain, ToSet(s), Spools, sq, f0, src, t, Len(out), pos, hi2)
       /\ cx \in [Filters -> Contexts]
       /\ \A e \in Filters :
                \/ /\ Seen(ctx[e], cx[e], t)
                   /\ \E g \in Filters : /\ g \in ToSet(chain) /\ Live(g) /\ f_ctx[g] = e
                                         /\ g \in Parsing(s) \/ g = f0
                \/ Same(ctx[e], cx[e])
       /\ \A g \in Filters : g \in ToSet(chain) /\ Live(g) =>
                IF g \in Parsing(s) \/ g = f0
                THEN Seen(ctx[f_ctx[g]], cx[f_ctx[g]], t)
                ELSE Same(ctx[f_ctx[g]], cx[f_ctx[g]])
       /\ \A e \in Filters : cx[e].status = "EINIT" => cx[e] = ctx[e]
  BY <1>1, <1>2, <1>3, <1>6, <1>7, <1>8, ThroughIs
<1>11. /\ w \in Seq(Members) /\ Distinct(w) /\ ToSet(w) = ToSet(chain) \ L
       /\ \A f, g : Above(w, f, g) <=> Above(chain, f, g) /\ f \notin L /\ g \notin L
       /\ Http \in ToSet(w) /\ \A g : ~Above(w, Http, g)
       /\ \A g \in L : sq[g] = << >>
       /\ Rearranged(chain, w, ToSet(chain) \ L, sq)
  <2>1. Drawing(chain, ToSet(s), Spools, sq, f0, src, t, Len(out), pos, hi2)
    BY <1>10
  <2>2. TypeOK /\ ChainInv /\ ReadInv /\ Reading(s, f0)
    BY <1>1
  <2>3. Stays(w, L, sq)
    BY ONLY <1>2, <1>4, <1>9, <2>1, <2>2, StayingIs
  <2> QED
    BY <2>3 DEF Stays
<1>12. \A f : Live(f)' <=> Live(f)
  BY DEF Live
<1>13. \A f : Live(f) => f \in Filters /\ f_ctx[f] \in Filters /\ ctx[f_ctx[f]] \in Contexts
  BY <1>1, LiveIs
<1>14. \A e \in Filters : /\ ctx[e].status # "EINIT" => cx[e].status # "EINIT"
                          /\ cx[e].limit = ctx[e].limit
                          /\ ctx[e].status # "INTERRUPT" => cx[e].status # "INTERRUPT"
                          /\ ctx[e].status \in Final => cx[e].status = ctx[e].status
  BY <1>10 DEF Seen, Same, Final
<1>15. TypeOK'
  <2>1. p \in Members
    BY <1>5, <1>11 DEF ToSet
  <2>2. hi2 \in 0 .. EOS
    BY <1>10, DrawnFacts
  <2> QED
    BY <1>1, <1>5, <1>7, <1>8, <1>10, <1>11, <2>1, <2>2 DEF TypeOK
<1>16. ChainInv'
  <2>1. /\ Distinct(chain)' /\ (Http \in ToSet(chain))' /\ (\A g : ~Above(chain, Http, g))'
        /\ (proto \in ToSet(chain))'
    BY <1>5, <1>11
  <2>2. (IsApreq(proto) => Live(proto) /\ ctx[f_ctx[proto]].status # "EINIT")'
    <3>1. IsApreq(p) => Live(p) /\ cx[f_ctx[p]].status # "EINIT"
      BY <1>13, <1>14
    <3>2. IsApreq(p) => Live(p)'
      BY <1>12, <3>1
    <3>3. Live(p)' <=> Live(proto)'
      BY DEF Live
    <3> QED
      BY <1>8, <3>1, <3>2, <3>3 DEF IsApreq
  <2>3. (\A f \in Filters : f \in ToSet(chain) \/ Live(f) => f <= made)'
    <3>1. \A f \in Filters : f \in ToSet(chain) \/ Live(f) => f <= made
      BY <1>1 DEF ChainInv
    <3> QED
      BY <1>5, <1>11, <1>12, <3>1
  <2>4. (\A f \in Filters : Live(f) => Live(f_ctx[f]))'
    <3>1. \A f \in Filters : Live(f) => Live(f_ctx[f])
      BY <1>1 DEF ChainInv
    <3> QED
      BY <3>1 DEF Live
  <2>5. (\A f, g \in Filters : f \in ToSet(chain) /\ g \in ToSet(chain) /\ Live(f) /\ f_ctx[f] = f_ctx[g] => f = g)'
    <3>1. \A f, g \in Filters : f \in ToSet(chain) /\ g \in ToSet(chain) /\ Live(f) /\ f_ctx[f] = f_ctx[g] => f = g
      BY <1>1 DEF ChainInv
    <3> QED
      BY <1>5, <1>11, <1>12, <3>1
  <2>6. (\A c \in Filters : ctx[c].status = "EINIT" => ctx[c].spool = << >> /\ ctx[c].shown = << >>)'
    <3>1. \A c \in Filters : ctx[c].status = "EINIT" => ctx[c].spool = << >> /\ ctx[c].shown = << >>
      BY <1>1 DEF ChainInv
    <3>2. \A c \in Filters : cx[c].status = "EINIT" => cx[c].spool = << >> /\ cx[c].shown = << >>
      BY <1>10, <3>1
    <3> QED
      BY <1>8, <3>2
  <2>7. (~crashed)'
    BY <1>1 DEF ChainInv
  <2> QED
    BY <2>1, <2>2, <2>3, <2>4, <2>5, <2>6, <2>7 DEF ChainInv
<1>17. CursorInv'
  BY DEF CursorInv
<1>18. ReadInv'
  <2>1. Ordered(chain, sq)
    BY <1>10, DrawnOrdered
  <2>2. Ordered(w, sq)
    BY <1>11, <2>1, RearrangedReads
  <2>3. PICK n2 : n2 = Len(out')
    OBVIOUS
  <2>4. Feeds(ToSet(w), sq, n2, hi2)
    BY <1>6, <1>7, <1>11, <2>3, RearrangedReads
  <2>5. Ordered(chain, Spools)' /\ Feeds(ToSet(chain), Spools, Len(out), pos)'
    BY <1>5, <1>6, <1>7, <2>2, <2>3, <2>4
  <2>6. (\A f : Above(chain, f, proto) => Spools[f] = << >>)'
    OBVIOUS
  <2> QED
    BY <2>5, <2>6 DEF ReadInv
<1>19. SyncInv'
  <2>1. ASSUME NEW g \in Filters, g \in ToSet(w), Live(g)
        PROVE  InStep(cx[f_ctx[g]], Below(w, g), sq, hi2)
    <3>1. g \in ToSet(chain) /\ g \notin Leaving(s) /\ g \in ToSet(chain) \ L
      BY <1>4, <1>11, <2>1
    <3>2. PICK d \in Contexts : d = cx[f_ctx[g]]
      BY <1>10, <1>13, <2>1
    <3>3. InStep(d, Below(chain, g), sq, hi2)
      BY <1>1, <1>2, <1>10, <2>1, <3>1, <3>2, StaysInStep
    <3>4. \A lo : Feeds(Below(chain, g), sq, lo, hi2) => Feeds(Below(w, g), sq, lo, hi2)
      BY <1>11, <2>1, <3>1, RearrangedReads
    <3> QED
      BY <3>2, <3>3, <3>4 DEF InStep
  <2>2. ASSUME NEW e \in Filters
        PROVE  \A i \in 1 .. Len(cx[e].shown) - 1 :
                  cx[e].shown[i] # EOS => cx[e].shown[i + 1] = cx[e].shown[i] + 1
    <3>1. CASE Same(ctx[e], cx[e])
      <4>1. e \in DOMAIN ctx
        BY <1>1 DEF TypeOK
      <4> QED
        BY <1>1, <3>1, <4>1 DEF Same, SyncInv, NothingPassesBy
    <3>2. CASE \E g \in Filters : /\ Seen(ctx[e], cx[e], t)
                                  /\ g \in ToSet(chain) /\ Live(g) /\ f_ctx[g] = e
                                  /\ g \in Parsing(s) \/ g = f0
      <4>1. PICK g \in Filters : /\ Seen(ctx[e], cx[e], t)
                                 /\ g \in ToSet(chain) /\ Live(g) /\ f_ctx[g] = e
                                 /\ g \in Parsing(s) \/ g = f0
        BY <3>2
      <4>2. PICK d : d = cx[e]
        OBVIOUS
      <4>3. Seen(ctx[f_ctx[g]], d, t)
        BY <4>1, <4>2
      <4>4. \A i \in 1 .. Len(d.shown) - 1 : d.shown[i] # EOS => d.shown[i + 1] = d.shown[i] + 1
        BY <1>1, <1>2, <1>10, <4>1, <4>3, ShownNext
      <4> QED
        BY <4>2, <4>4
    <3> QED
      BY <1>10, <3>1, <3>2
  <2>3. NothingPassesBy'
    BY <1>8, <1>10, <2>2 DEF NothingPassesBy
  <2>4. (\A f \in Filters : f \in ToSet(chain) /\ Live(f) =>
            InStep(ctx[f_ctx[f]], Below(chain, f), Spools, pos))'
    BY <1>5, <1>6, <1>7, <1>8, <1>12, <2>1
  <2> QED
    BY <2>3, <2>4 DEF SyncInv
<1>20. HandleInv'
  <2>1. Driven' <=> Driven
    BY DEF Driven
  <2>2. \A q \in 0 .. MaxRedirects : q > r => handle[q] = NoHandle
    BY <1>1 DEF HandleInv
  <2>3. PICK h : h = handle[r]
    OBVIOUS
  <2>4. ASSUME Driven
        PROVE  /\ Live(h) => /\ cx[f_ctx[h]].status # "INTERRUPT"
                             /\ config # Unset => cx[f_ctx[h]].limit = config
               /\ \/ h \in ToSet(w)
                  \/ Live(h) /\ cx[f_ctx[h]].status \in Final
               /\ phase # "content" => h \in ToSet(w)
               /\ \A g : Above(w, g, h) => ~IsApreq(g)
    <3>1. /\ Live(h) => /\ ctx[f_ctx[h]].status # "INTERRUPT"
                        /\ config # Unset => ctx[f_ctx[h]].limit = config
          /\ \/ h \in ToSet(chain)
             \/ Live(h) /\ ctx[f_ctx[h]].status \in Final
          /\ phase # "content" => h \in ToSet(chain)
          /\ \A g : Above(chain, g, h) => ~IsApreq(g)
      BY <1>1, <2>3, <2>4 DEF HandleInv
    <3>2. h \in L => /\ phase = "content" /\ Live(h) /\ ctx[f_ctx[h]].status \in Final
      <4>1. ASSUME h \in L
            PROVE  /\ h # f0 /\ h \in ToSet(chain) /\ Live(h)
                   /\ ctx[f_ctx[h]].status \notin {"INCOMPLETE", "EINIT"}
        BY <1>1, <1>4, <4>1, LeavingIs
      <4>2. h \in L => f0 = NULL
        BY <2>3, <4>1
      <4> QED
        BY <1>13, <3>1, <4>1, <4>2 DEF Contexts, Statuses, Final
    <3>3. h \in ToSet(chain) => h \in ToSet(w) \/ h \in L
      BY <1>11
    <3>4. ctx[f_ctx[h]].status \in Final /\ Live(h) => cx[f_ctx[h]].status \in Final
      BY <1>13, <1>14
    <3> QED
      BY <1>11, <1>13, <1>14, <3>1, <3>2, <3>3, <3>4
  <2>5. Driven' => (/\ Live(handle[r]) => /\ ctx[f_ctx[handle[r]]].status # "INTERRUPT"
                                          /\ config # Unset => ctx[f_ctx[handle[r]]].limit = config
                    /\ \/ handle[r] \in ToSet(chain)
                       \/ Live(handle[r]) /\ ctx[f_ctx[handle[r]]].status \in Final
                    /\ phase # "content" => handle[r] \in ToSet(chain)
                    /\ \A g : Above(chain, g, handle[r]) => ~IsApreq(g))'
    <3>1. Live(handle[r])' <=> Live(h)
      BY <2>3 DEF Live
    <3> QED
      BY <1>5, <1>8, <2>1, <2>3, <2>4, <3>1
  <2> QED
    BY <2>2, <2>5 DEF HandleInv
<1> QED
  BY <1>15, <1>16, <1>17, <1>18, <1>19, <1>20 DEF Inv

LEMMA PrefetchStep ==
  ASSUME Inv, Prefetch
  PROVE  Inv'
<1>1. TypeOK /\ ChainInv /\ ReadInv /\ SyncInv /\ HandleInv
  BY DEF Inv
<1>2. PICK f : f = handle[r]
  OBVIOUS
<1>3. PICK s : s = After(chain, f)
  OBVIOUS
<1>4. /\ phase # "init" /\ f \notin {NoHandle, NULL} /\ f \in ToSet(chain)
      /\ Live(f) /\ ctx[f_ctx[f]].status = "INCOMPLETE" /\ Prepared(s)
      /\ \E verdict \in {"INCOMPLETE", "SUCCESS"} : Through(s, {f_ctx[f]}, verdict)
      /\ proto' = ProtoAfter(s, Moved(f))
      /\ UNCHANGED <<made, f_ctx, r, get, config, handle, phase, cursor, out, crashed>>
  BY <1>2, <1>3 DEF Prefetch
<1>5. PICK verdict \in {"INCOMPLETE", "SUCCESS"} : Through(s, {f_ctx[f]}, verdict)
  BY <1>4
<1>6. Driven /\ f \in Filters /\ f # NULL
  BY <1>1, <1>2, <1>4, LiveIs DEF Driven
<1>7. chain \in Seq(Members) /\ Distinct(chain)
  BY <1>1 DEF TypeOK, ChainInv
<1>8. /\ \A x, y : Above(chain, x, y) => x \in ToSet(chain) /\ y \in ToSet(chain) /\ x # y /\ ~Above(chain, y, x)
      /\ \A x, y \in ToSet(chain) : x = y \/ Above(chain, x, y) \/ Above(chain, y, x)
      /\ \A x, y, z : Above(chain, x, y) /\ Above(chain, y, z) => Above(chain, x, z)
  BY <1>7, AboveOrder
<1>9. /\ s \in Seq(Members) /\ Distinct(s) /\ ToSet(s) = Below(chain, f)
      /\ \A g, h : Above(s, g, h) <=> Above(chain, g, h) /\ Above(chain, f, g)
  BY <1>3, <1>4, <1>7, AfterIs
<1>10. Reading(s, f)
  <2>1. \A g, h \in ToSet(s) : Above(s, g, h) <=> Above(chain, g, h)
    BY <1>9 DEF Below
  <2> QED
    BY <1>4, <1>6, <1>9, <2>1 DEF Reading
<1>11. PICK L : L = Leaving(s)
  OBVIOUS
<1>12. L \subseteq Below(chain, f) /\ f \notin L
  BY <1>1, <1>8, <1>9, <1>10, <1>11, LeavingIs
<1>13. PICK p : p = proto'
  OBVIOUS
<1>14. /\ p \in ToSet(chain) /\ p \notin L /\ (p = f \/ Above(chain, p, f))
       /\ IsApreq(p) => Live(p) /\ ctx[f_ctx[p]].status # "EINIT"
  <2>1. p = IF Moved(f) \in L THEN Head(Without(After(chain, Moved(f)), L)) ELSE Moved(f)
    BY <1>4, <1>11, <1>13 DEF ProtoAfter
  <2>2. Moved(f) = IF proto \in Below(chain, f) THEN f ELSE proto
    BY <1>3, <1>4, <1>9 DEF Moved
  <2>3. p = IF proto \in Below(chain, f) THEN f ELSE proto
    BY <1>12, <2>1, <2>2
  <2>4. proto \in ToSet(chain) /\ (IsApreq(proto) => Live(proto) /\ ctx[f_ctx[proto]].status # "EINIT")
    BY <1>1 DEF ChainInv
  <2> QED
    BY <1>4, <1>8, <1>12, <2>3, <2>4 DEF Below
<1>15. PICK w : w = chain'
  OBVIOUS
<1>16. /\ ToSet(w) = ToSet(chain) \ L
       /\ \A x, y : Above(w, x, y) => Above(chain, x, y)
  <2>1. w = Without(chain, L)
    BY <1>5, <1>11, <1>15 DEF Through
  <2> QED
    BY <1>7, <2>1, WithoutIs
<1>17. ASSUME NEW g, Above(w, g, p)
       PROVE  Spools'[g] = << >>
  <2>1. Above(chain, g, f)
    BY <1>8, <1>14, <1>16, <1>17
  <2>2. ~IsApreq(g)
    BY <1>1, <1>2, <1>6, <2>1 DEF HandleInv
  <2>3. g \in Members
    BY <1>7, <1>8, <2>1 DEF ToSet
  <2> QED
    BY <2>2, <2>3 DEF Spools
<1>18. Feeds(ToSet(chain), Spools', Len(out), pos')
  <2>1. PICK sq : sq = Spools'
    OBVIOUS
  <2>2. PICK hi2 : hi2 = pos'
    OBVIOUS
  <2>3. PICK src : src = Source(s)
    OBVIOUS
  <2>4. PICK t : t = Token(s)
    OBVIOUS
  <2>5. PICK by : by = {f_ctx[f]}
    OBVIOUS
  <2>6. /\ by = (IF f = NULL THEN {} ELSE {f_ctx[f]})
        /\ Through(s, by, verdict) /\ UNCHANGED f_ctx
    BY <1>4, <1>5, <1>6, <2>5
  <2>7. Drawing(chain, ToSet(s), Spools, sq, f, src, t, Len(out), pos, hi2)
    BY <1>1, <1>10, <2>1, <2>2, <2>3, <2>4, <2>6, ThroughIs
  <2>8. ToSet(sq[f]) = ToSet(Spools[f]) \cup {t}
    BY <1>6, <2>7, DrawnOrdered
  <2>9. Closed(chain, ToSet(chain))
    BY DEF Closed
  <2>10. Len(out) \in Nat /\ Feeds(ToSet(chain), Spools, Len(out), pos)
    BY <1>1 DEF TypeOK, ReadInv
  <2>11. Feeds(ToSet(chain), sq, Len(out), hi2)
    BY <1>4, <2>7, <2>8, <2>9, <2>10, DrawnKeeps
  <2> QED
    BY <2>1, <2>2, <2>11
<1>19. out' \in Seq(Tok) /\ BodyPassesOn' /\ Feeds(ToSet(chain), Spools', Len(out'), pos')
  BY <1>1, <1>4, <1>18 DEF TypeOK, ReadInv, BodyPassesOn
<1>20. PICK by : by = {f_ctx[f]}
  OBVIOUS
<1>21. by = (IF f = NULL THEN {} ELSE {f_ctx[f]}) /\ Through(s, by, verdict)
  BY <1>5, <1>6, <1>20
<1>22. p \in ToSet(chain') /\ \A g : Above(chain', g, p) => Spools'[g] = << >>
  BY <1>14, <1>15, <1>16, <1>17
<1>23. phase # "init" /\ UNCHANGED <<made, f_ctx, r, get, config, handle, phase, cursor, crashed>>
  BY <1>4
<1> QED
  BY <1>2, <1>6, <1>10, <1>13, <1>14, <1>19, <1>21, <1>22, <1>23, ThroughStep

\* A content handler reads what follows what has been read.
LEMMA ConsumedIs ==
  ASSUME TypeOK, ReadInv, Distinct(chain), EOS \notin ToSet(out),
         NEW src, NEW t, NEW sq, NEW hi2,
         Drawing(chain, ToSet(chain), Spools, sq, NULL, src, t, Len(out), pos, hi2),
         NEW o, o = Append(out, t)
  PROVE  /\ o \in Seq(Tok) /\ o = [i \in DOMAIN o |-> i]
         /\ Feeds(ToSet(chain), sq, Len(o), hi2)
<1>1. out \in Seq(Tok) /\ Len(out) \in Nat /\ Feeds(ToSet(chain), Spools, Len(out), pos)
  BY DEF TypeOK, ReadInv
<1>2. \A i \in 1 .. Len(out) : out[i] = i /\ out[i] \in Tok
  BY <1>1 DEF ReadInv, BodyPassesOn
<1>3. Len(out) < EOS
  <2>1. ASSUME Len(out) >= EOS
        PROVE  FALSE
    <3>1. EOS \in 1 .. Len(out)
      BY <1>1, <2>1, EosTok
    <3>2. out[EOS] = EOS
      BY <1>2, <3>1
    <3> QED
      BY <1>1, <3>1, <3>2 DEF ToSet
  <2> QED
    BY <1>1, <2>1, EosTok
<1>4. t \in Tok /\ (src # NULL => src \in ToSet(chain))
  BY DrawnFacts
<1>5. Closed(chain, ToSet(chain))
  BY DEF Closed
<1>6. t = Len(out) + 1
  BY <1>1, <1>3, <1>4, DrawnNext
<1>7. Feeds(ToSet(chain), sq, t, hi2)
  BY <1>4, <1>5, DrawnFeeds
<1>8. o \in Seq(Tok) /\ Len(o) = t /\ \A i \in 1 .. Len(o) : o[i] = i
  <2>1. PICK n \in Nat : n = Len(out)
    BY <1>1
  <2>2. /\ o \in Seq(Tok) /\ Len(o) = n + 1 /\ o[n + 1] = t
        /\ \A i \in 1 .. n : o[i] = out[i]
    BY <1>1, <1>4, <2>1
  <2>3. ASSUME NEW i \in 1 .. n + 1 PROVE o[i] = i
    <3>1. i \in 1 .. n \/ i = n + 1
      BY <2>1
    <3> QED
      BY <1>2, <1>6, <2>1, <2>2, <3>1
  <2> QED
    BY <1>6, <2>1, <2>2, <2>3
<1>9. o = [i \in DOMAIN o |-> i]
  <2>1. PICK q \in Seq(Tok) : q = o
    BY <1>8
  <2>2. DOMAIN q = 1 .. Len(q) /\ \A i \in 1 .. Len(q) : q[i] = i
    BY <1>8, <2>1
  <2>3. q = [i \in DOMAIN q |-> q[i]]
    <3>1. q \in [1 .. Len(q) -> Tok]
      BY LenProperties
    <3> QED
      BY <3>1
  <2> QED
    BY <2>1, <2>2, <2>3
<1> QED
  BY <1>7, <1>8, <1>9

LEMMA ConsumeStep ==
  ASSUME Inv, Consume
  PROVE  Inv'
<1>1. TypeOK /\ ChainInv /\ ReadInv /\ SyncInv /\ HandleInv
  BY DEF Inv
<1>2. /\ phase = "content" /\ Prepared(chain) /\ EOS \notin ToSet(out)
      /\ out' = Append(out, Token(chain))
      /\ \E verdict \in {"INCOMPLETE", "SUCCESS"} : Through(chain, {}, verdict)
      /\ proto' = ProtoAfter(chain, proto)
      /\ UNCHANGED <<made, f_ctx, r, get, config, handle, phase, cursor, crashed>>
  BY DEF Consume
<1>3. PICK verdict \in {"INCOMPLETE", "SUCCESS"} : Through(chain, {}, verdict)
  BY <1>2
<1>4. chain \in Seq(Members) /\ Distinct(chain)
  BY <1>1 DEF TypeOK, ChainInv
<1>5. /\ \A x, y : Above(chain, x, y) => x \in ToSet(chain) /\ y \in ToSet(chain) /\ x # y /\ ~Above(chain, y, x)
      /\ \A x, y \in ToSet(chain) : x = y \/ Above(chain, x, y) \/ Above(chain, y, x)
      /\ \A x, y, z : Above(chain, x, y) /\ Above(chain, y, z) => Above(chain, x, z)
  BY <1>4, AboveOrder
<1>6. Reading(chain, NULL)
  BY <1>2, <1>4 DEF Reading
<1>7. PICK L : L = Leaving(chain)
  OBVIOUS
<1>8. PICK w : w = chain'
  OBVIOUS
<1>9. PICK p : p = proto'
  OBVIOUS
<1>10. PICK sq : sq = Spools'
  OBVIOUS
<1>11. PICK hi2 : hi2 = pos'
  OBVIOUS
<1>12. PICK src : src = Source(chain)
  OBVIOUS
<1>13. PICK t : t = Token(chain)
  OBVIOUS
<1>14. Drawing(chain, ToSet(chain), Spools, sq, NULL, src, t, Len(out), pos, hi2)
  <2>1. PICK by : by = {}
    OBVIOUS
  <2>2. /\ by = (IF NULL = NULL THEN {} ELSE {f_ctx[NULL]})
        /\ Through(chain, by, verdict) /\ UNCHANGED f_ctx
    BY <1>2, <1>3, <2>1
  <2> QED
    BY <1>1, <1>6, <1>10, <1>11, <1>12, <1>13, <2>2, ThroughIs
<1>15. out' \in Seq(Tok) /\ BodyPassesOn' /\ Feeds(ToSet(chain), Spools', Len(out'), pos')
  <2>1. PICK o : o = Append(out, t)
    OBVIOUS
  <2>2. /\ o \in Seq(Tok) /\ o = [i \in DOMAIN o |-> i]
        /\ Feeds(ToSet(chain), sq, Len(o), hi2)
    BY <1>1, <1>2, <1>4, <1>14, <2>1, ConsumedIs
  <2>3. out' = o
    BY <1>2, <1>13, <2>1
  <2> QED
    BY <1>10, <1>11, <2>2, <2>3 DEF BodyPassesOn
\* What is above the protocol filters has nothing spooled, before and after.
<1>16. ASSUME NEW g, Above(chain, g, proto)
       PROVE  sq[g] = << >>
  <2>1. g \in ToSet(chain) /\ Spools[g] = << >>
    BY <1>1, <1>5, <1>16 DEF ReadInv
  <2>2. g # NULL
    BY <1>4, <2>1, MembersAre DEF ToSet
  <2>3. sq[g] = IF g = src THEN Tail(Spools[g])
                ELSE IF g = NULL THEN Spooled(Spools[g], t) ELSE Spools[g]
    BY <1>14, <2>1 DEF Drawing, Drawn
  <2>4. src # NULL => t \in ToSet(Spools[src])
    BY <1>14, DrawnFacts
  <2>5. g # src
    BY <2>1, <2>2, <2>4 DEF ToSet
  <2> QED
    BY <2>1, <2>2, <2>3, <2>5
<1>17. /\ ToSet(w) = ToSet(chain) \ L
       /\ \A x, y : Above(w, x, y) <=> Above(chain, x, y) /\ x \notin L /\ y \notin L
  <2>1. w = Without(chain, L)
    BY <1>3, <1>7, <1>8 DEF Through
  <2> QED
    BY <1>4, <2>1, WithoutIs
<1>18. /\ p \in ToSet(w) /\ (IsApreq(p) => Live(p) /\ ctx[f_ctx[p]].status # "EINIT")
       /\ \A g : Above(w, g, p) => sq[g] = << >>
  <2>1. p = IF proto \in L THEN Head(Without(After(chain, proto), L)) ELSE proto
    BY <1>2, <1>7, <1>9 DEF ProtoAfter
  <2>2. proto \in ToSet(chain) /\ (IsApreq(proto) => Live(proto) /\ ctx[f_ctx[proto]].status # "EINIT")
    BY <1>1 DEF ChainInv
  <2>3. CASE proto \notin L
    BY <1>16, <1>17, <2>1, <2>2, <2>3
  <2>4. CASE proto \in L
    <3>1. PICK a : a = After(chain, proto)
      OBVIOUS
    <3>2. /\ a \in Seq(Members) /\ Distinct(a) /\ ToSet(a) = Below(chain, proto)
          /\ \A g, h : Above(a, g, h) <=> Above(chain, g, h) /\ Above(chain, proto, g)
      BY <1>4, <2>2, <3>1, AfterIs
    <3>3. PICK v : v = Without(a, L)
      OBVIOUS
    <3>4. /\ v \in Seq(Members) /\ Distinct(v) /\ ToSet(v) = ToSet(a) \ L
          /\ \A g, h : Above(v, g, h) <=> Above(a, g, h) /\ g \notin L /\ h \notin L
      BY <3>2, <3>3, WithoutIs
    <3>5. Http \in ToSet(v)
      <4>1. \A g \in L : g # Http
        BY <1>1, <1>6, <1>7, LeavingIs, MembersAre
      <4>2. Http \in ToSet(chain) /\ \A g : ~Above(chain, Http, g)
        BY <1>1 DEF ChainInv
      <4> QED
        BY <1>5, <2>2, <2>4, <3>2, <3>4, <4>1, <4>2 DEF Below
    <3>6. v # << >>
      BY <3>5 DEF ToSet
    <3>7. p = Head(v) /\ p = v[1]
      BY <2>1, <2>4, <3>1, <3>3, <3>4, <3>6
    <3>8. p \in ToSet(v) /\ \A g \in ToSet(v) : g = p \/ Above(v, p, g)
      BY <3>4, <3>6, <3>7, Ends
    <3>9. p \in ToSet(chain) /\ p \notin L /\ Above(chain, proto, p)
      BY <3>2, <3>4, <3>8 DEF Below
    <3>10. IsApreq(p) => Live(p) /\ ctx[f_ctx[p]].status # "EINIT"
      BY <1>2, <1>4, <3>9, PreparedIs
    <3>11. ASSUME NEW g, Above(w, g, p)
           PROVE  sq[g] = << >>
      <4>1. Above(chain, g, p) /\ g \notin L /\ g \in ToSet(chain) /\ g # proto
        BY <1>5, <1>17, <2>4, <3>11
      <4>2. CASE Above(chain, g, proto)
        BY <1>16, <4>2
      <4>3. CASE Above(chain, proto, g)
        <5>1. g \in ToSet(v)
          BY <3>2, <3>4, <4>1, <4>3 DEF Below
        <5>2. g = p \/ Above(chain, p, g)
          BY <3>2, <3>4, <3>8, <5>1
        <5> QED
          BY <1>5, <4>1, <5>2
      <4> QED
        BY <1>5, <2>2, <4>1, <4>2, <4>3
    <3> QED
      BY <1>17, <3>9, <3>10, <3>11
  <2> QED
    BY <2>3, <2>4
<1>19. PICK by : by = {}
  OBVIOUS
<1>20. by = (IF NULL = NULL THEN {} ELSE {f_ctx[NULL]}) /\ Through(chain, by, verdict)
  BY <1>3, <1>19
<1>21. p \in ToSet(chain') /\ \A g : Above(chain', g, p) => Spools'[g] = << >>
  BY <1>8, <1>10, <1>18
<1>22. phase # "init" /\ UNCHANGED <<made, f_ctx, r, get, config, handle, phase, cursor, crashed>>
  BY <1>2
<1> QED
  BY <1>2, <1>6, <1>9, <1>15, <1>18, <1>20, <1>21, <1>22, ThroughStep

LEMMA InitInv ==
  ASSUME Init
  PROVE  Inv
<1>1. PICK ch \in Seq(Members) : ch = <<Http>>
  <2>1. \A x \in Members : <<x>> \in Seq(Members)
    OBVIOUS
  <2> QED
    BY <2>1, MembersAre
<1>2. /\ chain = ch /\ proto = Http /\ made = 0
      /\ f_ctx = [f \in Filters |-> NULL] /\ ctx = [c \in Filters |-> NewCtx(0)]
      /\ r = 0 /\ get \in BOOLEAN /\ config \in Configs
      /\ handle = [q \in 0 .. MaxRedirects |-> NoHandle]
      /\ phase = "early" /\ cursor = << >> /\ pos = 0 /\ out = << >> /\ crashed = FALSE
  BY <1>1 DEF Init, Filters
<1>3. DOMAIN ch = {1} /\ ch[1] = Http /\ ToSet(ch) = {Http} /\ \A f, g : ~Above(ch, f, g)
  <2>1. DOMAIN ch = {1} /\ ch[1] = Http
    BY <1>1
  <2> QED
    BY <2>1 DEF ToSet, Above
<1>4. \A f : ~Live(f)
  BY <1>2 DEF Live
<1>5. NewCtx(0) \in Contexts
  BY ChainAssumption, EosTok DEF Contexts, NewCtx, Statuses, Unset
<1>6. TypeOK
  <2>1. NULL \in 0 .. MaxFilters /\ NoHandle \in NoHandle .. MaxFilters
        /\ 0 \in 0 .. MaxFilters /\ 0 \in 0 .. MaxRedirects /\ 0 \in 0 .. EOS
    BY ChainAssumption, EosTok DEF NULL, NoHandle
  <2>2. config \in 0 .. Unset
    BY <1>2, ChainAssumption
  <2> QED
    BY <1>1, <1>2, <1>5, <2>1, <2>2, MembersAre DEF TypeOK
<1>7. ChainInv
  <2>1. Distinct(ch)
    BY <1>3 DEF Distinct
  <2>2. \A c \in Filters : ctx[c].spool = << >> /\ ctx[c].shown = << >>
    BY <1>2 DEF NewCtx
  <2>3. \A f \in Filters : f \notin ToSet(chain)
    BY <1>2, <1>3, MembersAre
  <2> QED
    BY <1>2, <1>3, <1>4, <2>1, <2>2, <2>3, MembersAre DEF ChainInv
<1>8. CursorInv
  BY <1>2 DEF CursorInv
<1>9. \A f \in Members : Spools[f] = << >>
  BY <1>4 DEF Spools
<1>10. ReadInv
  <2>1. Spools[Http] \in Seq(Tok) /\ Rising(Spools[Http]) /\ ToSet(Spools[Http]) = {}
    <3>1. << >> \in Seq(Tok) /\ Rising(<< >>) /\ ToSet(<< >>) = {}
      BY DEF Rising, ToSet
    <3> QED
      BY <1>9, <3>1, MembersAre
  <2>2. Ordered(ch, Spools)
    BY <1>3, <2>1 DEF Ordered
  <2>3. Feeds(ToSet(ch), Spools, 0, 0)
    BY <1>3, <2>1 DEF Feeds
  <2>4. Len(out) = 0 /\ BodyPassesOn
    BY <1>2 DEF BodyPassesOn
  <2> QED
    BY <1>2, <1>3, <2>2, <2>3, <2>4 DEF ReadInv
<1>11. SyncInv
  <2>1. \A c \in DOMAIN ctx : Len(ctx[c].shown) = 0
    BY <1>2 DEF NewCtx
  <2> QED
    BY <1>4, <2>1 DEF SyncInv, NothingPassesBy
<1>12. HandleInv
  <2>1. \A q \in 0 .. MaxRedirects : handle[q] = NoHandle
    BY <1>2
  <2>2. handle[r] = NoHandle
    BY <1>6, <2>1 DEF TypeOK
  <2> QED
    BY <2>1, <2>2 DEF HandleInv, Driven
<1> QED
  BY <1>6, <1>7, <1>8, <1>10, <1>11, <1>12 DEF Inv

LEMMA NextInv ==
  ASSUME Inv, [Next]_vars
  PROVE  Inv'
<1>1. CASE Handle
  BY <1>1, HandleStep
<1>2. CASE Configure
  BY <1>2, ConfigureStep
<1>3. CASE AddOther
  BY <1>3, AddOtherStep
<1>4. CASE StartInit \/ InitOther \/ EndInit
  BY <1>4, PhaseSteps
<1>5. CASE InitFilter
  BY <1>5, InitFilterStep
<1>6. ASSUME NEW f \in 1 .. MaxFilters, Prepare(f)
      PROVE  Inv'
  BY <1>6, PrepareStep
<1>7. CASE Prefetch
  BY <1>7, PrefetchStep
<1>8. CASE Consume
  BY <1>8, ConsumeStep
<1>9. CASE Redirect
  BY <1>9, RedirectStep
<1>10. CASE UNCHANGED vars
  <2>1. TypeOK /\ ChainInv /\ CursorInv /\ ReadInv /\ SyncInv /\ HandleInv
    BY DEF Inv
  <2>2. UNCHANGED <<chain, proto, made, f_ctx, ctx, r, get, config, handle, phase, cursor, pos, out, crashed>>
    BY <1>10 DEF vars
  <2>3. ChainInv' /\ ReadInv' /\ SyncInv'
    BY <2>1, <2>2, FiltersStay
  <2>4. TypeOK' /\ CursorInv'
    BY <2>1, <2>2 DEF TypeOK, CursorInv
  <2>5. HandleInv'
    BY <2>1, <2>2 DEF HandleInv, Driven, Live
  <2> QED
    BY <2>3, <2>4, <2>5 DEF Inv
<1> QED
  BY <1>1, <1>2, <1>3, <1>4, <1>5, <1>6, <1>7, <1>8, <1>9, <1>10 DEF Next

LEMMA InvHolds == Spec => []Inv
  BY InitInv, NextInv, PTL DEF Spec

------------------------------------------------------------------------------

\* However filters are added, moved to the top, dropped and taken over, and
\* however requests are redirected (apreq_filter_init, apreq_filter_relocate,
\* apreq_filter_make_context, apreq_filter_prefetch), the content handlers get
\* the body in order and without a gap.
THEOREM BodyIsPassedOn == Spec => []BodyPassesOn
<1>1. Inv => BodyPassesOn
  BY DEF Inv, ReadInv
<1> QED
  BY <1>1, InvHolds, PTL

\* No parser that goes on misses a piece of the body: not when its filter is
\* read through by another, nor when its context is taken over by the filter of
\* a later request (apreq_filter_make_context).
THEOREM NothingIsPassedBy == Spec => []NothingPassesBy
<1>1. Inv => NothingPassesBy
  BY DEF Inv, SyncInv
<1> QED
  BY <1>1, InvHolds, PTL

\* When the content handler runs, the filter that its handle drives is in the
\* chain or its parser has finished, and was not stopped for another's sake
\* (apreq_filter_init); apreq_filter_make_context never follows the context of a
\* filter that has none.
THEOREM HandlesCanRead == Spec => []HandleCanRead
<1>1. ASSUME Inv
      PROVE  HandleCanRead
  <2>1. ~crashed
    BY <1>1 DEF Inv, ChainInv
  <2>2. ASSUME phase = "content", Driven
        PROVE  LET f == handle[r]
                   status == IF Live(f) THEN ctx[f_ctx[f]].status ELSE "EINIT"
               IN  /\ status # "INTERRUPT"
                   /\ status \in {"EINIT", "INCOMPLETE"} => f \in ToSet(chain)
    <3>1. /\ Live(handle[r]) => ctx[f_ctx[handle[r]]].status # "INTERRUPT"
          /\ \/ handle[r] \in ToSet(chain)
             \/ Live(handle[r]) /\ ctx[f_ctx[handle[r]]].status \in Final
      BY <1>1, <2>2 DEF Inv, HandleInv
    <3> QED
      BY <3>1 DEF Final
  <2> QED
    BY <2>1, <2>2 DEF HandleCanRead
<1> QED
  BY <1>1, InvHolds, PTL

\* Whoever made the context that a handle drives, it works with the read limit
\* that is configured for the handle's own request (apreq_filter_make_context).
THEOREM LimitsFollow == Spec => []LimitFollows
<1>1. ASSUME Inv
      PROVE  LimitFollows
  <2>1. IsApreq(handle[r]) => Driven
    BY <1>1, DrivenIs DEF Inv, IsApreq, Filters
  <2> QED
    BY <1>1, <2>1 DEF Inv, HandleInv, LimitFollows
<1> QED
  BY <1>1, InvHolds, PTL

=============================================================================
