------------------------- MODULE PerlRequest_proofs -------------------------
(***************************************************************************)
(* Proofs about PerlRequest and the tables of a request: what the script   *)
(* is told of a name stands, a failure is told as one, and iterations over *)
(* tied hashes keep in step.                                               *)
(*                                                                         *)
(* The argument: every function of a handle makes of a sound one a sound   *)
(* one (Sound) that has grown at the end only, and not at all where a      *)
(* parse is over (Follows).  What was told of a place is so in every later *)
(* handle (Told), and the table of a tied hash belongs to a place whose    *)
(* parse is over (TiedOk).                                                 *)
(***************************************************************************)
EXTENDS PerlRequest, Sequences_proofs

------------------------------------------------------------------------------
(* Entries and values *)

Val == Vals \cup Typed
Tables == Seq(Entry) \cup {Null}

\* What each entry adds to the values of a name
Found(s, n) == [i \in DOMAIN s |-> IF Same(s[i].key, n) THEN <<s[i].val>> ELSE << >>]

LEMMA RowsType ==
  ASSUME NEW t \in Tables
  PROVE  /\ Rows(t) \in Seq(Entry)
         /\ Rows(Rows(t)) = Rows(t)
         /\ t \in Seq(Entry) => Rows(t) = t
BY ValsAssumption DEF Tables, Rows

LEMMA EntryType ==
  /\ \A e \in Entry : e.key \in Names /\ e.val \in Val
  /\ \A n \in Names, v \in Val : [key |-> n, val |-> v] \in Entry
BY DEF Entry, Val

LEMMA FoundType ==
  ASSUME NEW s \in Seq(Entry), NEW n
  PROVE  Found(s, n) \in Seq(Seq(Val)) /\ Len(Found(s, n)) = Len(s)
<1>1. \A i \in DOMAIN s : s[i] \in Entry /\ s[i].val \in Val
  <2>1. \A i \in DOMAIN s : s[i] \in Entry
    OBVIOUS
  <2> QED
    BY <2>1, EntryType
<1>2. \A i \in DOMAIN s : (IF Same(s[i].key, n) THEN <<s[i].val>> ELSE << >>) \in Seq(Val)
  BY <1>1
<1>3. DOMAIN s = 1 .. Len(s) /\ Len(s) \in Nat
  OBVIOUS
<1> QED
  BY <1>2, <1>3 DEF Found

\* A table's values are those its entries add.
LEMMA ValuesAre ==
  ASSUME NEW t \in Tables, NEW n
  PROVE  /\ Values(t, n) = FlattenSeq(Found(Rows(t), n))
         /\ Values(t, n) \in Seq(Val)
         /\ Values(Rows(t), n) = Values(t, n)
<1>1. Values(t, n) = FlattenSeq(Found(Rows(t), n))
  BY DEF Values, Found
<1>2. FlattenSeq(Found(Rows(t), n)) \in Seq(Val)
  BY RowsType, FoundType, FlattenType
<1>3. Values(Rows(t), n) = Values(t, n)
  BY RowsType DEF Values
<1> QED
  BY <1>1, <1>2, <1>3

LEMMA ValuesEmpty ==
  ASSUME NEW n PROVE Values(Null, n) = << >> /\ Values(<< >>, n) = << >>
<1>1. << >> \in Tables /\ Null \in Tables
  BY DEF Tables
<1>2. Rows(<< >>) = << >> /\ Rows(Null) = << >>
  BY <1>1, RowsType DEF Rows
<1>3. Found(<< >>, n) = << >>
  BY DEF Found
<1> QED
  BY <1>1, <1>2, <1>3, ValuesAre, FlattenEmpty

\* The values of two tables one behind the other
LEMMA ValuesConcat ==
  ASSUME NEW a \in Seq(Entry), NEW b \in Seq(Entry), NEW n
  PROVE  Values(a \o b, n) = Values(a, n) \o Values(b, n)
<1>1. a \o b \in Seq(Entry) /\ a \in Tables /\ b \in Tables /\ a \o b \in Tables
  BY DEF Tables
<1>2. Rows(a) = a /\ Rows(b) = b /\ Rows(a \o b) = a \o b
  BY <1>1, RowsType
<1>3. Found(a \o b, n) = Found(a, n) \o Found(b, n)
  <2> DEFINE f == Found(a \o b, n)
             g == Found(a, n) \o Found(b, n)
  <2>1. f \in Seq(Seq(Val)) /\ g \in Seq(Seq(Val)) /\ Len(f) = Len(a) + Len(b) /\ Len(g) = Len(a) + Len(b)
    <3>1. f \in Seq(Seq(Val)) /\ Len(f) = Len(a) + Len(b)
      BY <1>1, FoundType, ConcatProperties
    <3>2. Found(a, n) \in Seq(Seq(Val)) /\ Len(Found(a, n)) = Len(a)
      BY FoundType
    <3>3. Found(b, n) \in Seq(Seq(Val)) /\ Len(Found(b, n)) = Len(b)
      BY FoundType
    <3> HIDE DEF f
    <3>4. g \in Seq(Seq(Val)) /\ Len(g) = Len(Found(a, n)) + Len(Found(b, n))
      BY <3>2, <3>3, ConcatProperties
    <3> QED
      BY <3>1, <3>2, <3>3, <3>4
  <2>2. \A i \in 1 .. Len(a) + Len(b) : f[i] = g[i]
    <3> SUFFICES ASSUME NEW i \in 1 .. Len(a) + Len(b) PROVE f[i] = g[i]
      OBVIOUS
    <3>1. Len(Found(a, n)) = Len(a) /\ Len(Found(b, n)) = Len(b)
      BY FoundType
    <3>2. f[i] = IF Same((a \o b)[i].key, n) THEN <<(a \o b)[i].val>> ELSE << >>
      BY <1>1 DEF Found
    <3>3. CASE i <= Len(a)
      <4>1. (a \o b)[i] = a[i] /\ g[i] = Found(a, n)[i] /\ i \in DOMAIN a
        BY <3>3, <3>1, FoundType
      <4> QED
        BY <4>1, <3>2 DEF Found
    <3>4. CASE i > Len(a)
      <4>1. (a \o b)[i] = b[i - Len(a)] /\ g[i] = Found(b, n)[i - Len(a)] /\ i - Len(a) \in DOMAIN b
        BY <3>4, <3>1, FoundType
      <4> QED
        BY <4>1, <3>2 DEF Found
    <3>5. i <= Len(a) \/ i > Len(a)
      BY LenProperties
    <3> QED
      BY <3>3, <3>4, <3>5
  <2> HIDE DEF f, g
  <2> QED
    BY <2>1, <2>2, SeqEqual DEF f, g
<1>4. Found(a, n) \in Seq(Seq(Val)) /\ Found(b, n) \in Seq(Seq(Val))
  BY FoundType
<1>5. FlattenSeq(Found(a, n) \o Found(b, n)) = FlattenSeq(Found(a, n)) \o FlattenSeq(Found(b, n))
  BY <1>4, FlattenConcat
<1>6. /\ Values(a, n) = FlattenSeq(Found(Rows(a), n))
      /\ Values(b, n) = FlattenSeq(Found(Rows(b), n))
      /\ Values(a \o b, n) = FlattenSeq(Found(Rows(a \o b), n))
  BY <1>1, ValuesAre
<1> QED
  BY <1>2, <1>3, <1>5, <1>6, Zenon

LEMMA ValuesOne ==
  ASSUME NEW e \in Entry, NEW n
  PROVE  Values(<<e>>, n) = IF Same(e.key, n) THEN <<e.val>> ELSE << >>
<1> DEFINE s == <<e>>
           v == IF Same(e.key, n) THEN <<e.val>> ELSE << >>
<1>1. s \in Seq(Entry) /\ s \in Tables /\ Rows(s) = s /\ e.val \in Val
  <2>1. s \in Seq(Entry)
    OBVIOUS
  <2>2. s \in Tables
    BY <2>1 DEF Tables
  <2> QED
    BY <2>1, <2>2, RowsType, EntryType
<1>2. Found(s, n) = <<v>>
  BY DEF Found
<1>3. v \in Seq(Val)
  BY <1>1
<1> HIDE DEF v, s
<1>4. Values(s, n) = v
  BY <1>1, <1>2, <1>3, ValuesAre, FlattenOne
<1> QED
  BY <1>4 DEF s, v


\* An entry of the name is one of its values.
LEMMA ValuesHave ==
  ASSUME NEW s \in Seq(Entry), NEW i \in DOMAIN s, NEW n, Same(s[i].key, n)
  PROVE  \E j \in DOMAIN Values(s, n) : Values(s, n)[j] = s[i].val
<1> DEFINE a == SubSeq(s, 1, i - 1)
           e == s[i]
           b == SubSeq(s, i + 1, Len(s))
<1>1. i \in 1 .. Len(s) /\ Len(s) \in Nat /\ \A k \in 1 .. Len(s) : s[k] \in Entry
  OBVIOUS
<1>2. a \in Seq(Entry) /\ Len(a) = i - 1 /\ \A k \in 1 .. i - 1 : a[k] = s[k]
  BY <1>1, SubSeqProperties
<1>3. b \in Seq(Entry) /\ Len(b) = Len(s) - i /\ \A k \in 1 .. Len(s) - i : b[k] = s[k + i]
  BY <1>1, SubSeqProperties
<1>4. e \in Entry /\ <<e>> \in Seq(Entry) /\ Len(<<e>>) = 1 /\ <<e>>[1] = e
  BY <1>1
<1> HIDE DEF a, b, e
<1>5. <<e>> \o b \in Seq(Entry) /\ a \o (<<e>> \o b) \in Seq(Entry)
  BY <1>2, <1>3, <1>4, ConcatProperties
<1>6. s = a \o (<<e>> \o b)
  <2>1. Len(<<e>> \o b) = Len(s) - i + 1 /\ Len(a \o (<<e>> \o b)) = Len(s)
    BY <1>1, <1>2, <1>3, <1>4, ConcatProperties
  <2>2. ASSUME NEW k \in 1 .. Len(s) PROVE (a \o (<<e>> \o b))[k] = s[k]
    <3>1. CASE k < i
      BY <3>1, <1>1, <1>2, <1>3, <1>4, <2>1
    <3>2. CASE k = i
      BY <3>2, <1>1, <1>2, <1>3, <1>4, <2>1 DEF e
    <3>3. CASE k > i
      <4>1. (a \o (<<e>> \o b))[k] = (<<e>> \o b)[k - (i - 1)]
        BY <3>3, <1>1, <1>2, <1>5, <2>1
      <4>2. (<<e>> \o b)[k - (i - 1)] = b[k - i]
        BY <3>3, <1>1, <1>3, <1>4, <2>1
      <4>3. k - i \in 1 .. Len(s) - i /\ (k - i) + i = k
        BY <3>3, <1>1
      <4> QED
        BY <4>1, <4>2, <4>3, <1>3
    <3>4. k < i \/ k = i \/ k > i
      BY <1>1
    <3> QED
      BY <3>1, <3>2, <3>3, <3>4
  <2> QED
    BY <1>5, <2>1, <2>2, SeqEqual
<1>7. Values(<<e>>, n) = <<e.val>> /\ e.val \in Val
  BY <1>4, ValuesOne, EntryType DEF e
<1>8. Values(s, n) = Values(a, n) \o (<<e.val>> \o Values(b, n))
  <2>1. Values(s, n) = Values(a, n) \o Values(<<e>> \o b, n)
    BY <1>2, <1>5, <1>6, ValuesConcat
  <2>2. Values(<<e>> \o b, n) = Values(<<e>>, n) \o Values(b, n)
    BY <1>3, <1>4, ValuesConcat
  <2> QED
    BY <2>1, <2>2, <1>7
<1>9. Values(a, n) \in Seq(Val) /\ Values(b, n) \in Seq(Val)
  BY <1>2, <1>3, ValuesAre DEF Tables
<1> DEFINE va == Values(a, n)
           vb == Values(b, n)
           v == e.val
           j == Len(va) + 1
<1>10. va \in Seq(Val) /\ vb \in Seq(Val) /\ v \in Val
  BY <1>7, <1>9
<1> HIDE DEF va, vb, v
<1>11. j \in DOMAIN (va \o (<<v>> \o vb)) /\ (va \o (<<v>> \o vb))[j] = v
  BY <1>10
<1> QED
  BY <1>8, <1>11 DEF va, vb, v, e

\* One sequence and the same with more behind it
Ext(a, b, S) == \E c \in Seq(S) : b = a \o c

LEMMA ExtSame == ASSUME NEW S, NEW a \in Seq(S) PROVE Ext(a, a, S)
BY ConcatEmptySeq, << >> \in Seq(S) DEF Ext

LEMMA ExtEmpty == ASSUME NEW S, NEW a \in Seq(S) PROVE Ext(<< >>, a, S)
BY ConcatEmptySeq DEF Ext

LEMMA ExtTrans ==
  ASSUME NEW S, NEW a \in Seq(S), NEW b, NEW c, Ext(a, b, S), Ext(b, c, S)
  PROVE  Ext(a, c, S)
<1>1. PICK x \in Seq(S) : b = a \o x
  BY DEF Ext
<1>2. PICK y \in Seq(S) : c = b \o y
  BY DEF Ext
<1>3. c = a \o (x \o y) /\ x \o y \in Seq(S)
  BY <1>1, <1>2, ConcatAssociative, ConcatProperties
<1> QED
  BY <1>3 DEF Ext

LEMMA ExtIs ==
  ASSUME NEW S, NEW a \in Seq(S), NEW b, Ext(a, b, S)
  PROVE  /\ b \in Seq(S)
         /\ Len(a) <= Len(b)
         /\ \A i \in DOMAIN a : i \in DOMAIN b /\ b[i] = a[i]
<1>1. PICK x \in Seq(S) : b = a \o x
  BY DEF Ext
<1> QED
  BY <1>1

\* A beginning of a sequence begins the longer one.
LEMMA PrefixExt ==
  ASSUME NEW S, NEW v \in Seq(S), NEW a \in Seq(S), NEW b, IsPrefix(v, a), Ext(a, b, S)
  PROVE  IsPrefix(v, b)
<1>1. b \in Seq(S) /\ Len(a) <= Len(b) /\ \A i \in DOMAIN a : b[i] = a[i]
  BY ExtIs
<1>2. Len(v) <= Len(a) /\ SubSeq(v, 1, Len(v)) = SubSeq(a, 1, Len(v))
  BY DEF IsPrefix
<1> DEFINE m == Len(v)
<1>3. m \in Nat /\ Len(a) \in Nat /\ Len(b) \in Nat /\ m <= Len(a) /\ m <= Len(b)
  BY <1>1, <1>2
<1>4. /\ SubSeq(a, 1, m) \in Seq(S) /\ Len(SubSeq(a, 1, m)) = m
      /\ \A i \in 1 .. m : SubSeq(a, 1, m)[i] = a[i]
  BY <1>3
<1>5. /\ SubSeq(b, 1, m) \in Seq(S) /\ Len(SubSeq(b, 1, m)) = m
      /\ \A i \in 1 .. m : SubSeq(b, 1, m)[i] = b[i]
  BY <1>1, <1>3
<1>6. SubSeq(a, 1, m) = SubSeq(b, 1, m)
  BY <1>1, <1>3, <1>4, <1>5, SeqEqual
<1> QED
  BY <1>2, <1>3, <1>6 DEF IsPrefix

LEMMA PrefixSame == ASSUME NEW S, NEW a \in Seq(S) PROVE IsPrefix(a, a)
BY DEF IsPrefix

\* An element begins what is left from it on.
LEMMA PrefixOne ==
  ASSUME NEW S, NEW s \in Seq(S), NEW i \in DOMAIN s
  PROVE  IsPrefix(<<s[i]>>, SubSeq(s, i, Len(s)))
<1> DEFINE rest == SubSeq(s, i, Len(s))
           x == s[i]
<1>1. i \in 1 .. Len(s) /\ Len(s) \in Nat /\ \A k \in i .. Len(s) : s[k] \in S
  OBVIOUS
<1>2. rest \in Seq(S) /\ Len(rest) = Len(s) - i + 1 /\ rest[1] = x /\ x \in S
  BY <1>1, SubSeqProperties
<1> HIDE DEF rest, x
<1>3. Len(rest) >= 1
  BY <1>1, <1>2
<1>4. SubSeq(rest, 1, 1) = <<x>>
  <2> DEFINE one == SubSeq(rest, 1, 1)
  <2>1. one \in Seq(S) /\ Len(one) = 1 /\ one[1] = x
    <3>1. \A k \in 1 .. 1 : rest[k] \in S
      BY <1>2
    <3> QED
      BY <1>2, <3>1, SubSeqProperties
  <2> HIDE DEF one
  <2>2. <<x>> \in Seq(S) /\ Len(<<x>>) = 1 /\ <<x>>[1] = x
    BY <1>2
  <2>3. \A k \in 1 .. Len(one) : one[k] = <<x>>[k]
    BY <2>1, <2>2
  <2>4. one = <<x>>
    BY <2>1, <2>2, <2>3, SeqEqual
  <2> QED
    BY <2>4 DEF one
<1>5. SubSeq(<<x>>, 1, 1) = <<x>> /\ Len(<<x>>) = 1
  <2>1. <<x>> \in Seq(S) /\ Len(<<x>>) = 1
    BY <1>2
  <2> QED
    BY <2>1, SubSeqFull
<1>6. IsPrefix(<<x>>, rest)
  BY <1>3, <1>4, <1>5 DEF IsPrefix
<1> QED
  BY <1>6 DEF rest, x

\* More entries, more values
LEMMA ValuesExt ==
  ASSUME NEW a \in Seq(Entry), NEW b, Ext(a, b, Entry), NEW n
  PROVE  Ext(Values(a, n), Values(b, n), Val)
<1>1. PICK x \in Seq(Entry) : b = a \o x
  BY DEF Ext
<1>2. Values(b, n) = Values(a, n) \o Values(x, n)
  BY <1>1, ValuesConcat
<1>3. Values(x, n) \in Seq(Val)
  BY ValuesAre DEF Tables
<1> QED
  BY <1>2, <1>3 DEF Ext

\* A name is not there when it has no value.
LEMMA LookupIs ==
  ASSUME NEW t \in Tables, NEW n
  PROVE  /\ Lookup(t, n) = Null <=> Values(t, n) = << >>
         /\ Lookup(t, n) # Null => /\ Values(t, n) # << >> /\ Values(t, n)[1] = Lookup(t, n)
                                   /\ 1 \in DOMAIN Values(t, n) /\ Lookup(t, n) \in Val
<1>1. Values(t, n) \in Seq(Val)
  BY ValuesAre
<1>2. Values(t, n) # << >> => /\ Values(t, n)[1] = Head(Values(t, n)) /\ 1 \in DOMAIN Values(t, n)
                              /\ Head(Values(t, n)) \in Val
  BY <1>1
<1> QED
  BY <1>2, ValsAssumption DEF Lookup, Val

------------------------------------------------------------------------------
(* What every handle keeps to *)

\* A parse is over that is not gone through again.
Settled(q, p) ==
    IF q.kind = "interactive" THEN q.status[p] = "SUCCESS"
    ELSE q.status[p] \notin {"EINIT", "INCOMPLETE"}

Shape(q) ==
    /\ DOMAIN q = {"kind", "src", "console", "fed", "table", "status"}
    /\ q.kind \in Kinds
    /\ DOMAIN q.src = Places /\ DOMAIN q.status = Places
    /\ q.table \in [Places -> Tables]
    /\ q.console \in Seq(Names \cup {Null}) /\ q.fed \in Nat
    /\ IsHeader(q.src["jar"]) /\ IsHeader(q.src["args"]) /\ IsBody(q.src["body"])

\* Only a body is ever half read, and it has something left; what was not begun
\* has no rows; at the terminal nothing fails.
Stage(q, p) ==
    /\ p # "body" => /\ q.status[p] # "INCOMPLETE"
                     /\ q.kind = "custom" => q.status[p] # "EINIT"
    /\ q.kind # "interactive" /\ q.status[p] = "EINIT" => Rows(q.table[p]) = << >>
    /\ q.kind = "interactive" => q.status[p] \in {"EINIT", "SUCCESS"}
    /\ q.kind \in {"cgi", "interactive"} => q.table[p] \in Seq(Entry)
    /\ p = "body" =>
        /\ q.status[p] = "EINIT" => q.fed = 0
        /\ q.status[p] = "INCOMPLETE" =>
            /\ q.src[p] # Null /\ q.fed < Len(q.src[p].blocks)
            /\ q.table[p] \in Seq(Entry)

Sound(q) == Shape(q) /\ \A p \in Places : Stage(q, p)

\* What a later state of a handle keeps of an earlier one: the entries in front,
\* and the whole of what is settled.
KeepsPlace(q, w, p) ==
    /\ Ext(Rows(q.table[p]), Rows(w.table[p]), Entry)
    /\ Settled(q, p) => /\ w.status[p] = q.status[p]
                        /\ q.kind # "interactive" => Rows(w.table[p]) = Rows(q.table[p])

Follows(q, w) == w.kind = q.kind /\ \A p \in Places : KeepsPlace(q, w, p)
Becomes(q, w) == Sound(w) /\ Follows(q, w)

LEMMA SoundRows ==
  ASSUME NEW q, Sound(q), NEW p \in Places
  PROVE  q.table[p] \in Tables /\ Rows(q.table[p]) \in Seq(Entry)
BY RowsType DEF Sound, Shape

LEMMA BecomesSame == ASSUME NEW q, Sound(q) PROVE Becomes(q, q)
<1>1. \A p \in Places : Ext(Rows(q.table[p]), Rows(q.table[p]), Entry)
  BY SoundRows, ExtSame
<1> QED
  BY <1>1 DEF Becomes, Follows, KeepsPlace

LEMMA SettledStays ==
  ASSUME NEW q, NEW w, Becomes(q, w), NEW p \in Places, Settled(q, p)
  PROVE  Settled(w, p) /\ w.status[p] = q.status[p] /\ w.kind = q.kind
BY DEF Becomes, Follows, KeepsPlace, Settled

LEMMA BecomesTrans ==
  ASSUME NEW q, Sound(q), NEW v, NEW w, Becomes(q, v), Becomes(v, w)
  PROVE  Becomes(q, w)
<1>1. Sound(v) /\ Sound(w) /\ v.kind = q.kind /\ w.kind = q.kind
  BY DEF Becomes, Follows
<1>2. ASSUME NEW p \in Places PROVE KeepsPlace(q, w, p)
  <2>1. KeepsPlace(q, v, p) /\ KeepsPlace(v, w, p)
    BY DEF Becomes, Follows
  <2>2. Rows(q.table[p]) \in Seq(Entry)
    BY SoundRows
  <2>3. Ext(Rows(q.table[p]), Rows(w.table[p]), Entry)
    BY <2>1, <2>2, ExtTrans DEF KeepsPlace
  <2>4. Settled(q, p) => Settled(v, p)
    BY SettledStays
  <2> QED
    BY <1>1, <2>1, <2>3, <2>4 DEF KeepsPlace
<1> QED
  BY <1>1, <1>2 DEF Becomes, Follows

\* A step that is about one place
LEMMA OnePlace ==
  ASSUME NEW q, Sound(q), NEW p \in Places, NEW w, Shape(w), w.kind = q.kind, w.src = q.src,
         \A r \in Places : r # p => w.table[r] = q.table[r] /\ w.status[r] = q.status[r],
         p # "body" => w.fed = q.fed, Stage(w, p), KeepsPlace(q, w, p)
  PROVE  Becomes(q, w)
<1>1. ASSUME NEW r \in Places PROVE Stage(w, r) /\ KeepsPlace(q, w, r)
  <2>1. CASE r = p
    BY <2>1
  <2>2. CASE r # p
    <3>1. w.table[r] = q.table[r] /\ w.status[r] = q.status[r] /\ Stage(q, r)
      BY <2>2 DEF Sound
    <3>2. r = "body" => w.fed = q.fed
      BY <2>2
    <3>3. Stage(w, r)
      BY <3>1, <3>2 DEF Stage
    <3>4. Ext(Rows(q.table[r]), Rows(w.table[r]), Entry)
      BY <3>1, SoundRows, ExtSame
    <3> QED
      BY <3>1, <3>3, <3>4 DEF KeepsPlace
  <2> QED
    BY <2>1, <2>2
<1> QED
  BY <1>1 DEF Becomes, Follows, Sound

------------------------------------------------------------------------------
(* The terminal *)

LEMMA LinesAfterType ==
  ASSUME NEW c \in Seq(Names \cup {Null}), NEW n \in Nat
  PROVE  LinesAfter(c, n) \in Seq(Names \cup {Null})
BY DEF LinesAfter

LEMMA LineType ==
  ASSUME NEW c \in Seq(Names \cup {Null}), NEW i
  PROVE  Line(c, i) \in Names \cup {Null}
BY DEF Line

\* The least of the numbers in a set
LEMMA Least ==
  ASSUME NEW P, NEW m \in Nat, m \in P
  PROVE  \E k \in 0 .. m : k \in P /\ \A j \in 0 .. k - 1 : j \notin P
<1> DEFINE is(k) == k \in P /\ \A j \in 0 .. k - 1 : j \notin P
           T == {n \in Nat : (\E k \in 0 .. n : is(k)) \/ \A j \in 0 .. n : j \notin P}
<1>1. 0 \in T
  OBVIOUS
<1>2. \A n \in Nat : n \in T => n + 1 \in T
  <2> SUFFICES ASSUME NEW n \in Nat, n \in T PROVE n + 1 \in T
    OBVIOUS
  <2>1. CASE \E k \in 0 .. n : is(k)
    BY <2>1
  <2>2. CASE \A j \in 0 .. n : j \notin P
    <3>1. (\A j \in 0 .. n + 1 : j \notin P) \/ is(n + 1)
      BY <2>2
    <3> QED
      BY <3>1
  <2> QED
    BY <2>1, <2>2
<1> HIDE DEF T
<1>3. Nat \subseteq T
  BY <1>1, <1>2, SetInduction
<1>4. m \in T /\ m \in 0 .. m
  BY <1>3
<1> QED
  BY <1>4 DEF T

\* The typing comes to an end.
EndsAt(c, k) == Line(c, 2 * k + 1) = Null /\ \A j \in 0 .. k - 1 : Line(c, 2 * j + 1) # Null

LEMMA PairsEnd ==
  ASSUME NEW c \in Seq(Names \cup {Null})
  PROVE  Pairs(c) \in 0 .. Len(c) /\ EndsAt(c, Pairs(c))
<1> DEFINE P == {k \in Nat : Line(c, 2 * k + 1) = Null}
<1>1. Len(c) \in P
  BY DEF Line
<1>2. PICK e \in 0 .. Len(c) : e \in P /\ \A j \in 0 .. e - 1 : j \notin P
  BY <1>1, Least
<1>3. EndsAt(c, e)
  <2>1. \A j \in 0 .. e - 1 : j \in Nat
    OBVIOUS
  <2> QED
    BY <1>2, <2>1 DEF EndsAt
<1> QED
  BY <1>3 DEF Pairs, EndsAt

\* What prompt leaves of a handle, and what the entries typed are
LEMMA PromptIs ==
  ASSUME NEW q, Shape(q)
  PROVE  /\ Shape(Prompt(q).req)
         /\ \A f \in DOMAIN q \ {"console"} : Prompt(q).req[f] = q[f]
         /\ Prompt(q).val # Null => Prompt(q).val \in Val
<1> DEFINE w == [q EXCEPT !.console = LinesAfter(@, 1)]
<1>1. Prompt(q).req = w
  BY DEF Prompt
<1>2. /\ DOMAIN w = DOMAIN q /\ w.console = LinesAfter(q.console, 1)
      /\ \A f \in DOMAIN q \ {"console"} : w[f] = q[f]
  BY DEF Shape
<1>3. w.console \in Seq(Names \cup {Null})
  BY <1>2, LinesAfterType DEF Shape
<1>4. Prompt(q).val # Null => Prompt(q).val \in Val
  BY LenProperties DEF Prompt, Val, Typed, Shape
<1> HIDE DEF w
<1>5. Shape(w)
  BY <1>2, <1>3 DEF Shape
<1> QED
  BY <1>1, <1>2, <1>4, <1>5

LEMMA PairsType ==
  ASSUME NEW q, Shape(q)
  PROVE  [i \in 1 .. Pairs(q.console) |->
            [key |-> Line(q.console, 2 * i - 1),
             val |-> IF Line(q.console, 2 * i) = Null THEN <<"none", 0>>
                     ELSE <<"typed", Len(q.console) - (2 * i - 1)>>]] \in Seq(Entry)
<1> DEFINE c == q.console
           k == Pairs(c)
           e(i) == [key |-> Line(c, 2 * i - 1),
                    val |-> IF Line(c, 2 * i) = Null THEN <<"none", 0>>
                            ELSE <<"typed", Len(c) - (2 * i - 1)>>]
<1>1. c \in Seq(Names \cup {Null})
  BY DEF Shape
<1>2. k \in Nat /\ k <= Len(c) /\ EndsAt(c, k)
  BY <1>1, PairsEnd
<1>3. ASSUME NEW i \in 1 .. k PROVE e(i) \in Entry
  <2>1. Line(c, 2 * (i - 1) + 1) # Null
    <3>1. i - 1 \in 0 .. k - 1
      BY <1>2
    <3> HIDE DEF c, k
    <3>2. \A j \in 0 .. k - 1 : Line(c, 2 * j + 1) # Null
      BY <1>2 DEF EndsAt
    <3> QED
      BY <3>1, <3>2
  <2>2. 2 * (i - 1) + 1 = 2 * i - 1
    BY <1>2
  <2>3. Line(c, 2 * i - 1) \in Names
    BY <1>1, <2>1, <2>2, LineType
  <2>4. Line(c, 2 * i) # Null => Len(c) - (2 * i - 1) \in Nat
    <3>1. SUFFICES ASSUME Line(c, 2 * i) # Null PROVE Len(c) - (2 * i - 1) \in Nat
      OBVIOUS
    <3>2. 2 * i \in DOMAIN c /\ Len(c) \in Nat /\ DOMAIN c = 1 .. Len(c)
      BY <1>1, <3>1 DEF Line
    <3> QED
      BY <3>2, <1>2
  <2>5. e(i).val \in Val
    BY <2>4 DEF Val, Typed
  <2> HIDE DEF c, k
  <2> QED
    BY <2>3, <2>5, EntryType
<1> HIDE DEF c, e, k
<1>4. [i \in 1 .. k |-> e(i)] \in Seq(Entry)
  BY <1>2, <1>3
<1> QED
  BY <1>4 DEF c, e, k

\* Everything is asked for at most once, behind what is there.
LEMMA PromptAllBecomes ==
  ASSUME NEW q, Sound(q), NEW p \in Places, q.kind = "interactive", q.status[p] # "SUCCESS"
  PROVE  Becomes(q, PromptAll(q, p)) /\ Settled(PromptAll(q, p), p)
<1> DEFINE w == PromptAll(q, p)
<1>1. PICK add \in Seq(Entry), rest \in Seq(Names \cup {Null}) :
        w = [q EXCEPT !.table[p] = @ \o add, !.console = rest, !.status[p] = "SUCCESS"]
  <2>1. Pairs(q.console) \in Nat
    BY PairsEnd DEF Sound, Shape
  <2>2. LinesAfter(q.console, 2 * Pairs(q.console) + 1) \in Seq(Names \cup {Null})
    <3>1. \A k \in Nat : 2 * k + 1 \in Nat
      OBVIOUS
    <3>2. q.console \in Seq(Names \cup {Null})
      BY DEF Sound, Shape
    <3> QED
      BY <2>1, <3>1, <3>2, LinesAfterType
  <2> QED
    BY <2>2, PairsType DEF PromptAll, Sound
<1> HIDE DEF w
<1>2. Shape(q) /\ q.table[p] \in Seq(Entry) /\ DOMAIN q.table = Places
  BY DEF Sound, Stage, Shape
<1>3. /\ DOMAIN w = DOMAIN q /\ w.kind = q.kind /\ w.src = q.src /\ w.fed = q.fed /\ w.console = rest
      /\ w.table = [q.table EXCEPT ![p] = @ \o add] /\ w.status = [q.status EXCEPT ![p] = "SUCCESS"]
  BY <1>1, <1>2 DEF Shape
<1>4. /\ w.table[p] = q.table[p] \o add /\ w.table[p] \in Seq(Entry) /\ w.status[p] = "SUCCESS"
      /\ DOMAIN w.status = Places
      /\ \A r \in Places : r # p => w.table[r] = q.table[r] /\ w.status[r] = q.status[r]
  BY <1>2, <1>3 DEF Shape
<1>5. Shape(w)
  <2>1. w.table \in [Places -> Tables]
    BY <1>2, <1>3, <1>4 DEF Shape, Tables
  <2> QED
    BY <1>2, <1>3, <1>4, <2>1 DEF Shape
<1>6. Stage(w, p)
  BY <1>3, <1>4 DEF Stage
<1>7. KeepsPlace(q, w, p)
  <2>1. Rows(w.table[p]) = w.table[p] /\ Rows(q.table[p]) = q.table[p]
    BY <1>2, <1>4, RowsType DEF Tables
  <2>2. ~Settled(q, p)
    BY DEF Settled
  <2> QED
    BY <1>4, <2>1, <2>2 DEF KeepsPlace, Ext
<1>8. Becomes(q, w)
  BY <1>3, <1>4, <1>5, <1>6, <1>7, OnePlace
<1>9. Settled(w, p)
  BY <1>3, <1>4 DEF Settled
<1> QED
  BY <1>8, <1>9 DEF w

\* One entry more
LEMMA AddBecomes ==
  ASSUME NEW q, Sound(q), q.kind = "interactive", NEW p \in Places, NEW n \in Names
  PROVE  LET one == PromptOne(q, p, n) IN
         /\ Becomes(q, one.req)
         /\ one.val = Null => one.req.table = q.table
         /\ one.val # Null => /\ one.val \in Val
                              /\ one.req.table[p] = Append(q.table[p], [key |-> n, val |-> one.val])
<1> DEFINE v == Prompt(q).req
           x == Prompt(q).val
           one == PromptOne(q, p, n)
           w == Add(v, p, n, x)
<1>1. Shape(q) /\ Stage(q, p) /\ q.table[p] \in Seq(Entry)
  BY DEF Sound, Stage
<1>2. Shape(v) /\ v.kind = q.kind /\ v.src = q.src /\ v.fed = q.fed /\ v.table = q.table /\ v.status = q.status
  BY <1>1, PromptIs DEF Shape
<1>3. x # Null => x \in Val
  BY <1>1, PromptIs
<1>4. IF x = Null THEN one = Prompt(q) ELSE one = [Prompt(q) EXCEPT !.req = w]
  BY DEF PromptOne
<1>5. one.val = x /\ one.req = IF x = Null THEN v ELSE w
  BY <1>4 DEF Prompt
<1> HIDE DEF v, x, one
<1>6. Becomes(q, v)
  <2>1. Stage(v, p)
    BY <1>1, <1>2 DEF Stage
  <2>2. KeepsPlace(q, v, p)
    BY <1>2, SoundRows, ExtSame DEF KeepsPlace
  <2> QED
    BY <1>2, <2>1, <2>2, OnePlace
<1>7. ASSUME x # Null PROVE Becomes(q, w) /\ w.table[p] = Append(q.table[p], [key |-> n, val |-> x])
  <2> DEFINE e == [key |-> n, val |-> x]
  <2>1. e \in Entry
    BY <1>3, <1>7, EntryType
  <2> HIDE DEF e
  <2>2. /\ DOMAIN w = DOMAIN v /\ w.kind = v.kind /\ w.src = v.src /\ w.fed = v.fed /\ w.console = v.console
        /\ w.status = v.status /\ w.table = [v.table EXCEPT ![p] = Append(@, e)]
    BY <1>2 DEF Add, Shape, e
  <2>3. /\ w.table[p] = Append(q.table[p], e) /\ w.table[p] \in Seq(Entry)
        /\ \A r \in Places : r # p => w.table[r] = q.table[r]
    BY <1>1, <1>2, <2>1, <2>2 DEF Shape
  <2>4. Shape(w)
    <3>1. w.table \in [Places -> Tables]
      BY <1>2, <2>2, <2>3 DEF Shape, Tables
    <3> QED
      BY <1>2, <2>2, <3>1 DEF Shape
  <2>5. Stage(w, p)
    BY <1>1, <1>2, <2>2, <2>3 DEF Stage
  <2>6. KeepsPlace(q, w, p)
    <3>1. Rows(w.table[p]) = w.table[p] /\ Rows(q.table[p]) = q.table[p]
      BY <1>1, <2>3, RowsType DEF Tables
    <3>2. w.table[p] = q.table[p] \o <<e>> /\ <<e>> \in Seq(Entry)
      BY <1>1, <2>1, <2>3
    <3> QED
      BY <1>2, <2>2, <3>1, <3>2 DEF KeepsPlace, Ext
  <2>7. Becomes(q, w)
    BY <1>2, <2>2, <2>3, <2>4, <2>5, <2>6, OnePlace
  <2> QED
    BY <2>3, <2>7 DEF e
<1> QED
  BY <1>2, <1>3, <1>5, <1>6, <1>7 DEF one

------------------------------------------------------------------------------
(* Parsing *)

\* w is q with another table and status at a place; blocks may have been read.
Laid(q, w, p, t, s) ==
    /\ DOMAIN w = DOMAIN q /\ w.kind = q.kind /\ w.src = q.src /\ w.console = q.console
    /\ w.fed \in Nat /\ (p # "body" => w.fed = q.fed)
    /\ w.table = [q.table EXCEPT ![p] = t] /\ w.status = [q.status EXCEPT ![p] = s]

LEMMA LaidIs ==
  ASSUME NEW q, NEW p, NEW w, NEW t, NEW s, Sound(q), p \in Places, t \in Tables,
         Laid(q, w, p, t, s)
  PROVE  /\ w.table[p] = t /\ w.status[p] = s /\ w.kind = q.kind /\ w.src = q.src /\ (p # "body" => w.fed = q.fed)
         /\ Shape(w)
         /\ \A r \in Places : r # p => w.table[r] = q.table[r] /\ w.status[r] = q.status[r]
<1>1. Shape(q)
  BY DEF Sound
<1>2. w.table \in [Places -> Tables] /\ DOMAIN w.status = Places /\ w.table[p] = t /\ w.status[p] = s
  BY <1>1 DEF Laid, Shape
<1>3. Shape(w)
  BY <1>1, <1>2 DEF Laid, Shape
<1>4. \A r \in Places : r # p => w.table[r] = q.table[r] /\ w.status[r] = q.status[r]
  BY <1>1 DEF Laid, Shape
<1> QED
  BY <1>2, <1>3, <1>4 DEF Laid

LEMMA LaidBecomes ==
  ASSUME NEW q, NEW p, NEW w, NEW t, NEW s, Sound(q), p \in Places, t \in Tables,
         Laid(q, w, p, t, s),
         ~Settled(q, p), Ext(Rows(q.table[p]), Rows(t), Entry), Stage(w, p)
  PROVE  Becomes(q, w)
<1>1. /\ w.table[p] = t /\ w.kind = q.kind /\ w.src = q.src /\ (p # "body" => w.fed = q.fed) /\ Shape(w)
      /\ \A r \in Places : r # p => w.table[r] = q.table[r] /\ w.status[r] = q.status[r]
  BY LaidIs
<1>2. KeepsPlace(q, w, p)
  BY <1>1 DEF KeepsPlace
<1> QED
  BY <1>1, <1>2, OnePlace

\* A header that is parsed, or that is not there
LEMMA HeaderBecomes ==
  ASSUME NEW q, NEW p, NEW w, NEW t, NEW s,
         Sound(q), p \in Places, p # "body", q.kind \in {"apache2", "cgi"}, q.status[p] = "EINIT",
         t \in Tables, q.kind = "cgi" => t \in Seq(Entry), s \notin {"EINIT", "INCOMPLETE"},
         Laid(q, w, p, t, s)
  PROVE  Becomes(q, w) /\ Settled(w, p)
<1>1. Shape(q) /\ Stage(q, p)
  BY DEF Sound, Shape
<1>2. w.table[p] = t /\ w.status[p] = s /\ w.kind = q.kind
  BY <1>1, LaidIs
<1>3. ~Settled(q, p) /\ Settled(w, p)
  BY <1>2 DEF Settled
<1>4. Rows(q.table[p]) = << >>
  BY <1>1 DEF Stage
<1>5. Ext(Rows(q.table[p]), Rows(t), Entry)
  BY <1>4, RowsType, ExtEmpty
<1>6. Stage(w, p)
  BY <1>2 DEF Stage
<1> QED
  BY <1>1, <1>3, <1>5, <1>6, LaidBecomes

LEMMA HeaderIs ==
  ASSUME NEW q, Sound(q), NEW p \in Places \ {"body"}
  PROVE  q.src[p] # Null => /\ q.src[p].entries \in Seq(Entry)
                            /\ q.src[p].status \notin {"EINIT", "INCOMPLETE"}
BY DEF Sound, Shape, IsHeader, Ended, Places

LEMMA Apache2WholeIs ==
  ASSUME NEW q, Sound(q), NEW p \in Places \ {"body"}, q.kind = "apache2"
  PROVE  Becomes(q, Apache2Whole(q, p)) /\ Settled(Apache2Whole(q, p), p)
<1> DEFINE w == Apache2Whole(q, p)
<1>1. Shape(q) /\ Stage(q, p)
  BY DEF Sound
<1>2. CASE q.status[p] # "EINIT"
  <2>1. w = q
    BY <1>2 DEF Apache2Whole
  <2>2. Settled(q, p)
    BY <1>1, <1>2 DEF Stage, Settled
  <2> QED
    BY <2>1, <2>2, BecomesSame
<1>3. CASE q.status[p] = "EINIT" /\ q.src[p] = Null
  <2>1. w = [q EXCEPT !.status[p] = "NODATA"]
    BY <1>3 DEF Apache2Whole
  <2>2. Laid(q, w, p, q.table[p], "NODATA")
    BY <1>1, <2>1 DEF Laid, Shape
  <2>3. q.table[p] \in Tables
    BY SoundRows
  <2> HIDE DEF w
  <2>9. Becomes(q, w) /\ Settled(w, p)
    BY <1>3, <2>2, <2>3, HeaderBecomes
  <2> QED
    BY <2>9 DEF w
<1>4. CASE q.status[p] = "EINIT" /\ q.src[p] # Null
  <2> DEFINE h == q.src[p]
  <2>1. w = [q EXCEPT !.table[p] = h.entries, !.status[p] = h.status]
    BY <1>4 DEF Apache2Whole
  <2>2. h.entries \in Tables /\ h.status \notin {"EINIT", "INCOMPLETE"}
    BY <1>4, HeaderIs DEF Tables
  <2> HIDE DEF h
  <2>3. Laid(q, w, p, h.entries, h.status)
    BY <1>1, <2>1 DEF Laid, Shape
  <2> HIDE DEF w
  <2>9. Becomes(q, w) /\ Settled(w, p)
    BY <1>4, <2>2, <2>3, HeaderBecomes
  <2> QED
    BY <2>9 DEF w
<1> QED
  BY <1>2, <1>3, <1>4

LEMMA CgiWholeIs ==
  ASSUME NEW q, Sound(q), NEW p \in Places \ {"body"}, q.kind \in {"cgi", "interactive"}
  PROVE  Becomes(q, CgiWhole(q, p)) /\ Settled(CgiWhole(q, p), p)
<1> DEFINE w == CgiWhole(q, p)
<1>1. Shape(q) /\ Stage(q, p) /\ q.table[p] \in Seq(Entry) /\ q.table[p] \in Tables
  BY DEF Sound, Stage, Tables
<1>2. CASE q.kind = "interactive" /\ q.status[p] # "SUCCESS"
  <2>1. w = PromptAll(q, p)
    BY <1>2 DEF CgiWhole
  <2> QED
    BY <1>2, <2>1, PromptAllBecomes
<1>3. CASE ~(q.kind = "interactive" /\ q.status[p] # "SUCCESS") /\ q.status[p] # "EINIT"
  <2>1. w = q
    BY <1>3 DEF CgiWhole
  <2>2. Settled(q, p)
    BY <1>1, <1>3 DEF Stage, Settled
  <2> QED
    BY <2>1, <2>2, BecomesSame
<1>4. CASE q.status[p] = "EINIT" /\ q.kind = "cgi" /\ q.src[p] = Null
  <2>1. w = [q EXCEPT !.status[p] = "NODATA"]
    BY <1>4 DEF CgiWhole
  <2>2. Laid(q, w, p, q.table[p], "NODATA")
    BY <1>1, <2>1 DEF Laid, Shape
  <2> HIDE DEF w
  <2>9. Becomes(q, w) /\ Settled(w, p)
    BY <1>1, <1>4, <2>2, HeaderBecomes
  <2> QED
    BY <2>9 DEF w
<1>5. CASE q.status[p] = "EINIT" /\ q.kind = "cgi" /\ q.src[p] # Null
  <2> DEFINE h == q.src[p]
             t == q.table[p] \o h.entries
  <2>1. w = [q EXCEPT !.table[p] = @ \o h.entries, !.status[p] = h.status]
    BY <1>5 DEF CgiWhole
  <2>2. h.entries \in Seq(Entry) /\ h.status \notin {"EINIT", "INCOMPLETE"}
    BY <1>5, HeaderIs
  <2>3. t \in Seq(Entry) /\ t \in Tables
    BY <1>1, <2>2, ConcatProperties DEF Tables
  <2> HIDE DEF h
  <2>4. Laid(q, w, p, t, h.status)
    BY <1>1, <2>1 DEF Laid, Shape
  <2> HIDE DEF w, t
  <2>9. Becomes(q, w) /\ Settled(w, p)
    BY <1>5, <2>2, <2>3, <2>4, HeaderBecomes
  <2> QED
    BY <2>9 DEF w
<1> QED
  BY <1>2, <1>3, <1>4, <1>5

------------------------------------------------------------------------------
(* The body *)

LEMMA StartIs ==
  ASSUME NEW q, Sound(q), q.kind # "interactive"
  PROVE  Becomes(q, StartBody(q)) /\ StartBody(q).status["body"] # "EINIT"
<1> DEFINE w == StartBody(q)
           p == "body"
<1>1. Shape(q) /\ Stage(q, p) /\ p \in Places
  BY DEF Sound, Places
<1>2. CASE q.status[p] # "EINIT"
  <2>1. w = q
    BY <1>2 DEF StartBody
  <2> QED
    BY <1>2, <2>1, BecomesSame
<1>3. CASE q.status[p] = "EINIT"
  <2>1. Rows(q.table[p]) = << >> /\ q.fed = 0 /\ q.table[p] \in Tables /\ ~Settled(q, p) /\ << >> \in Tables
    BY <1>1, <1>3, SoundRows DEF Stage, Settled, Tables
  <2>2. Ext(Rows(q.table[p]), Rows(q.table[p]), Entry) /\ Ext(Rows(q.table[p]), Rows(<< >>), Entry)
    BY <2>1, RowsType, ExtEmpty
  <2>3. CASE q.src[p] = Null
    <3>1. w = [q EXCEPT !.status[p] = "NOHEADER"]
      BY <1>3, <2>3 DEF StartBody
    <3>2. Laid(q, w, p, q.table[p], "NOHEADER")
      BY <1>1, <3>1 DEF Laid, Shape
    <3> HIDE DEF w
    <3>3. w.table[p] = q.table[p] /\ w.status[p] = "NOHEADER" /\ w.kind = q.kind
      BY <1>1, <2>1, <3>2, LaidIs DEF Shape
    <3>4. Stage(w, p)
      BY <1>1, <3>3 DEF Stage
    <3>5. Becomes(q, w)
      BY <1>1, <2>1, <2>2, <3>2, <3>4, LaidBecomes
    <3> QED
      BY <3>3, <3>5 DEF w
  <2>4. CASE q.src[p] # Null
    <3>1. w = [q EXCEPT !.table[p] = << >>, !.status[p] = "INCOMPLETE"]
      BY <1>3, <2>4 DEF StartBody
    <3>2. Laid(q, w, p, << >>, "INCOMPLETE")
      BY <1>1, <3>1 DEF Laid, Shape
    <3> HIDE DEF w
    <3>3. w.table[p] = << >> /\ w.status[p] = "INCOMPLETE" /\ w.kind = q.kind /\ w.src = q.src /\ w.fed = 0
      BY <1>1, <2>1, <3>1, <3>2, LaidIs DEF Shape
    <3>4. w.fed < Len(w.src[p].blocks)
      <4>1. q.src[p].blocks \in Seq(Seq(Entry)) /\ q.src[p].blocks # << >>
        BY <1>1, <2>4 DEF Shape, IsBody
      <4> QED
        BY <3>3, <4>1
    <3>5. Stage(w, p)
      BY <2>4, <3>3, <3>4 DEF Stage
    <3>6. Becomes(q, w)
      BY <1>1, <2>1, <2>2, <3>2, <3>5, LaidBecomes
    <3> QED
      BY <3>3, <3>6 DEF w
  <2> QED
    BY <2>3, <2>4
<1> QED
  BY <1>2, <1>3

\* A step of reading adds rows, and something is left as long as it goes on.
LEMMA ReadBlocksIs ==
  ASSUME NEW q, Sound(q), q.status["body"] = "INCOMPLETE",
         NEW k \in 0 .. Len(q.src["body"].blocks) - q.fed
  PROVE  /\ Becomes(q, ReadBlocks(q, k))
         /\ k = Len(q.src["body"].blocks) - q.fed => ReadBlocks(q, k).status["body"] # "INCOMPLETE"
         /\ ReadBlocks(q, k).status["body"] # "EINIT"
         /\ ReadBlocks(q, k).kind = q.kind
<1> DEFINE p == "body"
           b == q.src[p]
           w == ReadBlocks(q, k)
           more == FlattenSeq(SubSeq(b.blocks, q.fed + 1, q.fed + k))
           t == q.table[p] \o more
           s == IF q.fed + k = Len(b.blocks) THEN b.status ELSE q.status[p]
<1>1. Shape(q) /\ Stage(q, p) /\ p \in Places
  BY DEF Sound, Places
<1>2. q.fed \in Nat /\ b # Null /\ q.table[p] \in Seq(Entry) /\ q.fed < Len(b.blocks) /\ q.kind # "interactive"
  BY <1>1 DEF Shape, Stage
<1>3. b.blocks \in Seq(Seq(Entry)) /\ b.status \notin {"EINIT", "INCOMPLETE"}
  BY <1>1, <1>2 DEF Shape, IsBody, Ended
<1>4. k \in Nat /\ q.fed + k <= Len(b.blocks) /\ Len(b.blocks) \in Nat
  BY <1>2, <1>3
<1>5. more \in Seq(Entry)
  <2> DEFINE part == SubSeq(b.blocks, q.fed + 1, q.fed + k)
  <2>1. part \in Seq(Seq(Entry))
    <3>1. q.fed + 1 \in Int /\ q.fed + k \in Int
      BY <1>2, <1>4
    <3>2. ASSUME NEW i \in q.fed + 1 .. q.fed + k PROVE b.blocks[i] \in Seq(Entry)
      <4>1. i \in 1 .. Len(b.blocks)
        BY <1>2, <1>4
      <4> HIDE DEF b
      <4> QED
        BY <4>1, <1>3
    <3> HIDE DEF b
    <3> QED
      BY <3>1, <3>2, SubSeqProperties
  <2> HIDE DEF part
  <2>2. FlattenSeq(part) \in Seq(Entry)
    BY <2>1, FlattenType
  <2> QED
    BY <2>2 DEF part
<1>6. w = [q EXCEPT !.table[p] = @ \o more, !.fed = @ + k,
                    !.status[p] = IF q.fed + k = Len(b.blocks) THEN b.status ELSE @]
  BY DEF ReadBlocks
<1> HIDE DEF w, more, b
<1>7. t \in Seq(Entry) /\ t \in Tables
  BY <1>2, <1>5, ConcatProperties DEF Tables
<1>8. w.fed = q.fed + k /\ w.fed \in Nat
  BY <1>1, <1>2, <1>4, <1>6 DEF Shape
<1>9. Laid(q, w, p, t, s)
  BY <1>1, <1>6, <1>8 DEF Laid, Shape
<1>10. s # "EINIT" /\ (s = "INCOMPLETE" => q.fed + k < Len(b.blocks))
  <2>1. CASE q.fed + k = Len(b.blocks)
    BY <2>1, <1>3
  <2>2. CASE q.fed + k # Len(b.blocks)
    <3>1. q.fed + k < Len(b.blocks)
      BY <2>2, <1>2, <1>4
    <3> QED
      BY <2>2, <3>1
  <2> QED
    BY <2>1, <2>2
<1>11. k = Len(b.blocks) - q.fed => s # "INCOMPLETE"
  BY <1>2, <1>3, <1>4
<1> HIDE DEF s, t
<1>12. w.table[p] = t /\ w.status[p] = s /\ w.kind = q.kind /\ w.src = q.src
  BY <1>1, <1>7, <1>9, LaidIs
<1>13. s # "INCOMPLETE" \/ w.fed < Len(b.blocks)
  BY <1>8, <1>10
<1>14. Stage(w, p)
  BY <1>2, <1>7, <1>8, <1>12, <1>10, <1>13 DEF Stage, b
<1>15. ~Settled(q, p)
  BY <1>2 DEF Settled
<1>16. Ext(Rows(q.table[p]), Rows(t), Entry)
  <2>1. Rows(q.table[p]) = q.table[p] /\ Rows(t) = t
    BY <1>2, <1>7, RowsType DEF Tables
  <2> QED
    BY <1>5, <2>1 DEF Ext, t
<1>17. Becomes(q, w)
  BY <1>1, <1>7, <1>9, <1>14, <1>15, <1>16, LaidBecomes
<1> QED
  BY <1>12, <1>10, <1>17, <1>11 DEF w, b

\* Reading goes on until the body is over or the name is there.
LEMMA ReadOnIs ==
  ASSUME NEW q, Sound(q), q.status["body"] # "EINIT", q.kind # "interactive", NEW n
  PROVE  /\ Becomes(q, ReadOn(q, n)) /\ ReadOn(q, n).status["body"] # "EINIT" /\ ReadOn(q, n).kind = q.kind
         /\ ReadOn(q, n).status["body"] = "INCOMPLETE" => n # Null /\ Lookup(ReadOn(q, n).table["body"], n) # Null
<1> DEFINE p == "body"
           b == q.src[p]
           left == Len(b.blocks) - q.fed
           stops(k) == k = left \/ (n # Null /\ Lookup(ReadBlocks(q, k).table[p], n) # Null)
<1>1. CASE q.status[p] # "INCOMPLETE"
  <2>1. ReadOn(q, n) = q
    BY <1>1 DEF ReadOn
  <2> QED
    BY <1>1, <2>1, BecomesSame
<1>2. CASE q.status[p] = "INCOMPLETE"
  <2>1. left \in Nat
    <3>1. Shape(q) /\ Stage(q, p)
      BY DEF Sound, Places
    <3>2. b # Null /\ q.fed \in Nat /\ q.fed < Len(b.blocks)
      BY <1>2, <3>1 DEF Shape, Stage
    <3>3. b.blocks \in Seq(Seq(Entry))
      BY <3>1, <3>2 DEF Shape, IsBody
    <3> QED
      BY <3>2, <3>3
  <2> DEFINE k == CHOOSE k \in 0 .. left : stops(k) /\ \A j \in 0 .. k - 1 : ~stops(j)
  <2>2. ReadOn(q, n) = ReadBlocks(q, k)
    BY <1>2 DEF ReadOn
  <2>3. \E m \in 0 .. left : stops(m) /\ \A j \in 0 .. m - 1 : ~stops(j)
    <3> DEFINE P == {m \in Nat : stops(m)}
    <3>1. left \in P
      BY <2>1
    <3> HIDE DEF left, stops
    <3>2. PICK m \in 0 .. left : m \in P /\ \A j \in 0 .. m - 1 : j \notin P
      BY <2>1, <3>1, Least
    <3>3. \A j \in 0 .. m - 1 : j \in Nat
      OBVIOUS
    <3> QED
      BY <3>2, <3>3
  <2> HIDE DEF left, stops
  <2>4. k \in 0 .. left /\ stops(k)
    BY <2>3
  <2> HIDE DEF k
  <2>5. /\ Becomes(q, ReadBlocks(q, k)) /\ ReadBlocks(q, k).status[p] # "EINIT" /\ ReadBlocks(q, k).kind = q.kind
        /\ k = left => ReadBlocks(q, k).status[p] # "INCOMPLETE"
    BY <1>2, <2>4, ReadBlocksIs DEF left
  <2> QED
    BY <2>2, <2>4, <2>5 DEF stops
<1> QED
  BY <1>1, <1>2

LEMMA BodyWholeIs ==
  ASSUME NEW q, Sound(q)
  PROVE  Becomes(q, BodyWhole(q)) /\ Settled(BodyWhole(q), "body")
<1>1. "body" \in Places /\ Stage(q, "body")
  BY DEF Places, Sound
<1>2. CASE q.kind = "interactive" /\ q.status["body"] # "SUCCESS"
  <2>1. BodyWhole(q) = PromptAll(q, "body")
    BY <1>2 DEF BodyWhole
  <2> QED
    BY <1>1, <1>2, <2>1, PromptAllBecomes
<1>3. CASE q.kind = "interactive" /\ q.status["body"] = "SUCCESS"
  <2>1. StartBody(q) = q
    BY <1>3 DEF StartBody
  <2>2. BodyWhole(q) = q
    BY <1>3, <2>1 DEF BodyWhole, ReadOn
  <2>3. Settled(q, "body")
    BY <1>3 DEF Settled
  <2> QED
    BY <2>2, <2>3, BecomesSame
<1>4. CASE q.kind # "interactive"
  <2> DEFINE v == StartBody(q)
             w == ReadOn(v, Null)
  <2>1. BodyWhole(q) = w
    BY <1>4 DEF BodyWhole
  <2>2. Becomes(q, v) /\ v.status["body"] # "EINIT"
    BY <1>4, StartIs
  <2>3. Sound(v) /\ v.kind # "interactive"
    BY <1>4, <2>2 DEF Becomes, Follows
  <2> HIDE DEF v
  <2>4. Becomes(v, w) /\ w.status["body"] \notin {"EINIT", "INCOMPLETE"} /\ w.kind = v.kind
    BY <2>2, <2>3, ReadOnIs
  <2> HIDE DEF w
  <2>5. Becomes(q, w)
    BY <2>2, <2>4, BecomesTrans
  <2>6. Settled(w, "body")
    BY <2>3, <2>4 DEF Settled
  <2> QED
    BY <2>1, <2>5, <2>6
<1> QED
  BY <1>2, <1>3, <1>4

\* A whole place is parsed once: what was there stays, and it is settled.
LEMMA WholeIs ==
  ASSUME NEW q, Sound(q), NEW p \in Places
  PROVE  Becomes(q, Whole(q, p)) /\ Settled(Whole(q, p), p)
<1>1. CASE p = "body"
  <2>1. Whole(q, p) = BodyWhole(q)
    BY <1>1 DEF Whole
  <2> QED
    BY <1>1, <2>1, BodyWholeIs
<1>2. CASE p # "body" /\ q.kind = "apache2"
  <2>1. Whole(q, p) = Apache2Whole(q, p)
    BY <1>2 DEF Whole
  <2> QED
    BY <1>2, <2>1, Apache2WholeIs
<1>3. CASE p # "body" /\ q.kind = "custom"
  <2>1. Whole(q, p) = q
    BY <1>3 DEF Whole
  <2>2. Settled(q, p)
    BY <1>3 DEF Sound, Stage, Settled
  <2> QED
    BY <2>1, <2>2, BecomesSame
<1>4. CASE p # "body" /\ q.kind \in {"cgi", "interactive"}
  <2>1. Whole(q, p) = CgiWhole(q, p)
    BY <1>4 DEF Whole
  <2> QED
    BY <1>4, <2>1, CgiWholeIs
<1>5. q.kind \in {"apache2", "custom", "cgi", "interactive"}
  BY DEF Sound, Shape, Kinds
<1> QED
  BY <1>1, <1>2, <1>3, <1>4, <1>5

------------------------------------------------------------------------------
(* Single names *)

\* The place's first value of the name is v; or it is settled without one.
First(q, p, n, v) == Values(q.table[p], n) # << >> /\ Values(q.table[p], n)[1] = v
Without(q, p, n) == Settled(q, p) /\ Values(q.table[p], n) = << >>

\* What comes of looking for a name: r is the handle after it, v the value.
Got(q, p, n, r, v) ==
    /\ Becomes(q, r)
    /\ v # Null => v \in Val /\ ((q.kind = "interactive" => p # "body") => First(r, p, n, v))
    /\ v = Null /\ q.kind # "interactive" => Without(r, p, n)

\* A lookup in a place that is settled, or in which the name was found
LEMMA GotLookup ==
  ASSUME NEW q, NEW r, NEW p \in Places, NEW n, Becomes(q, r),
         Lookup(r.table[p], n) = Null /\ q.kind # "interactive" => Settled(r, p)
  PROVE  Got(q, p, n, r, Lookup(r.table[p], n))
<1>1. r.table[p] \in Tables
  BY SoundRows DEF Becomes
<1> QED
  BY <1>1, LookupIs DEF Got, First, Without

LEMMA GotTyped ==
  ASSUME NEW q, Sound(q), q.kind = "interactive", NEW p \in Places, NEW n \in Names,
         Lookup(q.table[p], n) = Null \/ p = "body"
  PROVE  Got(q, p, n, PromptOne(q, p, n).req, PromptOne(q, p, n).val)
<1> DEFINE r == PromptOne(q, p, n).req
           v == PromptOne(q, p, n).val
           e == [key |-> n, val |-> v]
<1>1. /\ Becomes(q, r)
      /\ v # Null => v \in Val /\ r.table[p] = Append(q.table[p], e)
  BY AddBecomes
<1> HIDE DEF r, v, e
<1>2. ASSUME v # Null, p # "body" PROVE First(r, p, n, v)
  <2>1. q.table[p] \in Seq(Entry) /\ q.table[p] \in Tables
    BY DEF Sound, Stage, Tables
  <2>2. Values(q.table[p], n) = << >>
    BY <1>2, <2>1, LookupIs
  <2>3. e \in Entry /\ <<e>> \in Seq(Entry) /\ r.table[p] = q.table[p] \o <<e>>
    <3>1. v \in Val /\ r.table[p] = Append(q.table[p], e)
      BY <1>1, <1>2
    <3>2. e \in Entry
      BY <3>1, EntryType DEF e
    <3>3. Append(q.table[p], e) = q.table[p] \o <<e>>
      BY <2>1, <3>2
    <3>4. <<e>> \in Seq(Entry)
      BY <3>2
    <3> QED
      BY <3>1, <3>2, <3>3, <3>4
  <2>4. Values(<<e>>, n) = <<v>>
    BY <2>3, ValuesOne DEF e, Same
  <2>5. Values(r.table[p], n) = << >> \o <<v>>
    <3>1. Values(q.table[p] \o <<e>>, n) = Values(q.table[p], n) \o Values(<<e>>, n)
      BY <2>1, <2>3, ValuesConcat
    <3> QED
      BY <3>1, <2>2, <2>3, <2>4
  <2> QED
    BY <2>5 DEF First
<1> QED
  BY <1>1, <1>2 DEF Got, r, v

LEMMA GetIs ==
  ASSUME NEW q, Sound(q), NEW p \in Places, NEW n \in Names
  PROVE  Got(q, p, n, Get(q, p, n).req, Get(q, p, n).val)
<1> DEFINE g == Get(q, p, n)
<1>1. q.kind \in {"apache2", "custom", "cgi", "interactive"} /\ n # Null
  BY LowerAssumption DEF Sound, Shape, Kinds
<1>2. CASE p # "body" /\ q.kind = "apache2"
  <2> DEFINE w == Apache2Whole(q, p)
  <2>1. g = [req |-> w, val |-> Lookup(w.table[p], n)]
    BY <1>2 DEF Get, Apache2Get
  <2>2. Becomes(q, w) /\ Settled(w, p)
    BY <1>2, Apache2WholeIs
  <2> HIDE DEF w
  <2>3. Got(q, p, n, w, Lookup(w.table[p], n))
    BY <2>2, GotLookup
  <2> QED
    BY <2>1, <2>3
<1>3. CASE p # "body" /\ q.kind = "custom"
  <2>1. g = [req |-> q, val |-> Lookup(q.table[p], n)]
    BY <1>3 DEF Get, CustomGet
  <2>2. Becomes(q, q) /\ Settled(q, p)
    BY <1>3, BecomesSame DEF Sound, Stage, Settled
  <2>3. Got(q, p, n, q, Lookup(q.table[p], n))
    BY <2>2, GotLookup
  <2> QED
    BY <2>1, <2>3
<1>4. CASE p # "body" /\ q.kind = "cgi"
  <2> DEFINE w == CgiWhole(q, p)
  <2>1. g = [req |-> w, val |-> Lookup(w.table[p], n)]
    BY <1>4 DEF Get, CgiGet
  <2>2. Becomes(q, w) /\ Settled(w, p)
    BY <1>4, CgiWholeIs
  <2> HIDE DEF w
  <2>3. Got(q, p, n, w, Lookup(w.table[p], n))
    BY <2>2, GotLookup
  <2> QED
    BY <2>1, <2>3
<1>5. CASE p # "body" /\ q.kind = "interactive"
  <2>1. CASE Lookup(q.table[p], n) = Null
    <3>1. g = PromptOne(q, p, n)
      BY <1>5, <2>1 DEF Get, CgiGet
    <3> QED
      BY <1>5, <2>1, <3>1, GotTyped
  <2>2. CASE Lookup(q.table[p], n) # Null
    <3>1. g = [req |-> q, val |-> Lookup(q.table[p], n)]
      BY <1>5, <2>2 DEF Get, CgiGet
    <3>2. Got(q, p, n, q, Lookup(q.table[p], n))
      BY <1>5, BecomesSame, GotLookup
    <3> QED
      BY <3>1, <3>2
  <2> QED
    BY <2>1, <2>2
<1>6. CASE p = "body" /\ q.kind # "interactive"
  <2> DEFINE v == StartBody(q)
             w == ReadOn(v, n)
  <2>1. g = [req |-> w, val |-> Lookup(w.table[p], n)]
    BY <1>6 DEF Get, BodyGet
  <2>2. Becomes(q, v) /\ v.status["body"] # "EINIT"
    BY <1>6, StartIs
  <2>3. Sound(v) /\ v.kind # "interactive"
    BY <1>6, <2>2 DEF Becomes, Follows
  <2> HIDE DEF v
  <2>4. /\ Becomes(v, w) /\ w.status["body"] # "EINIT" /\ w.kind = v.kind
        /\ w.status["body"] = "INCOMPLETE" => Lookup(w.table["body"], n) # Null
    BY <2>2, <2>3, ReadOnIs
  <2> HIDE DEF w
  <2>5. Becomes(q, w)
    BY <2>2, <2>4, BecomesTrans
  <2>6. Lookup(w.table[p], n) = Null => Settled(w, p)
    BY <1>6, <2>3, <2>4 DEF Settled
  <2>7. Got(q, p, n, w, Lookup(w.table[p], n))
    BY <2>5, <2>6, GotLookup
  <2> QED
    BY <2>1, <2>7
<1>7. CASE p = "body" /\ q.kind = "interactive"
  <2>1. CASE Lookup(q.table[p], n) # Null
    <3>1. g = PromptOne(q, p, n)
      BY <1>7, <2>1 DEF Get, BodyGet
    <3> QED
      BY <1>7, <3>1, GotTyped
  <2>2. CASE Lookup(q.table[p], n) = Null
    <3>1. g = [req |-> q, val |-> Null]
      BY <1>7, <2>2 DEF Get, BodyGet
    <3>2. Got(q, p, n, q, Null)
      BY <1>7, BecomesSame DEF Got
    <3> QED
      BY <3>1, <3>2
  <2> QED
    BY <2>1, <2>2
<1> QED
  BY <1>1, <1>2, <1>3, <1>4, <1>5, <1>6, <1>7

\* What was found, or found to be missing, stays so.
LEMMA FirstStays ==
  ASSUME NEW q, NEW w, NEW p, NEW n, NEW v, p \in Places, Sound(q), Becomes(q, w), First(q, p, n, v)
  PROVE  First(w, p, n, v)
<1>1. /\ q.table[p] \in Tables /\ w.table[p] \in Tables
      /\ Rows(q.table[p]) \in Seq(Entry) /\ Rows(w.table[p]) \in Seq(Entry)
  BY SoundRows DEF Becomes
<1>2. Ext(Rows(q.table[p]), Rows(w.table[p]), Entry)
  BY DEF Becomes, Follows, KeepsPlace
<1>3. Ext(Values(q.table[p], n), Values(w.table[p], n), Val)
  <2>1. Ext(Values(Rows(q.table[p]), n), Values(Rows(w.table[p]), n), Val)
    BY <1>1, <1>2, ValuesExt
  <2> QED
    BY <1>1, <2>1, ValuesAre
<1>4. Values(q.table[p], n) \in Seq(Val)
  BY <1>1, ValuesAre
<1> DEFINE a == Values(q.table[p], n)
           b == Values(w.table[p], n)
<1>5. a \in Seq(Val) /\ Ext(a, b, Val) /\ a # << >> /\ a[1] = v
  BY <1>3, <1>4 DEF First
<1> HIDE DEF a, b
<1>6. b \in Seq(Val) /\ 1 \in DOMAIN b /\ b[1] = v
  <2>1. 1 \in DOMAIN a
    BY <1>5
  <2> QED
    BY <1>5, <2>1, ExtIs
<1>7. b # << >> /\ b[1] = v
  BY <1>6
<1> QED
  BY <1>7 DEF First, b

\* The values of a place grow at the end, and not any more when it is settled.
ValuesKept(q, w, p, n) ==
    /\ Ext(Values(q.table[p], n), Values(w.table[p], n), Val)
    /\ Settled(q, p) /\ q.kind # "interactive" => Values(w.table[p], n) = Values(q.table[p], n)
    /\ Values(q.table[p], n) \in Seq(Val) /\ Values(w.table[p], n) \in Seq(Val)

LEMMA ValuesStay ==
  ASSUME NEW q, NEW w, NEW p, NEW n, p \in Places, Sound(q), Becomes(q, w)
  PROVE  ValuesKept(q, w, p, n)
<1>1. /\ q.table[p] \in Tables /\ w.table[p] \in Tables
      /\ Rows(q.table[p]) \in Seq(Entry) /\ Rows(w.table[p]) \in Seq(Entry)
  BY SoundRows DEF Becomes
<1>2. KeepsPlace(q, w, p)
  BY DEF Becomes, Follows
<1>3. /\ Values(Rows(q.table[p]), n) = Values(q.table[p], n)
      /\ Values(Rows(w.table[p]), n) = Values(w.table[p], n)
      /\ Values(q.table[p], n) \in Seq(Val) /\ Values(w.table[p], n) \in Seq(Val)
  BY <1>1, ValuesAre
<1>4. Ext(Values(Rows(q.table[p]), n), Values(Rows(w.table[p]), n), Val)
  BY <1>1, <1>2, ValuesExt DEF KeepsPlace
<1>5. Settled(q, p) /\ q.kind # "interactive" => Rows(w.table[p]) = Rows(q.table[p])
  BY <1>2 DEF KeepsPlace
<1> QED
  BY <1>3, <1>4, <1>5 DEF ValuesKept

LEMMA WithoutStays ==
  ASSUME NEW q, NEW w, NEW p, NEW n,
         p \in Places, Sound(q), Becomes(q, w), q.kind # "interactive", Without(q, p, n)
  PROVE  Without(w, p, n)
<1>1. ValuesKept(q, w, p, n)
  BY ValuesStay
<1>2. Settled(w, p)
  BY SettledStays DEF Without
<1> QED
  BY <1>1, <1>2 DEF Without, ValuesKept

------------------------------------------------------------------------------
(* What the script was told *)

\* The terminal is asked.
Asks(q) == q.kind = "interactive"

\* A method dies if, and only if, the place it is about has failed.
DiesWith(o, q) == o.died <=> IsError(q.status[o.place]) /\ ~o.error

\* A list has every value there is; at the terminal more may be typed behind it.
ListTold(o, q) ==
    LET p == o.place n == o.key IN
    /\ p \in Places => /\ Settled(q, p) /\ DiesWith(o, q)
                       /\ ~o.died => /\ o.vals \in Seq(Val)
                                     /\ IF Asks(q) THEN IsPrefix(o.vals, Values(q.table[p], n))
                                        ELSE o.vals = Values(q.table[p], n)
    /\ p = "param" => /\ ~o.died
                      /\ ~Asks(q) => /\ Settled(q, "args") /\ Settled(q, "body")
                                     /\ o.vals = Values(q.table["args"], n) \o Values(q.table["body"], n)

\* One value is the first of the place; of the two places, the query string's
\* first.
OneTold(o, q) ==
    LET p == o.place n == o.key v == o.vals[1] IN
    /\ ~o.died
    /\ p \in Places /\ (Asks(q) => p # "body") => First(q, p, n, v)
    /\ p = "param" /\ ~Asks(q) => \/ First(q, "args", n, v)
                                  \/ Without(q, "args", n) /\ First(q, "body", n, v)

\* No value is told of a place that is settled without one.
NoneTold(o, q) ==
    LET p == o.place n == o.key IN
    /\ p \in Places => Settled(q, p) /\ DiesWith(o, q) /\ (~Asks(q) => Without(q, p, n))
    /\ p = "param" => ~o.died /\ (~Asks(q) => Without(q, "args", n) /\ Without(q, "body", n))

\* No table
TableTold(o, q) == o.place \in Places /\ Settled(q, o.place) /\ DiesWith(o, q) /\ o.vals = << >>

\* What is fetched from a tied hash, by name or where its iterator is, is one of
\* the name's values.
FetchTold(o, q) ==
    LET now == Values(q.table[o.place], o.key) IN
    /\ o.place \in Places /\ ~o.died
    /\ o.vals # << >> => \E i \in DOMAIN now : o.vals = <<now[i]>>
    /\ o.vals = << >> => Asks(q) \/ Without(q, o.place, o.key)

\* A callback has seen the first values of the name.
DoTold(o, q) ==
    LET now == Values(q.table[o.place], o.key) IN
    /\ o.place \in Places /\ ~o.died /\ o.vals \in Seq(Val) /\ now # << >> /\ IsPrefix(o.vals, now)

\* The outcome that is remembered is so in the handle as it is now.
Told(o, q) ==
    /\ o.call \in {"none", "list", "scalar", "table", "fetch", "do"}
    /\ o.call # "none" => o.place \in Methods
    /\ o.call = "list" => ListTold(o, q)
    /\ o.call = "scalar" => IF o.vals = << >> THEN NoneTold(o, q) ELSE OneTold(o, q)
    /\ o.call = "table" => TableTold(o, q)
    /\ o.call = "fetch" => FetchTold(o, q)
    /\ o.call = "do" => DoTold(o, q)

LEMMA DiesStays ==
  ASSUME NEW o, NEW q, NEW w, Becomes(q, w), o.place \in Places, Settled(q, o.place), DiesWith(o, q)
  PROVE  DiesWith(o, w) /\ Settled(w, o.place)
BY SettledStays DEF DiesWith

LEMMA AsksStays == ASSUME NEW q, NEW w, Becomes(q, w) PROVE (Asks(w) <=> Asks(q)) /\ w.kind = q.kind /\ Sound(w)
BY DEF Becomes, Follows, Asks

LEMMA ListStays ==
  ASSUME NEW o, NEW q, NEW w, Sound(q), Becomes(q, w), ListTold(o, q) PROVE ListTold(o, w)
<1> DEFINE p == o.place
           n == o.key
<1>1. ASSUME p \in Places PROVE Settled(w, p) /\ DiesWith(o, w)
  BY <1>1, DiesStays DEF ListTold
<1>2. ASSUME p \in Places, ~o.died
      PROVE  /\ o.vals \in Seq(Val)
             /\ IF Asks(w) THEN IsPrefix(o.vals, Values(w.table[p], n)) ELSE o.vals = Values(w.table[p], n)
  <2>1. /\ Ext(Values(q.table[p], n), Values(w.table[p], n), Val)
        /\ Settled(q, p) /\ ~Asks(q) => Values(w.table[p], n) = Values(q.table[p], n)
        /\ Values(q.table[p], n) \in Seq(Val)
    <3>1. ValuesKept(q, w, p, n)
      BY <1>2, ValuesStay
    <3> QED
      BY <3>1 DEF Asks, ValuesKept
  <2>2. /\ Settled(q, p) /\ o.vals \in Seq(Val)
        /\ IF Asks(q) THEN IsPrefix(o.vals, Values(q.table[p], n)) ELSE o.vals = Values(q.table[p], n)
    BY <1>2 DEF ListTold
  <2>3. CASE Asks(q)
    <3>1. IsPrefix(o.vals, Values(w.table[p], n))
      BY <2>1, <2>2, <2>3, PrefixExt
    <3> QED
      BY <2>2, <2>3, <3>1, AsksStays
  <2>4. CASE ~Asks(q)
    BY <2>1, <2>2, <2>4, AsksStays
  <2> QED
    BY <2>3, <2>4
<1>3. ASSUME p = "param", ~Asks(w)
      PROVE  /\ Settled(w, "args") /\ Settled(w, "body")
             /\ o.vals = Values(w.table["args"], n) \o Values(w.table["body"], n)
  <2>1. "args" \in Places /\ "body" \in Places /\ ~Asks(q)
    BY <1>3, AsksStays DEF Places
  <2>2. /\ Settled(q, "args") /\ Settled(q, "body")
        /\ o.vals = Values(q.table["args"], n) \o Values(q.table["body"], n)
    BY <1>3, <2>1 DEF ListTold
  <2>3. /\ Values(w.table["args"], n) = Values(q.table["args"], n)
        /\ Values(w.table["body"], n) = Values(q.table["body"], n)
    <3>1. ValuesKept(q, w, "args", n) /\ ValuesKept(q, w, "body", n)
      BY <2>1, ValuesStay
    <3> QED
      BY <2>1, <2>2, <3>1 DEF Asks, ValuesKept
  <2>4. Settled(w, "args") /\ Settled(w, "body")
    BY <2>1, <2>2, SettledStays
  <2> QED
    BY <2>2, <2>3, <2>4
<1>4. p = "param" => ~o.died
  BY DEF ListTold
<1> QED
  BY <1>1, <1>2, <1>3, <1>4 DEF ListTold

LEMMA OneStays ==
  ASSUME NEW o, NEW q, NEW w, Sound(q), Becomes(q, w), OneTold(o, q) PROVE OneTold(o, w)
<1> DEFINE p == o.place
           n == o.key
           v == o.vals[1]
<1>1. ~o.died /\ (Asks(w) <=> Asks(q)) /\ "args" \in Places /\ "body" \in Places
  BY AsksStays DEF OneTold, Places
<1>2. ASSUME p \in Places, Asks(w) => p # "body" PROVE First(w, p, n, v)
  <2>1. First(q, p, n, v)
    BY <1>1, <1>2 DEF OneTold
  <2> QED
    BY <1>2, <2>1, FirstStays
<1>3. ASSUME p = "param", ~Asks(w)
      PROVE  First(w, "args", n, v) \/ (Without(w, "args", n) /\ First(w, "body", n, v))
  <2>1. q.kind # "interactive"
    BY <1>1, <1>3 DEF Asks
  <2>2. First(q, "args", n, v) \/ (Without(q, "args", n) /\ First(q, "body", n, v))
    BY <1>1, <1>3 DEF OneTold
  <2>3. CASE First(q, "args", n, v)
    <3>1. First(w, "args", n, v)
      BY <1>1, <2>3, FirstStays
    <3> QED
      BY <3>1
  <2>4. CASE Without(q, "args", n) /\ First(q, "body", n, v)
    BY <1>1, <2>1, <2>4, FirstStays, WithoutStays
  <2> QED
    BY <2>2, <2>3, <2>4
<1> QED
  BY <1>1, <1>2, <1>3 DEF OneTold

LEMMA NoneStays ==
  ASSUME NEW o, NEW q, NEW w, Sound(q), Becomes(q, w), NoneTold(o, q) PROVE NoneTold(o, w)
<1> DEFINE p == o.place
           n == o.key
<1>1. (Asks(w) <=> Asks(q)) /\ "args" \in Places /\ "body" \in Places
  BY AsksStays DEF Places
<1>2. ASSUME p \in Places PROVE Settled(w, p) /\ DiesWith(o, w)
  BY <1>2, DiesStays DEF NoneTold
<1>3. ASSUME p \in Places, ~Asks(w) PROVE Without(w, p, n)
  <2>1. Without(q, p, n) /\ q.kind # "interactive"
    BY <1>1, <1>3 DEF NoneTold, Asks
  <2> QED
    BY <1>3, <2>1, WithoutStays
<1>4. ASSUME p = "param", ~Asks(w) PROVE Without(w, "args", n) /\ Without(w, "body", n)
  <2>1. Without(q, "args", n) /\ Without(q, "body", n) /\ q.kind # "interactive"
    BY <1>1, <1>4 DEF NoneTold, Asks
  <2> QED
    BY <1>1, <2>1, WithoutStays
<1>5. p = "param" => ~o.died
  BY DEF NoneTold
<1> QED
  BY <1>2, <1>3, <1>4, <1>5 DEF NoneTold

LEMMA FetchStays ==
  ASSUME NEW o, NEW q, NEW w, Sound(q), Becomes(q, w), FetchTold(o, q) PROVE FetchTold(o, w)
<1> DEFINE a == Values(q.table[o.place], o.key)
           b == Values(w.table[o.place], o.key)
<1>1. o.place \in Places /\ ~o.died
  BY DEF FetchTold
<1>2. ASSUME o.vals # << >> PROVE \E i \in DOMAIN b : o.vals = <<b[i]>>
  <2>1. PICK i \in DOMAIN a : o.vals = <<a[i]>>
    BY <1>2 DEF FetchTold
  <2>2. Ext(a, b, Val) /\ a \in Seq(Val)
    BY <1>1, ValuesStay DEF ValuesKept
  <2> HIDE DEF a, b
  <2>3. i \in DOMAIN b /\ b[i] = a[i]
    BY <2>1, <2>2, ExtIs
  <2> QED
    BY <2>1, <2>3
<1>3. ASSUME o.vals = << >>, ~Asks(w) PROVE Without(w, o.place, o.key)
  <2>1. Without(q, o.place, o.key) /\ q.kind # "interactive"
    BY <1>3, AsksStays DEF FetchTold, Asks
  <2> QED
    BY <1>1, <2>1, WithoutStays
<1> QED
  BY <1>1, <1>2, <1>3 DEF FetchTold

LEMMA DoStays ==
  ASSUME NEW o, NEW q, NEW w, Sound(q), Becomes(q, w), DoTold(o, q) PROVE DoTold(o, w)
<1> DEFINE a == Values(q.table[o.place], o.key)
           b == Values(w.table[o.place], o.key)
<1>1. o.place \in Places /\ ~o.died /\ o.vals \in Seq(Val) /\ a # << >> /\ IsPrefix(o.vals, a)
  BY DEF DoTold
<1>2. Ext(a, b, Val) /\ a \in Seq(Val) /\ b \in Seq(Val)
  BY <1>1, ValuesStay DEF ValuesKept
<1> HIDE DEF a, b
<1>3. IsPrefix(o.vals, b)
  BY <1>1, <1>2, PrefixExt
<1>4. Len(a) <= Len(b) /\ Len(a) # 0
  BY <1>1, <1>2, ExtIs
<1>5. b # << >>
  BY <1>2, <1>4
<1> QED
  BY <1>1, <1>3, <1>5 DEF DoTold, b

\* Whatever the script was told stands.
LEMMA ToldStays ==
  ASSUME NEW o, NEW q, NEW w, Sound(q), Becomes(q, w), Told(o, q) PROVE Told(o, w)
<1>1. TableTold(o, q) => TableTold(o, w)
  BY DiesStays DEF TableTold
<1> QED
  BY <1>1, ListStays, OneStays, NoneStays, FetchStays, DoStays DEF Told

------------------------------------------------------------------------------
(* The methods *)

\* A call leaves a later state of the handle, and whatever it tells is so there.
Goes == Becomes(req, req') /\ Told(told', req')

LEMMA AnswerGoes ==
  ASSUME NEW w, NEW o, Sound(req), Told(told, req), Becomes(req, w), Told(o, w), req' = w, Answers(o)
  PROVE  Goes
<1>1. told' = told \/ told' = o
  BY DEF Answers
<1>2. Told(told, w)
  BY ToldStays
<1> QED
  BY <1>1, <1>2 DEF Goes

LEMMA PlacesAre == Places = {"jar", "args", "body"} /\ Places \subseteq Methods /\ "param" \in Methods /\ "param" \notin Places
BY DEF Places, Methods

LEMMA NothingTold ==
  ASSUME NEW p, NEW n, NEW died, NEW error, NEW w, p \in Methods,
         NoneTold(Outcome("scalar", p, n, << >>, died, error), w)
  PROVE  Told(Outcome("scalar", p, n, << >>, died, error), w)
BY DEF Told, Outcome

LEMMA SomethingTold ==
  ASSUME NEW p, NEW n, NEW v, NEW error, NEW w, p \in Methods,
         OneTold(Outcome("scalar", p, n, <<v>>, FALSE, error), w)
  PROVE  Told(Outcome("scalar", p, n, <<v>>, FALSE, error), w)
BY DEF Told, Outcome

LEMMA ScalarGoes ==
  ASSUME NEW p \in Places, NEW n \in Names, NEW error, Sound(req), Told(told, req), ScalarCall(p, n, error)
  PROVE  Goes
<1> DEFINE g == Get(req, p, n)
           r == g.req
           w == Whole(r, p)
<1>1. Got(req, p, n, r, g.val)
  BY GetIs
<1>2. Becomes(req, r) /\ Sound(r) /\ (Asks(r) <=> Asks(req)) /\ p \in Methods
  BY <1>1, AsksStays, PlacesAre DEF Got
<1>3. CASE g.val # Null
  <2> DEFINE o == Outcome("scalar", p, n, <<g.val>>, FALSE, error)
  <2>1. req' = r /\ Answers(o)
    BY <1>3 DEF ScalarCall
  <2>2. OneTold(o, r)
    <3>1. o.vals[1] = g.val /\ ~o.died /\ o.place = p /\ o.key = n
      BY DEF Outcome
    <3>2. (Asks(r) => p # "body") => First(r, p, n, g.val)
      BY <1>1, <1>2, <1>3 DEF Got, Asks
    <3> QED
      BY <3>1, <3>2, PlacesAre DEF OneTold
  <2>3. Told(o, r)
    BY <1>2, <2>2, SomethingTold
  <2> HIDE DEF o, r
  <2> QED
    BY <1>2, <2>1, <2>3, AnswerGoes
<1>4. CASE g.val = Null
  <2> DEFINE o == Outcome("scalar", p, n, << >>, Dies(w, p, error), error)
  <2>1. req' = w /\ Answers(o)
    BY <1>4 DEF ScalarCall
  <2>2. Becomes(r, w) /\ Settled(w, p)
    BY <1>2, WholeIs
  <2>3. Becomes(req, w) /\ (Asks(w) <=> Asks(r))
    BY <1>2, <2>2, BecomesTrans, AsksStays
  <2>4. ~Asks(w) => Without(w, p, n)
    <3>1. ~Asks(w) => Without(r, p, n) /\ r.kind # "interactive"
      BY <1>1, <1>2, <1>4, <2>3 DEF Got, Asks
    <3> QED
      BY <1>2, <2>2, <3>1, WithoutStays
  <2>5. NoneTold(o, w)
    <3>1. o.place = p /\ o.key = n /\ o.error = error /\ o.died = Dies(w, p, error)
      BY DEF Outcome
    <3>2. DiesWith(o, w)
      BY <3>1 DEF DiesWith, Dies
    <3> QED
      BY <2>2, <2>4, <3>1, <3>2, PlacesAre DEF NoneTold
  <2>6. Told(o, w)
    BY <1>2, <2>5, NothingTold
  <2> HIDE DEF o, w
  <2> QED
    BY <2>1, <2>3, <2>6, AnswerGoes
<1> QED
  BY <1>3, <1>4

LEMMA ListGoes ==
  ASSUME NEW p \in Places, NEW n \in Names, NEW error, Sound(req), Told(told, req), ListCall(p, n, error)
  PROVE  Goes
<1> DEFINE w == Whole(req, p)
           dies == Dies(w, p, error)
           o == Outcome("list", p, n, IF dies THEN << >> ELSE Values(w.table[p], n), dies, error)
<1>1. req' = w /\ Answers(o)
  BY DEF ListCall
<1>2. Becomes(req, w) /\ Settled(w, p)
  BY WholeIs
<1>3. Sound(w) /\ p \in Methods
  BY <1>2, AsksStays, PlacesAre
<1>4. /\ o.call = "list" /\ o.place = p /\ o.key = n /\ o.error = error /\ o.died = dies
      /\ o.vals = IF dies THEN << >> ELSE Values(w.table[p], n)
  BY DEF Outcome
<1>5. Values(w.table[p], n) \in Seq(Val) /\ IsPrefix(Values(w.table[p], n), Values(w.table[p], n))
  BY <1>3, SoundRows, ValuesAre, PrefixSame
<1>6. DiesWith(o, w)
  BY <1>4 DEF DiesWith, Dies
<1> HIDE DEF o, w
<1>7. ListTold(o, w)
  BY <1>2, <1>4, <1>5, <1>6, PlacesAre DEF ListTold
<1>8. Told(o, w)
  BY <1>3, <1>4, <1>7 DEF Told
<1> QED
  BY <1>1, <1>2, <1>8, AnswerGoes

LEMMA ParamGoes ==
  ASSUME NEW n \in Names, Sound(req), Told(told, req), ParamScalarCall(n)
  PROVE  Goes
<1> DEFINE a == Get(req, "args", n)
           b == Get(a.req, "body", n)
           g == Param(req, n)
<1>1. Got(req, "args", n, a.req, a.val)
  BY GetIs, PlacesAre
<1>2. Becomes(req, a.req) /\ Sound(a.req) /\ (Asks(a.req) <=> Asks(req))
  BY <1>1, AsksStays DEF Got
<1>3. req' = g.req /\ Answers(Outcome("scalar", "param", n, IF g.val = Null THEN << >> ELSE <<g.val>>, FALSE, FALSE))
  BY DEF ParamScalarCall
<1>4. CASE a.val # Null
  <2> DEFINE o == Outcome("scalar", "param", n, <<a.val>>, FALSE, FALSE)
             r == a.req
  <2>1. req' = r /\ Answers(o)
    BY <1>3, <1>4 DEF Param
  <2>2. OneTold(o, r)
    <3>1. o.vals[1] = a.val /\ ~o.died /\ o.place = "param" /\ o.key = n
      BY DEF Outcome
    <3>2. ~Asks(r) => First(r, "args", n, a.val)
      BY <1>1, <1>2, <1>4 DEF Got, Asks
    <3> QED
      BY <3>1, <3>2, PlacesAre DEF OneTold
  <2>3. Told(o, r)
    BY <2>2, SomethingTold, PlacesAre
  <2> HIDE DEF o, r
  <2> QED
    BY <1>2, <2>1, <2>3, AnswerGoes DEF r
<1>5. CASE a.val = Null
  <2> DEFINE r == a.req
             w == b.req
  <2>1. Got(r, "body", n, w, b.val)
    BY <1>2, GetIs, PlacesAre
  <2>2. Becomes(r, w) /\ Sound(w) /\ (Asks(w) <=> Asks(r))
    BY <2>1, AsksStays DEF Got
  <2>3. Becomes(req, w)
    BY <1>2, <2>2, BecomesTrans
  <2>4. g = b
    BY <1>5 DEF Param
  <2>5. ~Asks(w) => Without(w, "args", n)
    <3>1. ~Asks(w) => Without(r, "args", n) /\ r.kind # "interactive"
      BY <1>1, <1>2, <1>5, <2>2 DEF Got, Asks
    <3> QED
      BY <1>2, <2>2, <3>1, WithoutStays, PlacesAre
  <2>6. CASE b.val # Null
    <3> DEFINE o == Outcome("scalar", "param", n, <<b.val>>, FALSE, FALSE)
    <3>1. req' = w /\ Answers(o)
      BY <1>3, <2>4, <2>6
    <3>2. OneTold(o, w)
      <4>1. o.vals[1] = b.val /\ ~o.died /\ o.place = "param" /\ o.key = n
        BY DEF Outcome
      <4>2. ~Asks(w) => First(w, "body", n, b.val)
        BY <2>1, <2>2, <2>6 DEF Got, Asks
      <4> QED
        BY <2>5, <4>1, <4>2, PlacesAre DEF OneTold
    <3>3. Told(o, w)
      BY <3>2, SomethingTold, PlacesAre
    <3> HIDE DEF o, w
    <3> QED
      BY <2>3, <3>1, <3>3, AnswerGoes
  <2>7. CASE b.val = Null
    <3> DEFINE o == Outcome("scalar", "param", n, << >>, FALSE, FALSE)
    <3>1. req' = w /\ Answers(o)
      BY <1>3, <2>4, <2>7
    <3>2. NoneTold(o, w)
      <4>1. ~o.died /\ o.place = "param" /\ o.key = n
        BY DEF Outcome
      <4>2. ~Asks(w) => Without(w, "body", n)
        BY <2>1, <2>2, <2>7 DEF Got, Asks
      <4> QED
        BY <2>5, <4>1, <4>2, PlacesAre DEF NoneTold
    <3>3. Told(o, w)
      BY <3>2, NothingTold, PlacesAre
    <3> HIDE DEF o, w
    <3> QED
      BY <2>3, <3>1, <3>3, AnswerGoes
  <2> QED
    BY <2>6, <2>7
<1> QED
  BY <1>4, <1>5

\* Both places whole, the arguments first
LEMMA BothWhole ==
  ASSUME Sound(req)
  PROVE  LET w == Whole(Whole(req, "args"), "body") IN
         Becomes(req, w) /\ Settled(w, "args") /\ Settled(w, "body")
<1> DEFINE v == Whole(req, "args")
           w == Whole(v, "body")
<1>1. Becomes(req, v) /\ Settled(v, "args")
  BY WholeIs, PlacesAre
<1>2. Sound(v)
  BY <1>1, AsksStays
<1> HIDE DEF v
<1>3. Becomes(v, w) /\ Settled(w, "body")
  BY <1>2, WholeIs, PlacesAre
<1> HIDE DEF w
<1>4. Becomes(req, w) /\ Settled(w, "args")
  BY <1>1, <1>3, BecomesTrans, SettledStays, PlacesAre
<1> QED
  BY <1>3, <1>4 DEF v, w

LEMMA ParamListGoes ==
  ASSUME NEW n \in Names, Sound(req), Told(told, req), ParamListCall(n)
  PROVE  Goes
<1> DEFINE w == Whole(Whole(req, "args"), "body")
           o == Outcome("list", "param", n, Values(w.table["args"], n) \o Values(w.table["body"], n), FALSE, FALSE)
<1>1. req' = w /\ Answers(o)
  BY DEF ParamListCall
<1>2. Becomes(req, w) /\ Settled(w, "args") /\ Settled(w, "body")
  BY BothWhole
<1>3. /\ o.call = "list" /\ o.place = "param" /\ o.key = n /\ ~o.died
      /\ o.vals = Values(w.table["args"], n) \o Values(w.table["body"], n)
  BY DEF Outcome
<1> HIDE DEF o, w
<1>4. ListTold(o, w)
  BY <1>2, <1>3, PlacesAre DEF ListTold
<1>5. Told(o, w)
  BY <1>3, <1>4, PlacesAre DEF Told
<1> QED
  BY <1>1, <1>2, <1>5, AnswerGoes

LEMMA ParseGoes ==
  ASSUME Sound(req), Told(told, req), Parse
  PROVE  Goes
<1> DEFINE u == Whole(req, "jar")
           v == Whole(u, "args")
           w == Whole(v, "body")
<1>1. Becomes(req, u) /\ Sound(u)
  BY WholeIs, PlacesAre, AsksStays
<1>2. Becomes(u, v) /\ Sound(v)
  BY <1>1, WholeIs, PlacesAre, AsksStays
<1>3. Becomes(v, w)
  BY <1>2, WholeIs, PlacesAre
<1>4. req' = w /\ told' = told
  BY DEF Parse
<1> HIDE DEF u, v, w
<1>5. Becomes(req, w)
  <2>1. Becomes(req, v)
    BY <1>1, <1>2, BecomesTrans
  <2> QED
    BY <2>1, <1>3, BecomesTrans
<1> QED
  BY <1>4, <1>5, ToldStays DEF Goes

LEMMA CallGoes ==
  ASSUME Sound(req), Told(told, req), Call
  PROVE  Goes
<1>1. ASSUME NEW p \in Places, NEW n \in Names, NEW error, ScalarCall(p, n, error) PROVE Goes
  BY <1>1, ScalarGoes
<1>2. ASSUME NEW p \in Places, NEW n \in Names, NEW error, ListCall(p, n, error) PROVE Goes
  BY <1>2, ListGoes
<1>3. ASSUME NEW n \in Names, ParamScalarCall(n) PROVE Goes
  BY <1>3, ParamGoes
<1>4. ASSUME NEW n \in Names, ParamListCall(n) PROVE Goes
  BY <1>4, ParamListGoes
<1>5. ASSUME Parse PROVE Goes
  BY <1>5, ParseGoes
<1> QED
  BY <1>1, <1>2, <1>3, <1>4, <1>5 DEF Call

\* What the environment holds matters to what is parsed later only.
LEMMA HeaderGoes ==
  ASSUME Sound(req), Told(told, req), HeaderChanges
  PROVE  Goes
<1>1. PICK p \in {"jar", "args"}, h \in Changes : req' = [req EXCEPT !.src[p] = h]
  BY DEF HeaderChanges
<1>2. told' = told
  BY DEF HeaderChanges
<1> DEFINE q == req
           w == [q EXCEPT !.src[p] = h]
<1> HIDE DEF q
<1>3. Sound(q)
  BY DEF q
<1>4. Shape(q) /\ IsHeader(h) /\ p \in Places /\ p # "body"
  BY <1>3, RequestsAssumption, PlacesAre DEF Sound
<1>5. /\ DOMAIN w = DOMAIN q /\ w.kind = q.kind /\ w.console = q.console /\ w.fed = q.fed
      /\ w.table = q.table /\ w.status = q.status /\ w.src = [q.src EXCEPT ![p] = h]
  BY <1>4 DEF Shape
<1> HIDE DEF w
<1>6. DOMAIN w.src = Places /\ \A x \in Places : w.src[x] = IF x = p THEN h ELSE q.src[x]
  BY <1>4, <1>5 DEF Shape
<1>7. Shape(w)
  <2>1. w.src["body"] = q.src["body"] /\ IsHeader(w.src["jar"]) /\ IsHeader(w.src["args"])
    BY <1>4, <1>6, PlacesAre DEF Shape
  <2> QED
    BY <1>4, <1>5, <1>6, <2>1 DEF Shape
<1>8. ASSUME NEW x \in Places PROVE Stage(w, x) /\ KeepsPlace(q, w, x)
  <2>1. Stage(q, x)
    BY <1>3 DEF Sound
  <2>2. x = "body" => w.src[x] = q.src[x]
    BY <1>4, <1>6
  <2>3. Stage(w, x)
    BY <1>5, <2>1, <2>2 DEF Stage
  <2>4. Ext(Rows(q.table[x]), Rows(w.table[x]), Entry)
    BY <1>3, <1>5, SoundRows, ExtSame
  <2> QED
    BY <1>5, <2>3, <2>4 DEF KeepsPlace
<1>9. Becomes(q, w)
  BY <1>5, <1>7, <1>8 DEF Becomes, Follows, Sound
<1>10. Becomes(req, w) /\ req' = w
  BY <1>1, <1>9 DEF q, w
<1> QED
  BY <1>2, <1>10, ToldStays DEF Goes

------------------------------------------------------------------------------
(* The tied hashes *)

\* The types of a tied hash and of what an iteration has yielded
Tieds == [of : Places \cup {"params"}, rows : Seq(Entry), cur : Nat, going : BOOLEAN]
Steps == Names \X Val \X Val
Walks == [seen : Seq(Steps), ended : BOOLEAN, size : Nat]

RowsOf(q, t) == IF t.of = "params" THEN t.rows ELSE Rows(q.table[t.of])

\* The iterator is where the walk is.
TiedOk(q, t, w) ==
    LET rows == RowsOf(q, t) IN
    /\ t.of \in Places => Settled(q, t.of)
    /\ t.cur <= Len(rows)
    /\ Len(w.seen) <= Len(rows)
    /\ \A k \in DOMAIN w.seen : w.seen[k] = <<rows[k].key, rows[k].val, rows[k].val>>
    /\ IF t.going THEN t.cur >= 1 /\ Len(w.seen) = t.cur /\ ~w.ended
       ELSE IF w.ended THEN Len(w.seen) = w.size ELSE w.seen = << >>

TiedInv ==
    /\ tied \in Seq(Tieds) /\ walk \in Seq(Walks) /\ Len(walk) = Len(tied)
    /\ \A i \in DOMAIN tied : TiedOk(req, tied[i], walk[i])

LEMMA TiedIs ==
  ASSUME NEW t \in Tieds
  PROVE  /\ t.of \in Places \cup {"params"} /\ t.rows \in Seq(Entry) /\ t.cur \in Nat /\ t.going \in BOOLEAN
         /\ DOMAIN t = {"of", "rows", "cur", "going"}
BY DEF Tieds

LEMMA WalkIs ==
  ASSUME NEW w \in Walks
  PROVE  /\ w.seen \in Seq(Steps) /\ w.ended \in BOOLEAN /\ w.size \in Nat
         /\ DOMAIN w = {"seen", "ended", "size"}
BY DEF Walks

LEMMA RowsOfType ==
  ASSUME NEW q, Sound(q), NEW t \in Tieds PROVE RowsOf(q, t) \in Seq(Entry)
<1>1. t.of \in Places \cup {"params"} /\ t.rows \in Seq(Entry)
  BY TiedIs
<1> QED
  BY <1>1, SoundRows DEF RowsOf

\* A walk that is under way, or over, is not disturbed by new entries.
LEMMA TiedStays ==
  ASSUME NEW q, NEW r, NEW t, NEW w, Sound(q), Becomes(q, r), t \in Tieds, w \in Walks, TiedOk(q, t, w)
  PROVE  TiedOk(r, t, w)
<1> DEFINE a == RowsOf(q, t)
           b == RowsOf(r, t)
<1>1. t.of \in Places \cup {"params"} /\ t.rows \in Seq(Entry) /\ t.cur \in Nat /\ w.seen \in Seq(Steps)
  BY TiedIs, WalkIs
<1>2. a \in Seq(Entry) /\ Ext(a, b, Entry)
  <2>1. CASE t.of = "params"
    BY <1>1, <2>1, ExtSame DEF RowsOf
  <2>2. CASE t.of \in Places
    <3>1. KeepsPlace(q, r, t.of)
      BY <2>2 DEF Becomes, Follows
    <3>2. a = Rows(q.table[t.of]) /\ b = Rows(r.table[t.of])
      BY <2>2, PlacesAre DEF RowsOf
    <3> HIDE DEF a, b
    <3> QED
      BY <2>2, <3>1, <3>2, SoundRows DEF KeepsPlace
  <2> QED
    BY <1>1, <2>1, <2>2
<1>3. t.of \in Places => Settled(r, t.of)
  BY SettledStays DEF TiedOk
<1>4. /\ t.cur <= Len(a) /\ Len(w.seen) <= Len(a)
      /\ \A k \in DOMAIN w.seen : w.seen[k] = <<a[k].key, a[k].val, a[k].val>>
      /\ IF t.going THEN t.cur >= 1 /\ Len(w.seen) = t.cur /\ ~w.ended
         ELSE IF w.ended THEN Len(w.seen) = w.size ELSE w.seen = << >>
  BY DEF TiedOk
<1> HIDE DEF a, b
<1>5. b \in Seq(Entry) /\ Len(a) <= Len(b) /\ \A k \in DOMAIN a : b[k] = a[k]
  BY <1>2, ExtIs
<1>6. \A k \in DOMAIN w.seen : k \in DOMAIN a
  BY <1>1, <1>2, <1>4
<1>7. \A k \in DOMAIN w.seen : w.seen[k] = <<b[k].key, b[k].val, b[k].val>>
  BY <1>4, <1>5, <1>6
<1>8. t.cur <= Len(b) /\ Len(w.seen) <= Len(b)
  BY <1>1, <1>2, <1>4, <1>5
<1> QED
  BY <1>3, <1>4, <1>7, <1>8 DEF TiedOk, b

LEMMA TiesStay ==
  ASSUME Sound(req), TiedInv, Becomes(req, req'), UNCHANGED <<tied, walk>>
  PROVE  TiedInv'
<1>1. \A i \in DOMAIN tied : tied[i] \in Tieds /\ walk[i] \in Walks
  BY DEF TiedInv
<1>2. \A i \in DOMAIN tied : TiedOk(req', tied[i], walk[i])
  BY <1>1, TiedStays DEF TiedInv
<1> QED
  BY <1>2 DEF TiedInv

\* Another one, which has not been walked over
LEMMA TieGoes ==
  ASSUME NEW q, NEW of \in Places \cup {"params"}, NEW rows \in Seq(Entry), Sound(req), Told(told, req), TiedInv,
         Becomes(req, q), of \in Places => Settled(q, of), Tie(q, of, rows)
  PROVE  Goes /\ TiedInv'
<1> DEFINE t == [of |-> of, rows |-> rows, cur |-> 0, going |-> FALSE]
<1>1. req' = q /\ tied' = Append(tied, t) /\ walk' = Append(walk, NewWalk) /\ told' = told
  BY DEF Tie
<1>2. Goes
  BY <1>1, ToldStays DEF Goes
<1>3. t \in Tieds /\ NewWalk \in Walks
  BY DEF Tieds, Walks, NewWalk
<1>4. Sound(q)
  BY DEF Becomes
<1>5. TiedOk(q, t, NewWalk)
  <2>1. RowsOf(q, t) \in Seq(Entry)
    BY <1>3, <1>4, RowsOfType
  <2>2. Len(RowsOf(q, t)) >= 0
    BY <2>1
  <2> QED
    BY <2>2 DEF TiedOk, NewWalk
<1> HIDE DEF t
<1>6. \A i \in DOMAIN tied : tied[i] \in Tieds /\ walk[i] \in Walks /\ TiedOk(req, tied[i], walk[i])
  BY DEF TiedInv
<1>7. \A i \in DOMAIN tied : TiedOk(q, tied[i], walk[i])
  BY <1>6, TiedStays
<1>8. tied' \in Seq(Tieds) /\ walk' \in Seq(Walks) /\ Len(walk') = Len(tied')
  BY <1>1, <1>3 DEF TiedInv
<1>9. ASSUME NEW i \in DOMAIN tied' PROVE TiedOk(q, tied'[i], walk'[i])
  <2>1. Len(tied) \in Nat /\ Len(walk) = Len(tied) /\ tied \in Seq(Tieds) /\ walk \in Seq(Walks)
    BY DEF TiedInv
  <2>2. i \in DOMAIN tied \/ i = Len(tied) + 1
    BY <1>1, <1>3, <2>1
  <2>3. CASE i \in DOMAIN tied
    <3>1. tied'[i] = tied[i] /\ walk'[i] = walk[i]
      BY <1>1, <1>3, <2>1, <2>3
    <3> QED
      BY <1>7, <2>3, <3>1
  <2>4. CASE i = Len(tied) + 1
    <3>1. tied'[i] = t /\ walk'[i] = NewWalk
      BY <1>1, <1>3, <2>1, <2>4
    <3> QED
      BY <1>5, <3>1
  <2> QED
    BY <2>2, <2>3, <2>4
<1>10. TiedInv'
  BY <1>1, <1>8, <1>9 DEF TiedInv
<1> QED
  BY <1>2, <1>10

LEMMA TableCallGoes ==
  ASSUME NEW p \in Places, Sound(req), Told(told, req), TiedInv, TableCall(p)
  PROVE  Goes /\ TiedInv'
<1> DEFINE w == Whole(req, p)
           dies == Dies(w, p, FALSE)
           o == Outcome("table", p, Null, << >>, dies, FALSE)
<1>1. Becomes(req, w) /\ Settled(w, p)
  BY WholeIs
<1>2. CASE dies \/ w.table[p] = Null
  <2>1. req' = w /\ Answers(o) /\ UNCHANGED <<tied, walk>>
    BY <1>2 DEF TableCall
  <2>2. o.call = "table" /\ o.place = p /\ o.vals = << >> /\ o.died = dies /\ o.error = FALSE
    BY DEF Outcome
  <2>3. DiesWith(o, w)
    BY <2>2 DEF DiesWith, Dies
  <2>4. Told(o, w)
    BY <1>1, <2>2, <2>3, PlacesAre DEF Told, TableTold
  <2> HIDE DEF w, o
  <2>5. Goes
    BY <1>1, <2>1, <2>4, AnswerGoes
  <2> QED
    BY <2>1, <2>5, TiesStay DEF Goes
<1>3. CASE ~(dies \/ w.table[p] = Null)
  <2>1. Tie(w, p, << >>)
    BY <1>3 DEF TableCall
  <2> HIDE DEF w
  <2>2. << >> \in Seq(Entry)
    OBVIOUS
  <2> QED
    BY <1>1, <2>1, <2>2, TieGoes
<1> QED
  BY <1>2, <1>3

LEMMA ParamsCallGoes ==
  ASSUME Sound(req), Told(told, req), TiedInv, ParamsCall
  PROVE  Goes /\ TiedInv'
<1> DEFINE w == Whole(Whole(req, "args"), "body")
           rows == Rows(w.table["args"]) \o Rows(w.table["body"])
<1>1. Becomes(req, w) /\ Sound(w)
  BY BothWhole, AsksStays
<1>2. rows \in Seq(Entry)
  BY <1>1, SoundRows, PlacesAre, ConcatProperties
<1>3. Params(req).table # Null /\ Tie(Params(req).req, "params", Params(req).table)
  BY DEF ParamsCall
<1>4. Params(req).req = w /\ Params(req).table = rows
  BY <1>3 DEF Params
<1>5. Tie(w, "params", rows)
  BY <1>3, <1>4
<1> HIDE DEF w, rows
<1> QED
  BY <1>1, <1>2, <1>5, TieGoes, PlacesAre

\* One hash is changed, the others and the request are left alone.
LEMMA OneTied ==
  ASSUME NEW i \in DOMAIN tied, NEW t, NEW w, TiedInv, req' = req, t \in Tieds, w \in Walks, TiedOk(req, t, w),
         tied' = [tied EXCEPT ![i] = t], walk' = [walk EXCEPT ![i] = w]
  PROVE  TiedInv'
<1>1. tied \in Seq(Tieds) /\ walk \in Seq(Walks) /\ Len(walk) = Len(tied)
  BY DEF TiedInv
<1>2. tied' \in Seq(Tieds) /\ walk' \in Seq(Walks) /\ Len(walk') = Len(tied') /\ DOMAIN tied' = DOMAIN tied
  BY <1>1
<1>3. \A x \in DOMAIN tied : TiedOk(req, tied'[x], walk'[x])
  <2>1. DOMAIN tied = DOMAIN walk
    BY <1>1
  <2> SUFFICES ASSUME NEW x \in DOMAIN tied PROVE TiedOk(req, tied'[x], walk'[x])
    OBVIOUS
  <2>2. CASE x = i
    <3>1. tied'[x] = t /\ walk'[x] = w
      BY <2>1, <2>2
    <3> QED
      BY <3>1
  <2>3. CASE x # i
    <3>1. tied'[x] = tied[x] /\ walk'[x] = walk[x]
      BY <2>1, <2>3
    <3> QED
      BY <3>1 DEF TiedInv
  <2> QED
    BY <2>2, <2>3
<1> QED
  BY <1>2, <1>3 DEF TiedInv

\* Where the iterator is, the element of the hash and FETCH are the entry's value.
LEMMA AtIterator ==
  ASSUME NEW i, NEW c, c \in DOMAIN TiedRows(i), TiedRows(i)[c].key \in Names
  PROVE  LET key == TiedRows(i)[c].key val == TiedRows(i)[c].val IN
         Prefetched(i, c, key) = val /\ Fetched(i, c, key) = val
BY DEF Prefetched, Fetched, Same

LEMMA EachGoes ==
  ASSUME NEW i \in DOMAIN tied, Sound(req), Told(told, req), TiedInv, Each(i)
  PROVE  Goes /\ TiedInv'
<1> DEFINE t == tied[i]
           rows == TiedRows(i)
           c == KeyAfter(i, ~t.going)
           start == IF t.going THEN t.cur ELSE 0
           before == IF t.going THEN walk[i] ELSE NewWalk
           key == rows[c].key
           entry == <<key, Prefetched(i, c, key), Fetched(i, c, key)>>
           g == c > 0
           m == Len(rows)
           nt == [t EXCEPT !.cur = c, !.going = g]
           nw == IF c = 0 THEN [before EXCEPT !.ended = TRUE, !.size = m]
                 ELSE [before EXCEPT !.seen = Append(@, entry)]
<1>1. tied' = [tied EXCEPT ![i] = nt] /\ walk' = [walk EXCEPT ![i] = nw] /\ req' = req /\ told' = told
  BY DEF Each
<1>2. t \in Tieds /\ walk[i] \in Walks /\ TiedOk(req, t, walk[i]) /\ rows = RowsOf(req, t)
  BY DEF TiedInv, TiedRows, RowsOf
<1>3. rows \in Seq(Entry) /\ t.cur \in Nat /\ t.going \in BOOLEAN /\ DOMAIN t = {"of", "rows", "cur", "going"}
  BY <1>2, RowsOfType, TiedIs
<1>4. NewWalk \in Walks /\ NewWalk.seen = << >> /\ ~NewWalk.ended
  BY DEF Walks, NewWalk
<1>5. before \in Walks /\ ~before.ended /\ Len(before.seen) = start /\ start \in Nat /\ start <= Len(rows)
  <2>1. CASE t.going
    BY <1>2, <1>3, <2>1 DEF TiedOk
  <2>2. CASE ~t.going
    BY <1>3, <1>4, <2>2
  <2> QED
    BY <1>3, <2>1, <2>2
<1>6. \A k \in DOMAIN before.seen : before.seen[k] = <<rows[k].key, rows[k].val, rows[k].val>>
  <2>1. CASE t.going
    BY <1>2, <2>1 DEF TiedOk
  <2>2. CASE ~t.going
    BY <1>4, <2>2
  <2> QED
    BY <1>3, <2>1, <2>2
<1>7. c = IF start >= Len(rows) THEN 0 ELSE start + 1
  BY <1>3 DEF KeyAfter
<1>8. /\ before.seen \in Seq(Steps) /\ DOMAIN before = {"seen", "ended", "size"} /\ before.size \in Nat
      /\ before.ended = FALSE
  BY <1>5, WalkIs
<1> HIDE DEF t, rows, start, before, c
<1>9. /\ c \in Nat /\ c <= m /\ m \in Nat /\ g \in BOOLEAN
      /\ c = 0 => g = FALSE
      /\ c # 0 => g = TRUE /\ c >= 1
  BY <1>3, <1>5, <1>7
<1>10. /\ nt.of = t.of /\ nt.rows = t.rows /\ nt.cur = c /\ nt.going = g
       /\ DOMAIN nt = {"of", "rows", "cur", "going"}
  BY <1>3
<1>11. m = Len(rows)
  OBVIOUS
<1> HIDE DEF g, m
<1>12. nt \in Tieds /\ (nt.of \in Places => Settled(req, nt.of)) /\ RowsOf(req, nt) = rows
  <2>1. nt.of \in Places \cup {"params"} /\ nt.rows \in Seq(Entry) /\ nt.cur \in Nat /\ nt.going \in BOOLEAN
    BY <1>2, <1>10, <1>9, TiedIs
  <2>2. nt \in Tieds
    BY <1>9, <1>2 DEF Tieds
  <2>3. nt.of \in Places => Settled(req, nt.of)
    BY <1>2, <1>10 DEF TiedOk
  <2>4. RowsOf(req, nt) = rows
    BY <1>2, <1>10 DEF RowsOf
  <2> QED
    BY <2>2, <2>3, <2>4
<1> HIDE DEF nt
<1>13. CASE c = 0
  <2> DEFINE w == [before EXCEPT !.ended = TRUE, !.size = m]
  <2>1. nw = w
    BY <1>13
  <2>2. w.seen = before.seen /\ w.ended = TRUE /\ w.size = m /\ DOMAIN w = {"seen", "ended", "size"}
    BY <1>8
  <2>3. w \in Walks
    BY <1>5, <1>9 DEF Walks
  <2>4. Len(before.seen) = Len(rows)
    BY <1>3, <1>5, <1>7, <1>13
  <2> HIDE DEF w
  <2>5. TiedOk(req, nt, w)
    <3>1. nt.cur <= Len(rows) /\ nt.going = FALSE /\ w.ended = TRUE /\ Len(w.seen) = w.size /\ Len(w.seen) <= Len(rows)
      BY <1>3, <1>10, <1>9, <1>13, <1>11, <2>2, <2>4
    <3>2. \A k \in DOMAIN w.seen : w.seen[k] = <<rows[k].key, rows[k].val, rows[k].val>>
      BY <1>6, <2>2
    <3> QED
      BY <1>12, <3>1, <3>2 DEF TiedOk
  <2>6. walk' = [walk EXCEPT ![i] = w]
    BY <1>1, <2>1
  <2>7. TiedInv'
    BY <1>1, <1>12, <2>3, <2>5, <2>6, OneTied
  <2>8. Goes
    BY <1>1, BecomesSame DEF Goes
  <2> QED
    BY <2>7, <2>8
<1>14. CASE c # 0
  <2> DEFINE w == [before EXCEPT !.seen = Append(@, entry)]
             v == rows[c].val
             s == before.seen
  <2>1. nw = w
    BY <1>14
  <2>2. c = start + 1 /\ c \in DOMAIN rows
    BY <1>3, <1>5, <1>7, <1>14
  <2>3. key \in Names /\ v \in Val
    BY <1>3, <2>2, EntryType
  <2>4. entry = <<key, v, v>> /\ entry \in Steps
    BY <2>2, <2>3, AtIterator DEF rows, Steps
  <2> HIDE DEF entry
  <2>5. w.seen = Append(s, entry) /\ w.ended = before.ended /\ w.size = before.size /\ DOMAIN w = {"seen", "ended", "size"}
    BY <1>8
  <2>6. /\ w.seen \in Seq(Steps) /\ Len(w.seen) = c /\ w.seen[c] = entry
        /\ \A k \in DOMAIN w.seen : k = c \/ (k \in DOMAIN s /\ w.seen[k] = s[k])
    BY <1>5, <1>8, <2>2, <2>4, <2>5
  <2>7. w \in Walks
    <3> DEFINE ns == Append(s, entry)
    <3>1. ns \in Seq(Steps)
      BY <2>5, <2>6
    <3>2. w = [before EXCEPT !.seen = ns]
      BY <1>8
    <3> HIDE DEF ns, w
    <3> QED
      BY <1>5, <3>1, <3>2 DEF Walks
  <2> HIDE DEF w
  <2>8. \A k \in DOMAIN w.seen : w.seen[k] = <<rows[k].key, rows[k].val, rows[k].val>>
    BY <1>6, <2>4, <2>6
  <2>9. nt.going = TRUE /\ nt.cur = c /\ c >= 1 /\ w.ended = FALSE /\ c <= Len(rows)
    BY <1>10, <1>8, <1>9, <1>14, <1>11, <2>5
  <2>10. TiedOk(req, nt, w)
    BY <1>12, <2>6, <2>8, <2>9 DEF TiedOk
  <2>11. walk' = [walk EXCEPT ![i] = w]
    BY <1>1, <2>1
  <2>12. TiedInv'
    BY <1>1, <1>12, <2>7, <2>10, <2>11, OneTied
  <2>13. Goes
    BY <1>1, BecomesSame DEF Goes
  <2> QED
    BY <2>12, <2>13
<1> QED
  BY <1>13, <1>14

LEMMA RestartGoes ==
  ASSUME NEW i \in DOMAIN tied, Sound(req), Told(told, req), TiedInv, Restart(i)
  PROVE  Goes /\ TiedInv'
<1> DEFINE t == tied[i]
           nt == [t EXCEPT !.going = FALSE]
<1>1. tied' = [tied EXCEPT ![i] = nt] /\ walk' = [walk EXCEPT ![i] = NewWalk] /\ req' = req /\ told' = told
  BY DEF Restart
<1>2. t \in Tieds /\ TiedOk(req, t, walk[i])
  BY DEF TiedInv
<1> HIDE DEF t
<1>3. nt \in Tieds /\ nt.of = t.of /\ nt.rows = t.rows /\ nt.cur = t.cur /\ nt.going = FALSE
  BY <1>2 DEF Tieds
<1>4. NewWalk \in Walks /\ NewWalk.seen = << >> /\ ~NewWalk.ended
  BY DEF Walks, NewWalk
<1> HIDE DEF nt
<1>5. RowsOf(req, nt) = RowsOf(req, t) /\ RowsOf(req, t) \in Seq(Entry)
  BY <1>2, <1>3, RowsOfType DEF RowsOf
<1>6. TiedOk(req, nt, NewWalk)
  BY <1>2, <1>3, <1>4, <1>5 DEF TiedOk
<1>7. TiedInv'
  BY <1>1, <1>3, <1>4, <1>6, OneTied
<1> QED
  BY <1>1, <1>7, BecomesSame DEF Goes

\* What a fetch comes to is a value the name has, or there is none.
LEMMA FetchedIs ==
  ASSUME NEW i \in DOMAIN tied, NEW c, NEW n \in Names, Sound(req), tied[i].of \in Places
  PROVE  LET p == tied[i].of v == Fetched(i, c, n) now == Values(req.table[p], n) IN
         IF v = Null THEN now = << >> ELSE \E j \in DOMAIN now : now[j] = v
<1> DEFINE p == tied[i].of
           t == req.table[p]
           rows == Rows(t)
           v == Fetched(i, c, n)
           now == Values(t, n)
<1>1. TiedRows(i) = rows
  BY PlacesAre DEF TiedRows
<1>2. t \in Tables /\ rows \in Seq(Entry)
  BY SoundRows
<1> HIDE DEF t, rows
<1>3. Values(rows, n) = now
  BY <1>2, ValuesAre DEF rows
<1>4. CASE c \in DOMAIN rows /\ Same(n, rows[c].key)
  <2>1. v = rows[c].val /\ Same(rows[c].key, n)
    BY <1>1, <1>4 DEF Fetched, Same
  <2>2. v # Null
    BY <1>2, <1>4, <2>1, EntryType, ValsAssumption DEF Val
  <2>3. \E j \in DOMAIN now : now[j] = v
    BY <1>2, <1>3, <1>4, <2>1, ValuesHave
  <2> QED
    BY <2>2, <2>3 DEF t
<1>5. CASE ~(c \in DOMAIN rows /\ Same(n, rows[c].key))
  <2>1. v = Lookup(rows, n)
    BY <1>1, <1>5 DEF Fetched
  <2>2. rows \in Tables
    BY <1>2 DEF Tables
  <2>3. /\ v = Null <=> now = << >>
        /\ v # Null => now[1] = v /\ 1 \in DOMAIN now
    BY <1>3, <2>1, <2>2, LookupIs
  <2> QED
    BY <2>3 DEF t
<1> QED
  BY <1>4, <1>5

LEMMA FetchGoes ==
  ASSUME NEW i \in DOMAIN tied, NEW n \in Names, Sound(req), Told(told, req), TiedInv, FetchCall(i, n)
  PROVE  Goes /\ TiedInv'
<1> DEFINE p == tied[i].of
           v == Fetched(i, tied[i].cur, n)
           now == Values(req.table[p], n)
           o == Outcome("fetch", p, n, IF v = Null THEN << >> ELSE <<v>>, FALSE, FALSE)
<1>1. p \in Places
  <2>1. tied[i] \in Tieds /\ p # "params"
    BY DEF TiedInv, FetchCall
  <2> QED
    BY <2>1, TiedIs
<1>2. req' = req /\ Answers(o) /\ UNCHANGED <<tied, walk>>
  BY DEF FetchCall
<1>3. IF v = Null THEN now = << >> ELSE \E j \in DOMAIN now : now[j] = v
  BY <1>1, FetchedIs
<1>4. Settled(req, p)
  BY <1>1 DEF TiedInv, TiedOk
<1> HIDE DEF v
<1>5. o.call = "fetch" /\ o.place = p /\ o.key = n /\ ~o.died /\ o.vals = IF v = Null THEN << >> ELSE <<v>>
  BY DEF Outcome
<1> HIDE DEF o
<1>6. FetchTold(o, req)
  <2>1. CASE v = Null
    <3>1. o.vals = << >> /\ Without(req, p, n)
      BY <1>3, <1>4, <1>5, <2>1 DEF Without
    <3> QED
      BY <1>1, <1>5, <3>1 DEF FetchTold
  <2>2. CASE v # Null
    <3>1. o.vals = <<v>> /\ o.vals # << >>
      BY <1>5, <2>2
    <3>2. PICK j \in DOMAIN now : now[j] = v
      BY <1>3, <2>2
    <3> QED
      BY <1>1, <1>5, <3>1, <3>2 DEF FetchTold
  <2> QED
    BY <2>1, <2>2
<1>7. Told(o, req)
  BY <1>1, <1>5, <1>6, PlacesAre DEF Told
<1>8. Becomes(req, req)
  BY BecomesSame
<1>9. Goes
  BY <1>2, <1>7, <1>8, AnswerGoes
<1> QED
  BY <1>2, <1>9, TiesStay DEF Goes

LEMMA DoGoes ==
  ASSUME NEW i \in DOMAIN tied, NEW n \in Names, NEW stop \in 1 .. 2,
         Sound(req), Told(told, req), TiedInv, DoCall(i, n, stop)
  PROVE  Goes /\ TiedInv'
<1> DEFINE p == tied[i].of
           now == Values(req.table[p], n)
           found == Values(TiedRows(i), n)
           o == Outcome("do", p, n, SubSeq(found, 1, stop), FALSE, FALSE)
<1>1. p \in Places
  <2>1. tied[i] \in Tieds /\ p # "params"
    BY DEF TiedInv, DoCall
  <2> QED
    BY <2>1, TiedIs
<1>2. req' = req /\ Answers(o) /\ UNCHANGED <<tied, walk>> /\ stop \in DOMAIN found
  BY DEF DoCall
<1>3. found = now /\ now \in Seq(Val)
  <2>1. TiedRows(i) = Rows(req.table[p])
    BY <1>1, PlacesAre DEF TiedRows
  <2> QED
    BY <1>1, <2>1, SoundRows, ValuesAre
<1>4. /\ o.call = "do" /\ o.place = p /\ o.key = n /\ ~o.died /\ o.vals = SubSeq(now, 1, stop)
  BY <1>3 DEF Outcome
<1> HIDE DEF now, found
<1>5. stop <= Len(now) /\ Len(now) \in Nat /\ now # << >>
  BY <1>2, <1>3
<1>6. /\ SubSeq(now, 1, stop) \in Seq(Val) /\ Len(SubSeq(now, 1, stop)) = stop
      /\ SubSeq(SubSeq(now, 1, stop), 1, stop) = SubSeq(now, 1, stop)
  <2>1. SubSeq(now, 1, stop) \in Seq(Val) /\ Len(SubSeq(now, 1, stop)) = stop
    BY <1>3, <1>5
  <2> QED
    BY <2>1, SubSeqFull
<1>7. IsPrefix(SubSeq(now, 1, stop), now)
  BY <1>5, <1>6 DEF IsPrefix
<1> HIDE DEF o
<1>8. DoTold(o, req)
  BY <1>1, <1>4, <1>5, <1>6, <1>7 DEF DoTold, now
<1>9. Told(o, req)
  BY <1>1, <1>4, <1>8, PlacesAre DEF Told
<1>10. Goes
  BY <1>2, <1>9, BecomesSame, AnswerGoes
<1> QED
  BY <1>2, <1>10, TiesStay DEF Goes

LEMMA TableGoes ==
  ASSUME Sound(req), Told(told, req), TiedInv, Table
  PROVE  Goes /\ TiedInv'
<1>1. ASSUME NEW p \in Places, TableCall(p) PROVE Goes /\ TiedInv'
  BY <1>1, TableCallGoes
<1>2. ASSUME ParamsCall PROVE Goes /\ TiedInv'
  BY <1>2, ParamsCallGoes
<1>3. ASSUME NEW i \in DOMAIN tied, Each(i) PROVE Goes /\ TiedInv'
  BY <1>3, EachGoes
<1>4. ASSUME NEW i \in DOMAIN tied, Restart(i) PROVE Goes /\ TiedInv'
  BY <1>4, RestartGoes
<1>5. ASSUME NEW i \in DOMAIN tied, NEW n \in Names, FetchCall(i, n) PROVE Goes /\ TiedInv'
  BY <1>5, FetchGoes
<1>6. ASSUME NEW i \in DOMAIN tied, NEW n \in Names, NEW stop \in 1 .. 2, DoCall(i, n, stop) PROVE Goes /\ TiedInv'
  BY <1>6, DoGoes
<1> QED
  BY <1>1, <1>2, <1>3, <1>4, <1>5, <1>6 DEF Table

------------------------------------------------------------------------------
(* The inductive invariant *)

\* The handle is sound, what was told of it is so, and iterations are in step.
Inv == Sound(req) /\ Told(told, req) /\ TiedInv

LEMMA HandleSound ==
  ASSUME NEW kind \in Kinds, NEW src \in Requests, NEW console \in Consoles,
         kind = "custom" => src["body"] # Null
  PROVE  Sound(Handle(kind, src, console))
<1> DEFINE a == Apache2Handle(kind, src, console)
           q == Handle(kind, src, console)
<1>1. /\ DOMAIN src = Places /\ IsHeader(src["jar"]) /\ IsHeader(src["args"]) /\ IsBody(src["body"])
      /\ console \in Seq(Names \cup {Null})
  BY RequestsAssumption
<1>2. kind \in {"apache2", "cgi", "interactive", "custom"}
  BY DEF Kinds
<1>3. << >> \in Seq(Entry) /\ << >> \in Tables /\ Null \in Tables /\ Rows(Null) = << >>
  BY DEF Tables, Rows
<1>4. /\ DOMAIN a = {"kind", "src", "console", "fed", "table", "status"}
      /\ a.kind = kind /\ a.src = src /\ a.console = console /\ a.fed = 0
      /\ a.table = [p \in Places |-> Null] /\ a.status = [p \in Places |-> "EINIT"]
  BY DEF Apache2Handle
<1> HIDE DEF a, q
<1>5. CASE kind = "apache2"
  <2>1. q = a
    BY <1>5 DEF q, Handle, a
  <2>2. Shape(q)
    BY <1>1, <1>3, <1>4, <2>1 DEF Shape
  <2>3. ASSUME NEW p \in Places PROVE Stage(q, p)
    <3>1. q.table[p] = Null /\ q.status[p] = "EINIT" /\ q.kind = "apache2" /\ q.fed = 0
      BY <1>4, <1>5, <2>1
    <3> QED
      BY <1>3, <3>1 DEF Stage
  <2> QED
    BY <2>2, <2>3 DEF Sound, q
<1>6. CASE kind \in {"cgi", "interactive"}
  <2>1. q = [a EXCEPT !.table = [p \in Places |-> << >>]]
    BY <1>6 DEF q, Handle, CgiHandle, a
  <2>2. /\ DOMAIN q = DOMAIN a /\ q.kind = kind /\ q.src = src /\ q.console = console /\ q.fed = 0
        /\ q.table = [p \in Places |-> << >>] /\ q.status = [p \in Places |-> "EINIT"]
    BY <1>4, <2>1
  <2>3. Shape(q)
    BY <1>1, <1>3, <1>4, <2>2 DEF Shape
  <2>4. ASSUME NEW p \in Places PROVE Stage(q, p)
    <3>1. q.table[p] = << >> /\ q.status[p] = "EINIT"
      BY <2>2
    <3>2. Rows(<< >>) = << >>
      BY DEF Rows
    <3> QED
      BY <1>3, <1>6, <2>2, <3>1, <3>2 DEF Stage
  <2> QED
    BY <2>3, <2>4 DEF Sound, q
<1>7. CASE kind = "custom"
  <2> DEFINE ta == [p \in Places |-> IF p = "body" THEN << >> ELSE IF src[p] = Null THEN Null ELSE src[p].entries]
             st == [p \in Places |-> IF p = "body" THEN "INCOMPLETE"
                                     ELSE IF src[p] = Null THEN "NODATA" ELSE src[p].status]
  <2>1. q = [a EXCEPT !.table = ta, !.status = st]
    BY <1>7 DEF q, Handle, CustomHandle, a
  <2>2. \A p \in Places : p # "body" /\ src[p] # Null =>
           src[p].entries \in Seq(Entry) /\ src[p].status \notin {"EINIT", "INCOMPLETE"}
    BY <1>1, PlacesAre DEF IsHeader, Ended
  <2>3. ta \in [Places -> Tables] /\ DOMAIN st = Places
    BY <1>3, <2>2 DEF Tables
  <2>4. /\ ta["body"] = << >> /\ st["body"] = "INCOMPLETE"
        /\ \A p \in Places : p # "body" => st[p] \notin {"EINIT", "INCOMPLETE"}
    BY <2>2, PlacesAre
  <2> HIDE DEF ta, st
  <2>5. /\ DOMAIN q = DOMAIN a /\ q.kind = kind /\ q.src = src /\ q.console = console /\ q.fed = 0
        /\ q.table = ta /\ q.status = st
    BY <1>4, <2>1
  <2>6. Shape(q)
    BY <1>1, <1>4, <2>3, <2>5 DEF Shape
  <2>7. src["body"] # Null /\ 0 < Len(src["body"].blocks)
    <3>1. src["body"] # Null /\ src["body"].blocks \in Seq(Seq(Entry)) \ {<< >>}
      BY <1>1, <1>7 DEF IsBody
    <3> QED
      BY <3>1
  <2>8. ASSUME NEW p \in Places PROVE Stage(q, p)
    BY <1>3, <1>7, <2>4, <2>5, <2>7 DEF Stage
  <2> QED
    BY <2>6, <2>8 DEF Sound, q
<1> QED
  BY <1>2, <1>5, <1>6, <1>7

LEMMA InvStarts == Init => Inv
<1> SUFFICES ASSUME Init PROVE Inv
  OBVIOUS
<1>1. Sound(req)
  BY HandleSound DEF Init
<1>2. Told(told, req)
  BY DEF Init, NoOutcome, Told
<1>3. TiedInv
  BY DEF Init, TiedInv
<1> QED
  BY <1>1, <1>2, <1>3 DEF Inv

LEMMA InvStays == Inv /\ [Next]_vars => Inv'
<1> SUFFICES ASSUME Inv, [Next]_vars PROVE Inv'
  OBVIOUS
<1>1. Sound(req) /\ Told(told, req) /\ TiedInv
  BY DEF Inv
<1>2. ASSUME Goes, TiedInv' PROVE Inv'
  <2>1. Sound(req') /\ Told(told', req')
    BY <1>2 DEF Goes, Becomes
  <2> QED
    BY <1>2, <2>1 DEF Inv
<1>3. CASE Call
  <2>1. Goes /\ UNCHANGED <<tied, walk>>
    BY <1>1, <1>3, CallGoes DEF Call
  <2> QED
    BY <1>1, <1>2, <2>1, TiesStay DEF Goes
<1>4. CASE HeaderChanges
  <2>1. Goes /\ UNCHANGED <<tied, walk>>
    BY <1>1, <1>4, HeaderGoes DEF HeaderChanges
  <2> QED
    BY <1>1, <1>2, <2>1, TiesStay DEF Goes
<1>5. CASE Table
  BY <1>1, <1>2, <1>5, TableGoes
<1>6. CASE UNCHANGED vars
  <2>1. req' = req /\ told' = told /\ UNCHANGED <<tied, walk>>
    BY <1>6 DEF vars
  <2>2. Becomes(req, req') /\ Told(told', req')
    BY <1>1, <2>1, BecomesSame
  <2> QED
    BY <1>1, <1>2, <2>1, <2>2, TiesStay DEF Goes
<1> QED
  BY <1>3, <1>4, <1>5, <1>6 DEF Next

------------------------------------------------------------------------------
(* The theorems *)

LEMMA InvStands == Inv => AnswersStand
<1> SUFFICES ASSUME Inv, ~told.died, told.call # "none" PROVE AnswersStand
  <2>1. told.call = "none" => AnswersStand
    BY DEF AnswersStand
  <2> QED
    BY <2>1 DEF AnswersStand
<1> DEFINE p == told.place
           n == told.key
           now == NowValues(p, n)
           asks == req.kind = "interactive"
           args == Values(req.table["args"], n)
           body == Values(req.table["body"], n)
<1>1. Sound(req) /\ Told(told, req) /\ p \in Methods
  BY DEF Inv, Told
<1>2. \A x \in Places : Values(req.table[x], n) \in Seq(Val)
  BY <1>1, SoundRows, ValuesAre
<1>3. /\ p \in Places => now = Values(req.table[p], n)
      /\ p = "param" => now = args \o body
      /\ args \in Seq(Val) /\ body \in Seq(Val) /\ now \in Seq(Val)
  <2>1. p \in Places => now = Values(req.table[p], n)
    BY PlacesAre DEF NowValues
  <2>2. p = "param" => now = args \o body
    BY DEF NowValues
  <2>3. args \in Seq(Val) /\ body \in Seq(Val)
    BY <1>2, PlacesAre
  <2>4. p \in Places \/ p = "param"
    BY <1>1 DEF Methods
  <2> HIDE DEF args, body, now, p
  <2>5. args \o body \in Seq(Val)
    BY <2>3, ConcatProperties
  <2> QED
    BY <1>2, <2>1, <2>2, <2>3, <2>4, <2>5
<1>4. p \in Places \/ p = "param"
  BY <1>1 DEF Methods
<1>5. ASSUME told.call = "list"
      PROVE  IF asks THEN p # "param" => IsPrefix(told.vals, now) ELSE told.vals = now
  <2>1. ListTold(told, req)
    BY <1>1, <1>5 DEF Told
  <2>2. CASE p \in Places
    BY <1>3, <2>1, <2>2, PlacesAre DEF ListTold, Asks
  <2>3. CASE p = "param"
    BY <1>3, <2>1, <2>3 DEF ListTold, Asks
  <2> QED
    BY <1>4, <2>2, <2>3
<1>6. ASSUME told.call = "scalar", told.vals # << >>, asks => p \notin {"body", "param"}
      PROVE  told.vals[1] = now[1]
  <2> DEFINE v == told.vals[1]
  <2>1. OneTold(told, req)
    BY <1>1, <1>6 DEF Told
  <2>2. CASE p \in Places
    <3>1. First(req, p, n, v)
      BY <1>6, <2>1, <2>2 DEF OneTold, Asks
    <3> QED
      BY <1>3, <2>2, <3>1 DEF First
  <2>3. CASE p = "param"
    <3>1. First(req, "args", n, v) \/ (Without(req, "args", n) /\ First(req, "body", n, v))
      BY <1>6, <2>1, <2>3 DEF OneTold, Asks
    <3>2. now = args \o body /\ args \in Seq(Val) /\ body \in Seq(Val)
      BY <1>3, <2>3
    <3>3. (args # << >> /\ args[1] = v) \/ (args = << >> /\ body # << >> /\ body[1] = v)
      BY <3>1 DEF First, Without
    <3> HIDE DEF args, body, now, v
    <3>4. now[1] = v
      <4>1. CASE args # << >> /\ args[1] = v
        <5>1. 1 \in 1 .. Len(args)
          BY <3>2, <4>1
        <5> QED
          BY <3>2, <4>1, <5>1
      <4>2. CASE args = << >> /\ body[1] = v
        <5>1. now = body
          BY <3>2, <4>2, ConcatEmptySeq
        <5> QED
          BY <4>2, <5>1
      <4> QED
        BY <3>3, <4>1, <4>2
    <3> QED
      BY <3>4 DEF v
  <2> QED
    BY <1>4, <2>2, <2>3
<1>7. ASSUME told.call \in {"fetch", "do"}, told.vals # << >>
      PROVE  \E i \in DOMAIN now : IsPrefix(told.vals, SubSeq(now, i, Len(now)))
  <2>1. CASE told.call = "fetch"
    <3>1. FetchTold(told, req)
      BY <1>1, <2>1 DEF Told
    <3>2. p \in Places /\ now = Values(req.table[p], n)
      BY <1>3, <3>1 DEF FetchTold
    <3>3. PICK i \in DOMAIN now : told.vals = <<now[i]>>
      BY <1>7, <3>1, <3>2 DEF FetchTold
    <3> HIDE DEF now
    <3>4. IsPrefix(told.vals, SubSeq(now, i, Len(now)))
      BY <1>3, <3>3, PrefixOne
    <3> QED
      BY <3>3, <3>4
  <2>2. CASE told.call = "do"
    <3>1. DoTold(told, req)
      BY <1>1, <2>2 DEF Told
    <3>2. now # << >> /\ IsPrefix(told.vals, now)
      BY <1>3, <3>1 DEF DoTold
    <3> HIDE DEF now
    <3>3. SubSeq(now, 1, Len(now)) = now /\ 1 \in DOMAIN now
      BY <1>3, <3>2, SubSeqFull
    <3> QED
      BY <3>2, <3>3
  <2> QED
    BY <1>7, <2>1, <2>2
<1>8. ASSUME told.call \in {"scalar", "fetch"}, told.vals = << >>
      PROVE  asks \/ now = << >>
  <2>1. CASE told.call = "scalar"
    <3>1. NoneTold(told, req)
      BY <1>1, <1>8, <2>1 DEF Told
    <3>2. CASE p \in Places
      BY <1>3, <3>1, <3>2 DEF NoneTold, Without, Asks
    <3>3. CASE p = "param"
      <4>1. asks \/ (args = << >> /\ body = << >>)
        BY <3>1, <3>3 DEF NoneTold, Without, Asks
      <4>2. now = args \o body
        BY <1>3, <3>3
      <4> QED
        BY <4>1, <4>2
    <3> QED
      BY <1>4, <3>2, <3>3
  <2>2. CASE told.call = "fetch"
    <3>1. FetchTold(told, req)
      BY <1>1, <2>2 DEF Told
    <3> QED
      BY <1>3, <1>8, <3>1 DEF FetchTold, Without, Asks
  <2> QED
    BY <1>8, <2>1, <2>2
<1> HIDE DEF now, p, n, asks, args, body
<1>9. CASE told.call = "list"
  BY <1>5, <1>9 DEF AnswersStand, now, p, n, asks
<1>10. CASE told.call = "scalar" /\ told.vals # << >>
  BY <1>6, <1>10 DEF AnswersStand, now, p, n, asks
<1>11. CASE told.call \in {"fetch", "do"} /\ told.vals # << >>
  BY <1>7, <1>11 DEF AnswersStand, now, p, n, asks
<1>12. CASE told.call \in {"scalar", "fetch"} /\ told.vals = << >>
  BY <1>8, <1>12 DEF AnswersStand, now, p, n, asks
<1>13. CASE told.call \notin {"list", "scalar", "fetch", "do"} \/ (told.call = "do" /\ told.vals = << >>)
  BY <1>13 DEF AnswersStand
<1> QED
  BY <1>9, <1>10, <1>11, <1>12, <1>13

LEMMA InvTells == Inv => FailuresTold
<1> SUFFICES ASSUME Inv, told.call \in {"scalar", "list", "table"}, told.place # "param" PROVE FailuresTold
  BY DEF FailuresTold
<1> DEFINE p == told.place
           failed == IsError(req.status[p])
<1>1. Sound(req) /\ Told(told, req) /\ p \in Places
  BY DEF Inv, Told, Methods
<1>2. ASSUME told.vals # << >>, told.call = "scalar" PROVE ~told.died
  BY <1>1, <1>2 DEF Told, OneTold
<1>3. ASSUME told.vals = << >> \/ told.call # "scalar" PROVE Settled(req, p) /\ DiesWith(told, req)
  <2>1. CASE told.call = "scalar"
    BY <1>1, <1>3, <2>1 DEF Told, NoneTold
  <2>2. CASE told.call = "list"
    BY <1>1, <2>2 DEF Told, ListTold
  <2>3. CASE told.call = "table"
    BY <1>1, <2>3 DEF Told, TableTold
  <2> QED
    BY <2>1, <2>2, <2>3
<1>4. ASSUME told.died, told.call = "scalar" PROVE Lookup(req.table[p], told.key) = Null
  <2>1. NoneTold(told, req) /\ Settled(req, p) /\ failed
    BY <1>1, <1>2, <1>3, <1>4 DEF Told, DiesWith
  <2>2. ~Asks(req)
    BY <2>1 DEF Asks, Settled, IsError
  <2>3. Values(req.table[p], told.key) = << >>
    BY <1>1, <2>1, <2>2 DEF NoneTold, Without
  <2>4. req.table[p] \in Tables
    BY <1>1, SoundRows
  <2> QED
    BY <2>3, <2>4, LookupIs
<1>5. told.died => failed /\ ~told.error
  BY <1>2, <1>3 DEF DiesWith
<1>6. told.vals = << >> /\ ~told.error => (told.died <=> failed)
  BY <1>3 DEF DiesWith
<1> QED
  BY <1>4, <1>5, <1>6 DEF FailuresTold

LEMMA InvWalks == Inv => IterationInStep
<1> SUFFICES ASSUME Inv, NEW i \in DOMAIN tied
             PROVE  LET rows == TiedRows(i) seen == walk[i].seen IN
                    /\ Len(seen) <= Len(rows)
                    /\ \A k \in DOMAIN seen : seen[k] = <<rows[k].key, rows[k].val, rows[k].val>>
                    /\ walk[i].ended => Len(seen) = walk[i].size
  BY DEF IterationInStep
<1>1. TiedOk(req, tied[i], walk[i])
  BY DEF Inv, TiedInv
<1>2. TiedRows(i) = RowsOf(req, tied[i])
  BY DEF TiedRows, RowsOf
<1> QED
  BY <1>1, <1>2 DEF TiedOk

LEMMA InvAlways == Spec => []Inv
BY InvStarts, InvStays, PTL DEF Spec

\* What the script was told about a name - one value, all of them, or none -
\* stands in every later state, on whichever path it asked.
THEOREM ToldOnceToldForAll == Spec => []AnswersStand
BY InvAlways, InvStands, PTL

\* A method of the request that comes back empty-handed has died exactly when
\* the place it looked into has failed to parse.
THEOREM NoFailureIsSilent == Spec => []FailuresTold
BY InvAlways, InvTells, PTL

\* An iteration over a tied hash yields every entry of its table once, in order
\* and with its own value, whatever is called in between.
THEOREM IterationsYieldAll == Spec => []IterationInStep
BY InvAlways, InvWalks, PTL
==============================================================================
