-------------------------------- MODULE Params -------------------------------
(***************************************************************************)
(* Parameters and their tables (param.c): how one is made from a name and  *)
(* a value, decoded from a query string and encoded, how a query string    *)
(* fills a table, and what the functions on tables return.                 *)
(*                                                                         *)
(* A table is the sequence of its entries; names are compared without      *)
(* regard to case (apr_table_t).                                           *)
(***************************************************************************)
EXTENDS Words

Amp == 38
Semicolon == 59
Equals == 61

\* apreq_param_make
ParamMake(n, v) == [name |-> n, data |-> v, charset |-> "ASCII", upload |-> FALSE]

\* The character set of a parameter whose name and value have these.
Combined(ofValue, ofName) ==
    CASE ofName = "UTF8"   -> IF ofValue = "ASCII" THEN "UTF8" ELSE ofValue
      [] ofName = "ASCII"  -> ofValue
      [] ofName = "LATIN1" -> IF ofValue # "CP1252" THEN "LATIN1" ELSE ofValue
      [] ofName = "CP1252" -> "CP1252"

\* apreq_param_decode: of a word that has nlen bytes of name, a separator if a
\* value follows, and the value.
ParamDecode(word, nlen, vlen) ==
    LET v == Decode(SubSeq(word, nlen + 2, nlen + 1 + vlen))
        n == Decode(SubSeq(word, 1, nlen))
    IN  IF nlen = 0 THEN [status |-> "EBADARG"]
        ELSE IF vlen > 0 /\ v.status # "SUCCESS" THEN [status |-> v.status]
        ELSE IF n.status # "SUCCESS" THEN [status |-> n.status]
        ELSE [status |-> "SUCCESS",
              param |-> [ParamMake(n.data, IF vlen > 0 THEN v.data ELSE << >>) EXCEPT
                           !.charset = Combined(IF vlen > 0 THEN CharsetDivine(v.data) ELSE "ASCII",
                                                CharsetDivine(n.data))]]

\* apreq_param_encode
ParamEncode(p) == Encode(p.name) \o <<Equals>> \o Encode(p.data)

\* The first equals sign ends the name, unless the word starts with it.
NameLength(word) ==
    LET signs == {i \in 2 .. Len(word) : word[i] = Equals} IN
    IF signs = {} THEN Len(word) ELSE (CHOOSE i \in signs : \A j \in signs : i <= j) - 1

WordEnd(qs) ==
    LET ends == {i \in DOMAIN qs : qs[i] \in {Amp, Semicolon, 0}} IN
    IF ends = {} THEN Len(qs) + 1 ELSE CHOOSE i \in ends : \A j \in ends : i <= j

\* apreq_parse_query_string: the first word that cannot be decoded ends it,
\* with what has been added so far.
RECURSIVE QueryOnto(_, _)
QueryOnto(t, qs) ==
    LET i == WordEnd(qs)
        word == SubSeq(qs, 1, i - 1)
        nlen == NameLength(word)
        d == ParamDecode(word, nlen, IF nlen < Len(word) THEN Len(word) - nlen - 1 ELSE 0)
        last == i > Len(qs) \/ qs[i] = 0
    IN  IF word # << >> /\ d.status # "SUCCESS" THEN [status |-> d.status, table |-> t]
        ELSE LET added == IF word = << >> THEN t ELSE Append(t, d.param)
             IN  IF last THEN [status |-> "SUCCESS", table |-> added]
                 ELSE QueryOnto(added, SubSeq(qs, i + 1, Len(qs)))

ParseQueryString(qs) == QueryOnto(<< >>, qs)

------------------------------------------------------------------------------
(* Tables *)

Lower(c) == IF c \in 65 .. 90 THEN c + 32 ELSE c
SameName(m, n) == Len(m) = Len(n) /\ \A i \in DOMAIN m : Lower(m[i]) = Lower(n[i])

NoParam == [name |-> NoWord]

FirstOf(t) == IF t = << >> THEN NoParam ELSE Head(t)

\* apreq_params_as_array
ParamsAsArray(t, key) == SelectSeq(t, LAMBDA p : SameName(p.name, key))

\* apr_table_get
TableGet(t, key) == FirstOf(ParamsAsArray(t, key))

\* apreq_params_as_string: the values with ", " between them
ParamsAsString(t, key, mode) ==
    LET found == ParamsAsArray(t, key) IN
    IF found = << >> THEN << >>
    ELSE Join(<<44, Space>>, [i \in DOMAIN found |-> found[i].data], mode)

\* apreq_uploads and apreq_upload
Uploads(body) == SelectSeq(body, LAMBDA p : p.upload)
Upload(body, key) == FirstOf(Uploads(ParamsAsArray(body, key)))

==============================================================================
