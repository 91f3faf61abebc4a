-------------------------- MODULE MCUrlencodedParser --------------------------
(* Small instances of UrlencodedParser for model checking. *)
EXTENDS UrlencodedParser, TLC

\* Every text of up to three characters, behind "x=" or not.
Short == SeqOf({"=", "&", "%", "1", "u", "x"}, 3)

\* Words with escapes of both kinds, whole, cut short and wrong, other
\* separators, an empty name and a name without a value.
Long ==
    {<<"x", "=", "%", "1", "a", "&", "1", "=", "x">>,
     <<"%", "a", "1", "=", "+", ";", "x", "=", "%", "1">>,
     <<"x", "=", "%", "u", "1", "1", "1", "1", "a">>,
     <<"x", "=", "%", "u", "1", "x", "1", "1", "a">>,
     <<"x", "=", "1", "&", "%", "x", "1", "=", "1">>,
     <<"x", "=", "1", "&", "=", "1", "&", "x">>,
     <<"x", "=", NUL, "&", "x", "=", "1">>,
     <<"x", "&", "1", "=", "a", "&">>}

AnyBody == Short \cup {<<"x", "=">> \o s : s \in Short} \cup Long
==============================================================================
