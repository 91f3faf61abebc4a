---------------------------- MODULE MCBrigadeSpool ----------------------------
(* Small instances of BrigadeSpool for model checking. *)
EXTENDS BrigadeSpool, TLC

Data1(lengths) == [lengths |-> lengths, eos |-> FALSE, known |-> TRUE]
End1(lengths)  == [lengths |-> lengths, eos |-> TRUE, known |-> TRUE]

\* One or two buckets, the end, and a length that is not known.
FewInputs ==
    {Data1(<<1, 1>>), End1(<<1>>), [Data1(<<1>>) EXCEPT !.known = FALSE]}

Twins == Permutations(Brigades)
==============================================================================
