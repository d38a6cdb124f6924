------------------------------ MODULE MCParams ------------------------------
\* Params with a heap of interchangeable nodes and names of one letter in two spellings.
EXTENDS Params

Lower(c) == IF c = "A" THEN "a" ELSE c
MCFold(name) == [i \in DOMAIN name |-> Lower(name[i])]

MCKey == {<<"a">>, <<"A">>, <<"b">>, <<"c">>}
MCValue == {<<"x", ":">>}
MCQuery == BoundedSeq({"a", "=", "&"}, 4) \cup
    {<<"a", "=", "x", "&", "A", "=", "b">>, <<"b", "=", "&", "&", "a", "=", "x", "&">>,
     <<"a", "=", "x", "&", "a">>, <<"c", "=", "&", "a", "=", "x">>}

Nodes == Permutations(Node)
=============================================================================
