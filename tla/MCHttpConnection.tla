-------------------------- MODULE MCHttpConnection --------------------------
EXTENDS HttpConnection

\* A plain header, one continued on a second line, one without a blank, and a line that
\* is no header.
Plain  == <<"name", "colon", "sp", "value", "value", "eol">>
Folded == <<"name", "colon", "value", "eol", "sp", "value", "eol">>
Tight  == <<"name", "colon", "value", "eol">>
Odd    == <<"name", "eol">>

Bare       == {<<>>}
OneHeader  == {<<Plain>>, <<Folded>>}
AllHeaders == {<<>>, <<Plain>>, <<Plain, Folded>>, <<Tight, Plain>>, <<Folded, Tight>>, <<Odd>>}

\* Two streams, one of whose paths begins with the other's, and a path of neither.
Paths   == {<<"a">>, <<"a", "b">>, <<"c">>}
Streams == <<<<"a", "b">>, <<"a">>>>
Shadow  == <<<<"a">>, <<"a", "b">>>>

MinusOne == {-1, 0}
Zero     == {0}
=============================================================================
