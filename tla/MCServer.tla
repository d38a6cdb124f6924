------------------------------ MODULE MCServer ------------------------------
\* Server with its clients and threads as model values.
EXTENDS Server
CONSTANTS c1, c2
One == {c1}
Two == {c1, c2}
=============================================================================
