------------------------------ MODULE MCStream ------------------------------
(* Instances of Stream for TLC: the clients are interchangeable. *)
EXTENDS Stream, TLC

\* Stack garbage that ringbuffer_free turns into a huge size_t.
StackGarbage == {-2}

ClientSymmetry == Permutations(Client)
=============================================================================
