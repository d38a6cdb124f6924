----------------------------- MODULE MCOggStdin -----------------------------
(* Instances of OggStdin for TLC: a stream with three headers, as Vorbis and
   Theora have, one with two, as Speex has, and one that has only its bos page. *)
EXTENDS OggStdin, TLC

CONSTANTS a, b

TwoCodecs == <<(a :> 3) @@ (b :> 2), (a :> 1) @@ (b :> 2)>>

OneCodec == <<a :> 2>>

\* What update_min may take from the stack when no descriptor is open.
StackGarbage == {-2}

ClientSymmetry == Permutations(Client)
=============================================================================
