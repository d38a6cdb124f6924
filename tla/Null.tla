-------------------------------- MODULE Null --------------------------------
(* The null pointer, different from whatever a pointer may point at. *)
CONSTANT NULL
=============================================================================
