----------------------------- MODULE MCExtension -----------------------------
(* Extension for TLC: the run without liveness takes casts as equal. *)
EXTENDS Extension, TLC

Symmetry == Permutations(Casts) \cup Permutations(Viewers)
=============================================================================
