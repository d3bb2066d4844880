----------------------------- MODULE MCRecordings -----------------------------
(* Recordings for TLC: mounts are equal, and so are ids. *)
EXTENDS Recordings, TLC

Symmetry == Permutations(Pages) \cup Permutations(Recordings)
=============================================================================
