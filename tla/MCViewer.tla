------------------------------- MODULE MCViewer -------------------------------
(* Viewer for TLC: usernames and the slots of calls are interchangeable in   *)
(* runs without liveness.                                                    *)
EXTENDS Viewer, TLC

Symmetry == Permutations(Users) \cup Permutations(Flights)
=============================================================================
