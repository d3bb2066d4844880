----------------------------- MODULE MCBroadcasts -----------------------------
(* Small instances of Broadcasts for TLC. *)
EXTENDS Broadcasts, TLC

\* Accounts, ids and codes are interchangeable in the safety runs.
Symmetry == Permutations(Users) \cup Permutations(Ids) \cup Permutations(Codes)
=============================================================================
