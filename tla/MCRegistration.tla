--------------------------- MODULE MCRegistration ---------------------------
(* Registration for TLC: handles outside Admins, mailboxes and suspended     *)
(* handlers are interchangeable.                                             *)
EXTENDS Registration, TLC

Symmetry ==
  Permutations(Handles \ Admins) \cup Permutations(Mailboxes) \cup Permutations(Calls)
=============================================================================
