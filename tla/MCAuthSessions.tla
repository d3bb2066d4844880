---------------------------- MODULE MCAuthSessions ----------------------------
(* AuthSessions for TLC: tabs, tokens and families are interchangeable. *)
EXTENDS AuthSessions, TLC

Symmetry ==
  Permutations(Tabs) \cup Permutations(Tokens) \cup Permutations(Families)
=============================================================================
