------------------------------- MODULE MCSignIn -------------------------------
(* SignIn for TLC: logins, tickets and sockets are interchangeable.          *)
EXTENDS SignIn, TLC

Symmetry == Permutations(Logins) \cup Permutations(Tickets) \cup Permutations(Sockets)
=============================================================================
