---------------------------- MODULE LiveDirectory ----------------------------
(***************************************************************************)
(* What the broadcast store promises to everybody who looks a broadcaster  *)
(* up: every account has at most one current broadcast, and a broadcast    *)
(* goes through fresh -> current for one account -> over, once.            *)
(***************************************************************************)
CONSTANTS Users,        \* account handles
          Ids,          \* broadcast identifiers
          None          \* "no current broadcast"

VARIABLES current,      \* current[u]: the broadcast u is known to be airing
          spent         \* identifiers that are or were some account's current

vars == <<current, spent>>

Init == /\ current = [u \in Users |-> None]
        /\ spent = {}

\* An account goes on air with an identifier nobody has used.
GoOnAir(u, id) ==
  /\ id \notin spent
  /\ current' = [current EXCEPT ![u] = id]
  /\ spent' = spent \cup {id}

\* Any set of accounts goes off air at once (a sweep may end several).
GoOffAir(S) ==
  /\ current' = [u \in Users |-> IF u \in S THEN None ELSE current[u]]
  /\ UNCHANGED spent

Next == \/ \E u \in Users, id \in Ids : GoOnAir(u, id)
        \/ \E S \in SUBSET Users : GoOffAir(S)

Spec == Init /\ [][Next]_vars
=============================================================================
