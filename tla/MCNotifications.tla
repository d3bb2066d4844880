----------------------------- MODULE MCNotifications -----------------------------
(* Notifications and PushToggle for TLC.  They share no variable, so that an  *)
(* interleaving of the two shows nothing that neither shows by itself: a      *)
(* behaviour is one of the tables at the server or one of the browser.        *)
EXTENDS Notifications, PushToggle, TLC

VARIABLE side

Symmetry == Permutations(Accounts) \cup Permutations(Tabs)
              \cup Permutations(Subs) \cup Permutations(Slots)

SidesInit == Init /\ PushInit /\ side \in {"server", "browser"}

SidesNext ==
  \/ side = "server" /\ Next /\ UNCHANGED <<pushVars, side>>
  \/ side = "browser" /\ PushNext /\ UNCHANGED <<vars, side>>

SidesSpec == SidesInit /\ [][SidesNext]_<<vars, pushVars, side>>
=============================================================================
