----------------------------- MODULE Notifications -----------------------------
(***************************************************************************)
(* "Somebody you follow went live": the server's tables follows and          *)
(* push_subscriptions and the alerts that join them (routes/{users,push}.ts, *)
(* repos/notifications.ts, server lib/push.ts).  The browser's side of a     *)
(* subscription is PushToggle's.                                             *)
(*                                                                         *)
(* A handler of the server is atomic; notifyFollowersLive awaits an import   *)
(* before it joins the tables by name and then awaits every send, so that    *)
(* accounts, follows and rows change in between.  The push service is        *)
(* external: it may answer that an endpoint is gone.                         *)
(***************************************************************************)
EXTENDS Naturals, FiniteSets

CONSTANTS
  Users,       \* usernames
  Endpoints,   \* endpoints of browsers
  MaxAlerts,   \* bound: alerts on their way at a time
  None

VARIABLES
  account,   \* account[u]: "gone", "active", "hidden" (not discoverable) or
             \* "banned"
  follows,   \* the table follows: pairs <<follower, followed>>
  owner,     \* push_subscriptions: whom the row of an endpoint names, or None
  waking,    \* broadcasters whose notifyFollowersLive waits for the import
  alerts,    \* sendNotification under way: endpoint and broadcaster
  asked,     \* pairs <<f, b>>: f has asked to follow b, not taken it back, and
             \* both accounts are still those that they were (observer)
  wanted     \* pairs <<u, e>>: u was told that alerts go to e, has not taken it
             \* back, is still the account that it was, and the push service
             \* has not said that e is gone (observer)

tables == <<account, follows, owner>>
sends == <<waking, alerts>>
intents == <<asked, wanted>>
vars == <<tables, sends, intents>>

Alert == [to : Endpoints, of : Users]

ASSUME NotificationsAssumption == None \notin Users /\ MaxAlerts \in Nat

Init ==
  /\ account = [u \in Users |-> "gone"]
  /\ follows = {}
  /\ owner = [e \in Endpoints |-> None]
  /\ waking = {} /\ alerts = {}
  /\ asked = {} /\ wanted = {}

\* requireAuth: the row is read on every request.
Authorized(u) == account[u] \in {"active", "hidden"}

-----------------------------------------------------------------------------
(* Subscriptions *)

\* mutant: the row goes to whoever registers the endpoint last.
SavableAny(e, u) == TRUE
\* isEndpointOwnedByOther and the WHERE of saveSubscription.
Savable(e, u) == owner[e] \in {u, None}

\* POST /push/subscribe
Subscribes(u, e) ==
  /\ Authorized(u) /\ Savable(e, u)
  /\ owner' = [owner EXCEPT ![e] = u] /\ wanted' = wanted \cup {<<u, e>>}
  /\ UNCHANGED <<account, follows, sends, asked>>

\* mutant: the name is cleared, the row stays.
RemoveOwnedBlank(e, u) ==
  owner' = IF owner[e] = u THEN [owner EXCEPT ![e] = "nobody"] ELSE owner
RemoveOwned(e, u) ==
  owner' = IF owner[e] = u THEN [owner EXCEPT ![e] = None] ELSE owner

\* DELETE /push/subscribe, with any endpoint.
Unsubscribes(u, e) ==
  /\ Authorized(u)
  /\ RemoveOwned(e, u) /\ wanted' = wanted \ {<<u, e>>}
  /\ UNCHANGED <<account, follows, sends, asked>>

-----------------------------------------------------------------------------
(* Accounts and follows *)

Register(u) ==
  /\ account[u] = "gone"
  /\ account' = [account EXCEPT ![u] = "active"]
  /\ UNCHANGED <<follows, owner, sends, intents>>

\* mutant: the foreign keys of the graph do not cascade.
CascadeRowsOnly(u) ==
  /\ owner' = [e \in Endpoints |-> IF owner[e] = u THEN None ELSE owner[e]]
  /\ UNCHANGED follows
\* ON DELETE CASCADE of both tables.
Cascade(u) ==
  /\ owner' = [e \in Endpoints |-> IF owner[e] = u THEN None ELSE owner[e]]
  /\ follows' = {p \in follows : u \notin {p[1], p[2]}}

Delete(u) ==
  /\ account[u] # "gone"
  /\ account' = [account EXCEPT ![u] = "gone"]
  /\ Cascade(u)
  /\ asked' = {p \in asked : u \notin {p[1], p[2]}}
  /\ wanted' = {p \in wanted : p[1] # u}
  /\ UNCHANGED sends

\* PUT /me/settings, the ban and its end.  A ban leaves both tables alone.
SetDiscoverable(u) ==
  /\ Authorized(u)
  /\ account' = [account EXCEPT ![u] = IF @ = "active" THEN "hidden" ELSE "active"]
  /\ UNCHANGED <<follows, owner, sends, intents>>
Ban(u) ==
  /\ Authorized(u) /\ account' = [account EXCEPT ![u] = "banned"]
  /\ UNCHANGED <<follows, owner, sends, intents>>
Unban(u) ==
  /\ account[u] = "banned"
  /\ \E was \in {"active", "hidden"} : account' = [account EXCEPT ![u] = was]
  /\ UNCHANGED <<follows, owner, sends, intents>>

Follow(f, b) ==
  /\ f # b /\ Authorized(f) /\ account[b] = "active"
  /\ follows' = follows \cup {<<f, b>>} /\ asked' = asked \cup {<<f, b>>}
  /\ UNCHANGED <<account, owner, sends, wanted>>
Unfollow(f, b) ==
  /\ Authorized(f) /\ <<f, b>> \in follows
  /\ follows' = follows \ {<<f, b>>} /\ asked' = asked \ {<<f, b>>}
  /\ UNCHANGED <<account, owner, sends, wanted>>

-----------------------------------------------------------------------------
(* Alerts *)

\* POST /broadcasts of a public broadcast.
GoLive(b) ==
  /\ Authorized(b) /\ waking' = waking \cup {b}
  /\ UNCHANGED <<tables, alerts, intents>>

SubscriptionsForFollowers(b) ==
  {e \in Endpoints : owner[e] # None /\ <<owner[e], b>> \in follows}

\* By name: whoever bears it by now.
Notify(b) ==
  LET new == {[to |-> e, of |-> b] : e \in SubscriptionsForFollowers(b)} IN
  /\ b \in waking /\ waking' = waking \ {b}
  /\ Cardinality(alerts \cup new) <= MaxAlerts
  /\ alerts' = alerts \cup new
  /\ UNCHANGED <<tables, intents>>

\* The push service takes it, or the send fails in passing.
Sent(x) ==
  /\ x \in alerts /\ alerts' = alerts \ {x}
  /\ UNCHANGED <<tables, waking, intents>>

\* 404 or 410: the row goes, whomever it names by now.
Pruned(x) ==
  /\ x \in alerts /\ alerts' = alerts \ {x}
  /\ owner' = [owner EXCEPT ![x.to] = None]
  /\ wanted' = {p \in wanted : p[2] # x.to}
  /\ UNCHANGED <<account, follows, waking, asked>>

Next ==
  \/ \E u \in Users :
       \/ Register(u) \/ Delete(u) \/ SetDiscoverable(u) \/ Ban(u) \/ Unban(u)
       \/ GoLive(u) \/ Notify(u)
       \/ \E e \in Endpoints : Subscribes(u, e) \/ Unsubscribes(u, e)
       \/ \E b \in Users : Follow(u, b) \/ Unfollow(u, b)
  \/ \E x \in alerts : Sent(x) \/ Pruned(x)

Spec == Init /\ [][Next]_vars

-----------------------------------------------------------------------------
(* Properties *)

TypeOK ==
  /\ account \in [Users -> {"gone", "active", "hidden", "banned"}]
  /\ follows \subseteq Users \X Users
  /\ owner \in [Endpoints -> Users \cup {None}]
  /\ waking \subseteq Users /\ alerts \subseteq Alert
  /\ asked \subseteq Users \X Users /\ wanted \subseteq Users \X Endpoints

\* When followers are looked up, an alert is prepared only for an endpoint that
\* one account, and no other, wants its alerts on, and only if that account has
\* asked to follow the account that bears the broadcaster's name at that
\* moment: no follow or subscription outlives the deletion of an account and
\* serves the next one of its name, nobody takes over an endpoint of somebody
\* else.  It may not be the account that went live: that one may have been
\* deleted and its name registered anew during the import.
AlertsAreAskedFor ==
  [][\A x \in alerts' \ alerts :
       \E u \in Users : /\ <<u, x.of>> \in asked
                        /\ {v \in Users : <<v, x.to>> \in wanted} = {u}]_vars
=============================================================================
