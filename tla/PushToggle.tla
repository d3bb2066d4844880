------------------------------- MODULE PushToggle -------------------------------
(***************************************************************************)
(* The notifications toggle of the settings page in the tabs of a browser,   *)
(* the one push subscription those tabs share and the row the server keeps   *)
(* of each endpoint (SettingsPage.tsx, web lib/push.ts, routes/push.ts,      *)
(* repos/notifications.ts).                                                  *)
(*                                                                         *)
(* The page awaits the browser, the permission and the request; only the     *)
(* mount that called waits for it (notifBusy), a later mount or another tab  *)
(* toggles meanwhile.  A handler of the server is atomic; a request, its     *)
(* answer or the tab may be lost, and to the page a refusal for a ban looks  *)
(* like a lost request.  Accounts sign in and out of a tab, which leaves the *)
(* subscription of the browser alone.  The push service is external: it      *)
(* hands out new endpoints and may give one up.                              *)
(***************************************************************************)
EXTENDS Naturals

CONSTANTS
  Accounts,    \* usernames
  Tabs,        \* tabs of one browser
  Subs,        \* bound: endpoints the push service hands out
  Slots,       \* bound: toggles under way at a time, over all mounts
  Null

VARIABLES
  members,  \* the accounts that exist
  row,      \* push_subscriptions: whom the row of an endpoint names, or Null
  sub,      \* what getSubscription of the browser returns, or Null
  made,     \* endpoints handed out so far
  alive,    \* endpoints the push service delivers to
  tab,      \* tab[t]: its account and its settings page
  call,     \* call[k]: a toggleNotifications under way, or Null
  maker,    \* the account whose toggle made the subscription there is, while
            \* that account exists (observer)
  spoilt    \* whether the maker's latest POST of it failed or went unanswered
            \* (observer)

server == <<members, row>>
browser == <<sub, made, alive>>
observers == <<maker, spoilt>>
pushVars == <<server, browser, tab, call, observers>>

Someone == Accounts \cup {Null}
\* user: the account of the tab's access token; open: the page is mounted; on:
\* notifOn; stale: since it was mounted the subscription has changed under it or its own
\* toggle failed half-way (observer).
Tab == [user : Someone, open : BOOLEAN, on : BOOLEAN, stale : BOOLEAN]
\* op: what is awaited: the permission, POST, unsubscribe or DELETE; mine:
\* whether the mount that called is still there; endpoint: the argument of the
\* request; user: the account that sent it.
Call == [op : {"prompt", "save", "destroy", "drop"}, tab : Tabs, mine : BOOLEAN,
         endpoint : Subs \cup {Null}, user : Someone]

ASSUME PushAssumption == Null \notin Accounts \cup Subs \cup Call

PushInit ==
  /\ members = {}
  /\ row = [e \in Subs |-> Null]
  /\ sub = Null /\ made = {} /\ alive = {}
  /\ tab = [t \in Tabs |-> [user |-> Null, open |-> FALSE, on |-> FALSE,
                            stale |-> FALSE]]
  /\ call = [k \in Slots |-> Null]
  /\ maker = Null /\ spoilt = FALSE

-----------------------------------------------------------------------------
(* Helpers *)

\* requireAuth: the row of the account is read on every request.
Admitted(u) == u \in members

\* mutant: the row goes to whoever registers the endpoint last.
MaySaveAny(e, u) == TRUE
\* isEndpointOwnedByOther and the WHERE of saveSubscription.
MaySave(e, u) == row[e] \in {u, Null}

Waits(k, op) == call[k] # Null /\ call[k].op = op
Returns(k) == call' = [call EXCEPT ![k] = Null]

\* notifBusy is a state of the mount.
Busy(t) == \E k \in Slots : call[k] # Null /\ call[k].tab = t /\ call[k].mine

\* setNotifOn of the mount that called, if it is still there; a failure leaves
\* notifOn as it was.
Shows(k, on) ==
  tab' = IF call[k].mine THEN [tab EXCEPT ![call[k].tab].on = on] ELSE tab
Stumbles(k) ==
  tab' = IF call[k].mine THEN [tab EXCEPT ![call[k].tab].stale = TRUE] ELSE tab

\* The subscription changes under every page but those of T.
Changes(T, s, u) ==
  /\ sub' = s /\ maker' = u /\ spoilt' = FALSE
  /\ tab' = [t \in Tabs |-> IF t \in T THEN tab[t]
                            ELSE [tab[t] EXCEPT !.stale = tab[t].open]]
Mount(k) == {t \in Tabs : call[k].tab = t /\ call[k].mine}

\* The pages of the tabs T are left; what they called goes on.
Closed(T) ==
  call' = [k \in Slots |-> IF call[k] # Null /\ call[k].tab \in T
                           THEN [call[k] EXCEPT !.mine = FALSE] ELSE call[k]]
Blank(u) == [user |-> u, open |-> FALSE, on |-> FALSE, stale |-> FALSE]

\* POST and DELETE /push/subscribe at the server.
Saves(e, u) == row' = IF Admitted(u) /\ MaySave(e, u) THEN [row EXCEPT ![e] = u]
                      ELSE row
\* mutant: the name is cleared, the row stays.
DropsBlank(e, u) == row' = IF Admitted(u) /\ row[e] = u
                           THEN [row EXCEPT ![e] = "nobody"] ELSE row
Drops(e, u) == row' = IF Admitted(u) /\ row[e] = u THEN [row EXCEPT ![e] = Null]
                      ELSE row

-----------------------------------------------------------------------------
(* Tabs *)

\* Signing in, or a refresh with the cookie of another tab's account.
SignsIn(t, u) ==
  /\ u \in members /\ tab[t].user # u
  /\ tab' = [tab EXCEPT ![t].user = u]
  /\ UNCHANGED <<server, browser, call, observers>>

\* The page is left, or its tab signs out.
Leave(t) ==
  /\ tab[t].user # Null \/ tab[t].open
  /\ \E u \in {tab[t].user, Null} : tab' = [tab EXCEPT ![t] = Blank(u)]
  /\ Closed({t})
  /\ UNCHANGED <<server, browser, observers>>

\* The effect reads the subscription of the browser, not the row.
Visit(t) ==
  /\ ~tab[t].open /\ tab[t].user # Null
  /\ tab' = [tab EXCEPT ![t] = [@ EXCEPT !.open = TRUE, !.on = sub # Null]]
  /\ UNCHANGED <<server, browser, call, observers>>

-----------------------------------------------------------------------------
(* toggleNotifications *)

Calls(t, op, e, u) ==
  /\ tab[t].open /\ ~Busy(t)
  /\ \E k \in Slots :
       /\ call[k] = Null
       /\ call' = [call EXCEPT ![k] = [op |-> op, tab |-> t, mine |-> TRUE,
                                       endpoint |-> e, user |-> u]]

\* ensurePushSubscription takes the subscription there is, whoever made it.
Enable(t) ==
  /\ ~tab[t].on
  /\ IF sub = Null THEN Calls(t, "prompt", Null, Null)
     ELSE Calls(t, "save", sub, tab[t].user)
  /\ UNCHANGED <<server, browser, tab, observers>>

PromptDenied(k) ==
  /\ Waits(k, "prompt")
  /\ Returns(k)
  /\ UNCHANGED <<server, browser, tab, observers>>

\* A request goes out with the token the tab has by then.
Sends(k, op, e) ==
  call' = [call EXCEPT ![k] = [@ EXCEPT !.op = op, !.endpoint = e,
                                        !.user = tab[call[k].tab].user]]

\* subscribe() makes a subscription, or returns the one made meanwhile.
Granted(k) ==
  /\ Waits(k, "prompt")
  /\ IF sub # Null THEN Sends(k, "save", sub) /\ UNCHANGED <<browser, tab, observers>>
     ELSE \E e \in Subs \ made :
            /\ Sends(k, "save", e)
            /\ Changes(Mount(k), e, tab[call[k].tab].user)
            /\ made' = made \cup {e} /\ alive' = alive \cup {e}
  /\ UNCHANGED server

Spoils(k, failed) ==
  spoilt' = IF call[k].endpoint = sub /\ call[k].user = maker /\ maker # Null
            THEN failed ELSE spoilt

\* The server answers: "Notifications enabled", or a refusal.
Saved(k) ==
  LET e == call[k].endpoint
      u == call[k].user
      ok == Admitted(u) /\ MaySave(e, u)
  IN
  /\ Waits(k, "save")
  /\ Saves(e, u)
  /\ Spoils(k, ~ok)
  /\ IF ok THEN Shows(k, TRUE) ELSE Stumbles(k)
  /\ Returns(k)
  /\ UNCHANGED <<members, browser, maker>>

\* The request or its answer is lost.
SaveLost(k) ==
  /\ Waits(k, "save")
  /\ Saves(call[k].endpoint, call[k].user) \/ UNCHANGED row
  /\ Spoils(k, TRUE)
  /\ Stumbles(k) /\ Returns(k)
  /\ UNCHANGED <<members, browser, maker>>

\* A request that was answered with 401 is repeated with what the tab has by now:
\* its refresh may have met the cookie of another account.
Resends(k) ==
  /\ Waits(k, "save") \/ Waits(k, "drop")
  /\ tab[call[k].tab].user \notin {Null, call[k].user}
  /\ Sends(k, call[k].op, call[k].endpoint)
  /\ IF call[k].op = "save" THEN Spoils(k, TRUE) ELSE UNCHANGED spoilt
  /\ UNCHANGED <<server, browser, tab, maker>>

\* "before" is read; destroyPushSubscription reads again.
Disable(t) ==
  /\ tab[t].on
  /\ Calls(t, "destroy", sub, Null)
  /\ UNCHANGED <<server, browser, tab, observers>>

\* What is unsubscribed is the subscription by now, what DELETE names is "before".
Destroy(k) ==
  /\ Waits(k, "destroy") /\ call[k].endpoint # Null
  /\ alive' = alive \ {sub}
  /\ Changes(Mount(k), Null, Null)
  /\ Sends(k, "drop", call[k].endpoint)
  /\ UNCHANGED <<server, made>>

\* There was nothing to unsubscribe from: nothing is asked of the server.
DestroyOnly(k) ==
  /\ Waits(k, "destroy") /\ call[k].endpoint = Null
  /\ alive' = alive \ {sub} /\ sub' = Null /\ maker' = Null /\ spoilt' = FALSE
  /\ tab' = [t \in Tabs |-> IF t \in Mount(k) THEN [tab[t] EXCEPT !.on = FALSE]
                            ELSE [tab[t] EXCEPT !.stale = tab[t].open]]
  /\ Returns(k)
  /\ UNCHANGED <<server, made>>

\* unsubscribe() rejects, before or after it has taken effect.
DestroyFails(k) ==
  /\ Waits(k, "destroy")
  /\ \/ UNCHANGED <<browser, observers>> /\ Stumbles(k)
     \/ alive' = alive \ {sub} /\ UNCHANGED made /\ Changes({}, Null, Null)
  /\ Returns(k)
  /\ UNCHANGED server

\* The server answers: "Notifications disabled", or a refusal.
Dropped(k) ==
  /\ Waits(k, "drop")
  /\ Drops(call[k].endpoint, call[k].user)
  /\ IF Admitted(call[k].user) THEN Shows(k, FALSE) ELSE Stumbles(k)
  /\ Returns(k)
  /\ UNCHANGED <<members, browser, observers>>

DropLost(k) ==
  /\ Waits(k, "drop")
  /\ Drops(call[k].endpoint, call[k].user) \/ UNCHANGED row
  /\ Stumbles(k) /\ Returns(k)
  /\ UNCHANGED <<members, browser, observers>>

-----------------------------------------------------------------------------
(* The push service and the accounts *)

\* The push service gives an endpoint up; the browser may not know.
Expires(e) ==
  /\ e \in alive /\ alive' = alive \ {e}
  /\ UNCHANGED <<sub, tab, observers>> \/ Changes({}, Null, Null)
  /\ UNCHANGED <<server, made, call>>

\* An alert is answered with 404 or 410: the row goes, whomever it names.
Prunes(e) ==
  /\ e \in made \ alive
  /\ row' = [row EXCEPT ![e] = Null]
  /\ UNCHANGED <<members, browser, tab, call, observers>>

Joins(u) ==
  /\ u \notin members /\ members' = members \cup {u}
  /\ UNCHANGED <<row, browser, tab, call, observers>>

\* ON DELETE CASCADE; the tokens of the account are refused from now on.
Deletes(u) ==
  /\ u \in members /\ members' = members \ {u}
  /\ row' = [e \in Subs |-> IF row[e] = u THEN Null ELSE row[e]]
  /\ maker' = IF maker = u THEN Null ELSE maker
  /\ spoilt' = (spoilt /\ maker # u)
  /\ tab' = [t \in Tabs |-> IF tab[t].user = u THEN [tab[t] EXCEPT !.user = Null]
                            ELSE tab[t]]
  /\ call' = [k \in Slots |-> IF call[k] # Null /\ call[k].user = u
                              THEN [call[k] EXCEPT !.user = Null] ELSE call[k]]
  /\ UNCHANGED browser

PushNext ==
  \/ \E t \in Tabs :
       \/ Leave(t) \/ Visit(t) \/ Enable(t) \/ Disable(t)
       \/ \E u \in Accounts : SignsIn(t, u)
  \/ \E k \in Slots :
       \/ PromptDenied(k) \/ Granted(k) \/ Saved(k) \/ SaveLost(k) \/ Resends(k)
       \/ Destroy(k) \/ DestroyOnly(k) \/ DestroyFails(k) \/ Dropped(k) \/ DropLost(k)
  \/ \E e \in Subs : Expires(e) \/ Prunes(e)
  \/ \E u \in Accounts : Joins(u) \/ Deletes(u)

PushSpec == PushInit /\ [][PushNext]_pushVars

-----------------------------------------------------------------------------
(* Properties *)

PushTypeOK ==
  /\ members \subseteq Accounts
  /\ row \in [Subs -> Someone] /\ maker \in Someone /\ spoilt \in BOOLEAN
  /\ sub \in Subs \cup {Null} /\ made \subseteq Subs
  /\ alive \subseteq Subs
  /\ tab \in [Tabs -> Tab] /\ call \in [Slots -> Call \cup {Null}]

\* A toggle whose page is at rest and was mounted since the subscription last
\* changed under it tells the truth.  Off: nothing is delivered to this browser
\* on anybody's behalf.  On: the browser has a subscription, and if it is
\* this account's own, the server sends this account's alerts there, unless a
\* POST of it is under way, its last one failed or the push service gave it up.
\* To another account "on" says only that the browser is subscribed.
ToggleIsTrue ==
  \A t \in Tabs : tab[t].open /\ ~Busy(t) /\ ~tab[t].stale =>
    IF ~tab[t].on THEN sub = Null /\ alive = {}
    ELSE /\ sub # Null
         /\ tab[t].user # Null /\ maker = tab[t].user /\ sub \in alive /\ ~spoilt =>
              \/ row[sub] = tab[t].user
              \/ \E k \in Slots : Waits(k, "save") /\ call[k].endpoint = sub
=============================================================================
