-------------------------- MODULE NotificationsProofs --------------------------
(* Theorems about Notifications and PushToggle, for any accounts, tabs and    *)
(* endpoints.                                                                 *)
EXTENDS Notifications, PushToggle, TLAPS

USE NotificationsAssumption, PushAssumption

-----------------------------------------------------------------------------
(* Alerts: the tables and what was asked for *)

FollowsAsked == follows = asked
RowsWanted ==
  \A e \in Endpoints, u \in Users : <<u, e>> \in wanted <=> owner[e] = u
IInv == TypeOK /\ FollowsAsked /\ RowsWanted

LEMMA InitHolds == Init => IInv
  BY DEF Init, IInv, TypeOK, FollowsAsked, RowsWanted, Alert

\* The steps that leave follows and subscriptions alone.
LEMMA OtherSteps ==
  ASSUME IInv, NEW u \in Users,
         Register(u) \/ SetDiscoverable(u) \/ Ban(u) \/ Unban(u) \/ GoLive(u)
  PROVE  IInv'
  <1>1. UNCHANGED <<follows, owner, alerts, asked, wanted>>
    BY DEF Register, SetDiscoverable, Ban, Unban, GoLive, tables, sends, intents
  <1>2. /\ account' \in [Users -> {"gone", "active", "hidden", "banned"}]
        /\ waking' \subseteq Users
    BY DEF Register, SetDiscoverable, Ban, Unban, GoLive, tables, sends, IInv, TypeOK
  <1>3. QED
    BY <1>1, <1>2 DEF IInv, TypeOK, FollowsAsked, RowsWanted

LEMMA SubscriptionSteps ==
  ASSUME IInv, NEW u \in Users, NEW e \in Endpoints,
         Subscribes(u, e) \/ Unsubscribes(u, e)
  PROVE  IInv'
  <1>1. UNCHANGED <<account, follows, waking, alerts, asked>>
    BY DEF Subscribes, Unsubscribes, sends
  <1>2. CASE Subscribes(u, e)
    BY <1>1, <1>2 DEF Subscribes, Savable, IInv, TypeOK, FollowsAsked, RowsWanted
  <1>3. CASE Unsubscribes(u, e)
    BY <1>1, <1>3 DEF Unsubscribes, RemoveOwned, IInv, TypeOK, FollowsAsked, RowsWanted
  <1>4. QED
    BY <1>2, <1>3

LEMMA FollowSteps ==
  ASSUME IInv, NEW f \in Users, NEW b \in Users, Follow(f, b) \/ Unfollow(f, b)
  PROVE  IInv'
  <1>1. UNCHANGED <<account, owner, waking, alerts, wanted>>
    BY DEF Follow, Unfollow, sends
  <1>2. follows' = asked' /\ follows' \subseteq Users \X Users
    <2>1. CASE Follow(f, b)
      BY <2>1 DEF Follow, IInv, TypeOK, FollowsAsked
    <2>2. CASE Unfollow(f, b)
      BY <2>2 DEF Unfollow, IInv, TypeOK, FollowsAsked
    <2>3. QED
      BY <2>1, <2>2
  <1>3. QED
    BY <1>1, <1>2 DEF IInv, TypeOK, FollowsAsked, RowsWanted

LEMMA DeleteSteps ==
  ASSUME IInv, NEW u \in Users, Delete(u)
  PROVE  IInv'
  <1>1. TypeOK'
    BY DEF Delete, Cascade, sends, IInv, TypeOK
  <1>2. FollowsAsked'
    BY DEF Delete, Cascade, IInv, FollowsAsked
  <1>3. RowsWanted'
    BY DEF Delete, Cascade, IInv, TypeOK, RowsWanted
  <1>4. QED
    BY <1>1, <1>2, <1>3 DEF IInv

LEMMA NotifySteps ==
  ASSUME IInv, NEW b \in Users, Notify(b)
  PROVE  IInv'
  <1>1. {[to |-> e, of |-> b] : e \in SubscriptionsForFollowers(b)} \subseteq Alert
    <2>1. ASSUME NEW e \in SubscriptionsForFollowers(b)
          PROVE  [to |-> e, of |-> b] \in Alert
      BY DEF SubscriptionsForFollowers, Alert
    <2>2. QED
      BY <2>1
  <1>2. QED
    BY <1>1 DEF Notify, tables, intents, IInv, TypeOK, FollowsAsked, RowsWanted

LEMMA AlertSteps ==
  ASSUME IInv, NEW x \in alerts, Sent(x) \/ Pruned(x)
  PROVE  IInv'
  <1>1. x.to \in Endpoints
    BY DEF IInv, TypeOK, Alert
  <1>2. CASE Sent(x)
    BY <1>2 DEF Sent, tables, intents, IInv, TypeOK, FollowsAsked, RowsWanted
  <1>3. CASE Pruned(x)
    BY <1>1, <1>3 DEF Pruned, IInv, TypeOK, FollowsAsked, RowsWanted
  <1>4. QED
    BY <1>2, <1>3

LEMMA StepHolds ==
  ASSUME IInv, [Next]_vars
  PROVE  IInv'
  <1>1. CASE UNCHANGED vars
    BY <1>1 DEF vars, tables, sends, intents, IInv, TypeOK, FollowsAsked, RowsWanted
  <1>2. CASE Next
    BY <1>2, OtherSteps, SubscriptionSteps, FollowSteps, DeleteSteps, NotifySteps,
       AlertSteps DEF Next
  <1>3. QED
    BY <1>1, <1>2

\* The inductive invariant of the alerts: both tables are what was asked for,
\* by accounts that exist.
THEOREM Invariant == Spec => []IInv
  BY InitHolds, StepHolds, PTL DEF Spec

\* Every variable of the alerts keeps its type.
THEOREM TypeCorrect == Spec => []TypeOK
  BY Invariant, PTL DEF IInv

LEMMA AlertsAsked ==
  ASSUME IInv, [Next]_vars
  PROVE  [\A x \in alerts' \ alerts :
            \E u \in Users : /\ <<u, x.of>> \in asked
                             /\ {v \in Users : <<v, x.to>> \in wanted} = {u}]_vars
  <1>1. ASSUME NEW b \in Users, Notify(b), NEW x \in alerts' \ alerts
        PROVE  \E u \in Users : /\ <<u, x.of>> \in asked
                                /\ {v \in Users : <<v, x.to>> \in wanted} = {u}
    <2>1. PICK e \in SubscriptionsForFollowers(b) : x = [to |-> e, of |-> b]
      BY <1>1 DEF Notify
    <2>2. e \in Endpoints /\ owner[e] \in Users /\ <<owner[e], b>> \in follows
      BY DEF SubscriptionsForFollowers, IInv, TypeOK
    <2>3. {v \in Users : <<v, e>> \in wanted} = {owner[e]}
      BY <2>2 DEF IInv, RowsWanted
    <2>4. QED
      BY <2>1, <2>2, <2>3 DEF IInv, FollowsAsked
  <1>2. CASE Next /\ ~\E b \in Users : Notify(b)
    <2>1. alerts' \subseteq alerts
      BY <1>2 DEF Next, sends, Register, Delete, SetDiscoverable, Ban, Unban, GoLive,
         Subscribes, Unsubscribes, Follow, Unfollow, Sent, Pruned
    <2>2. QED
      BY <2>1
  <1>3. QED
    BY <1>1, <1>2

\* An alert is prepared only for endpoints and followings that their account has
\* asked for (lib/push.ts, repos/notifications.ts).
THEOREM AlertsGoToFollowers == Spec => AlertsAreAskedFor
  BY Invariant, AlertsAsked, PTL DEF Spec, AlertsAreAskedFor

-----------------------------------------------------------------------------
(* The toggle: an inductive invariant *)

Mine(k, t) == call[k] # Null /\ call[k].tab = t /\ call[k].mine

\* An endpoint that delivers is the browser's subscription; what a DELETE names
\* no longer delivers.
AliveIsHeld ==
  /\ sub \in made \cup {Null} /\ alive \subseteq {sub} /\ alive \subseteq made
  /\ \A k \in Slots : call[k] # Null => call[k].endpoint \in made \cup {Null}
  /\ \A k \in Slots : Waits(k, "drop") => call[k].endpoint \notin alive
  /\ \A k \in Slots : Waits(k, "save") => call[k].endpoint \in made

\* A mount has one toggle at a time and is there while the toggle is its own.
OneToggle ==
  /\ \A k \in Slots, t \in Tabs : Mine(k, t) => tab[t].open
  /\ \A j, k \in Slots, t \in Tabs : Mine(j, t) /\ Mine(k, t) => j = k

\* A page under which nothing has changed: its toggle subscribes before it asks
\* the server to save and unsubscribes before it asks it to drop, and otherwise
\* shows what the browser has.
PageFits(t) ==
  tab[t].open /\ ~tab[t].stale =>
    /\ (\A k \in Slots : Mine(k, t) => call[k].op \notin {"save", "drop"}) =>
         (tab[t].on <=> sub # Null)
    /\ \A k \in Slots : Mine(k, t) /\ call[k].op = "save" => sub # Null
    /\ \A k \in Slots : Mine(k, t) /\ call[k].op = "drop" => sub = Null
PagesFit == \A t \in Tabs : PageFits(t)

\* The maker of a subscription is served, unless its POST is yet to arrive.
MakerServed ==
  maker # Null /\ sub \in alive /\ ~spoilt =>
    \/ row[sub] = maker
    \/ \E k \in Slots : Waits(k, "save") /\ call[k].endpoint = sub /\ call[k].user = maker

PushInv == PushTypeOK /\ AliveIsHeld /\ OneToggle /\ PagesFit /\ MakerServed

LEMMA PushInitHolds == PushInit => PushInv
  <1> SUFFICES ASSUME PushInit PROVE PushInv
    OBVIOUS
  <1>1. PushTypeOK
    BY DEF PushInit, PushTypeOK, Someone, Tab
  <1>2. AliveIsHeld /\ OneToggle
    BY DEF PushInit, AliveIsHeld, OneToggle, Mine, Waits
  <1>3. PagesFit /\ MakerServed
    BY DEF PushInit, PagesFit, PageFits, MakerServed
  <1>4. QED
    BY <1>1, <1>2, <1>3 DEF PushInv

\* The fields of what a tab and a toggle have.
LEMMA Fields ==
  ASSUME PushTypeOK
  PROVE  /\ \A t \in Tabs : /\ tab[t] \in Tab /\ tab[t].user \in Someone
                            /\ tab[t].open \in BOOLEAN /\ tab[t].on \in BOOLEAN
                            /\ tab[t].stale \in BOOLEAN
         /\ \A k \in Slots : call[k] # Null =>
              /\ call[k] \in Call /\ call[k].tab \in Tabs
              /\ call[k].op \in {"prompt", "save", "destroy", "drop"}
              /\ call[k].mine \in BOOLEAN /\ call[k].user \in Someone
              /\ call[k].endpoint \in Subs \cup {Null}
  BY DEF PushTypeOK, Tab, Call

\* What the invariant says of a page at rest.
LEMMA RestingTruth == PushInv => ToggleIsTrue
  <1> SUFFICES ASSUME PushInv, NEW t \in Tabs, tab[t].open, ~Busy(t), ~tab[t].stale
               PROVE  IF ~tab[t].on THEN sub = Null /\ alive = {}
                      ELSE /\ sub # Null
                           /\ tab[t].user # Null /\ maker = tab[t].user
                                /\ sub \in alive /\ ~spoilt =>
                                \/ row[sub] = tab[t].user
                                \/ \E k \in Slots : Waits(k, "save") /\ call[k].endpoint = sub
    BY DEF ToggleIsTrue
  <1>1. \A k \in Slots : ~Mine(k, t)
    BY DEF Busy, Mine
  <1>2. tab[t].on <=> sub # Null
    BY <1>1 DEF PushInv, PagesFit, PageFits
  <1>3. ~tab[t].on => alive = {}
    BY <1>2 DEF PushInv, AliveIsHeld, PushTypeOK
  <1>4. QED
    BY <1>2, <1>3, Fields DEF PushInv, MakerServed

\* What the steps of a toggle make of the pages and of the toggles.
LEMMA ChangesTabs ==
  ASSUME PushTypeOK, NEW T, NEW s, NEW u, Changes(T, s, u)
  PROVE  /\ tab' \in [Tabs -> Tab]
         /\ \A t \in Tabs :
              /\ tab'[t].user = tab[t].user /\ tab'[t].open = tab[t].open
              /\ tab'[t].on = tab[t].on
              /\ t \in T => tab'[t].stale = tab[t].stale
              /\ t \notin T => tab'[t].stale = tab[t].open
  <1>1. ASSUME NEW t \in Tabs
        PROVE  /\ tab'[t] \in Tab
               /\ tab'[t].user = tab[t].user /\ tab'[t].open = tab[t].open
               /\ tab'[t].on = tab[t].on
               /\ t \in T => tab'[t].stale = tab[t].stale
               /\ t \notin T => tab'[t].stale = tab[t].open
    <2> DEFINE v == [tab[t] EXCEPT !.stale = tab[t].open]
    <2>1. tab'[t] = IF t \in T THEN tab[t] ELSE v
      BY DEF Changes
    <2>2. /\ v \in Tab /\ v.user = tab[t].user /\ v.open = tab[t].open
          /\ v.on = tab[t].on /\ v.stale = tab[t].open
      BY Fields DEF Tab
    <2> HIDE DEF v
    <2>3. QED
      BY <2>1, <2>2, Fields
  <1>2. tab' = [t \in Tabs |-> tab'[t]]
    BY DEF Changes
  <1>3. QED
    BY <1>1, <1>2

\* One field of the page of a toggle's mount, if it is still there.
LEMMA MountTab ==
  ASSUME PushTypeOK, NEW k \in Slots, call[k] # Null, NEW on \in BOOLEAN,
         Shows(k, on) \/ Stumbles(k)
  PROVE  /\ tab' \in [Tabs -> Tab]
         /\ \A t \in Tabs :
              /\ tab'[t].user = tab[t].user /\ tab'[t].open = tab[t].open
              /\ ~Mine(k, t) => tab'[t] = tab[t]
              /\ Mine(k, t) =>
                   \/ tab'[t].on = on /\ tab'[t].stale = tab[t].stale
                   \/ tab'[t].stale
  <1> DEFINE m == call[k].tab
             shown == [tab[m] EXCEPT !.on = on]
             stumbled == [tab[m] EXCEPT !.stale = TRUE]
  <1>1. m \in Tabs /\ call[k].mine \in BOOLEAN
    BY Fields
  <1>2. /\ shown \in Tab /\ shown.user = tab[m].user /\ shown.open = tab[m].open
        /\ shown.on = on /\ shown.stale = tab[m].stale
    BY <1>1, Fields DEF Tab
  <1>3. /\ stumbled \in Tab /\ stumbled.user = tab[m].user
        /\ stumbled.open = tab[m].open /\ stumbled.stale
    BY <1>1, Fields DEF Tab
  <1>4. \/ ~call[k].mine /\ tab' = tab
        \/ tab' = [tab EXCEPT ![m] = shown]
        \/ tab' = [tab EXCEPT ![m] = stumbled]
    BY DEF Shows, Stumbles
  <1>5. \A t \in Tabs : Mine(k, t) <=> t = m /\ call[k].mine
    BY DEF Mine
  <1>6. CASE ~call[k].mine
    <2>1. tab' = tab
      BY <1>6 DEF Shows, Stumbles
    <2>2. QED
      BY <1>5, <1>6, <2>1 DEF PushTypeOK
  <1> HIDE DEF m, shown, stumbled
  <1>7. CASE call[k].mine
    BY <1>1, <1>2, <1>3, <1>4, <1>5, <1>7 DEF PushTypeOK
  <1>8. QED
    BY <1>1, <1>6, <1>7

LEMMA ReturnsCalls ==
  ASSUME PushTypeOK, NEW k \in Slots, Returns(k)
  PROVE  /\ call' \in [Slots -> Call \cup {Null}] /\ call'[k] = Null
         /\ \A j \in Slots \ {k} : call'[j] = call[j]
  BY DEF Returns, PushTypeOK

LEMMA SendsCalls ==
  ASSUME PushTypeOK, NEW k \in Slots, call[k] # Null, NEW op \in {"save", "drop"},
         NEW e \in Subs \cup {Null}, Sends(k, op, e)
  PROVE  /\ call' \in [Slots -> Call \cup {Null}] /\ call'[k] \in Call
         /\ call'[k].op = op /\ call'[k].endpoint = e
         /\ call'[k].tab = call[k].tab /\ call'[k].mine = call[k].mine
         /\ call'[k].user = tab[call[k].tab].user
         /\ \A j \in Slots \ {k} : call'[j] = call[j]
  <1> DEFINE u == tab[call[k].tab].user
             c == [call[k] EXCEPT !.op = op, !.endpoint = e, !.user = u]
  <1>1. u \in Someone
    BY Fields
  <1> HIDE DEF u
  <1>2. /\ c \in Call /\ c.op = op /\ c.endpoint = e /\ c.tab = call[k].tab
        /\ c.mine = call[k].mine /\ c.user = u
    BY <1>1, Fields DEF Call
  <1>3. call' = [call EXCEPT ![k] = c]
    BY DEF Sends, u
  <1> HIDE DEF c
  <1>4. QED
    BY <1>2, <1>3 DEF PushTypeOK, u

\* The other toggles go on when one returns or sends its request.
LEMMA OthersGoOn ==
  ASSUME OneToggle, NEW k \in Slots, call[k] # Null,
         \A j \in Slots \ {k} : call'[j] = call[j],
         \A t \in Tabs : tab'[t].open = tab[t].open,
         \/ call'[k] = Null
         \/ call'[k].tab = call[k].tab /\ call'[k].mine = call[k].mine
  PROVE  OneToggle'
  BY DEF OneToggle, Mine

\* A toggle of the mount t starts.
LEMMA CallsStart ==
  ASSUME PushTypeOK, OneToggle, NEW t \in Tabs,
         NEW op \in {"prompt", "save", "destroy"},
         NEW e \in Subs \cup {Null}, NEW u \in Someone, Calls(t, op, e, u)
  PROVE  /\ tab[t].open /\ \A k \in Slots : ~Mine(k, t)
         /\ call' \in [Slots -> Call \cup {Null}]
         /\ \E k \in Slots :
              /\ call[k] = Null /\ call'[k] \in Call
              /\ call'[k].op = op /\ call'[k].tab = t /\ call'[k].mine
              /\ call'[k].endpoint = e /\ call'[k].user = u
              /\ \A j \in Slots \ {k} : call'[j] = call[j]
  <1>1. tab[t].open /\ \A k \in Slots : ~Mine(k, t)
    BY DEF Calls, Busy, Mine
  <1> DEFINE c == [op |-> op, tab |-> t, mine |-> TRUE, endpoint |-> e, user |-> u]
  <1>2. PICK k \in Slots : call[k] = Null /\ call' = [call EXCEPT ![k] = c]
    BY DEF Calls
  <1>3. /\ c \in Call /\ c.op = op /\ c.tab = t /\ c.mine /\ c.endpoint = e
        /\ c.user = u
    BY DEF Call
  <1> HIDE DEF c
  <1>4. QED
    BY <1>1, <1>2, <1>3 DEF PushTypeOK

-----------------------------------------------------------------------------
(* The toggle: its steps *)

LEMMA SignsInHolds ==
  ASSUME PushInv, NEW t \in Tabs, NEW u \in Accounts, SignsIn(t, u)
  PROVE  PushInv'
  <1> USE DEF PushInv
  <1> DEFINE v == [tab[t] EXCEPT !.user = u]
  <1>1. /\ v \in Tab /\ v.open = tab[t].open
        /\ v.on = tab[t].on /\ v.stale = tab[t].stale
    BY Fields DEF SignsIn, Tab, Someone
  <1>2. tab' = [tab EXCEPT ![t] = v] /\ UNCHANGED <<server, browser, call, observers>>
    BY DEF SignsIn
  <1> HIDE DEF v
  <1>3. PushTypeOK'
    BY <1>1, <1>2 DEF server, browser, observers, PushTypeOK
  <1>4. AliveIsHeld'
    BY <1>2 DEF browser, AliveIsHeld, Waits
  <1>5. OneToggle'
    BY <1>1, <1>2 DEF OneToggle, Mine, PushTypeOK
  <1>6. PagesFit'
    BY <1>1, <1>2 DEF browser, PagesFit, PageFits, OneToggle, Mine, PushTypeOK
  <1>7. MakerServed'
    BY <1>2 DEF server, browser, observers, MakerServed, Waits
  <1>8. QED
    BY <1>3, <1>4, <1>5, <1>6, <1>7

LEMMA VisitHolds ==
  ASSUME PushInv, NEW t \in Tabs, Visit(t)
  PROVE  PushInv'
  <1> USE DEF PushInv
  <1> DEFINE v == [tab[t] EXCEPT !.open = TRUE, !.on = sub # Null]
  <1>1. /\ v \in Tab /\ v.open
        /\ ~tab[t].open /\ v.on = (sub # Null)
    BY Fields DEF Visit, Tab, Someone
  <1>2. tab' = [tab EXCEPT ![t] = v] /\ UNCHANGED <<server, browser, call, observers>>
    BY DEF Visit
  <1> HIDE DEF v
  <1>3. PushTypeOK'
    BY <1>1, <1>2 DEF server, browser, observers, PushTypeOK
  <1>4. AliveIsHeld'
    BY <1>2 DEF browser, AliveIsHeld, Waits
  <1>5. OneToggle'
    BY <1>1, <1>2 DEF OneToggle, Mine, PushTypeOK
  <1>6. PagesFit'
    BY <1>1, <1>2 DEF browser, PagesFit, PageFits, OneToggle, Mine, PushTypeOK
  <1>7. MakerServed'
    BY <1>2 DEF server, browser, observers, MakerServed, Waits
  <1>8. QED
    BY <1>3, <1>4, <1>5, <1>6, <1>7

LEMMA EnableHolds ==
  ASSUME PushInv, NEW t \in Tabs, Enable(t)
  PROVE  PushInv'
  <1> USE DEF PushInv
  <1>1. PICK op \in {"prompt", "save"}, e \in made \cup {Null}, u \in Someone :
          /\ Calls(t, op, e, u)
          /\ op = "save" => e = sub /\ sub # Null
    BY Fields DEF Enable, AliveIsHeld, Someone
  <1>2. UNCHANGED <<server, browser, tab, observers>> /\ made \subseteq Subs
    BY DEF Enable, PushTypeOK
  <1>3. PICK k \in Slots :
          /\ call[k] = Null /\ call'[k] \in Call
          /\ call'[k].op = op /\ call'[k].tab = t /\ call'[k].mine
          /\ call'[k].endpoint = e /\ call'[k].user = u
          /\ \A j \in Slots \ {k} : call'[j] = call[j]
    BY <1>1, <1>2, CallsStart
  <1>4. /\ tab[t].open /\ \A j \in Slots : ~Mine(j, t)
        /\ call' \in [Slots -> Call \cup {Null}]
    BY <1>1, <1>2, CallsStart
  <1>5. PushTypeOK'
    BY <1>2, <1>4 DEF server, browser, observers, PushTypeOK
  <1>6. AliveIsHeld'
    BY <1>1, <1>2, <1>3 DEF browser, AliveIsHeld, Waits
  <1>7. OneToggle'
    BY <1>2, <1>3, <1>4 DEF OneToggle, Mine
  <1>8. PagesFit'
    <2>1. ASSUME NEW x \in Tabs PROVE PageFits(x)'
      BY <1>1, <1>2, <1>3, <1>4 DEF browser, PagesFit, PageFits, Mine
    <2>2. QED
      BY <2>1 DEF PagesFit
  <1>9. MakerServed'
    BY <1>2, <1>3 DEF server, browser, observers, MakerServed, Waits
  <1>10. QED
    BY <1>5, <1>6, <1>7, <1>8, <1>9

LEMMA DisableHolds ==
  ASSUME PushInv, NEW t \in Tabs, Disable(t)
  PROVE  PushInv'
  <1> USE DEF PushInv
  <1>1. PICK op \in {"destroy"}, e \in made \cup {Null}, u \in Someone :
          Calls(t, op, e, u)
    BY Fields DEF Disable, AliveIsHeld, Someone
  <1>2. UNCHANGED <<server, browser, tab, observers>> /\ made \subseteq Subs
    BY DEF Disable, PushTypeOK
  <1>3. PICK k \in Slots :
          /\ call[k] = Null /\ call'[k] \in Call
          /\ call'[k].op = op /\ call'[k].tab = t /\ call'[k].mine
          /\ call'[k].endpoint = e /\ call'[k].user = u
          /\ \A j \in Slots \ {k} : call'[j] = call[j]
    BY <1>1, <1>2, CallsStart
  <1>4. /\ tab[t].open /\ \A j \in Slots : ~Mine(j, t)
        /\ call' \in [Slots -> Call \cup {Null}]
    BY <1>1, <1>2, CallsStart
  <1>5. PushTypeOK'
    BY <1>2, <1>4 DEF server, browser, observers, PushTypeOK
  <1>6. AliveIsHeld'
    BY <1>1, <1>2, <1>3 DEF browser, AliveIsHeld, Waits
  <1>7. OneToggle'
    BY <1>2, <1>3, <1>4 DEF OneToggle, Mine
  <1>8. PagesFit'
    <2>1. ASSUME NEW x \in Tabs PROVE PageFits(x)'
      BY <1>1, <1>2, <1>3, <1>4 DEF browser, PagesFit, PageFits, Mine
    <2>2. QED
      BY <2>1 DEF PagesFit
  <1>9. MakerServed'
    BY <1>2, <1>3 DEF server, browser, observers, MakerServed, Waits
  <1>10. QED
    BY <1>5, <1>6, <1>7, <1>8, <1>9

LEMMA LeaveHolds ==
  ASSUME PushInv, NEW t \in Tabs, Leave(t)
  PROVE  PushInv'
  <1> USE DEF PushInv
  <1>1. PICK u \in Someone : tab' = [tab EXCEPT ![t] = Blank(u)]
    BY Fields DEF Leave, Someone
  <1>2. /\ Blank(u) \in Tab /\ ~Blank(u).open
    BY DEF Blank, Tab
  <1>3. UNCHANGED <<server, browser, observers>>
    BY DEF Leave
  <1>4. ASSUME NEW k \in Slots
        PROVE  /\ call'[k] \in Call \cup {Null} /\ (call'[k] = Null <=> call[k] = Null)
               /\ call[k] # Null => /\ call'[k].op = call[k].op
                                    /\ call'[k].tab = call[k].tab
                                    /\ call'[k].endpoint = call[k].endpoint
                                    /\ call'[k].user = call[k].user
                                    /\ call[k].tab # t => call'[k].mine = call[k].mine
                                    /\ call[k].tab = t => ~call'[k].mine
    <2> DEFINE c == [call[k] EXCEPT !.mine = FALSE]
    <2>1. call'[k] = IF call[k] # Null /\ call[k].tab = t THEN c ELSE call[k]
      BY DEF Leave, Closed
    <2>2. call[k] # Null =>
            /\ c \in Call /\ c.op = call[k].op /\ c.tab = call[k].tab
            /\ c.endpoint = call[k].endpoint /\ c.user = call[k].user /\ ~c.mine
      BY Fields DEF Call
    <2> HIDE DEF c
    <2>3. QED
      BY <2>1, <2>2 DEF PushTypeOK
  <1>5. call' = [k \in Slots |-> call'[k]]
    BY DEF Leave, Closed
  <1>6. PushTypeOK'
    BY <1>1, <1>2, <1>3, <1>4, <1>5 DEF server, browser, observers, PushTypeOK
  <1>7. AliveIsHeld'
    BY <1>3, <1>4 DEF browser, AliveIsHeld, Waits
  <1> HIDE DEF Blank
  <1>8. \A x \in Tabs : tab'[x] = IF x = t THEN Blank(u) ELSE tab[x]
    BY <1>1 DEF PushTypeOK
  <1>9. \A k \in Slots, x \in Tabs : Mine(k, x)' <=> Mine(k, x) /\ x # t
    BY <1>4, Fields DEF Mine
  <1>10. OneToggle'
    BY <1>2, <1>8, <1>9 DEF OneToggle
  <1>11. PagesFit'
    <2>1. ASSUME NEW x \in Tabs PROVE PageFits(x)'
      BY <1>2, <1>3, <1>4, <1>8, <1>9 DEF browser, PagesFit, PageFits, Mine
    <2>2. QED
      BY <2>1 DEF PagesFit
  <1>12. MakerServed'
    BY <1>3, <1>4 DEF server, browser, observers, MakerServed, Waits
  <1>13. QED
    BY <1>6, <1>7, <1>10, <1>11, <1>12

LEMMA PromptDeniedHolds ==
  ASSUME PushInv, NEW k \in Slots, PromptDenied(k)
  PROVE  PushInv'
  <1> USE DEF PushInv
  <1>1. UNCHANGED <<server, browser, tab, observers>>
    BY DEF PromptDenied
  <1>2. /\ call[k] # Null /\ call[k].op = "prompt"
        /\ call' \in [Slots -> Call \cup {Null}] /\ call'[k] = Null
        /\ \A j \in Slots \ {k} : call'[j] = call[j]
    BY ReturnsCalls DEF PromptDenied, Waits
  <1>3. PushTypeOK'
    BY <1>1, <1>2 DEF server, browser, observers, PushTypeOK
  <1>4. AliveIsHeld'
    BY <1>1, <1>2 DEF browser, AliveIsHeld, Waits
  <1>5. OneToggle'
    BY <1>1, <1>2, OthersGoOn
  <1>6. PagesFit'
    <2>1. ASSUME NEW x \in Tabs PROVE PageFits(x)'
      BY <1>1, <1>2 DEF browser, PagesFit, PageFits, Mine
    <2>2. QED
      BY <2>1 DEF PagesFit
  <1>7. MakerServed'
    BY <1>1, <1>2 DEF server, browser, observers, MakerServed, Waits
  <1>8. QED
    BY <1>3, <1>4, <1>5, <1>6, <1>7

LEMMA GrantedHolds ==
  ASSUME PushInv, NEW k \in Slots, Granted(k)
  PROVE  PushInv'
  <1> USE DEF PushInv
  <1>1. call[k] # Null /\ call[k].op = "prompt" /\ UNCHANGED server
    BY DEF Granted, Waits
  <1>2. CASE sub # Null
    <2>1. Sends(k, "save", sub) /\ UNCHANGED <<browser, tab, observers>>
      BY <1>2 DEF Granted
    <2>2. sub \in made /\ sub \in Subs
      BY <1>2 DEF AliveIsHeld, PushTypeOK
    <2>3. /\ call' \in [Slots -> Call \cup {Null}] /\ call'[k] \in Call
          /\ call'[k].op = "save" /\ call'[k].endpoint = sub
          /\ call'[k].tab = call[k].tab /\ call'[k].mine = call[k].mine
          /\ \A j \in Slots \ {k} : call'[j] = call[j]
      BY <1>1, <2>1, <2>2, SendsCalls
    <2>4. PushTypeOK'
      BY <1>1, <2>1, <2>3 DEF server, browser, observers, PushTypeOK
    <2>5. AliveIsHeld'
      BY <2>1, <2>2, <2>3 DEF browser, AliveIsHeld, Waits
    <2>6. OneToggle'
      BY <1>1, <2>1, <2>3, OthersGoOn
    <2>7. PagesFit'
      <3>1. ASSUME NEW x \in Tabs PROVE PageFits(x)'
        BY <1>1, <1>2, <2>1, <2>3 DEF browser, PagesFit, PageFits, OneToggle, Mine
      <3>2. QED
        BY <3>1 DEF PagesFit
    <2>8. MakerServed'
      BY <1>1, <2>1, <2>3 DEF server, browser, observers, MakerServed, Waits
    <2>9. QED
      BY <2>4, <2>5, <2>6, <2>7, <2>8
  <1>3. CASE sub = Null
    <2>1. PICK e \in Subs \ made :
            /\ Sends(k, "save", e) /\ Changes(Mount(k), e, tab[call[k].tab].user)
            /\ made' = made \cup {e} /\ alive' = alive \cup {e}
      BY <1>3 DEF Granted
    <2>2. /\ call' \in [Slots -> Call \cup {Null}] /\ call'[k] \in Call
          /\ call'[k].op = "save" /\ call'[k].endpoint = e
          /\ call'[k].tab = call[k].tab /\ call'[k].mine = call[k].mine
          /\ call'[k].user = tab[call[k].tab].user
          /\ \A j \in Slots \ {k} : call'[j] = call[j]
      BY <1>1, <2>1, SendsCalls
    <2>3. /\ tab' \in [Tabs -> Tab]
          /\ \A t \in Tabs :
               /\ tab'[t].open = tab[t].open /\ tab'[t].on = tab[t].on
               /\ Mine(k, t) => tab'[t].stale = tab[t].stale
               /\ ~Mine(k, t) => tab'[t].stale = tab[t].open
      BY <1>1, <2>1, ChangesTabs DEF Mount, Mine
    <2>4. /\ sub' = e /\ maker' = tab[call[k].tab].user /\ spoilt' = FALSE
          /\ maker' \in Someone
      BY <1>1, <2>1, Fields DEF Changes
    <2>5. PushTypeOK'
      BY <1>1, <2>1, <2>2, <2>3, <2>4 DEF server, PushTypeOK
    <2>6. AliveIsHeld'
      BY <1>1, <1>3, <2>1, <2>2, <2>4 DEF AliveIsHeld, Waits, PushTypeOK
    <2>7. OneToggle'
      BY <1>1, <2>2, <2>3, OthersGoOn
    <2>8. PagesFit'
      <3>1. ASSUME NEW x \in Tabs PROVE PageFits(x)'
        BY <1>1, <1>3, <2>2, <2>3, <2>4 DEF PagesFit, PageFits, OneToggle, Mine
      <3>2. QED
        BY <3>1 DEF PagesFit
    <2>9. MakerServed'
      BY <2>2, <2>4 DEF MakerServed, Waits
    <2>10. QED
      BY <2>5, <2>6, <2>7, <2>8, <2>9
  <1>4. QED
    BY <1>2, <1>3

LEMMA SavedHolds ==
  ASSUME PushInv, NEW k \in Slots, Saved(k)
  PROVE  PushInv'
  <1> USE DEF PushInv
  <1>1. /\ call[k] # Null /\ call[k].op = "save"
        /\ call' \in [Slots -> Call \cup {Null}] /\ call'[k] = Null
        /\ \A j \in Slots \ {k} : call'[j] = call[j]
    BY ReturnsCalls DEF Saved, Waits
  <1>2. UNCHANGED <<members, browser, maker>>
    BY DEF Saved
  <1>3. call[k].endpoint \in made /\ call[k].endpoint \in Subs /\ call[k].user \in Someone
    BY <1>1, Fields DEF AliveIsHeld, Waits, PushTypeOK
  <1>4. Shows(k, TRUE) \/ Stumbles(k)
    BY DEF Saved
  <1>5. /\ tab' \in [Tabs -> Tab]
        /\ \A t \in Tabs :
             /\ tab'[t].open = tab[t].open
             /\ ~Mine(k, t) => tab'[t] = tab[t]
             /\ Mine(k, t) => \/ tab'[t].on /\ tab'[t].stale = tab[t].stale
                              \/ tab'[t].stale
    <2>1. TRUE \in BOOLEAN
      OBVIOUS
    <2>2. QED
      BY <1>1, <1>4, <2>1, MountTab
  <1>6. /\ row' \in [Subs -> Someone] /\ spoilt' \in BOOLEAN
        /\ \A e \in Subs : \/ row'[e] = row[e]
                           \/ /\ e = call[k].endpoint /\ row'[e] = call[k].user
                              /\ row[e] \in {call[k].user, Null}
    BY <1>3 DEF Saved, Saves, MaySave, Spoils, PushTypeOK
  <1>7. call[k].endpoint = sub /\ call[k].user = maker /\ maker # Null
          => spoilt' \/ row'[sub] = maker
    BY <1>3 DEF Saved, Saves, MaySave, Spoils, PushTypeOK
  <1>8. PushTypeOK'
    BY <1>1, <1>2, <1>5, <1>6 DEF browser, PushTypeOK
  <1>9. AliveIsHeld'
    BY <1>1, <1>2 DEF browser, AliveIsHeld, Waits
  <1>10. OneToggle'
    BY <1>1, <1>5, OthersGoOn
  <1>11. PagesFit'
    <2>1. ASSUME NEW x \in Tabs PROVE PageFits(x)'
      BY <1>1, <1>2, <1>5 DEF browser, PagesFit, PageFits, OneToggle, Mine
    <2>2. QED
      BY <2>1 DEF PagesFit
  <1>12. MakerServed'
    <2> SUFFICES ASSUME maker # Null, sub \in alive, ~spoilt'
                 PROVE  \/ row'[sub] = maker
                        \/ \E j \in Slots : /\ Waits(j, "save")' /\ call'[j].endpoint = sub
                                            /\ call'[j].user = maker
      BY <1>2 DEF browser, MakerServed
    <2>1. CASE call[k].endpoint = sub /\ call[k].user = maker
      BY <1>7, <2>1
    <2>2. CASE ~(call[k].endpoint = sub /\ call[k].user = maker)
      <3>1. ~spoilt
        BY <2>2 DEF Saved, Spoils
      <3>2. row[sub] = maker => row'[sub] = maker
        BY <1>6, <2>2 DEF PushTypeOK
      <3>3. QED
        BY <1>1, <2>2, <3>1, <3>2 DEF MakerServed, Waits
    <2>3. QED
      BY <2>1, <2>2
  <1>13. QED
    BY <1>8, <1>9, <1>10, <1>11, <1>12

LEMMA SaveLostHolds ==
  ASSUME PushInv, NEW k \in Slots, SaveLost(k)
  PROVE  PushInv'
  <1> USE DEF PushInv
  <1>1. /\ call[k] # Null /\ call[k].op = "save"
        /\ call' \in [Slots -> Call \cup {Null}] /\ call'[k] = Null
        /\ \A j \in Slots \ {k} : call'[j] = call[j]
    BY ReturnsCalls DEF SaveLost, Waits
  <1>2. UNCHANGED <<members, browser, maker>>
    BY DEF SaveLost
  <1>3. call[k].endpoint \in made /\ call[k].endpoint \in Subs /\ call[k].user \in Someone
    BY <1>1, Fields DEF AliveIsHeld, Waits, PushTypeOK
  <1>4. Shows(k, TRUE) \/ Stumbles(k)
    BY DEF SaveLost
  <1>5. /\ tab' \in [Tabs -> Tab]
        /\ \A t \in Tabs :
             /\ tab'[t].open = tab[t].open
             /\ ~Mine(k, t) => tab'[t] = tab[t]
             /\ Mine(k, t) => \/ tab'[t].on /\ tab'[t].stale = tab[t].stale
                              \/ tab'[t].stale
    <2>1. TRUE \in BOOLEAN
      OBVIOUS
    <2>2. QED
      BY <1>1, <1>4, <2>1, MountTab
  <1>6. /\ row' \in [Subs -> Someone] /\ spoilt' \in BOOLEAN
        /\ \A e \in Subs : \/ row'[e] = row[e]
                           \/ /\ e = call[k].endpoint /\ row'[e] = call[k].user
                              /\ row[e] \in {call[k].user, Null}
    BY <1>3 DEF SaveLost, Saves, MaySave, Spoils, PushTypeOK
  <1>7. call[k].endpoint = sub /\ call[k].user = maker /\ maker # Null
          => spoilt' \/ row'[sub] = maker
    BY <1>3 DEF SaveLost, Saves, MaySave, Spoils, PushTypeOK
  <1>8. PushTypeOK'
    BY <1>1, <1>2, <1>5, <1>6 DEF browser, PushTypeOK
  <1>9. AliveIsHeld'
    BY <1>1, <1>2 DEF browser, AliveIsHeld, Waits
  <1>10. OneToggle'
    BY <1>1, <1>5, OthersGoOn
  <1>11. PagesFit'
    <2>1. ASSUME NEW x \in Tabs PROVE PageFits(x)'
      BY <1>1, <1>2, <1>5 DEF browser, PagesFit, PageFits, OneToggle, Mine
    <2>2. QED
      BY <2>1 DEF PagesFit
  <1>12. MakerServed'
    <2> SUFFICES ASSUME maker # Null, sub \in alive, ~spoilt'
                 PROVE  \/ row'[sub] = maker
                        \/ \E j \in Slots : /\ Waits(j, "save")' /\ call'[j].endpoint = sub
                                            /\ call'[j].user = maker
      BY <1>2 DEF browser, MakerServed
    <2>1. CASE call[k].endpoint = sub /\ call[k].user = maker
      BY <1>7, <2>1
    <2>2. CASE ~(call[k].endpoint = sub /\ call[k].user = maker)
      <3>1. ~spoilt
        BY <2>2 DEF SaveLost, Spoils
      <3>2. row[sub] = maker => row'[sub] = maker
        BY <1>6, <2>2 DEF PushTypeOK
      <3>3. QED
        BY <1>1, <2>2, <3>1, <3>2 DEF MakerServed, Waits
    <2>3. QED
      BY <2>1, <2>2
  <1>13. QED
    BY <1>8, <1>9, <1>10, <1>11, <1>12

LEMMA DroppedHolds ==
  ASSUME PushInv, NEW k \in Slots, Dropped(k)
  PROVE  PushInv'
  <1> USE DEF PushInv
  <1>1. /\ call[k] # Null /\ call[k].op = "drop"
        /\ call' \in [Slots -> Call \cup {Null}] /\ call'[k] = Null
        /\ \A j \in Slots \ {k} : call'[j] = call[j]
    BY ReturnsCalls DEF Dropped, Waits
  <1>2. UNCHANGED <<members, browser, observers>>
    BY DEF Dropped
  <1>3. call[k].endpoint \notin alive /\ call[k].endpoint \in Subs \cup {Null}
    BY <1>1, Fields DEF AliveIsHeld, Waits
  <1>4. Shows(k, FALSE) \/ Stumbles(k)
    BY DEF Dropped
  <1>5. /\ tab' \in [Tabs -> Tab]
        /\ \A t \in Tabs :
             /\ tab'[t].open = tab[t].open
             /\ ~Mine(k, t) => tab'[t] = tab[t]
             /\ Mine(k, t) => \/ ~tab'[t].on /\ tab'[t].stale = tab[t].stale
                              \/ tab'[t].stale
    <2>1. FALSE \in BOOLEAN
      OBVIOUS
    <2>2. QED
      BY <1>1, <1>4, <2>1, MountTab
  <1>6. /\ row' \in [Subs -> Someone]
        /\ \A e \in Subs : e # call[k].endpoint => row'[e] = row[e]
    BY DEF Dropped, Drops, PushTypeOK, Someone
  <1>7. PushTypeOK'
    BY <1>1, <1>2, <1>5, <1>6 DEF browser, observers, PushTypeOK
  <1>8. AliveIsHeld'
    BY <1>1, <1>2 DEF browser, AliveIsHeld, Waits
  <1>9. OneToggle'
    BY <1>1, <1>5, OthersGoOn
  <1>10. PagesFit'
    <2>1. ASSUME NEW x \in Tabs PROVE PageFits(x)'
      BY <1>1, <1>2, <1>5 DEF browser, PagesFit, PageFits, OneToggle, Mine
    <2>2. QED
      BY <2>1 DEF PagesFit
  <1>11. MakerServed'
    BY <1>1, <1>2, <1>3, <1>6 DEF browser, observers, MakerServed, Waits, PushTypeOK
  <1>12. QED
    BY <1>7, <1>8, <1>9, <1>10, <1>11

LEMMA DropLostHolds ==
  ASSUME PushInv, NEW k \in Slots, DropLost(k)
  PROVE  PushInv'
  <1> USE DEF PushInv
  <1>1. /\ call[k] # Null /\ call[k].op = "drop"
        /\ call' \in [Slots -> Call \cup {Null}] /\ call'[k] = Null
        /\ \A j \in Slots \ {k} : call'[j] = call[j]
    BY ReturnsCalls DEF DropLost, Waits
  <1>2. UNCHANGED <<members, browser, observers>>
    BY DEF DropLost
  <1>3. call[k].endpoint \notin alive /\ call[k].endpoint \in Subs \cup {Null}
    BY <1>1, Fields DEF AliveIsHeld, Waits
  <1>4. Shows(k, FALSE) \/ Stumbles(k)
    BY DEF DropLost
  <1>5. /\ tab' \in [Tabs -> Tab]
        /\ \A t \in Tabs :
             /\ tab'[t].open = tab[t].open
             /\ ~Mine(k, t) => tab'[t] = tab[t]
             /\ Mine(k, t) => \/ ~tab'[t].on /\ tab'[t].stale = tab[t].stale
                              \/ tab'[t].stale
    <2>1. FALSE \in BOOLEAN
      OBVIOUS
    <2>2. QED
      BY <1>1, <1>4, <2>1, MountTab
  <1>6. /\ row' \in [Subs -> Someone]
        /\ \A e \in Subs : e # call[k].endpoint => row'[e] = row[e]
    BY DEF DropLost, Drops, PushTypeOK, Someone
  <1>7. PushTypeOK'
    BY <1>1, <1>2, <1>5, <1>6 DEF browser, observers, PushTypeOK
  <1>8. AliveIsHeld'
    BY <1>1, <1>2 DEF browser, AliveIsHeld, Waits
  <1>9. OneToggle'
    BY <1>1, <1>5, OthersGoOn
  <1>10. PagesFit'
    <2>1. ASSUME NEW x \in Tabs PROVE PageFits(x)'
      BY <1>1, <1>2, <1>5 DEF browser, PagesFit, PageFits, OneToggle, Mine
    <2>2. QED
      BY <2>1 DEF PagesFit
  <1>11. MakerServed'
    BY <1>1, <1>2, <1>3, <1>6 DEF browser, observers, MakerServed, Waits, PushTypeOK
  <1>12. QED
    BY <1>7, <1>8, <1>9, <1>10, <1>11

LEMMA ResendsHolds ==
  ASSUME PushInv, NEW k \in Slots, Resends(k)
  PROVE  PushInv'
  <1> USE DEF PushInv
  <1>1. /\ call[k] # Null /\ call[k].op \in {"save", "drop"}
        /\ call[k].endpoint \in Subs \cup {Null}
        /\ UNCHANGED <<server, browser, tab, maker>>
    BY Fields DEF Resends, Waits
  <1>2. /\ call' \in [Slots -> Call \cup {Null}] /\ call'[k] \in Call
        /\ call'[k].op = call[k].op /\ call'[k].endpoint = call[k].endpoint
        /\ call'[k].tab = call[k].tab /\ call'[k].mine = call[k].mine
        /\ \A j \in Slots \ {k} : call'[j] = call[j]
    <2>1. Sends(k, call[k].op, call[k].endpoint)
      BY DEF Resends
    <2>2. QED
      BY <1>1, <2>1, SendsCalls
  <1>3. /\ spoilt' \in BOOLEAN /\ (spoilt' = spoilt \/ spoilt' = TRUE)
        /\ call[k].op = "save" /\ call[k].endpoint = sub /\ call[k].user = maker
           /\ maker # Null => spoilt' = TRUE
    BY DEF Resends, Spoils, PushTypeOK
  <1>4. PushTypeOK'
    BY <1>1, <1>2, <1>3 DEF server, browser, PushTypeOK
  <1>5. call'[k] # Null
    BY <1>2, PushAssumption
  <1>6. AliveIsHeld'
    BY <1>1, <1>2, <1>5 DEF browser, AliveIsHeld, Waits
  <1>7. OneToggle'
    BY <1>1, <1>2, OthersGoOn
  <1>8. PagesFit'
    <2>1. ASSUME NEW x \in Tabs PROVE PageFits(x)'
      BY <1>1, <1>2, <1>5 DEF browser, PagesFit, PageFits, Mine
    <2>2. QED
      BY <2>1 DEF PagesFit
  <1>9. MakerServed'
    BY <1>1, <1>2, <1>3, <1>5 DEF server, browser, MakerServed, Waits
  <1>10. QED
    BY <1>4, <1>6, <1>7, <1>8, <1>9

LEMMA DestroyHolds ==
  ASSUME PushInv, NEW k \in Slots, Destroy(k)
  PROVE  PushInv'
  <1> USE DEF PushInv
  <1>1. /\ call[k] # Null /\ call[k].op = "destroy" /\ call[k].endpoint # Null
        /\ call[k].endpoint \in Subs /\ UNCHANGED <<server, made>>
    BY Fields DEF Destroy, Waits
  <1>2. Sends(k, "drop", call[k].endpoint) /\ Changes(Mount(k), Null, Null)
    BY DEF Destroy
  <1>3. /\ call' \in [Slots -> Call \cup {Null}] /\ call'[k] \in Call
        /\ call'[k].op = "drop" /\ call'[k].endpoint = call[k].endpoint
        /\ call'[k].tab = call[k].tab /\ call'[k].mine = call[k].mine
        /\ \A j \in Slots \ {k} : call'[j] = call[j]
    BY <1>1, <1>2, SendsCalls
  <1>4. /\ tab' \in [Tabs -> Tab]
        /\ \A t \in Tabs :
             /\ tab'[t].open = tab[t].open /\ tab'[t].on = tab[t].on
             /\ Mine(k, t) => tab'[t].stale = tab[t].stale
             /\ ~Mine(k, t) => tab'[t].stale = tab[t].open
    BY <1>1, <1>2, ChangesTabs DEF Mount, Mine
  <1>5. sub' = Null /\ maker' = Null /\ spoilt' = FALSE
    BY <1>2 DEF Changes
  <1>6. alive' = {}
    BY DEF Destroy, AliveIsHeld
  <1>7. PushTypeOK'
    BY <1>1, <1>3, <1>4, <1>5, <1>6 DEF server, PushTypeOK, Someone
  <1>8. AliveIsHeld'
    BY <1>1, <1>3, <1>5, <1>6 DEF AliveIsHeld, Waits
  <1>9. OneToggle'
    BY <1>1, <1>3, <1>4, OthersGoOn
  <1>10. PagesFit'
    <2>1. ASSUME NEW x \in Tabs PROVE PageFits(x)'
      BY <1>1, <1>3, <1>4, <1>5 DEF PagesFit, PageFits, OneToggle, Mine
    <2>2. QED
      BY <2>1 DEF PagesFit
  <1>11. MakerServed'
    BY <1>5 DEF MakerServed
  <1>12. QED
    BY <1>7, <1>8, <1>9, <1>10, <1>11

LEMMA DestroyOnlyHolds ==
  ASSUME PushInv, NEW k \in Slots, DestroyOnly(k)
  PROVE  PushInv'
  <1> USE DEF PushInv
  <1>1. /\ call[k] # Null /\ call[k].op = "destroy"
        /\ call' \in [Slots -> Call \cup {Null}] /\ call'[k] = Null
        /\ \A j \in Slots \ {k} : call'[j] = call[j]
    BY ReturnsCalls DEF DestroyOnly, Waits
  <1>2. /\ UNCHANGED <<server, made>>
        /\ sub' = Null /\ maker' = Null /\ spoilt' = FALSE /\ alive' = {}
    BY DEF DestroyOnly, AliveIsHeld
  <1>3. ASSUME NEW t \in Tabs
        PROVE  /\ tab'[t] \in Tab /\ tab'[t].open = tab[t].open
               /\ Mine(k, t) => ~tab'[t].on
               /\ ~Mine(k, t) => tab'[t].stale = tab[t].open
    <2> DEFINE off == [tab[t] EXCEPT !.on = FALSE]
               v == [tab[t] EXCEPT !.stale = tab[t].open]
    <2>1. tab'[t] = IF Mine(k, t) THEN off ELSE v
      BY <1>1 DEF DestroyOnly, Mount, Mine
    <2>2. /\ v \in Tab /\ v.open = tab[t].open /\ v.stale = tab[t].open
          /\ off \in Tab /\ off.open = tab[t].open /\ ~off.on
      BY Fields DEF Tab
    <2> HIDE DEF v, off
    <2>3. QED
      BY <2>1, <2>2
  <1>4. tab' = [t \in Tabs |-> tab'[t]]
    BY DEF DestroyOnly
  <1>5. PushTypeOK'
    BY <1>1, <1>2, <1>3, <1>4 DEF server, PushTypeOK, Someone
  <1>6. AliveIsHeld'
    BY <1>1, <1>2 DEF AliveIsHeld, Waits
  <1>7. OneToggle'
    BY <1>1, <1>3, OthersGoOn
  <1>8. PagesFit'
    <2>1. ASSUME NEW x \in Tabs PROVE PageFits(x)'
      BY <1>1, <1>2, <1>3 DEF PagesFit, PageFits, OneToggle, Mine
    <2>2. QED
      BY <2>1 DEF PagesFit
  <1>9. MakerServed'
    BY <1>2 DEF MakerServed
  <1>10. QED
    BY <1>5, <1>6, <1>7, <1>8, <1>9

\* The subscription is gone, and every page there is has to be mounted anew.
LEMMA LostFits ==
  ASSUME PushInv, Changes({}, Null, Null), alive' = {}, made' = made,
         \A j \in Slots : call'[j] = call[j] \/ call'[j] = Null
  PROVE  /\ tab' \in [Tabs -> Tab] /\ AliveIsHeld' /\ OneToggle' /\ PagesFit'
         /\ MakerServed' /\ sub' = Null /\ maker' = Null /\ spoilt' = FALSE
  <1> USE DEF PushInv
  <1>1. sub' = Null /\ maker' = Null /\ spoilt' = FALSE
    BY DEF Changes
  <1>2. /\ tab' \in [Tabs -> Tab]
        /\ \A t \in Tabs : tab'[t].open = tab[t].open /\ tab'[t].stale = tab[t].open
    BY ChangesTabs
  <1>3. AliveIsHeld'
    BY <1>1 DEF AliveIsHeld, Waits
  <1>4. OneToggle'
    BY <1>2 DEF OneToggle, Mine
  <1>5. PagesFit' /\ MakerServed'
    BY <1>1, <1>2 DEF PagesFit, PageFits, MakerServed
  <1>6. QED
    BY <1>1, <1>2, <1>3, <1>4, <1>5

LEMMA DestroyFailsHolds ==
  ASSUME PushInv, NEW k \in Slots, DestroyFails(k)
  PROVE  PushInv'
  <1> USE DEF PushInv
  <1>1. /\ call[k] # Null /\ call[k].op = "destroy" /\ UNCHANGED server
        /\ call' \in [Slots -> Call \cup {Null}] /\ call'[k] = Null
        /\ \A j \in Slots \ {k} : call'[j] = call[j]
    BY ReturnsCalls DEF DestroyFails, Waits
  <1>2. CASE Changes({}, Null, Null) /\ alive' = alive \ {sub} /\ UNCHANGED made
    <2>1. alive' = {}
      BY <1>2 DEF AliveIsHeld
    <2>2. /\ tab' \in [Tabs -> Tab] /\ AliveIsHeld' /\ OneToggle' /\ PagesFit'
          /\ MakerServed' /\ sub' = Null /\ maker' = Null /\ spoilt' = FALSE
      BY <1>1, <1>2, <2>1, LostFits
    <2>3. PushTypeOK'
      BY <1>1, <1>2, <2>1, <2>2 DEF server, PushTypeOK, Someone
    <2>4. QED
      BY <2>2, <2>3
  <1>3. CASE Stumbles(k) /\ UNCHANGED <<browser, observers>>
    <2>1. /\ tab' \in [Tabs -> Tab]
          /\ \A t \in Tabs :
               /\ tab'[t].open = tab[t].open
               /\ ~Mine(k, t) => tab'[t] = tab[t]
               /\ Mine(k, t) => \/ ~tab'[t].on /\ tab'[t].stale = tab[t].stale
                                \/ tab'[t].stale
      <3>1. FALSE \in BOOLEAN
        OBVIOUS
      <3>2. QED
        BY <1>1, <1>3, <3>1, MountTab
    <2>2. \A t \in Tabs : Mine(k, t) => tab'[t].stale
      <3>1. ASSUME NEW t \in Tabs, Mine(k, t) PROVE tab'[t].stale
        <4> DEFINE v == [tab[t] EXCEPT !.stale = TRUE]
        <4>1. tab'[t] = v
          BY <1>3, <3>1 DEF Stumbles, Mine, PushTypeOK
        <4>2. v.stale
          BY Fields DEF Tab
        <4>3. QED
          BY <4>1, <4>2
      <3>2. QED
        BY <3>1
    <2>3. PushTypeOK'
      BY <1>1, <1>3, <2>1 DEF server, browser, observers, PushTypeOK
    <2>4. AliveIsHeld'
      BY <1>1, <1>3 DEF browser, AliveIsHeld, Waits
    <2>5. OneToggle'
      BY <1>1, <2>1, OthersGoOn
    <2>6. PagesFit'
      <3>1. ASSUME NEW x \in Tabs PROVE PageFits(x)'
        BY <1>1, <1>3, <2>1, <2>2 DEF browser, PagesFit, PageFits, OneToggle, Mine
      <3>2. QED
        BY <3>1 DEF PagesFit
    <2>7. MakerServed'
      BY <1>1, <1>3 DEF server, browser, observers, MakerServed, Waits
    <2>8. QED
      BY <2>3, <2>4, <2>5, <2>6, <2>7
  <1>4. QED
    BY <1>2, <1>3 DEF DestroyFails

LEMMA ExpiresHolds ==
  ASSUME PushInv, NEW e \in Subs, Expires(e)
  PROVE  PushInv'
  <1> USE DEF PushInv
  <1>1. UNCHANGED <<server, made, call>> /\ alive' = {}
    BY DEF Expires, AliveIsHeld
  <1>2. CASE UNCHANGED <<sub, tab, observers>>
    <2>1. PushTypeOK' /\ AliveIsHeld'
      BY <1>1, <1>2 DEF server, observers, PushTypeOK, AliveIsHeld, Waits
    <2>2. OneToggle' /\ PagesFit'
      BY <1>1, <1>2 DEF OneToggle, PagesFit, PageFits, Mine
    <2>3. MakerServed'
      BY <1>1 DEF MakerServed
    <2>4. QED
      BY <2>1, <2>2, <2>3
  <1>3. CASE Changes({}, Null, Null)
    <2>1. /\ tab' \in [Tabs -> Tab] /\ AliveIsHeld' /\ OneToggle' /\ PagesFit'
          /\ MakerServed' /\ sub' = Null /\ maker' = Null /\ spoilt' = FALSE
      BY <1>1, <1>3, LostFits
    <2>2. PushTypeOK'
      BY <1>1, <2>1 DEF server, PushTypeOK, Someone
    <2>3. QED
      BY <2>1, <2>2
  <1>4. QED
    BY <1>2, <1>3 DEF Expires

LEMMA PrunesHolds ==
  ASSUME PushInv, NEW e \in Subs, Prunes(e)
  PROVE  PushInv'
  <1> USE DEF PushInv
  <1>1. /\ UNCHANGED <<members, browser, tab, call, observers>>
        /\ e \notin alive /\ row' = [row EXCEPT ![e] = Null]
    BY DEF Prunes
  <1>2. PushTypeOK'
    BY <1>1 DEF browser, observers, PushTypeOK, Someone
  <1>3. AliveIsHeld' /\ OneToggle' /\ PagesFit'
    BY <1>1 DEF browser, AliveIsHeld, OneToggle, PagesFit, PageFits, Mine, Waits
  <1>4. MakerServed'
    BY <1>1 DEF browser, observers, MakerServed, Waits, PushTypeOK
  <1>5. QED
    BY <1>2, <1>3, <1>4

LEMMA JoinsHolds ==
  ASSUME PushInv, NEW u \in Accounts, Joins(u)
  PROVE  PushInv'
  <1> USE DEF PushInv
  <1>1. UNCHANGED <<row, browser, tab, call, observers>> /\ members' \subseteq Accounts
    BY DEF Joins, PushTypeOK
  <1>2. PushTypeOK' /\ AliveIsHeld' /\ OneToggle'
    BY <1>1 DEF browser, observers, PushTypeOK, AliveIsHeld, OneToggle, Mine, Waits
  <1>3. PagesFit' /\ MakerServed'
    BY <1>1 DEF browser, observers, PagesFit, PageFits, MakerServed, Mine, Waits
  <1>4. QED
    BY <1>2, <1>3

LEMMA DeletesHolds ==
  ASSUME PushInv, NEW u \in Accounts, Deletes(u)
  PROVE  PushInv'
  <1> USE DEF PushInv
  <1>1. /\ UNCHANGED browser /\ members' \subseteq Accounts
        /\ spoilt' \in BOOLEAN /\ (maker # u => spoilt' = spoilt)
    BY DEF Deletes, PushTypeOK
  <1>2. ASSUME NEW t \in Tabs
        PROVE  /\ tab'[t] \in Tab /\ tab'[t].open = tab[t].open
               /\ tab'[t].on = tab[t].on /\ tab'[t].stale = tab[t].stale
    <2> DEFINE v == [tab[t] EXCEPT !.user = Null]
    <2>1. tab'[t] = IF tab[t].user = u THEN v ELSE tab[t]
      BY DEF Deletes
    <2>2. /\ v \in Tab /\ v.open = tab[t].open /\ v.on = tab[t].on
          /\ v.stale = tab[t].stale
      BY Fields DEF Tab, Someone
    <2> HIDE DEF v
    <2>3. QED
      BY <2>1, <2>2, Fields
  <1>3. ASSUME NEW k \in Slots
        PROVE  /\ call'[k] \in Call \cup {Null} /\ (call'[k] = Null <=> call[k] = Null)
               /\ call[k] # Null => /\ call'[k].op = call[k].op
                                    /\ call'[k].tab = call[k].tab
                                    /\ call'[k].mine = call[k].mine
                                    /\ call'[k].endpoint = call[k].endpoint
                                    /\ call[k].user # u => call'[k].user = call[k].user
    <2> DEFINE c == [call[k] EXCEPT !.user = Null]
    <2>1. call'[k] = IF call[k] # Null /\ call[k].user = u THEN c ELSE call[k]
      BY DEF Deletes
    <2>2. call[k] # Null =>
            /\ c \in Call /\ c.op = call[k].op /\ c.tab = call[k].tab
            /\ c.mine = call[k].mine /\ c.endpoint = call[k].endpoint
      BY Fields DEF Call, Someone
    <2> HIDE DEF c
    <2>3. QED
      BY <2>1, <2>2 DEF PushTypeOK
  <1>4. /\ row' \in [Subs -> Someone] /\ maker' \in Someone
        /\ \A e \in Subs : row[e] # u => row'[e] = row[e]
        /\ maker' # Null => maker' = maker /\ maker # u
    BY DEF Deletes, PushTypeOK, Someone
  <1>5. tab' = [t \in Tabs |-> tab'[t]] /\ call' = [k \in Slots |-> call'[k]]
    BY DEF Deletes
  <1>6. PushTypeOK'
    BY <1>1, <1>2, <1>3, <1>4, <1>5 DEF browser, PushTypeOK
  <1>7. AliveIsHeld'
    BY <1>1, <1>3 DEF browser, AliveIsHeld, Waits
  <1>8. OneToggle'
    BY <1>2, <1>3 DEF OneToggle, Mine
  <1>9. PagesFit'
    <2>1. ASSUME NEW x \in Tabs PROVE PageFits(x)'
      BY <1>1, <1>2, <1>3 DEF browser, PagesFit, PageFits, Mine
    <2>2. QED
      BY <2>1 DEF PagesFit
  <1>10. MakerServed'
    BY <1>1, <1>3, <1>4 DEF browser, MakerServed, Waits, PushTypeOK
  <1>11. QED
    BY <1>6, <1>7, <1>8, <1>9, <1>10

LEMMA PushStepHolds ==
  ASSUME PushInv, [PushNext]_pushVars
  PROVE  PushInv'
  <1>1. CASE UNCHANGED pushVars
    <2>1. UNCHANGED <<members, row, sub, made, alive, tab, call, maker, spoilt>>
      BY <1>1 DEF pushVars, server, browser, observers
    <2>2. PushTypeOK' /\ AliveIsHeld' /\ OneToggle'
      BY <2>1 DEF PushInv, PushTypeOK, AliveIsHeld, OneToggle, Mine, Waits
    <2>3. PagesFit' /\ MakerServed'
      BY <2>1 DEF PushInv, PagesFit, PageFits, MakerServed, Mine, Waits
    <2>4. QED
      BY <2>2, <2>3 DEF PushInv
  <1>2. CASE PushNext
    BY <1>2, SignsInHolds, VisitHolds, EnableHolds, DisableHolds, LeaveHolds,
       PromptDeniedHolds, GrantedHolds, SavedHolds, SaveLostHolds, DestroyHolds,
       DestroyOnlyHolds, DestroyFailsHolds, DroppedHolds, DropLostHolds,
       ResendsHolds, ExpiresHolds, PrunesHolds, JoinsHolds, DeletesHolds DEF PushNext
  <1>3. QED
    BY <1>1, <1>2

-----------------------------------------------------------------------------
(* The toggle: theorems *)

\* The inductive invariant of the toggle: pages, browser and rows fit together
\* at every await of every toggle.
THEOREM PushInvariant == PushSpec => []PushInv
  BY PushInitHolds, PushStepHolds, PTL DEF PushSpec

\* Every variable of the toggle keeps its type.
THEOREM PushTypeCorrect == PushSpec => []PushTypeOK
  BY PushInvariant, PTL DEF PushInv

\* A toggle at rest that nothing changed under tells the truth, of the browser and,
\* to the account that made the subscription, of the server (SettingsPage.tsx,
\* web lib/push.ts, routes/push.ts).
THEOREM ToggleTellsTheTruth == PushSpec => []ToggleIsTrue
  BY PushInvariant, RestingTruth, PTL
=============================================================================
