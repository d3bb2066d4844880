---------------------------- MODULE BroadcasterProofs ----------------------------
(***************************************************************************)
(* Theorems about the broadcaster's tab: about Host, for any viewers, any   *)
(* ladder of tiers and any ratchet, and about GoLive, for any attempts,     *)
(* previews and mounts of the page.  The two share no variable.             *)
(***************************************************************************)
EXTENDS Host, GoLive, FiniteSetTheorems, TLAPS

USE HostAssumption

-----------------------------------------------------------------------------
(* Host: the inductive invariant *)

Last(q) == q[Len(q)]

\* A link that closed while it was being verified is known to the observer, and
\* the two links of a viewer begin together.
LinksAreKnown ==
  \A p \in Peers : /\ "shut" \in {media[p], data[p]} => p \in late
                   /\ media[p] = "new" <=> data[p] = "new"

\* The last cap queued for a viewer is that of its tier; with nothing queued the
\* senders have it or have refused it.
CapsFollow ==
  \A p \in Peers :
    IF media[p] = "in"
    THEN tier[p] # None
         /\ IF params[p] = <<>> THEN p \in unset \/ cap[p] = tier[p]
            ELSE Last(params[p]) = tier[p]
    ELSE params[p] = <<>> /\ cap[p] = 0 /\ p \notin unset

\* Only who has talked is muted, and the page forgets to unmute nobody but those
\* whose data connection is gone for good.
MutesFollow ==
  /\ muted \subseteq shown /\ shown \subseteq spoke
  /\ \A p \in spoke : data[p] \in {"in", "gone"}
  /\ \A p \in shown \ muted : data[p] = "gone"

HostIInv == TypeOK /\ LinksAreKnown /\ AudienceIsThere /\ CapsFollow /\ MutesFollow

LEMMA HostInitHolds == Init => HostIInv
  <1> SUFFICES ASSUME Init PROVE HostIInv
    OBVIOUS
  <1>1. params \in [Peers -> Seq(Tiers)] /\ cap \in [Peers -> Tiers]
    BY DEF Init, Tiers
  <1>2. TypeOK
    <2>1. media \in [Peers -> Phases] /\ data \in [Peers -> Phases]
          /\ tier \in [Peers -> Tiers \cup {None}]
      BY DEF Init, Phases
    <2>2. over \in 0..Ratchet /\ up \in BOOLEAN /\ overload \in BOOLEAN
          /\ camera \in {"front", "asking", "rear"}
      <3>1. over = 0 /\ up = TRUE /\ overload = FALSE /\ camera = "front"
        BY DEF Init
      <3>2. 0 \in 0..Ratchet
        OBVIOUS
      <3>3. QED
        BY <3>1, <3>2
    <2>3. \A S \in {names, batch, late, unset, spoke, muted, shown} : S \subseteq Peers
      BY DEF Init
    <2>4. QED
      BY <1>1, <2>1, <2>2, <2>3 DEF TypeOK
  <1>3. LinksAreKnown /\ AudienceIsThere /\ CapsFollow /\ MutesFollow
    BY DEF Init, LinksAreKnown, AudienceIsThere, CapsFollow, MutesFollow
  <1>4. QED
    BY <1>2, <1>3 DEF HostIInv

\* What the invariant says of the roster.
LEMMA Consequences == HostIInv => RosterIsTrue
  BY DEF HostIInv, CapsFollow, MutesFollow, TypeOK, RosterIsTrue, CapFollowsTier,
     MutesAreShown

-----------------------------------------------------------------------------
(* Queues and tiers *)

LEMMA QueuedIs ==
  ASSUME NEW q \in Seq(Tiers), NEW t \in Tiers
  PROVE  Queued(q, t) \in Seq(Tiers) /\ Queued(q, t) # <<>> /\ Last(Queued(q, t)) = t
  BY DEF Queued, Last

LEMMA TailIs ==
  ASSUME NEW q \in Seq(Tiers), q # <<>>
  PROVE  /\ Head(q) \in Tiers /\ Tail(q) \in Seq(Tiers)
         /\ Tail(q) = <<>> => Last(q) = Head(q)
         /\ Tail(q) # <<>> => Last(Tail(q)) = Last(q)
  <1>1. Len(q) \in Nat \ {0} /\ Len(Tail(q)) = Len(q) - 1
    BY DEF Tiers
  <1>2. Tail(q) = <<>> => Len(q) = 1
    <2>1. Len(<<>>) = 0
      OBVIOUS
    <2>2. Tail(q) = <<>> => Len(Tail(q)) = 0
      BY <2>1
    <2>3. QED
      BY <1>1, <2>2
  <1>3. Tail(q) # <<>> => Len(q) > 1
    BY <1>1
  <1>4. QED
    BY <1>1, <1>2, <1>3 DEF Last

LEMMA TierForTypes ==
  TierFor(Cardinality(Calls)) \in Tiers
  <1>1. Calls \subseteq Peers
    BY DEF Calls
  <1>2. Cardinality(Calls) \in Nat
    BY <1>1, FS_Subset, FS_CardinalityType
  <1>3. QED
    BY <1>2 DEF TierFor, Least, Tiers

LEMMA DemotedTypes ==
  ASSUME TypeOK, NEW p \in Demoted
  PROVE  Deeper(p) \in Tiers /\ p \in Peers /\ tier[p] # None
  BY DEF TypeOK, Demoted, Calls, Deeper, Tiers

LEMMA LinkTypes ==
  \A l \in Phases : Closed(l) \in Phases /\ Admitted(l) \in Phases /\ Dropped(l) \in Phases
  BY DEF Phases, Closed, Admitted, Dropped, Kept

-----------------------------------------------------------------------------
(* The steps of links *)

\* A step that leaves links, names and the observer of late closes alone.
LEMMA LinksKept ==
  ASSUME HostIInv, UNCHANGED <<media, data, names, late>>,
         \A p \in Peers : tier'[p] = None <=> tier[p] = None
  PROVE  LinksAreKnown' /\ AudienceIsThere'
  BY DEF HostIInv, LinksAreKnown, AudienceIsThere

LEMMA CapsKept ==
  ASSUME HostIInv, UNCHANGED <<media, tier, cap, params, unset>>
  PROVE  CapsFollow'
  BY DEF HostIInv, CapsFollow

LEMMA MutesKept ==
  ASSUME HostIInv, UNCHANGED <<data, spoke, muted, shown>>
  PROVE  MutesFollow'
  BY DEF HostIInv, MutesFollow

LEMMA ConnectStep ==
  ASSUME HostIInv, NEW p \in Peers, Connect(p)
  PROVE  HostIInv'
  <1> USE DEF Connect, shaping, chat
  <1>1. TypeOK'
    BY DEF HostIInv, TypeOK, Phases
  <1>2. data[p] = "new"
    BY DEF HostIInv, LinksAreKnown
  <1>3. LinksAreKnown' /\ AudienceIsThere'
    BY <1>2 DEF HostIInv, LinksAreKnown, AudienceIsThere, TypeOK
  <1>4. CapsFollow'
    BY DEF HostIInv, CapsFollow, TypeOK
  <1>5. MutesFollow'
    BY <1>2 DEF HostIInv, MutesFollow, TypeOK
  <1>6. QED
    BY <1>1, <1>3, <1>4, <1>5 DEF HostIInv

LEMMA AdmitCallStep ==
  ASSUME HostIInv, NEW p \in Peers, AdmitCall(p)
  PROVE  HostIInv'
  <1> DEFINE t == TierFor(Cardinality(Calls))
  <1>1. /\ media[p] \in {"checking", "shut"} /\ tier' = [tier EXCEPT ![p] = t]
        /\ params' = IF t = 0 \/ media[p] = "shut" THEN params
                     ELSE [params EXCEPT ![p] = Queued(params[p], t)]
        /\ media' = [media EXCEPT ![p] = Admitted(media[p])]
        /\ names' = names \cup {p}
        /\ UNCHANGED <<up, data, cap, batch, over, overload, camera, chat, late, unset>>
    BY DEF AdmitCall, Verifying, HostIInv, TypeOK
  <1>2. t \in Tiers /\ t # None
    BY TierForTypes DEF Tiers
  <1> HIDE DEF t
  <1>3. params[p] \in Seq(Tiers)
    BY DEF HostIInv, TypeOK
  <1>4. params' \in [Peers -> Seq(Tiers)]
    BY <1>1, <1>2, <1>3, QueuedIs DEF HostIInv, TypeOK
  <1>5. media' \in [Peers -> Phases]
    BY <1>1, LinkTypes DEF HostIInv, TypeOK
  <1>6. TypeOK'
    BY <1>1, <1>2, <1>4, <1>5 DEF HostIInv, TypeOK, chat
  <1>7. LinksAreKnown' /\ AudienceIsThere'
    BY <1>1, <1>2 DEF HostIInv, LinksAreKnown, AudienceIsThere, Admitted, TypeOK
  <1>8. CapsFollow'
    <2>1. \A q \in Peers \ {p} : media'[q] = media[q] /\ tier'[q] = tier[q]
                                 /\ params'[q] = params[q]
      BY <1>1 DEF HostIInv, TypeOK
    <2>2. params[p] = <<>> /\ cap[p] = 0 /\ p \notin unset
      BY <1>1 DEF HostIInv, CapsFollow
    <2>3. media'[p] = Admitted(media[p]) /\ tier'[p] = t
      BY <1>1 DEF HostIInv, TypeOK
    <2>4. CASE media[p] = "shut"
      BY <1>1, <2>1, <2>2, <2>3, <2>4 DEF HostIInv, CapsFollow, Admitted
    <2>5. CASE media[p] = "checking" /\ t = 0
      BY <1>1, <1>2, <2>1, <2>2, <2>3, <2>5 DEF HostIInv, CapsFollow, Admitted
    <2>6. CASE media[p] = "checking" /\ t # 0
      <3>1. params'[p] = Queued(params[p], t)
        BY <1>1, <2>6 DEF HostIInv, TypeOK
      <3>2. params'[p] # <<>> /\ Last(params'[p]) = t
        BY <1>2, <1>3, <3>1, QueuedIs
      <3>3. QED
        BY <1>1, <1>2, <2>1, <2>3, <2>6, <3>2 DEF HostIInv, CapsFollow, Admitted
    <2>7. QED
      BY <1>1, <2>4, <2>5, <2>6
  <1>9. MutesFollow'
    BY <1>1, MutesKept DEF chat
  <1>10. QED
    BY <1>6, <1>7, <1>8, <1>9 DEF HostIInv

LEMMA AdmitDataStep ==
  ASSUME HostIInv, NEW p \in Peers, AdmitData(p)
  PROVE  HostIInv'
  <1>1. /\ data[p] \in {"checking", "shut"}
        /\ data' = [data EXCEPT ![p] = Admitted(data[p])]
        /\ names' = names \cup {p}
        /\ UNCHANGED <<up, media, shaping, overload, camera, chat, late, unset>>
    BY DEF AdmitData, Verifying, HostIInv, TypeOK
  <1>2. data' \in [Peers -> Phases]
    BY <1>1, LinkTypes DEF HostIInv, TypeOK
  <1>3. TypeOK'
    BY <1>1, <1>2 DEF HostIInv, TypeOK, chat, shaping
  <1>4. LinksAreKnown' /\ AudienceIsThere'
    BY <1>1 DEF HostIInv, LinksAreKnown, AudienceIsThere, Admitted, TypeOK, shaping
  <1>5. CapsFollow'
    BY <1>1, CapsKept DEF shaping
  <1>6. MutesFollow'
    BY <1>1 DEF HostIInv, MutesFollow, TypeOK, chat
  <1>7. QED
    BY <1>3, <1>4, <1>5, <1>6 DEF HostIInv

LEMMA RefuseStep ==
  ASSUME HostIInv, NEW p \in Peers, Refuse(p)
  PROVE  HostIInv'
  <1>1. \/ /\ media[p] \in {"checking", "shut"}
           /\ media' = [media EXCEPT ![p] = "gone"] /\ data' = data
        \/ /\ data[p] \in {"checking", "shut"}
           /\ data' = [data EXCEPT ![p] = "gone"] /\ media' = media
    BY DEF Refuse, Verifying
  <1>2. UNCHANGED <<up, names, shaping, overload, camera, chat, late, unset>>
    BY DEF Refuse
  <1>3. TypeOK'
    BY <1>1, <1>2 DEF HostIInv, TypeOK, chat, shaping, Phases
  <1>4. LinksAreKnown' /\ AudienceIsThere'
    BY <1>1, <1>2 DEF HostIInv, LinksAreKnown, AudienceIsThere, TypeOK, shaping
  <1>5. CapsFollow'
    BY <1>1, <1>2 DEF HostIInv, CapsFollow, TypeOK, shaping
  <1>6. MutesFollow'
    BY <1>1, <1>2 DEF HostIInv, MutesFollow, TypeOK, chat
  <1>7. QED
    BY <1>3, <1>4, <1>5, <1>6 DEF HostIInv

\* A viewer's senders have settled: nothing is queued and nothing is refused.
LEMMA SettledCaps ==
  ASSUME HostIInv, NEW p \in Peers, Settle(p),
         media'[p] # "in", \A q \in Peers \ {p} : media'[q] = media[q],
         \A q \in Peers \ {p} : tier'[q] = tier[q]
  PROVE  CapsFollow' /\ params' \in [Peers -> Seq(Tiers)] /\ cap' \in [Peers -> Tiers]
         /\ batch' \subseteq Peers /\ unset' \subseteq Peers
  <1>1. 0 \in Tiers /\ <<>> \in Seq(Tiers)
    BY DEF Tiers
  <1>2. params'[p] = <<>> /\ cap'[p] = 0 /\ p \notin unset'
    BY DEF Settle, HostIInv, TypeOK
  <1>3. \A q \in Peers \ {p} : params'[q] = params[q] /\ cap'[q] = cap[q]
                               /\ (q \in unset' <=> q \in unset)
    BY DEF Settle, HostIInv, TypeOK
  <1>4. CapsFollow'
    BY <1>2, <1>3 DEF HostIInv, CapsFollow
  <1>5. QED
    BY <1>1, <1>4 DEF Settle, HostIInv, TypeOK

LEMMA CallClosesStep ==
  ASSUME HostIInv, NEW p \in Peers, CallCloses(p)
  PROVE  HostIInv'
  <1>1. /\ media[p] \in {"checking", "in"} /\ Settle(p)
        /\ media' = [media EXCEPT ![p] = Closed(media[p])]
        /\ UNCHANGED <<up, data, over, overload, camera, chat>>
    BY DEF CallCloses, Open, HostIInv, TypeOK
  <1>2. \/ media[p] = "in" /\ media'[p] = "gone" /\ names' = names \ {p}
           /\ tier' = [tier EXCEPT ![p] = None] /\ late' = late
        \/ media[p] = "checking" /\ media'[p] = "shut" /\ late' = late \cup {p}
           /\ names' = names /\ tier' = tier
    BY <1>1 DEF CallCloses, Forgotten, Closed, HostIInv, TypeOK
  <1>3. \A q \in Peers \ {p} : media'[q] = media[q] /\ tier'[q] = tier[q]
    BY <1>1, <1>2 DEF HostIInv, TypeOK
  <1>4. CapsFollow' /\ params' \in [Peers -> Seq(Tiers)] /\ cap' \in [Peers -> Tiers]
        /\ batch' \subseteq Peers /\ unset' \subseteq Peers
    BY <1>1, <1>2, <1>3, SettledCaps
  <1>5. TypeOK'
    <2>1. media' \in [Peers -> Phases]
      BY <1>1, LinkTypes DEF HostIInv, TypeOK
    <2>2. tier' \in [Peers -> Tiers \cup {None}] /\ names' \subseteq Peers
          /\ late' \subseteq Peers
      BY <1>2 DEF HostIInv, TypeOK
    <2>3. QED
      BY <1>1, <1>4, <2>1, <2>2 DEF HostIInv, TypeOK, chat
  <1>6. LinksAreKnown' /\ AudienceIsThere'
    BY <1>1, <1>2, <1>3 DEF HostIInv, LinksAreKnown, AudienceIsThere, TypeOK
  <1>7. MutesFollow'
    BY <1>1, MutesKept DEF chat
  <1>8. QED
    BY <1>4, <1>5, <1>6, <1>7 DEF HostIInv

LEMMA DataClosesStep ==
  ASSUME HostIInv, NEW p \in Peers, DataCloses(p)
  PROVE  HostIInv'
  <1>1. /\ data[p] \in {"checking", "in"}
        /\ data' = [data EXCEPT ![p] = Closed(data[p])]
        /\ UNCHANGED <<up, media, shaping, overload, camera, chat, unset>>
    BY DEF DataCloses, Open, HostIInv, TypeOK
  <1>2. \/ data[p] = "in" /\ data'[p] = "gone" /\ names' = names \ {p} /\ late' = late
        \/ data[p] = "checking" /\ data'[p] = "shut" /\ late' = late \cup {p}
           /\ names' = names
    BY <1>1 DEF DataCloses, Closed, HostIInv, TypeOK
  <1>3. \A q \in Peers \ {p} : data'[q] = data[q]
    BY <1>1 DEF HostIInv, TypeOK
  <1>4. TypeOK'
    BY <1>1, <1>2, LinkTypes DEF HostIInv, TypeOK, chat, shaping
  <1>5. LinksAreKnown' /\ AudienceIsThere'
    BY <1>1, <1>2, <1>3 DEF HostIInv, LinksAreKnown, AudienceIsThere, TypeOK, shaping
  <1>6. CapsFollow'
    BY <1>1, CapsKept DEF shaping
  <1>7. MutesFollow'
    BY <1>1, <1>2, <1>3 DEF HostIInv, MutesFollow, TypeOK, chat
  <1>8. QED
    BY <1>4, <1>5, <1>6, <1>7 DEF HostIInv

LEMMA KickStep ==
  ASSUME HostIInv, NEW p \in Peers, Kick(p)
  PROVE  HostIInv'
  <1>1. /\ p \in spoke /\ Settle(p)
        /\ media' = [media EXCEPT ![p] = Dropped(media[p])]
        /\ data' = [data EXCEPT ![p] = Dropped(data[p])]
        /\ names' = names \ {p} /\ tier' = [tier EXCEPT ![p] = None]
        /\ muted' = muted \ {p}
        /\ UNCHANGED <<up, over, overload, camera, spoke, shown>>
    BY DEF Kick, Forgotten, HostIInv, TypeOK
  <1>2. late' \in {late, late \cup {p}}
    BY DEF Kick
  <1>3. data'[p] = "gone"
    BY <1>1 DEF HostIInv, MutesFollow, TypeOK, Dropped, Kept
  <1>4. /\ media[p] \in {"in", "dead"} => media'[p] = "gone"
        /\ media[p] \notin {"in", "dead"} => media'[p] = media[p]
    BY <1>1 DEF HostIInv, TypeOK, Dropped, Kept
  <1>5. \A q \in Peers \ {p} : /\ media'[q] = media[q] /\ data'[q] = data[q]
                               /\ tier'[q] = tier[q]
    BY <1>1 DEF HostIInv, TypeOK
  <1>6. CapsFollow' /\ params' \in [Peers -> Seq(Tiers)] /\ cap' \in [Peers -> Tiers]
        /\ batch' \subseteq Peers /\ unset' \subseteq Peers
    BY <1>1, <1>4, <1>5, SettledCaps
  <1>7. TypeOK'
    <2>1. media' \in [Peers -> Phases] /\ data' \in [Peers -> Phases]
      BY <1>1, LinkTypes DEF HostIInv, TypeOK
    <2>2. tier' \in [Peers -> Tiers \cup {None}] /\ names' \subseteq Peers
          /\ late' \subseteq Peers /\ muted' \subseteq Peers
      BY <1>1, <1>2 DEF HostIInv, TypeOK
    <2>3. QED
      BY <1>1, <1>6, <2>1, <2>2 DEF HostIInv, TypeOK
  <1>8. media[p] # "new" /\ data[p] # "new"
    BY <1>1 DEF HostIInv, MutesFollow, LinksAreKnown
  <1>9. LinksAreKnown' /\ AudienceIsThere'
    BY <1>1, <1>2, <1>3, <1>4, <1>5, <1>8
       DEF HostIInv, LinksAreKnown, AudienceIsThere, TypeOK
  <1>10. MutesFollow'
    BY <1>1, <1>3, <1>5 DEF HostIInv, MutesFollow, TypeOK
  <1>11. QED
    BY <1>6, <1>7, <1>9, <1>10 DEF HostIInv

LEMMA StopStep ==
  ASSUME HostIInv, Stop
  PROVE  HostIInv'
  <1>1. \A p \in Peers :
          /\ media'[p] = Closed(media[p]) /\ data'[p] = Closed(data[p])
          /\ tier'[p] = None /\ params'[p] = <<>> /\ cap'[p] = 0
          /\ "checking" \in {media[p], data[p]} => p \in late'
          /\ p \in late => p \in late'
    BY DEF Stop
  <1>2. \A p \in Peers : media'[p] \in {"shut", "gone"} /\ data'[p] \in {"shut", "gone"}
    BY <1>1 DEF Closed
  <1>3. 0 \in Tiers /\ <<>> \in Seq(Tiers)
    BY DEF Tiers
  <1>4. TypeOK'
    <2>1. media' \in [Peers -> Phases] /\ data' \in [Peers -> Phases]
      BY LinkTypes DEF Stop, HostIInv, TypeOK
    <2>2. /\ tier' \in [Peers -> Tiers \cup {None}]
          /\ params' \in [Peers -> Seq(Tiers)] /\ cap' \in [Peers -> Tiers]
          /\ over' \in 0..Ratchet
      BY <1>3 DEF Stop
    <2>3. up' \in BOOLEAN /\ overload' \in BOOLEAN
          /\ camera' \in {"front", "asking", "rear"}
      BY DEF Stop, HostIInv, TypeOK
    <2>4. \A S \in {names', batch', late', unset', spoke', muted', shown'} :
            S \subseteq Peers
      BY DEF Stop, HostIInv, TypeOK
    <2>5. QED
      BY <2>1, <2>2, <2>3, <2>4 DEF TypeOK
  <1>5. \A p \in Peers : "shut" \in {media'[p], data'[p]} => p \in late'
    BY <1>1 DEF Closed, HostIInv, LinksAreKnown
  <1>6. LinksAreKnown' /\ AudienceIsThere'
    BY <1>1, <1>2, <1>5 DEF Stop, LinksAreKnown, AudienceIsThere
  <1>7. CapsFollow'
    BY <1>1, <1>2 DEF Stop, CapsFollow
  <1>8. MutesFollow'
    BY DEF Stop, MutesFollow
  <1>9. QED
    BY <1>4, <1>6, <1>7, <1>8 DEF HostIInv

-----------------------------------------------------------------------------
(* The steps of the chat and of shaping *)

LEMMA ChatStep ==
  ASSUME HostIInv, Remount \/ \E p \in Peers : Says(p) \/ ToggleMute(p)
  PROVE  HostIInv'
  <1>1. UNCHANGED <<up, links, shaping, overload, camera, late, unset>>
        /\ spoke' \subseteq Peers /\ muted' \subseteq Peers /\ shown' \subseteq Peers
    BY DEF Remount, Says, ToggleMute, Toggled, HostIInv, TypeOK
  <1>2. TypeOK'
    BY <1>1 DEF HostIInv, TypeOK, links, shaping
  <1>3. LinksAreKnown' /\ AudienceIsThere'
    BY <1>1, LinksKept DEF links, shaping
  <1>4. CapsFollow'
    BY <1>1, CapsKept DEF links, shaping
  <1>5. MutesFollow'
    BY <1>1 DEF Remount, Says, ToggleMute, Toggled, HostIInv, MutesFollow, TypeOK, links
  <1>6. QED
    BY <1>2, <1>3, <1>4, <1>5 DEF HostIInv

LEMMA SampleStep ==
  ASSUME HostIInv, Sample
  PROVE  HostIInv'
  <1>1. UNCHANGED <<up, links, cap, overload, camera, chat, late, unset>>
        /\ over' \in 0..Ratchet
    BY DEF Sample, Least, HostIInv, TypeOK
  <1>2. CASE UNCHANGED <<tier, params, batch>>
    <2>1. TypeOK'
      BY <1>1, <1>2 DEF HostIInv, TypeOK, links, chat
    <2>2. LinksAreKnown' /\ AudienceIsThere' /\ CapsFollow' /\ MutesFollow'
      BY <1>1, <1>2, LinksKept, CapsKept, MutesKept DEF links, chat
    <2>3. QED
      BY <2>1, <2>2 DEF HostIInv
  <1>3. CASE /\ tier' = [p \in Peers |-> IF p \in Demoted THEN Deeper(p) ELSE tier[p]]
             /\ params' = [p \in Peers |-> IF p \in Capped
                             THEN Queued(params[p], Deeper(p)) ELSE params[p]]
             /\ batch' = Capped
    <2>1. Capped \subseteq Demoted /\ Demoted \subseteq Peers
          /\ \A p \in Demoted : Deeper(p) \in Tiers /\ Deeper(p) # None /\ tier[p] # None
      BY DemotedTypes DEF Capped, Demoted, Calls, HostIInv, Tiers
    <2>2. \A p \in Peers : /\ tier'[p] \in Tiers \cup {None}
                           /\ (tier'[p] = None <=> tier[p] = None)
      BY <1>3, <2>1 DEF HostIInv, TypeOK
    <2>3. \A p \in Capped : /\ params'[p] \in Seq(Tiers) /\ params'[p] # <<>>
                            /\ Last(params'[p]) = tier'[p] /\ tier'[p] # None
      BY <1>3, <2>1, QueuedIs DEF HostIInv, TypeOK
    <2>4. \A p \in Peers \ Capped : params'[p] = params[p]
                                    /\ (media[p] = "in" => tier'[p] = tier[p])
      BY <1>3, <2>1 DEF Capped
    <2>5. tier' \in [Peers -> Tiers \cup {None}] /\ params' \in [Peers -> Seq(Tiers)]
      <3>1. \A p \in Peers : params'[p] \in Seq(Tiers)
        BY <2>3, <2>4 DEF HostIInv, TypeOK
      <3>2. QED
        BY <1>3, <2>2, <3>1
    <2>6. TypeOK'
      BY <1>1, <1>3, <2>1, <2>5 DEF HostIInv, TypeOK, links, chat
    <2>7. LinksAreKnown' /\ AudienceIsThere' /\ MutesFollow'
      BY <1>1, <2>2, LinksKept, MutesKept DEF links, chat
    <2>8. CapsFollow'
      BY <1>1, <2>3, <2>4 DEF HostIInv, CapsFollow, links, Capped
    <2>9. QED
      BY <2>6, <2>7, <2>8 DEF HostIInv
  <1>4. QED
    BY <1>2, <1>3 DEF Sample

LEMMA ApplyParamsStep ==
  ASSUME HostIInv, NEW p \in Peers, ApplyParams(p)
  PROVE  HostIInv'
  <1>1. /\ params[p] # <<>> /\ params' = [params EXCEPT ![p] = Tail(params[p])]
        /\ \/ cap' = [cap EXCEPT ![p] = Head(params[p])] /\ unset' = unset \ {p}
           \/ cap' = cap /\ unset' = unset \cup {p}
        /\ UNCHANGED <<up, links, tier, over, overload, camera, chat, late>>
        /\ batch' \subseteq Peers
    BY DEF ApplyParams, BatchAfter, HostIInv, TypeOK
  <1>2. params[p] \in Seq(Tiers)
    BY DEF HostIInv, TypeOK
  <1>3. Head(params[p]) \in Tiers /\ Tail(params[p]) \in Seq(Tiers)
        /\ (Tail(params[p]) = <<>> => Last(params[p]) = Head(params[p]))
        /\ (Tail(params[p]) # <<>> => Last(Tail(params[p])) = Last(params[p]))
    BY <1>1, <1>2, TailIs
  <1>4. params' \in [Peers -> Seq(Tiers)] /\ params'[p] = Tail(params[p])
        /\ \A q \in Peers \ {p} : params'[q] = params[q]
    BY <1>1, <1>3 DEF HostIInv, TypeOK
  <1>5. cap' \in [Peers -> Tiers]
        /\ \A q \in Peers \ {p} : cap'[q] = cap[q] /\ (q \in unset' <=> q \in unset)
        /\ (p \in unset' \/ cap'[p] = Head(params[p])) /\ unset' \subseteq Peers
    BY <1>1, <1>3 DEF HostIInv, TypeOK
  <1>6. TypeOK'
    BY <1>1, <1>4, <1>5 DEF HostIInv, TypeOK, links, chat
  <1>7. LinksAreKnown' /\ AudienceIsThere' /\ MutesFollow'
    BY <1>1, LinksKept, MutesKept DEF links, chat
  <1>8. media[p] = "in" /\ tier[p] # None /\ Last(params[p]) = tier[p]
    BY <1>1 DEF HostIInv, CapsFollow
  <1>9. CapsFollow'
    BY <1>1, <1>3, <1>4, <1>5, <1>8 DEF HostIInv, CapsFollow, links
  <1>10. QED
    BY <1>6, <1>7, <1>9 DEF HostIInv

LEMMA SwitchCameraStep ==
  ASSUME HostIInv, SwitchCamera
  PROVE  HostIInv'
  <1>1. /\ camera' = "rear"
        /\ UNCHANGED <<up, links, tier, cap, batch, over, overload, chat, late, unset>>
    BY DEF SwitchCamera
  <1>2. \A p \in Peers : IF media[p] = "in"
          THEN /\ params'[p] \in Seq(Tiers) /\ params'[p] # <<>>
               /\ Last(params'[p]) = tier[p]
          ELSE params'[p] = params[p]
    <2> SUFFICES ASSUME NEW p \in Peers
                 PROVE  IF media[p] = "in"
                        THEN /\ params'[p] \in Seq(Tiers) /\ params'[p] # <<>>
                             /\ Last(params'[p]) = tier[p]
                        ELSE params'[p] = params[p]
      OBVIOUS
    <2>1. CASE media[p] = "in"
      <3>1. tier[p] \in Tiers /\ tier[p] # None /\ params[p] \in Seq(Tiers)
        BY <2>1 DEF HostIInv, TypeOK, CapsFollow
      <3>2. params'[p] = Queued(params[p], tier[p])
        BY <2>1, <3>1 DEF SwitchCamera
      <3>3. QED
        BY <2>1, <3>1, <3>2, QueuedIs
    <2>2. CASE media[p] # "in"
      BY <2>2 DEF SwitchCamera
    <2>3. QED
      BY <2>1, <2>2
  <1>3. params' \in [Peers -> Seq(Tiers)]
    <2>1. \A p \in Peers : params'[p] \in Seq(Tiers)
      BY <1>2 DEF HostIInv, TypeOK
    <2>2. QED
      BY <2>1 DEF SwitchCamera
  <1>4. TypeOK'
    BY <1>1, <1>3 DEF HostIInv, TypeOK, links, chat
  <1>5. LinksAreKnown' /\ AudienceIsThere' /\ MutesFollow'
    BY <1>1, LinksKept, MutesKept DEF links, chat
  <1>6. CapsFollow'
    BY <1>1, <1>2 DEF HostIInv, CapsFollow, links
  <1>7. QED
    BY <1>4, <1>5, <1>6 DEF HostIInv

\* The load of the uplink, the prompt for the camera, and no step at all.
LEMMA OutsideStep ==
  ASSUME HostIInv, LoadChanges \/ AskCamera \/ CameraRefused \/ UNCHANGED vars
  PROVE  HostIInv'
  <1>1. UNCHANGED <<up, links, shaping, chat, late, unset>>
        /\ overload' \in BOOLEAN /\ camera' \in {"front", "asking", "rear"}
    BY DEF LoadChanges, AskCamera, CameraRefused, vars, HostIInv, TypeOK
  <1>2. TypeOK'
    BY <1>1 DEF HostIInv, TypeOK, links, shaping, chat
  <1>3. LinksAreKnown' /\ AudienceIsThere' /\ CapsFollow' /\ MutesFollow'
    BY <1>1, LinksKept, CapsKept, MutesKept DEF links, shaping, chat
  <1>4. QED
    BY <1>2, <1>3 DEF HostIInv

LEMMA HostStepHolds == HostIInv /\ [Next]_vars => HostIInv'
  BY ConnectStep, AdmitCallStep, AdmitDataStep, RefuseStep, CallClosesStep,
     DataClosesStep, KickStep, StopStep, ChatStep, SampleStep, ApplyParamsStep,
     SwitchCameraStep, OutsideStep DEF Next

-----------------------------------------------------------------------------
(* Theorems *)

\* The inductive invariant of the host: the last cap queued is that of the tier,
\* and the page's copy of the mutes exceeds the host's by the gone only.
THEOREM HostInvariant == Spec => []HostIInv
  BY HostInitHolds, HostStepHolds, PTL DEF Spec

\* Links, tiers, queues and the chat keep their types.
THEOREM HostTypeCorrect == Spec => []TypeOK
  <1>1. HostIInv => TypeOK
    BY DEF HostIInv
  <1>2. QED
    BY <1>1, HostInvariant, PTL

\* What the host lists is what it serves: audience, caps and mutes agree.
THEOREM RosterHolds == Spec => []RosterIsTrue
  BY Consequences, HostInvariant, PTL

-----------------------------------------------------------------------------
HIDE HostAssumption
USE GoLiveAssumption

-----------------------------------------------------------------------------
(* GoLive: the inductive invariant *)

\* A mount that is named somewhere has been used, and one that has not been
\* used knows no id.
MountsUsed ==
  /\ page \in Pages => refs[page].used
  /\ \A p \in Pages : ~refs[p].used => refs[p].id = Null
  /\ \A a \in Attempts : attempt[a].page \in Pages => refs[attempt[a].page].used
  /\ \A a \in Attempts :
       attempt[a].phase # "new" => attempt[a].page \in Pages
  /\ \A v \in Previews : preview[v].phase # "new" => preview[v].page \in Pages

\* Where a stream comes from: an attempt goes live with a capture of its own or
\* with a preview of its own mount.
StreamsKnown ==
  /\ \A a \in Attempts : a \in capturing => attempt[a].stream = a
  /\ \A v \in Previews : v \in capturing => preview[v].phase = "done"
  /\ \A p \in Pages, v \in Previews : refs[p].preview = v =>
       preview[v].phase = "done" /\ preview[v].page = p
  /\ \A a \in Attempts :
       /\ attempt[a].phase \in {"new", "capture"} => attempt[a].stream = Null
       /\ attempt[a].stream \in Attempts => attempt[a].stream = a
       /\ attempt[a].stream \in Previews =>
            /\ preview[attempt[a].stream].phase = "done"
            /\ preview[attempt[a].stream].page = attempt[a].page

UpRow(a) == attempt[a].phase \in {"posted", "retiring", "signalling"}

\* A row has been created by its attempt.
RowIsServed == row # Null => UpRow(row) \/ attempt[row].phase = "done"

\* Nothing that was meant to be live runs.
Dark == /\ open = {}
        /\ \A a \in Attempts : attempt[a].stream \notin capturing

\* The service holds the running stream of attempt a, and no other runs.
Lit(a) == /\ stream = attempt[a].stream /\ stream \in capturing
          /\ \A b \in Attempts : attempt[b].stream \in capturing =>
               attempt[b].stream = stream

Hosted(a) == host = a /\ open = {a}

\* The attempt under way is the only one, of the mounted page, and it knows
\* whether it has been stopped.
Sound(a) ==
  /\ \A b \in Attempts : attempt[b].phase \in Waits => a = b
  /\ page \in Pages /\ attempt[a].page = page
  /\ attempt[a].phase = "retiring" => Aborted(a)
  /\ IF Aborted(a)
     THEN attempt[a].phase # "capture" /\ Dark /\ status \in {"idle", "ending"}
     ELSE /\ status = "starting" /\ \A p \in Pages : refs[p].ending = Null
          /\ IF attempt[a].phase = "capture" THEN Dark ELSE Lit(a)
          /\ IF attempt[a].phase = "signalling"
             THEN Hosted(a) /\ refs[page].id = a
             ELSE open = {}
  /\ UpRow(a) => row \in {a, Null}

AttemptsSound == \A a \in Attempts : attempt[a].phase \in Waits => Sound(a)

\* A tab that is live has settled, and the mount that went live will hear of it.
LiveIsUp ==
  status = "live" =>
    /\ Settled
    /\ active \in Attempts /\ Lit(active) /\ Hosted(active)
    /\ attempt[active].page \in Pages
    /\ attempt[active].page # page => refs[attempt[active].page].status = "live"

EndingIsDark ==
  /\ \A p \in Pages : refs[p].ending # Null =>
       Dark /\ status \in {"ending", "idle"}
  /\ status = "ending" => \E p \in Pages : refs[p].ending # Null

SettledIsDark == Settled /\ status # "live" => Dark /\ status = "idle"

\* The mounted page knows an id only while that broadcast is up.
IdIsCurrent ==
  page \in Pages /\ refs[page].id # Null =>
    \/ status = "live" /\ attempt[active].page = page
    \/ \E a \in Attempts : /\ attempt[a].phase = "signalling" /\ ~Aborted(a)
                           /\ refs[page].id = a

\* What holds until a call that waits is overtaken.
Undisturbed ==
  /\ AttemptsSound /\ LiveIsUp /\ EndingIsDark /\ SettledIsDark /\ IdIsCurrent
  /\ RowAccounted

Always == GoLiveTypeOK /\ MountsUsed /\ StreamsKnown /\ RowIsServed

GoLiveIInv == Always /\ (~overtaken => Undisturbed)

LEMMA GoLiveInitHolds == GoLiveInit => GoLiveIInv
  <1> SUFFICES ASSUME GoLiveInit PROVE GoLiveIInv
    OBVIOUS
  <1>1. NewRefs \in Refs
    BY FALSE \in BOOLEAN DEF NewRefs, Refs, Ids
  <1>2. GoLiveTypeOK
    BY <1>1 DEF GoLiveInit, GoLiveTypeOK, Ids, Streams, Attempt, Preview, GoLivePhases, Waits
  <1>3. QED
    BY <1>2 DEF GoLiveInit, GoLiveIInv, Always, GoLiveTypeOK, MountsUsed, StreamsKnown, RowIsServed,
     Undisturbed, AttemptsSound, LiveIsUp, EndingIsDark, SettledIsDark, IdIsCurrent,
     RowAccounted, Settled, UnderWay, Ending, Waits, GoLivePhases, Ids, Streams, Attempt,
     Preview, Refs, NewRefs, Dark

-----------------------------------------------------------------------------
(* Types and what holds whatever overtakes what *)

LEMMA PreviewRefs ==
  ASSUME NEW r \in Refs, NEW v \in Previews \cup {Null}, NEW on \in BOOLEAN
  PROVE  [r EXCEPT !.preview = v, !.previewing = on] \in Refs
  BY DEF Refs

LEMMA EndRefs ==
  ASSUME NEW r \in Refs, NEW b \in BOOLEAN, NEW i \in Ids, NEW e \in Ids
  PROVE  [r EXCEPT !.aborted = b, !.id = i, !.ending = e] \in Refs
  BY DEF Refs

LEMMA LeftRefs ==
  ASSUME NEW r \in Refs, NEW s \in {"idle", "starting", "live", "ending"},
         NEW on \in BOOLEAN
  PROVE  [r EXCEPT !.status = s, !.preview = Null, !.previewing = on] \in Refs
  BY DEF Refs

LEMMA EndedRefsType ==
  ASSUME GoLiveTypeOK, NEW p \in Pages
  PROVE  EndedRefs(p) \in Refs
  <1>1. refs[p] \in Refs /\ refs[p].id \in Ids /\ Null \in Ids
    BY DEF GoLiveTypeOK, Refs, Ids
  <1>2. QED
    BY <1>1, EndRefs, TRUE \in BOOLEAN DEF EndedRefs, EndedId

LEMMA RefsChange ==
  ASSUME GoLiveTypeOK, NEW p \in Pages, NEW r \in Refs
  PROVE  [refs EXCEPT ![p] = r] \in [Pages -> Refs]
  BY DEF GoLiveTypeOK

LEMMA ShowsType ==
  ASSUME GoLiveTypeOK, NEW p \in Pages, NEW v \in Previews \cup {Null}, NEW on \in BOOLEAN,
         Shows(v, p, on)
  PROVE  refs' \in [Pages -> Refs]
  BY PreviewRefs DEF GoLiveTypeOK, Shows

LEMMA UnmountType ==
  ASSUME GoLiveTypeOK, Unmount
  PROVE  refs' \in [Pages -> Refs] /\ page' = Null
  <1>1. CASE page = Null
    BY <1>1 DEF GoLiveTypeOK, Unmount
  <1>2. CASE page \in Pages
    <2>1. [refs[page] EXCEPT !.status = status, !.preview = Null,
                             !.previewing = FALSE] \in Refs
      BY <1>2, LeftRefs, FALSE \in BOOLEAN DEF GoLiveTypeOK
    <2>2. QED
      BY <1>2, <2>1 DEF GoLiveTypeOK, Unmount
  <1>3. QED
    BY <1>1, <1>2 DEF GoLiveTypeOK

LEMMA AttemptGoes ==
  ASSUME GoLiveTypeOK, NEW a \in Attempts, NEW phase \in GoLivePhases, Goes(a, phase)
  PROVE  attempt' \in [Attempts -> Attempt]
  BY DEF GoLiveTypeOK, Goes, Attempt

LEMMA CleanupType ==
  ASSUME GoLiveTypeOK, Cleanup
  PROVE  /\ open' \subseteq Attempts /\ host' = Null
         /\ capturing' \subseteq Streams /\ stream' = Null
  BY DEF GoLiveTypeOK, Cleanup

LEMMA EndRequestType ==
  ASSUME GoLiveTypeOK, NEW a \in Attempts, EndRequest(a)
  PROVE  row' \in Ids /\ dropped' \subseteq Attempts
  BY DEF GoLiveTypeOK, EndRequest, Ids

LEMMA TypesOfPreviews ==
  ASSUME GoLiveTypeOK, MountsUsed,
         \/ \E v \in Previews : StartPreview(v) \/ PreviewShown(v) \/ PreviewRefused(v)
         \/ CancelPreview
  PROVE  GoLiveTypeOK'
  <1>1. ASSUME NEW v \in Previews, StartPreview(v)
        PROVE  GoLiveTypeOK'
    <2>1. page \in Pages /\ refs[page] \in Refs
      BY <1>1 DEF StartPreview, GoLiveTypeOK
    <2>5. [refs[page] EXCEPT !.previewing = TRUE] \in Refs
      BY <2>1, TRUE \in BOOLEAN DEF Refs
    <2>2. refs' \in [Pages -> Refs]
      BY <1>1, <2>1, <2>5 DEF StartPreview, GoLiveTypeOK
    <2>3. preview' \in [Previews -> Preview]
      BY <1>1, <2>1 DEF StartPreview, GoLiveTypeOK, Preview
    <2>4. QED
      BY <1>1, <2>2, <2>3 DEF StartPreview, GoLiveTypeOK, slice, service
  <1>2. ASSUME NEW v \in Previews, PreviewShown(v)
        PROVE  GoLiveTypeOK'
    <2>1. preview[v].page \in Pages /\ refs[preview[v].page].previewing \in BOOLEAN
      BY <1>2 DEF PreviewShown, GoLiveTypeOK, MountsUsed, Refs
    <2>2. refs' \in [Pages -> Refs]
      BY <1>2, <2>1, ShowsType DEF PreviewShown
    <2>3. preview' \in [Previews -> Preview]
      BY <1>2 DEF PreviewShown, GoLiveTypeOK, Preview
    <2>4. QED
      BY <1>2, <2>2, <2>3 DEF PreviewShown, GoLiveTypeOK, slice, Streams
  <1>3. ASSUME NEW v \in Previews, PreviewRefused(v)
        PROVE  GoLiveTypeOK'
    <2>1. preview[v].page \in Pages
          /\ refs[preview[v].page].preview \in Previews \cup {Null}
      BY <1>3 DEF PreviewRefused, GoLiveTypeOK, MountsUsed, Refs
    <2>2. refs' \in [Pages -> Refs]
      BY <1>3, <2>1, ShowsType DEF PreviewRefused
    <2>3. preview' \in [Previews -> Preview]
      BY <1>3 DEF PreviewRefused, GoLiveTypeOK, Preview
    <2>4. QED
      BY <1>3, <2>2, <2>3 DEF PreviewRefused, GoLiveTypeOK, slice, service
  <1>4. ASSUME CancelPreview
        PROVE  GoLiveTypeOK'
    <2>1. page \in Pages /\ refs' \in [Pages -> Refs]
      BY <1>4, ShowsType DEF CancelPreview, GoLiveTypeOK
    <2>2. QED
      BY <1>4, <2>1 DEF CancelPreview, GoLiveTypeOK, slice, calls
  <1>5. QED
    BY <1>1, <1>2, <1>3, <1>4

LEMMA TypesOfAnswers ==
  ASSUME GoLiveTypeOK, MountsUsed, NEW a \in Attempts, Answers(a)
  PROVE  GoLiveTypeOK'
  <1>1. ASSUME attempt[a].phase \in Waits, Fail(a)
        PROVE  GoLiveTypeOK'
    <2>1. attempt[a].page \in Pages
      BY <1>1 DEF MountsUsed, Waits
    <2>2. [refs[attempt[a].page] EXCEPT !.id = Null] \in Refs
      BY <2>1 DEF GoLiveTypeOK, Refs, Ids
    <2>3. refs' \in [Pages -> Refs]
      BY <1>1, <2>1, <2>2 DEF Fail, GoLiveTypeOK
    <2>4. attempt' \in [Attempts -> Attempt]
      BY <1>1, AttemptGoes DEF Fail, GoLivePhases
    <2>5. QED
      BY <1>1, <2>3, <2>4, CleanupType DEF Fail, GoLiveTypeOK, Stopped, Ids
  <1>2. CASE CaptureRefused(a) \/ StartFailed(a) \/ SignallingFailed(a)
    BY <1>1, <1>2 DEF CaptureRefused, StartFailed, SignallingFailed, Waits
  <1>3. CASE Captured(a)
    <2>1. attempt[a].page \in Pages
      BY <1>3 DEF Captured, MountsUsed
    <2>2. refs' \in [Pages -> Refs]
      BY <1>3, <2>1, ShowsType DEF Captured
    <2>3. [attempt[a] EXCEPT !.phase = "ticket", !.stream = a] \in Attempt
      <3>1. attempt[a] \in Attempt /\ "ticket" \in GoLivePhases
            /\ a \in Streams \cup {Null}
        BY DEF GoLiveTypeOK, GoLivePhases, Waits, Streams
      <3>2. QED
        BY <3>1 DEF Attempt
    <2>5. attempt' = [attempt EXCEPT ![a] = [@ EXCEPT !.phase = "ticket", !.stream = a]]
      BY <1>3 DEF Captured, GoLiveTypeOK, Attempt
    <2>6. attempt' \in [Attempts -> Attempt]
      BY <2>3, <2>5 DEF GoLiveTypeOK
    <2>4. QED
      BY <1>3, <2>2, <2>6 DEF Captured, GoLiveTypeOK, slice, Streams
  <1>4. CASE Ticketed(a) \/ StartServed(a)
    <2>1. attempt' \in [Attempts -> Attempt]
      BY <1>4, AttemptGoes DEF Ticketed, StartServed, GoLivePhases, Waits
    <2>2. QED
      BY <1>4, <2>1 DEF Ticketed, StartServed, GoLiveTypeOK, slice, service, Ids
  <1>5. CASE StartAnswered(a)
    <2>1. attempt[a].page \in Pages
      BY <1>5 DEF StartAnswered, MountsUsed
    <2>2. [refs[attempt[a].page] EXCEPT !.id = a] \in Refs
      BY <2>1 DEF GoLiveTypeOK, Refs, Ids
    <2>3. attempt' \in [Attempts -> Attempt]
      BY <1>5, AttemptGoes DEF StartAnswered, GoLivePhases, Waits
    <2>4. refs' \in [Pages -> Refs] /\ host' \in Ids /\ open' \subseteq Attempts
      BY <1>5, <2>1, <2>2 DEF StartAnswered, GoLiveTypeOK, Ids
    <2>5. QED
      BY <1>5, <2>3, <2>4 DEF StartAnswered, GoLiveTypeOK, slice
  <1>6. CASE Retired(a)
    <2>1. attempt' \in [Attempts -> Attempt]
      BY <1>6, AttemptGoes DEF Retired, GoLivePhases
    <2>2. QED
      BY <1>6, <2>1, CleanupType, EndRequestType DEF Retired, GoLiveTypeOK, slice, Ids
  <1>7. CASE Opened(a)
    <2>1. attempt' \in [Attempts -> Attempt]
      BY <1>7, AttemptGoes DEF Opened, GoLivePhases
    <2>2. QED
      BY <1>7, <2>1, CleanupType DEF Opened, GoLiveTypeOK, slice, service, Ids
  <1>8. QED
    BY <1>2, <1>3, <1>4, <1>5, <1>6, <1>7 DEF Answers

LEMMA TypesOfEnds ==
  ASSUME GoLiveTypeOK, MountsUsed,
         EndButton \/ \E p \in Pages : EndAnswered(p)
  PROVE  GoLiveTypeOK'
  <1>1. ASSUME NEW p \in Pages, StatusIsEnding(p)
        PROVE  status' \in {"idle", "ending"} /\ active' \in Ids
    BY <1>1 DEF StatusIsEnding, StatusAfterEnd, GoLiveTypeOK, Ids
  <1>2. CASE EndButton
    <2>1. page \in Pages /\ refs' \in [Pages -> Refs]
      BY <1>2, EndedRefsType, RefsChange DEF EndButton, GoLiveTypeOK
    <2>2. QED
      BY <1>1, <1>2, <2>1, CleanupType DEF EndButton, GoLiveTypeOK, calls, Ids
  <1>3. ASSUME NEW p \in Pages, EndAnswered(p)
        PROVE  GoLiveTypeOK'
    <2>1. refs[p].ending \in Attempts /\ [refs[p] EXCEPT !.ending = Null] \in Refs
      BY <1>3 DEF EndAnswered, GoLiveTypeOK, Refs, Ids
    <2>2. refs' \in [Pages -> Refs]
      BY <1>3, <2>1 DEF EndAnswered, GoLiveTypeOK
    <2>3. QED
      BY <1>3, <2>1, <2>2, EndRequestType DEF EndAnswered, GoLiveTypeOK, Stopped, service,
         calls, Ids
  <1>4. QED
    BY <1>2, <1>3

LEMMA TypesOfPage ==
  ASSUME GoLiveTypeOK,
         \/ \E p \in Pages : Visit(p)
         \/ Leave \/ SignOut \/ SessionLost \/ DeleteAccount \/ SignIn \/ Reaped
  PROVE  GoLiveTypeOK'
  <1>1. (overtaken \/ ~Settled) \in BOOLEAN
    BY DEF GoLiveTypeOK
  <1>2. ASSUME NEW p \in Pages, Visit(p)
        PROVE  GoLiveTypeOK'
    <2>1. refs[p] \in Refs
      BY DEF GoLiveTypeOK
    <2>2. [refs[p] EXCEPT !.used = TRUE] \in Refs
      BY <2>1, TRUE \in BOOLEAN DEF Refs
    <2>3. QED
      BY <1>2, <2>2 DEF Visit, GoLiveTypeOK, slice, service, calls
  <1>3. CASE Leave
    BY <1>1, <1>3, UnmountType DEF Leave, Overtakes, GoLiveTypeOK, slice, service, calls
  <1>4. CASE SignOut
    <2>1. row' \in Ids /\ dropped' \subseteq Attempts
      BY <1>4, EndRequestType DEF SignOut, GoLiveTypeOK, Ids
    <2>2. QED
      BY <1>1, <1>4, <2>1, UnmountType, CleanupType
      DEF SignOut, Stopped, Overtakes, GoLiveTypeOK, calls, Ids
  <1>5. CASE SessionLost
    BY <1>1, <1>5, UnmountType, CleanupType
    DEF SessionLost, Stopped, Overtakes, GoLiveTypeOK, calls, Ids
  <1>6. CASE DeleteAccount
    BY <1>1, <1>6 DEF DeleteAccount, Overtakes, GoLiveTypeOK, slice, service, calls, Ids
  <1>7. CASE SignIn \/ Reaped
    BY <1>7 DEF SignIn, Reaped, GoLiveTypeOK, slice, service, calls, Ids
  <1>8. QED
    BY <1>2, <1>3, <1>4, <1>5, <1>6, <1>7

LEMMA TypesOfPress ==
  ASSUME GoLiveTypeOK, NEW a \in Attempts, Press(a)
  PROVE  GoLiveTypeOK'
  <1> DEFINE v == refs[page].preview
  <1>1. page \in Pages /\ refs[page] \in Refs /\ v \in Previews \cup {Null}
    BY DEF Press, GoLiveTypeOK, Refs
  <1>2. attempt' \in [Attempts -> Attempt]
    <2>1. [phase |-> IF v = Null THEN "capture" ELSE "ticket", page |-> page,
           stream |-> v] \in Attempt
      BY <1>1 DEF Attempt, GoLivePhases, Waits, Streams
    <2>2. QED
      BY <2>1 DEF Press, GoLiveTypeOK
  <1>3. refs' \in [Pages -> Refs]
    <2>1. [refs[page] EXCEPT !.aborted = FALSE] \in Refs
      BY <1>1, FALSE \in BOOLEAN DEF Refs
    <2>2. QED
      BY <2>1 DEF Press, GoLiveTypeOK
  <1>4. overtaken' \in BOOLEAN
    BY DEF Press, GoLiveTypeOK
  <1>5. QED
    BY <1>1, <1>2, <1>3, <1>4 DEF Press, GoLiveTypeOK, Ids, Streams

-----------------------------------------------------------------------------
(* What endLive and the end of a track do *)

Taken(s) == \E a \in Attempts : attempt[a].stream = s

\* A mount keeps what the end of a broadcast does not concern.
Keeps(q, r) == r.used = q.used /\ r.status = q.status /\ r.preview \in {q.preview, Null}

\* endLive as called by mount p, a track s having ended or none.
EndsLive(p, s) ==
  /\ Endable(p) /\ StatusIsEnding(p)
  /\ \E r \in Refs :
       /\ refs' = [refs EXCEPT ![p] = r] /\ Keeps(refs[p], r)
       /\ r.aborted /\ r.id = Null /\ r.ending = refs[p].id
  /\ open' = open \ {host} /\ host' = Null
  /\ capturing' = capturing \ {stream, s} /\ stream' = Null
  /\ UNCHANGED <<session, page, calls, row, dropped, overtaken>>

\* A track that ends and is no broadcast of mount p, or one that p is ending.
TrackEnds(p, s) ==
  /\ Taken(s) => ~Endable(p)
  /\ \E r \in Refs :
       /\ refs' = [refs EXCEPT ![p] = r] /\ Keeps(refs[p], r)
       /\ r.aborted = refs[p].aborted /\ r.id = refs[p].id
       /\ r.ending = refs[p].ending
  /\ capturing' = capturing \ {s}
  /\ UNCHANGED <<slice, host, stream, open>>
  /\ UNCHANGED <<session, page, calls, row, dropped, overtaken>>

LEMMA EndButtonEnds ==
  ASSUME GoLiveTypeOK, EndButton
  PROVE  page \in Pages /\ EndsLive(page, stream)
  <1>1. page \in Pages /\ refs[page] \in Refs
    BY DEF EndButton, GoLiveTypeOK
  <1>2. EndedRefs(page) \in Refs
    BY <1>1, EndedRefsType
  <1>3. /\ Keeps(refs[page], EndedRefs(page))
        /\ EndedRefs(page).aborted /\ EndedRefs(page).id = Null
        /\ EndedRefs(page).ending = refs[page].id
    BY <1>1 DEF EndedRefs, EndedId, Refs, Keeps
  <1>4. QED
    BY <1>1, <1>2, <1>3 DEF EndButton, EndsLive, Cleanup

\* The mount a track belongs to.
Mount(s) == IF s \in Attempts THEN attempt[s].page ELSE preview[s].page

LEMMA NativeStopEnds ==
  ASSUME GoLiveTypeOK, MountsUsed, StreamsKnown, NEW s \in Streams, NativeStop(s)
  PROVE  /\ s \in capturing /\ Mount(s) \in Pages
         /\ \A a \in Attempts : attempt[a].stream = s => attempt[a].page = Mount(s)
         /\ \/ Taken(s) /\ EndsLive(Mount(s), s)
            \/ TrackEnds(Mount(s), s)
  <1> DEFINE p == Mount(s)
             ends == Taken(s) /\ Endable(p)
             was == IF ends THEN EndedRefs(p) ELSE refs[p]
             now == IF s \in Attempts \/ p # page THEN was
                    ELSE [was EXCEPT !.preview = Null, !.previewing = FALSE]
  <1>1. s \in capturing
    BY DEF NativeStop
  <1>2. p \in Pages
    BY <1>1 DEF MountsUsed, StreamsKnown, Streams, Mount, GoLiveTypeOK
  <1>3. \A a \in Attempts : attempt[a].stream = s => attempt[a].page = p
    BY GoLiveAssumption DEF StreamsKnown, Streams, Mount
  <1>4. refs' = [refs EXCEPT ![p] = now]
    BY DEF NativeStop, Mount, Taken
  <1>5. was \in Refs /\ now \in Refs
    <2>1. was \in Refs
      BY <1>2, EndedRefsType DEF GoLiveTypeOK
    <2>2. [was EXCEPT !.preview = Null, !.previewing = FALSE] \in Refs
      BY <2>1, PreviewRefs, FALSE \in BOOLEAN
    <2>3. QED
      BY <2>1, <2>2
  <1>6. Keeps(refs[p], now) /\ now.aborted = was.aborted /\ now.id = was.id
        /\ now.ending = was.ending
    <2>1. Keeps(refs[p], was)
      BY <1>2 DEF EndedRefs, GoLiveTypeOK, Refs, Keeps
    <2>2. QED
      BY <1>5, <2>1 DEF Refs, Keeps
  <1>7. CASE ends
    <2>1. was.aborted /\ was.id = Null /\ was.ending = refs[p].id
      BY <1>2, <1>7 DEF EndedRefs, EndedId, GoLiveTypeOK, Refs
    <2>2. EndsLive(p, s)
      BY <1>4, <1>5, <1>6, <1>7, <2>1 DEF NativeStop, EndsLive, Taken, Mount
    <2>3. QED
      BY <1>1, <1>2, <1>3, <1>7, <2>2
  <1>8. CASE ~ends
    <2>1. TrackEnds(p, s)
      BY <1>4, <1>5, <1>6, <1>8 DEF NativeStop, TrackEnds, Taken, Mount
    <2>2. QED
      BY <1>1, <1>2, <1>3, <2>1
  <1>9. QED
    BY <1>7, <1>8

LEMMA TypesOfEnding ==
  ASSUME GoLiveTypeOK, NEW p \in Pages, NEW s, EndsLive(p, s) \/ TrackEnds(p, s)
  PROVE  GoLiveTypeOK'
  <1>1. CASE EndsLive(p, s)
    <2>1. status' \in {"idle", "ending"} /\ active' \in Ids
      BY <1>1 DEF EndsLive, StatusIsEnding, StatusAfterEnd, GoLiveTypeOK, Ids
    <2>2. QED
      BY <1>1, <2>1 DEF EndsLive, GoLiveTypeOK, calls, Ids
  <1>2. CASE TrackEnds(p, s)
    BY <1>2 DEF TrackEnds, GoLiveTypeOK, slice, calls
  <1>3. QED
    BY <1>1, <1>2

-----------------------------------------------------------------------------
(* Mounts, streams and rows *)

LEMMA KnownOfPreviews ==
  ASSUME Always,
         \/ \E v \in Previews : StartPreview(v) \/ PreviewShown(v) \/ PreviewRefused(v)
         \/ CancelPreview
  PROVE  Always'
  <1> USE DEF Always
  <1>1. GoLiveTypeOK'
    BY TypesOfPreviews
  <1>2. UNCHANGED <<page, attempt, row>>
        /\ \A p \in Pages : refs'[p].used = refs[p].used /\ refs'[p].id = refs[p].id
    <2>1. ASSUME NEW p \in Pages, NEW v, NEW on, Shows(v, p, on)
          PROVE  \A q \in Pages :
                   refs'[q].used = refs[q].used /\ refs'[q].id = refs[q].id
      BY <2>1 DEF Shows, GoLiveTypeOK, Refs
    <2>2. CASE \E v \in Previews : PreviewShown(v) \/ PreviewRefused(v)
      BY <2>1, <2>2 DEF PreviewShown, PreviewRefused, MountsUsed
    <2>3. CASE \E v \in Previews : StartPreview(v)
      BY <2>3 DEF StartPreview, GoLiveTypeOK, Refs
    <2>4. CASE CancelPreview
      BY <2>1, <2>4 DEF CancelPreview, calls, GoLiveTypeOK
    <2>5. QED
      BY <2>2, <2>3, <2>4
  <1>3. ASSUME NEW v \in Previews, StartPreview(v)
        PROVE  MountsUsed' /\ StreamsKnown'
    <2>1. preview' = [preview EXCEPT ![v] = [phase |-> "asking", page |-> page]]
          /\ preview[v].phase = "new" /\ page \in Pages /\ UNCHANGED capturing
      BY <1>3 DEF StartPreview, service, GoLiveTypeOK
    <2>2. \A p \in Pages : refs'[p].preview = refs[p].preview
      BY <1>3 DEF StartPreview, GoLiveTypeOK, Refs
    <2>3. MountsUsed'
      BY <1>2, <2>1 DEF MountsUsed, GoLiveTypeOK
    <2>4. StreamsKnown'
      BY <1>2, <2>1, <2>2 DEF StreamsKnown, GoLiveTypeOK
    <2>5. QED
      BY <2>3, <2>4
  <1>4. ASSUME NEW v \in Previews, PreviewShown(v)
        PROVE  MountsUsed' /\ StreamsKnown'
    <2>1. /\ preview' = [preview EXCEPT ![v].phase = "done"]
          /\ preview[v].phase = "asking" /\ capturing' = capturing \cup {v}
          /\ preview[v].page \in Pages
      BY <1>4 DEF PreviewShown, MountsUsed
    <2>2. \A q \in Previews : /\ preview'[q].page = preview[q].page
                              /\ q # v => preview'[q].phase = preview[q].phase
      BY <2>1 DEF GoLiveTypeOK, Preview
    <2>5. preview'[v].phase = "done"
      BY <2>1 DEF GoLiveTypeOK, Preview
    <2>6. \A p \in Pages : \/ refs'[p].preview = refs[p].preview
                           \/ refs'[p].preview = v /\ p = preview[v].page
      BY <1>4, <2>1 DEF PreviewShown, Shows, GoLiveTypeOK, Refs
    <2>3. MountsUsed'
      BY <1>2, <2>1, <2>2 DEF MountsUsed
    <2>4. StreamsKnown'
      BY <1>2, <2>1, <2>2, <2>5, <2>6 DEF StreamsKnown
    <2>7. QED
      BY <2>3, <2>4
  <1>5. ASSUME NEW v \in Previews, PreviewRefused(v)
        PROVE  MountsUsed' /\ StreamsKnown'
    <2>1. /\ preview' = [preview EXCEPT ![v].phase = "done"]
          /\ preview[v].phase = "asking" /\ UNCHANGED capturing
          /\ preview[v].page \in Pages
      BY <1>5 DEF PreviewRefused, MountsUsed, service
    <2>2. \A q \in Previews : /\ preview'[q].page = preview[q].page
                              /\ q # v => preview'[q].phase = preview[q].phase
      BY <2>1 DEF GoLiveTypeOK, Preview
    <2>5. preview'[v].phase = "done"
      BY <2>1 DEF GoLiveTypeOK, Preview
    <2>6. \A p \in Pages : refs'[p].preview = refs[p].preview
      BY <1>5, <2>1 DEF PreviewRefused, Shows, GoLiveTypeOK, Refs
    <2>3. MountsUsed'
      BY <1>2, <2>1, <2>2 DEF MountsUsed
    <2>4. StreamsKnown'
      BY <1>2, <2>1, <2>2, <2>5, <2>6 DEF StreamsKnown
    <2>7. QED
      BY <2>3, <2>4
  <1>6. ASSUME CancelPreview
        PROVE  MountsUsed' /\ StreamsKnown'
    <2>1. capturing' \subseteq capturing /\ UNCHANGED preview
          /\ \A p \in Pages : refs'[p].preview \in {refs[p].preview, Null}
      BY <1>6 DEF CancelPreview, Shows, calls, GoLiveTypeOK, Refs
    <2>2. MountsUsed'
      BY <1>2, <2>1 DEF MountsUsed
    <2>3. StreamsKnown'
      BY <1>2, <2>1 DEF StreamsKnown
    <2>4. QED
      BY <2>2, <2>3
  <1>7. RowIsServed'
    BY <1>2 DEF RowIsServed, UpRow
  <1>8. QED
    BY <1>1, <1>3, <1>4, <1>5, <1>6, <1>7

LEMMA KnownOfPress ==
  ASSUME Always, NEW a \in Attempts, Press(a)
  PROVE  Always'
  <1> USE DEF Always
  <1> DEFINE v == refs[page].preview
  <1>1. GoLiveTypeOK'
    BY TypesOfPress
  <1>2. page \in Pages /\ refs[page] \in Refs /\ v \in Previews \cup {Null}
    BY DEF Press, GoLiveTypeOK, Refs
  <1>3. /\ attempt[a].phase = "new"
        /\ attempt'[a].page = page /\ attempt'[a].stream = v
        /\ attempt'[a].phase = IF v = Null THEN "capture" ELSE "ticket"
        /\ \A b \in Attempts : b # a => attempt'[b] = attempt[b]
    BY DEF Press, GoLiveTypeOK
  <1>4. \A p \in Pages : /\ refs'[p].used = refs[p].used /\ refs'[p].id = refs[p].id
                         /\ refs'[p].preview = refs[p].preview
    BY <1>2 DEF Press, GoLiveTypeOK, Refs
  <1>5. UNCHANGED <<page, preview, row, capturing>>
    BY DEF Press
  <1>6. MountsUsed'
    BY <1>2, <1>3, <1>4, <1>5 DEF MountsUsed
  <1>7. StreamsKnown'
    <2>1. v \in Previews => preview[v].phase = "done" /\ preview[v].page = page
      BY <1>2 DEF StreamsKnown
    <2>2. a \notin capturing
      BY <1>3 DEF StreamsKnown
    <2>3. QED
      BY <1>2, <1>3, <1>4, <1>5, <2>1, <2>2, GoLiveAssumption DEF StreamsKnown
  <1>8. RowIsServed'
    BY <1>3, <1>5 DEF RowIsServed, UpRow, GoLiveTypeOK, Ids
  <1>9. QED
    BY <1>1, <1>6, <1>7, <1>8

\* What an answer may change of an attempt.
LEMMA AnswersDo ==
  ASSUME Always, NEW a \in Attempts, Answers(a)
  PROVE  /\ attempt[a].phase \in Waits /\ attempt[a].page \in Pages
         /\ \A b \in Attempts : b # a => attempt'[b] = attempt[b]
         /\ attempt'[a].page = attempt[a].page
         /\ attempt'[a].stream = attempt[a].stream \/ Captured(a)
         /\ UNCHANGED <<session, page, preview, overtaken>>
         /\ \A p \in Pages :
              /\ refs'[p].used = refs[p].used /\ refs'[p].status = refs[p].status
              /\ refs'[p].aborted = refs[p].aborted
              /\ refs'[p].ending = refs[p].ending
              /\ refs'[p].preview \in {refs[p].preview, Null}
              /\ refs'[p].id = refs[p].id \/ (p = attempt[a].page /\ ~Captured(a))
  <1> USE DEF Always
  <1>1. attempt[a].phase \in Waits
    BY DEF Answers, Captured, CaptureRefused, Ticketed, StartServed, StartFailed,
       StartAnswered, Retired, Opened, SignallingFailed, Waits
  <1>2. attempt[a].page \in Pages /\ refs[attempt[a].page] \in Refs
    BY <1>1 DEF MountsUsed, Waits, GoLiveTypeOK
  <1>3. CASE Captured(a)
    BY <1>1, <1>2, <1>3 DEF Captured, Shows, GoLiveTypeOK, Attempt, Refs
  <1>4. ASSUME Fail(a)
        PROVE  /\ \E f \in GoLivePhases : Goes(a, f)
               /\ refs' = [refs EXCEPT ![attempt[a].page].id = Null]
               /\ UNCHANGED <<session, page, preview, overtaken>>
    BY <1>4 DEF Fail, GoLivePhases
  <1>5. ASSUME Ticketed(a) \/ StartServed(a) \/ StartAnswered(a) \/ Retired(a) \/ Opened(a)
        PROVE  /\ \E f \in GoLivePhases : Goes(a, f)
               /\ \/ UNCHANGED refs
                  \/ \E i \in Ids : refs' = [refs EXCEPT ![attempt[a].page].id = i]
               /\ UNCHANGED <<session, page, preview, overtaken>>
    BY <1>5 DEF Ticketed, StartServed, StartAnswered, Retired, Opened, GoLivePhases, Waits, Ids
  <1>6. CASE ~Captured(a)
    <2>1. /\ \E f \in GoLivePhases : Goes(a, f)
          /\ \/ UNCHANGED refs
             \/ \E i \in Ids : refs' = [refs EXCEPT ![attempt[a].page].id = i]
          /\ UNCHANGED <<session, page, preview, overtaken>>
      BY <1>4, <1>5, <1>6 DEF Answers, CaptureRefused, StartFailed, SignallingFailed, Ids
    <2>2. /\ \A b \in Attempts : b # a => attempt'[b] = attempt[b]
          /\ attempt'[a].page = attempt[a].page
          /\ attempt'[a].stream = attempt[a].stream
      BY <2>1 DEF Goes, GoLiveTypeOK, Attempt
    <2>3. \A p \in Pages :
              /\ refs'[p].used = refs[p].used /\ refs'[p].status = refs[p].status
              /\ refs'[p].aborted = refs[p].aborted
              /\ refs'[p].ending = refs[p].ending
              /\ refs'[p].preview = refs[p].preview
              /\ refs'[p].id = refs[p].id \/ p = attempt[a].page
      <3>1. CASE UNCHANGED refs
        BY <3>1
      <3>2. CASE \E i \in Ids : refs' = [refs EXCEPT ![attempt[a].page].id = i]
        BY <1>2, <3>2 DEF GoLiveTypeOK, Refs
      <3>3. QED
        BY <2>1, <3>1, <3>2
    <2>4. QED
      BY <1>1, <1>2, <1>6, <2>1, <2>2, <2>3
  <1>7. QED
    BY <1>3, <1>6

LEMMA PhaseGoes ==
  ASSUME GoLiveTypeOK, NEW a \in Attempts, NEW f, Goes(a, f)
  PROVE  attempt'[a].phase = f
  BY DEF Goes, GoLiveTypeOK, Attempt

LEMMA KnownOfAnswers ==
  ASSUME Always, NEW a \in Attempts, Answers(a)
  PROVE  Always'
  <1> USE DEF Always
  <1>1. GoLiveTypeOK'
    BY TypesOfAnswers
  <1>2. attempt'[a].phase # "new"
        /\ (attempt'[a].phase = "capture" => FALSE)
    <2>1. CASE Captured(a)
      BY <2>1 DEF Captured, GoLiveTypeOK, Attempt
    <2>2. CASE ~Captured(a)
      BY <2>2, PhaseGoes DEF Answers, CaptureRefused, Ticketed, StartServed, StartFailed,
         StartAnswered, Retired, Opened, SignallingFailed, Fail
    <2>3. QED
      BY <2>1, <2>2
  <1>3. MountsUsed'
    BY <1>2, AnswersDo DEF MountsUsed
  <1>4. StreamsKnown'
    <2>1. CASE Captured(a)
      <3>1. attempt'[a].stream = a /\ capturing' = capturing \cup {a}
        BY <2>1 DEF Captured, GoLiveTypeOK, Attempt
      <3>2. QED
        BY <1>2, <3>1, AnswersDo, GoLiveAssumption DEF StreamsKnown
    <2>2. CASE ~Captured(a)
      <3>1. capturing' \subseteq capturing
        BY <2>2 DEF Answers, CaptureRefused, Ticketed, StartServed, StartFailed,
           StartAnswered, Retired, Opened, SignallingFailed, Fail, Cleanup, service
      <3>2. QED
        BY <1>2, <2>2, <3>1, AnswersDo, GoLiveAssumption DEF StreamsKnown
    <2>3. QED
      BY <2>1, <2>2
  <1>5. RowIsServed'
    <2>1. row' \in {row, Null} \/ (row' = a /\ attempt'[a].phase = "posted")
      BY PhaseGoes DEF Answers, Captured, CaptureRefused, Ticketed, StartServed, StartFailed,
           StartAnswered, Retired, Opened, SignallingFailed, Fail, EndRequest
    <2>2. row = a => attempt'[a].phase \in {"posted", "retiring", "signalling", "done"}
      BY PhaseGoes, GoLiveAssumption DEF Answers, Captured, CaptureRefused, Ticketed, StartServed, StartFailed,
           StartAnswered, Retired, Opened, SignallingFailed, Fail, RowIsServed, UpRow
    <2>3. QED
      BY <2>1, <2>2, AnswersDo DEF RowIsServed, UpRow, GoLiveTypeOK, Ids
  <1>6. QED
    BY <1>1, <1>3, <1>4, <1>5

LEMMA KnownOfEnding ==
  ASSUME Always, NEW p \in Pages, NEW s, EndsLive(p, s) \/ TrackEnds(p, s)
  PROVE  Always'
  <1> USE DEF Always
  <1>1. GoLiveTypeOK'
    BY TypesOfEnding
  <1>2. PICK r \in Refs :
          /\ refs' = [refs EXCEPT ![p] = r] /\ Keeps(refs[p], r)
          /\ r.id \in {refs[p].id, Null}
    BY DEF EndsLive, TrackEnds
  <1>3. /\ UNCHANGED <<page, attempt, preview, row>> /\ capturing' \subseteq capturing
        /\ \A q \in Pages : /\ refs'[q].used = refs[q].used
                            /\ refs'[q].id \in {refs[q].id, Null}
                            /\ refs'[q].preview \in {refs[q].preview, Null}
    BY <1>2 DEF EndsLive, TrackEnds, Keeps, calls, GoLiveTypeOK
  <1>4. QED
    BY <1>1, <1>3 DEF MountsUsed, StreamsKnown, RowIsServed, UpRow

LEMMA UnmountDoes ==
  ASSUME Always, Unmount
  PROVE  /\ page' = Null
         /\ \A q \in Pages :
              /\ refs'[q].used = refs[q].used /\ refs'[q].id = refs[q].id
              /\ refs'[q].ending = refs[q].ending
              /\ refs'[q].preview \in {refs[q].preview, Null}
              /\ refs'[q].status = IF q = page THEN status ELSE refs[q].status
  BY DEF Always, Unmount, GoLiveTypeOK, Refs

LEMMA KnownOfPage ==
  ASSUME Always,
         \/ \E p \in Pages : Visit(p) \/ EndAnswered(p)
         \/ Leave \/ SignOut \/ SessionLost \/ DeleteAccount \/ SignIn \/ Reaped
  PROVE  Always'
  <1> USE DEF Always
  <1>1. GoLiveTypeOK'
    BY TypesOfPage, TypesOfEnds
  <1>2. /\ UNCHANGED <<attempt, preview>> /\ row' \in {row, Null}
        /\ capturing' \subseteq capturing
    BY DEF Visit, Leave, SignOut, SessionLost, DeleteAccount, SignIn, Reaped,
       EndAnswered, EndRequest, calls, service, Cleanup
  <1>3. ASSUME NEW p \in Pages, Visit(p)
        PROVE  Always'
    <2>1. /\ \A q \in Pages : q # p => refs'[q] = refs[q]
          /\ refs'[p].used /\ refs'[p].id = refs[p].id
          /\ refs'[p].preview = refs[p].preview
      BY <1>3 DEF Visit, GoLiveTypeOK, Refs
    <2>2. page' = p
      BY <1>3 DEF Visit
    <2>3. MountsUsed'
      BY <1>2, <2>1, <2>2 DEF MountsUsed
    <2>4. QED
      BY <1>1, <1>2, <2>1, <2>3 DEF StreamsKnown, RowIsServed, UpRow
  <1>4. CASE Leave \/ SignOut \/ SessionLost
    BY <1>1, <1>2, <1>4, UnmountDoes, GoLiveAssumption
    DEF Leave, SignOut, SessionLost, MountsUsed, StreamsKnown, RowIsServed, UpRow
  <1>5. CASE DeleteAccount \/ SignIn \/ Reaped
    BY <1>1, <1>2, <1>5
    DEF DeleteAccount, SignIn, Reaped, MountsUsed, StreamsKnown, RowIsServed, UpRow
  <1>6. ASSUME NEW p \in Pages, EndAnswered(p)
        PROVE  Always'
    <2>1. \A q \in Pages : /\ refs'[q].used = refs[q].used
                           /\ refs'[q].id = refs[q].id
                           /\ refs'[q].preview = refs[q].preview
      BY <1>6 DEF EndAnswered, GoLiveTypeOK, Refs
    <2>2. UNCHANGED page
      BY <1>6 DEF EndAnswered
    <2>3. QED
      BY <1>1, <1>2, <2>1, <2>2 DEF MountsUsed, StreamsKnown, RowIsServed, UpRow
  <1>7. QED
    BY <1>3, <1>4, <1>5, <1>6

-----------------------------------------------------------------------------
(* What holds until a call is overtaken *)

AllSettled == /\ \A a \in Attempts : attempt[a].phase \notin Waits
              /\ \A p \in Pages : refs[p].ending = Null

LEMMA SettledMeans == (Settled <=> AllSettled) /\ (Settled <=> AllSettled)'
  BY DEF Settled, AllSettled, UnderWay, Ending

Accounted ==
  row # Null =>
    \/ attempt[row].phase \in Waits \/ row \in dropped
    \/ \E p \in Pages : row \in {refs[p].id, refs[p].ending}

LEMMA AccountedMeans ==
  /\ GoLiveTypeOK /\ ~overtaken => (RowAccounted <=> Accounted)
  /\ GoLiveTypeOK' /\ ~overtaken' => (RowAccounted <=> Accounted)'
  BY DEF RowAccounted, Accounted, UnderWay, GoLiveTypeOK, Ids

\* A step that stops nothing, and starts nothing that was meant to be live.
LEMMA CapturesChange ==
  ASSUME Always, Always', ~overtaken, ~overtaken', Undisturbed,
         UNCHANGED <<status, active, host, stream, open, page, attempt, row, dropped>>,
         \A p \in Pages :
           /\ refs'[p].id = refs[p].id /\ refs'[p].ending = refs[p].ending
           /\ refs'[p].aborted = refs[p].aborted /\ refs'[p].status = refs[p].status,
         \A b \in Attempts :
           attempt[b].stream \in capturing' => attempt[b].stream \in capturing,
         \/ status \in {"idle", "ending"}
         \/ \A b \in Attempts :
              attempt[b].stream \in capturing => attempt[b].stream \in capturing'
  PROVE  Undisturbed'
  <1> USE DEF Undisturbed, Always
  <1>1. Dark => Dark'
    BY DEF Dark
  <1>2. ASSUME NEW a \in Attempts, status \notin {"idle", "ending"}, Lit(a)
        PROVE  Lit(a)'
    BY <1>2 DEF Lit
  <1>3. \A a \in Attempts : Hosted(a) => Hosted(a)'
    BY DEF Hosted
  <1>4. AllSettled' <=> AllSettled
    BY DEF AllSettled
  <1>5. AttemptsSound'
    <2>1. ASSUME NEW a \in Attempts, attempt[a].phase \in Waits
          PROVE  Sound(a)'
      <3>1. Sound(a)
        BY <2>1 DEF AttemptsSound
      <3>2. attempt[a].page \in Pages /\ (Aborted(a)' <=> Aborted(a))
            /\ (UpRow(a)' <=> UpRow(a))
        BY <3>1 DEF Sound, Aborted, UpRow
      <3>3. QED
        BY <1>1, <1>2, <1>3, <3>1, <3>2 DEF Sound
    <2>2. QED
      BY <2>1 DEF AttemptsSound
  <1>6. LiveIsUp'
    BY <1>2, <1>3, <1>4, SettledMeans DEF LiveIsUp
  <1>7. EndingIsDark' /\ SettledIsDark'
    BY <1>1, <1>4, SettledMeans DEF EndingIsDark, SettledIsDark
  <1>8. IdIsCurrent'
    BY DEF IdIsCurrent, Aborted, MountsUsed
  <1>9. RowAccounted'
    BY AccountedMeans DEF Accounted
  <1>10. QED
    BY <1>5, <1>6, <1>7, <1>8, <1>9

LEMMA PreviewsUndisturb ==
  ASSUME Always, Always', ~overtaken, ~overtaken', Undisturbed,
         \/ \E v \in Previews : StartPreview(v) \/ PreviewShown(v) \/ PreviewRefused(v)
         \/ CancelPreview
  PROVE  Undisturbed'
  <1>1. ASSUME NEW p \in Pages, NEW v, NEW on, Shows(v, p, on)
        PROVE  \A q \in Pages :
           /\ refs'[q].id = refs[q].id /\ refs'[q].ending = refs[q].ending
           /\ refs'[q].aborted = refs[q].aborted /\ refs'[q].status = refs[q].status
    BY <1>1 DEF Shows, Always, GoLiveTypeOK, Refs
  <1>2. CASE \E v \in Previews : PreviewShown(v)
    <2>1. PICK v \in Previews : PreviewShown(v)
      BY <1>2
    <2>2. preview[v].phase = "asking" /\ preview[v].page \in Pages
          /\ capturing' = capturing \cup {v}
      BY <2>1 DEF PreviewShown, Always, MountsUsed
    <2>3. \A b \in Attempts : attempt[b].stream # v
      BY <2>2 DEF Always, StreamsKnown
    <2>4. QED
      BY <1>1, <2>1, <2>2, <2>3, CapturesChange DEF PreviewShown, slice
  <1>3. CASE \E v \in Previews : PreviewRefused(v)
    BY <1>1, <1>3, CapturesChange DEF PreviewRefused, slice, service, Always, MountsUsed
  <1>4. CASE \E v \in Previews : StartPreview(v)
    <2>1. \A q \in Pages :
           /\ refs'[q].id = refs[q].id /\ refs'[q].ending = refs[q].ending
           /\ refs'[q].aborted = refs[q].aborted /\ refs'[q].status = refs[q].status
      BY <1>4 DEF StartPreview, Always, GoLiveTypeOK, Refs
    <2>2. QED
      BY <1>4, <2>1, CapturesChange DEF StartPreview, slice, service
  <1>5. CASE CancelPreview
    BY <1>1, <1>5, CapturesChange DEF CancelPreview, slice, calls, Always, GoLiveTypeOK
  <1>6. QED
    BY <1>2, <1>3, <1>4, <1>5

LEMMA PressUndisturbed ==
  ASSUME Always, Always', ~overtaken, ~overtaken', Undisturbed,
         NEW a \in Attempts, Press(a)
  PROVE  Undisturbed'
  <1> USE DEF Undisturbed, Always
  <1> DEFINE v == refs[page].preview
  <1>1. /\ page \in Pages /\ status \in {"idle", "ending"} /\ AllSettled
        /\ v \in capturing \cup {Null}
    <2>1. page \in Pages /\ v \in Previews \cup {Null}
      BY DEF Press, GoLiveTypeOK, Refs
    <2>2. QED
      BY <2>1, SettledMeans DEF Press
  <1>2. Dark
    BY <1>1, SettledMeans DEF SettledIsDark
  <1>3. /\ attempt'[a].page = page /\ attempt'[a].stream = v
        /\ attempt'[a].phase = IF v = Null THEN "capture" ELSE "ticket"
        /\ \A b \in Attempts : b # a => attempt'[b] = attempt[b]
        /\ page' = page /\ status' = "starting"
        /\ stream' = IF v = Null THEN stream ELSE v
        /\ UNCHANGED <<capturing, open, row, dropped>>
    BY DEF Press, GoLiveTypeOK
  <1>4. /\ ~refs'[page].aborted
        /\ \A p \in Pages : refs'[p].id = refs[p].id /\ refs'[p].ending = refs[p].ending
    BY <1>1 DEF Press, GoLiveTypeOK, Refs
  <1>5. \A b \in Attempts : attempt'[b].phase \in Waits <=> b = a
    BY <1>1, <1>3 DEF AllSettled, Waits
  <1>6. Sound(a)'
    <2>1. v = Null => Dark'
      BY <1>2, <1>3 DEF Dark, GoLiveTypeOK, Streams
    <2>2. v # Null => Lit(a)'
      BY <1>1, <1>2, <1>3 DEF Dark, Lit
    <2>3. ~Aborted(a)' /\ ~UpRow(a)' /\ attempt'[a].phase \notin {"retiring", "signalling"}
      BY <1>3, <1>4 DEF Aborted, UpRow
    <2>4. open' = {}
      BY <1>2, <1>3 DEF Dark
    <2>5. QED
      BY <1>1, <1>3, <1>4, <1>5, <2>1, <2>2, <2>3, <2>4 DEF Sound, AllSettled
  <1>7. AttemptsSound'
    BY <1>5, <1>6 DEF AttemptsSound
  <1>8. LiveIsUp' /\ EndingIsDark' /\ SettledIsDark'
    BY <1>1, <1>3, <1>4, <1>5, SettledMeans DEF LiveIsUp, EndingIsDark, SettledIsDark, AllSettled
  <1>9. IdIsCurrent'
    <2>1. refs[page].id = Null
      BY <1>1 DEF IdIsCurrent, AllSettled, Waits
    <2>2. QED
      BY <1>3, <1>4, <2>1 DEF IdIsCurrent
  <1>10. RowAccounted'
    BY <1>1, <1>3, <1>4, <1>5, AccountedMeans DEF Accounted, AllSettled, GoLiveTypeOK, Ids
  <1>11. QED
    BY <1>7, <1>8, <1>9, <1>10

\* An attempt is the last to wait, and the tab is idle or ending.
LEMMA AttemptReturns ==
  ASSUME Always, Always', ~overtaken, ~overtaken', Undisturbed,
         NEW a \in Attempts, Sound(a), attempt[a].phase \in Waits,
         attempt'[a].phase = "done",
         \A b \in Attempts : b # a => attempt'[b] = attempt[b],
         page' = page,
         \A p \in Pages : /\ refs'[p].ending = refs[p].ending
                          /\ refs'[p].id = refs[p].id \/ p = page,
         refs'[page].id = Null,
         Dark',
         status' = "idle" \/ (status \in {"idle", "ending"} /\ status' = status),
         row' \in {row, Null}, dropped \subseteq dropped',
         row' = a => a \in dropped'
  PROVE  Undisturbed'
  <1> USE DEF Undisturbed, Always
  <1>1. \A b \in Attempts : attempt'[b].phase \notin Waits
    BY DEF Sound, Waits
  <1>2. AttemptsSound' /\ LiveIsUp' /\ IdIsCurrent'
    BY <1>1 DEF AttemptsSound, LiveIsUp, IdIsCurrent
  <1>3. EndingIsDark'
    BY DEF EndingIsDark
  <1>4. SettledIsDark'
    BY <1>3, SettledMeans DEF EndingIsDark, SettledIsDark, AllSettled
  <1>5. status # "live"
    BY SettledMeans DEF LiveIsUp, AllSettled
  <1>6. row' # Null /\ row' # a => Accounted'
    <2>1. refs[page].id \in {Null, a}
      BY <1>5 DEF Sound, IdIsCurrent, Waits
    <2>2. QED
      BY <2>1, AccountedMeans DEF Accounted, Sound, GoLiveTypeOK, Ids
  <1>7. QED
    BY <1>2, <1>3, <1>4, <1>6, AccountedMeans DEF Accounted

LEMMA FailUndisturbed ==
  ASSUME Always, Always', ~overtaken, ~overtaken', Undisturbed,
         NEW a \in Attempts, Sound(a), attempt[a].phase \in Waits, Fail(a),
         \A b \in Attempts : b # a => attempt'[b] = attempt[b],
         attempt'[a].stream = attempt[a].stream
  PROVE  Undisturbed'
  <1> USE DEF Always
  <1>1. page \in Pages /\ attempt[a].page = page
    BY DEF Sound
  <1>2. /\ refs'[page].id = Null /\ attempt'[a].phase = "done" /\ page' = page
        /\ \A p \in Pages : /\ refs'[p].ending = refs[p].ending
                            /\ refs'[p].id = refs[p].id \/ p = page
    BY <1>1, PhaseGoes DEF Fail, GoLiveTypeOK, Refs
  <1>3. Dark'
    <2>1. open' = open \ {host} /\ capturing' = capturing \ {stream}
      BY DEF Fail, Cleanup
    <2>2. CASE Dark
      BY <2>1, <2>2 DEF Dark
    <2>3. CASE Lit(a)
      BY <2>1, <2>3 DEF Sound, Lit, Dark, Hosted
    <2>4. QED
      BY <2>2, <2>3 DEF Sound
  <1>4. status' = "idle" /\ row' = row /\ dropped \subseteq dropped'
        /\ (row' = a => a \in dropped')
    BY DEF Fail, Stopped
  <1>5. QED
    BY <1>1, <1>2, <1>3, <1>4, AttemptReturns

LEMMA AnswersUndisturbed ==
  ASSUME Always, Always', ~overtaken, ~overtaken', Undisturbed,
         NEW a \in Attempts, Answers(a)
  PROVE  Undisturbed'
  <1> USE DEF Always
  <1>1. attempt[a].phase \in Waits /\ Sound(a)
    BY AnswersDo DEF Undisturbed, AttemptsSound
  <1>2. /\ page \in Pages /\ attempt[a].page = page /\ status # "live"
        /\ \A b \in Attempts : b # a => attempt[b].phase \notin Waits
    BY <1>1, SettledMeans DEF Sound, Undisturbed, LiveIsUp, AllSettled
  <1>3. /\ page' = page /\ attempt'[a].page = page
        /\ \A b \in Attempts : b # a => attempt'[b] = attempt[b]
        /\ \A p \in Pages : /\ refs'[p].ending = refs[p].ending
                            /\ refs'[p].aborted = refs[p].aborted
                            /\ refs'[p].id = refs[p].id \/ (p = page /\ ~Captured(a))
        /\ Aborted(a)' <=> Aborted(a)
    BY <1>2, AnswersDo DEF Aborted
  <1>4. attempt[a].phase # "signalling" \/ Aborted(a) => refs[page].id = Null
    BY <1>2 DEF Undisturbed, IdIsCurrent, Waits
  <1>5. CASE CaptureRefused(a) \/ StartFailed(a) \/ SignallingFailed(a)
    BY <1>1, <1>3, <1>5, AnswersDo, FailUndisturbed
    DEF CaptureRefused, StartFailed, SignallingFailed, Captured, Fail, Goes, GoLiveTypeOK, Attempt
  <1>6. ASSUME attempt'[a].phase \in Waits, Sound(a)', status' = status,
               dropped' = dropped, row' \in {row, a},
               \A p \in Pages : refs'[p].id = refs[p].id \/ (p = page /\ row \in {a, Null}),
               refs'[page].id # Null => attempt'[a].phase = "signalling" /\ ~Aborted(a) /\ refs'[page].id = a,
               Dark => Dark'
        PROVE  Undisturbed'
    <2>1. \A b \in Attempts : attempt'[b].phase \in Waits <=> b = a
      BY <1>2, <1>3, <1>6
    <2>2. AttemptsSound' /\ LiveIsUp'
      BY <1>2, <1>6, <2>1 DEF AttemptsSound, LiveIsUp
    <2>3. EndingIsDark' /\ SettledIsDark'
      BY <1>3, <1>6, <2>1, SettledMeans DEF Undisturbed, EndingIsDark, SettledIsDark, AllSettled
    <2>4. IdIsCurrent'
      BY <1>3, <1>6 DEF IdIsCurrent
    <2>5. RowAccounted'
      BY <1>2, <1>3, <1>6, <2>1, AccountedMeans DEF Undisturbed, Accounted, GoLiveTypeOK, Ids
    <2>6. QED
      BY <2>2, <2>3, <2>4, <2>5 DEF Undisturbed
  <1>7. CASE Captured(a)
    <2>1. /\ attempt[a].phase = "capture" /\ attempt'[a].phase = "ticket"
          /\ attempt'[a].stream = a /\ capturing' = capturing \cup {a} /\ stream' = a
          /\ UNCHANGED <<status, open, row, dropped>>
          /\ \A p \in Pages : refs'[p].id = refs[p].id
      <3>1. attempt[a] \in Attempt
            /\ attempt' = [attempt EXCEPT ![a] = [@ EXCEPT !.phase = "ticket", !.stream = a]]
        BY <1>7 DEF Captured, GoLiveTypeOK, Attempt
      <3>2. attempt'[a].phase = "ticket" /\ attempt'[a].stream = a
        BY <3>1 DEF Attempt, GoLiveTypeOK
      <3>3. QED
        BY <1>3, <1>7, <3>2 DEF Captured, slice
    <2>2. ~Aborted(a) /\ Dark /\ status = "starting" /\ \A p \in Pages : refs[p].ending = Null
      BY <1>1, <2>1 DEF Sound
    <2>3. Lit(a)'
      BY <1>3, <2>1, <2>2 DEF Lit, Dark, StreamsKnown
    <2>4. Sound(a)'
      BY <1>2, <1>3, <2>1, <2>2, <2>3 DEF Sound, Dark, UpRow
    <2>5. EndingIsDark' /\ AttemptsSound' /\ LiveIsUp' /\ SettledIsDark'
      BY <1>2, <1>3, <2>1, <2>2, <2>4, SettledMeans
      DEF EndingIsDark, AttemptsSound, LiveIsUp, SettledIsDark, AllSettled, Waits
    <2>6. IdIsCurrent'
      BY <1>3, <1>4, <2>1 DEF IdIsCurrent
    <2>8. RowAccounted'
      <3>1. attempt'[a].phase \in Waits
        BY <2>1 DEF Waits
      <3>2. QED
        BY <1>3, <2>1, <3>1, AccountedMeans DEF Undisturbed, Accounted, GoLiveTypeOK, Ids
    <2>7. QED
      BY <2>5, <2>6, <2>8 DEF Undisturbed
  <1>8. CASE Ticketed(a) \/ StartServed(a)
    <2>1. UNCHANGED <<status, host, stream, capturing, open, refs, dropped>>
          /\ \A b \in Attempts : attempt'[b].stream = attempt[b].stream
      BY <1>3, <1>8, AnswersDo DEF Ticketed, StartServed, slice, service, Captured
    <2>2. (Dark => Dark') /\ (Lit(a) => Lit(a)')
      BY <2>1 DEF Dark, Lit
    <2>3. CASE Ticketed(a) /\ Aborted(a)
      <3>1. attempt'[a].phase = "done" /\ row' = row /\ row # a
        BY <2>3, PhaseGoes, GoLiveAssumption DEF Ticketed, RowIsServed, UpRow
      <3>2. Dark /\ status \in {"idle", "ending"}
        BY <1>1, <2>3 DEF Sound
      <3>3. QED
        BY <1>1, <1>2, <1>3, <1>4, <2>1, <2>2, <2>3, <3>1, <3>2, AttemptReturns
    <2>4. CASE Ticketed(a) /\ ~Aborted(a)
      <3>1. attempt'[a].phase = "posting" /\ row' = row /\ attempt[a].phase = "ticket"
        BY <2>4, PhaseGoes DEF Ticketed
      <3>2. Sound(a)'
        BY <1>1, <1>2, <1>3, <2>1, <2>2, <2>4, <3>1 DEF Sound, UpRow
      <3>3. QED
        BY <1>2, <1>4, <1>6, <2>1, <2>2, <3>1, <3>2 DEF Waits
    <2>5. CASE StartServed(a)
      <3>1. attempt'[a].phase = "posted" /\ row' = a /\ attempt[a].phase = "posting"
        BY <2>5, PhaseGoes DEF StartServed
      <3>2. Sound(a)'
        BY <1>1, <1>2, <1>3, <2>1, <2>2, <3>1 DEF Sound, UpRow
      <3>3. QED
        BY <1>2, <1>4, <1>6, <2>1, <2>2, <3>1, <3>2 DEF Waits
    <2>6. QED
      BY <1>8, <2>3, <2>4, <2>5
  <1>9. CASE StartAnswered(a)
    <2>1. /\ UNCHANGED <<status, stream, capturing, row, dropped>>
          /\ attempt[a].phase = "posted" /\ row \in {a, Null}
          /\ \A b \in Attempts : attempt'[b].stream = attempt[b].stream
      BY <1>1, <1>3, <1>9, AnswersDo DEF StartAnswered, slice, Captured, Sound, UpRow
    <2>2. Lit(a) => Lit(a)'
      BY <2>1 DEF Lit
    <2>3. CASE Aborted(a)
      <3>1. attempt'[a].phase = "retiring" /\ UNCHANGED <<refs, open>>
        BY <1>9, <2>3, PhaseGoes DEF StartAnswered
      <3>2. Dark => Dark'
        BY <2>1, <3>1 DEF Dark
      <3>3. Sound(a)'
        BY <1>1, <1>2, <1>3, <2>1, <2>3, <3>1, <3>2 DEF Sound, UpRow
      <3>4. QED
        BY <1>4, <1>6, <2>1, <3>1, <3>2, <3>3 DEF Waits
    <2>4. CASE ~Aborted(a)
      <3>1. /\ attempt'[a].phase = "signalling" /\ host' = a /\ open' = open \cup {a}
            /\ refs' = [refs EXCEPT ![page].id = a]
        BY <1>2, <1>9, <2>4, PhaseGoes DEF StartAnswered
      <3>2. refs'[page].id = a
        BY <1>2, <3>1 DEF GoLiveTypeOK, Refs
      <3>3. Lit(a) /\ open = {}
        BY <1>1, <2>1, <2>4 DEF Sound
      <3>4. Sound(a)'
        BY <1>1, <1>2, <1>3, <2>1, <2>2, <2>4, <3>1, <3>2, <3>3 DEF Sound, UpRow, Hosted
      <3>5. ~Dark
        BY <3>3 DEF Lit, Dark
      <3>6. QED
        BY <1>3, <1>6, <2>1, <2>4, <3>1, <3>2, <3>4, <3>5 DEF Waits
    <2>5. QED
      BY <2>3, <2>4
  <1>10. CASE Retired(a)
    <2>1. /\ attempt[a].phase = "retiring" /\ Aborted(a) /\ attempt'[a].phase = "done"
          /\ row \in {a, Null} /\ Dark /\ status \in {"idle", "ending"}
      BY <1>1, <1>10, PhaseGoes DEF Retired, Sound, UpRow
    <2>2. UNCHANGED <<refs, status>> /\ Dark'
      BY <1>10, <2>1, AnswersDo DEF Retired, Cleanup, Dark, slice, Captured
    <2>3. row' \in {row, Null} /\ dropped \subseteq dropped' /\ (row' = a => a \in dropped')
      BY <1>10, GoLiveAssumption DEF Retired, EndRequest
    <2>4. QED
      BY <1>1, <1>3, <1>4, <2>1, <2>2, <2>3, AttemptReturns
  <1>11. CASE Opened(a)
    <2>1. attempt[a].phase = "signalling" /\ attempt'[a].phase = "done" /\ a \in open
      BY <1>11, PhaseGoes DEF Opened
    <2>2. ~Aborted(a)
      BY <1>1, <2>1 DEF Sound, Dark
    <2>3. /\ Lit(a) /\ Hosted(a) /\ refs[page].id = a /\ row \in {a, Null}
          /\ \A p \in Pages : refs[p].ending = Null
      BY <1>1, <2>1, <2>2 DEF Sound, UpRow
    <2>4. /\ status' = "live" /\ active' = a
          /\ UNCHANGED <<host, stream, capturing, open, row, dropped, refs>>
          /\ \A b \in Attempts : attempt'[b].stream = attempt[b].stream
      BY <1>3, <1>11, <2>2, AnswersDo DEF Opened, service, Captured
    <2>5. AllSettled'
      BY <1>2, <1>3, <2>1, <2>3, <2>4 DEF AllSettled, Waits
    <2>6. AttemptsSound' /\ EndingIsDark' /\ SettledIsDark'
      BY <2>4, <2>5 DEF AttemptsSound, EndingIsDark, SettledIsDark, AllSettled
    <2>7. LiveIsUp'
      BY <1>2, <1>3, <2>3, <2>4, <2>5, SettledMeans DEF LiveIsUp, Lit, Hosted
    <2>8. IdIsCurrent' /\ RowAccounted'
      BY <1>2, <1>3, <2>3, <2>4, AccountedMeans DEF IdIsCurrent, Accounted
    <2>9. QED
      BY <2>6, <2>7, <2>8 DEF Undisturbed
  <1>12. QED
    BY <1>5, <1>7, <1>8, <1>9, <1>10, <1>11 DEF Answers

\* The end of a broadcast, pressed or because its track ended.
LEMMA EndsLiveUndisturbed ==
  ASSUME Always, Always', ~overtaken, ~overtaken', Undisturbed,
         NEW p \in Pages, NEW s, EndsLive(p, s),
         \/ status = "live" /\ (p = page \/ p = attempt[active].page)
         \/ /\ status # "live" /\ Taken(s) /\ s \in capturing
            /\ \A a \in Attempts : attempt[a].stream = s => attempt[a].page = p
  PROVE  Undisturbed'
  <1> USE DEF Always
  <1>1. PICK r \in Refs :
          /\ refs' = [refs EXCEPT ![p] = r] /\ Keeps(refs[p], r)
          /\ r.aborted /\ r.id = Null /\ r.ending = refs[p].id
    BY DEF EndsLive
  <1>2. /\ refs'[p].aborted /\ refs'[p].id = Null /\ refs'[p].ending = refs[p].id
        /\ refs[p].ending = Null
        /\ \A q \in Pages : q # p => refs'[q] = refs[q]
        /\ status' = (IF refs[p].id = Null THEN "idle" ELSE "ending")
        /\ open' = open \ {host} /\ capturing' = capturing \ {stream, s}
        /\ UNCHANGED <<page, attempt, row, dropped>>
    BY <1>1 DEF EndsLive, Endable, StatusIsEnding, StatusAfterEnd, EndedId, calls, GoLiveTypeOK
  <1>3. RowAccounted'
    BY <1>2, AccountedMeans DEF Undisturbed, Accounted
  <1>4. CASE status = "live"
    <2>1. AllSettled /\ Lit(active) /\ Hosted(active)
          /\ (page \in Pages /\ refs[page].id # Null => attempt[active].page = page)
      BY <1>4, SettledMeans DEF Undisturbed, LiveIsUp, IdIsCurrent, AllSettled, Waits
    <2>2. Dark'
      BY <1>2, <2>1 DEF Dark, Lit, Hosted
    <2>3. AttemptsSound' /\ LiveIsUp'
      BY <1>2, <2>1 DEF AttemptsSound, LiveIsUp, AllSettled
    <2>4. EndingIsDark' /\ SettledIsDark'
      BY <1>2, <2>1, <2>2, SettledMeans DEF EndingIsDark, SettledIsDark, AllSettled
    <2>5. IdIsCurrent'
      BY <1>2, <1>4, <2>1 DEF IdIsCurrent
    <2>6. QED
      BY <1>3, <2>3, <2>4, <2>5 DEF Undisturbed
  <1>5. CASE status # "live"
    <2>1. ~Dark
      BY <1>5 DEF Dark, Taken
    <2>2. PICK a \in Attempts : attempt[a].phase \in Waits
      BY <1>5, <2>1, SettledMeans
      DEF Undisturbed, SettledIsDark, EndingIsDark, AllSettled
    <2>3. /\ Sound(a) /\ ~Aborted(a) /\ Lit(a)
          /\ attempt[a].phase # "capture" /\ attempt[a].phase # "retiring"
          /\ page \in Pages /\ attempt[a].page = page
      BY <2>1, <2>2 DEF Undisturbed, AttemptsSound, Sound
    <2>4. p = page
      <3>1. PICK b \in Attempts : attempt[b].stream = s
        BY <1>5 DEF Taken
      <3>2. attempt[a].stream = s
        BY <1>5, <2>3, <3>1 DEF Lit
      <3>3. QED
        BY <1>5, <2>3, <3>2
    <2>5. Dark'
      BY <1>2, <2>3 DEF Dark, Lit, Sound, Hosted
    <2>6. Aborted(a)'
      BY <1>2, <2>3, <2>4 DEF Aborted
    <2>7. Sound(a)'
      BY <1>2, <2>3, <2>4, <2>5, <2>6 DEF Sound, UpRow
    <2>8. AttemptsSound' /\ LiveIsUp'
      BY <1>2, <2>3, <2>7 DEF AttemptsSound, LiveIsUp, Sound
    <2>9. EndingIsDark' /\ SettledIsDark'
      BY <1>2, <2>2, <2>5, SettledMeans DEF EndingIsDark, SettledIsDark, AllSettled
    <2>10. IdIsCurrent'
      BY <1>2, <2>4 DEF IdIsCurrent
    <2>11. QED
      BY <1>3, <2>8, <2>9, <2>10 DEF Undisturbed
  <1>6. QED
    BY <1>4, <1>5

\* While a stream that an attempt goes live with runs, its mount can end it.
LEMMA TakenIsEndable ==
  ASSUME Always, Undisturbed, NEW s \in capturing, Taken(s), NEW p \in Pages,
         \A a \in Attempts : attempt[a].stream = s => attempt[a].page = p
  PROVE  Endable(p) /\ (status = "live" => p = attempt[active].page)
  <1> USE DEF Always
  <1>1. ~Dark
    BY DEF Dark, Taken
  <1>2. CASE status = "live"
    <2>1. /\ AllSettled /\ active \in Attempts /\ Lit(active)
          /\ attempt[active].page # page => refs[attempt[active].page].status = "live"
      BY <1>2, SettledMeans DEF Undisturbed, LiveIsUp
    <2>2. attempt[active].page = p
      BY <2>1 DEF Lit, Taken
    <2>3. QED
      BY <1>2, <2>1, <2>2 DEF Endable, StatusRef, AllSettled
  <1>3. CASE status # "live"
    <2>1. PICK a \in Attempts : attempt[a].phase \in Waits
      BY <1>1, <1>3, SettledMeans
      DEF Undisturbed, SettledIsDark, EndingIsDark, AllSettled
    <2>2. /\ Lit(a) /\ page \in Pages /\ attempt[a].page = page /\ status = "starting"
          /\ \A q \in Pages : refs[q].ending = Null
      BY <1>1, <2>1 DEF Undisturbed, AttemptsSound, Sound
    <2>3. p = page
      BY <2>2 DEF Lit, Taken
    <2>4. QED
      BY <1>3, <2>2, <2>3 DEF Endable, StatusRef
  <1>4. QED
    BY <1>2, <1>3

LEMMA EndingUndisturbed ==
  ASSUME Always, Always', ~overtaken, ~overtaken', Undisturbed,
         EndButton \/ \E s \in Streams : NativeStop(s)
  PROVE  Undisturbed'
  <1> USE DEF Always
  <1>1. CASE EndButton
    BY <1>1, EndButtonEnds, EndsLiveUndisturbed DEF EndButton
  <1>2. ASSUME NEW s \in Streams, NativeStop(s)
        PROVE  Undisturbed'
    <2> DEFINE p == Mount(s)
    <2>1. /\ s \in capturing /\ p \in Pages
          /\ \A a \in Attempts : attempt[a].stream = s => attempt[a].page = p
          /\ (Taken(s) /\ EndsLive(p, s)) \/ TrackEnds(p, s)
      BY <1>2, NativeStopEnds
    <2>2. CASE Taken(s) /\ EndsLive(p, s)
      <3>1. status = "live" => p = attempt[active].page
        BY <2>1, <2>2, TakenIsEndable
      <3>2. QED
        BY <2>1, <2>2, <3>1, EndsLiveUndisturbed
    <2>3. CASE TrackEnds(p, s)
      <3>1. ~Taken(s)
        BY <2>1, <2>3, TakenIsEndable DEF TrackEnds
      <3>2. \A q \in Pages :
              /\ refs'[q].id = refs[q].id /\ refs'[q].ending = refs[q].ending
              /\ refs'[q].aborted = refs[q].aborted
              /\ refs'[q].status = refs[q].status
        BY <2>3 DEF TrackEnds, Keeps, GoLiveTypeOK
      <3>3. /\ UNCHANGED <<status, active, host, stream, open, page, attempt, row, dropped>>
            /\ \A b \in Attempts :
                 attempt[b].stream \in capturing' <=> attempt[b].stream \in capturing
        BY <2>3, <3>1 DEF TrackEnds, Taken, slice, calls
      <3>4. QED
        BY <3>2, <3>3, CapturesChange
    <2>4. QED
      BY <2>1, <2>2, <2>3
  <1>3. QED
    BY <1>1, <1>2

\* A step that leaves a tab settled, idle and dark.
LEMMA ComesToRest ==
  ASSUME Always, Always', ~overtaken, ~overtaken', Undisturbed, AllSettled,
         page' = Null, status' = "idle", UNCHANGED attempt, Cleanup,
         \A p \in Pages : refs'[p].id = refs[p].id /\ refs'[p].ending = refs[p].ending,
         \/ row' = Null
         \/ row' = row /\ dropped \subseteq dropped'
  PROVE  Undisturbed'
  <1> USE DEF Always
  <1>1. AllSettled'
    BY DEF AllSettled
  <1>2. Dark'
    <2>1. Dark \/ (Lit(active) /\ Hosted(active))
      BY SettledMeans DEF Undisturbed, SettledIsDark, LiveIsUp
    <2>2. QED
      BY <2>1 DEF Dark, Lit, Hosted, Cleanup
  <1>3. AttemptsSound' /\ LiveIsUp' /\ EndingIsDark' /\ SettledIsDark' /\ IdIsCurrent'
    BY <1>1, <1>2, GoLiveAssumption
    DEF AttemptsSound, LiveIsUp, EndingIsDark, SettledIsDark, IdIsCurrent, AllSettled
  <1>4. RowAccounted'
    BY AccountedMeans DEF Undisturbed, Accounted, AllSettled
  <1>5. QED
    BY <1>3, <1>4 DEF Undisturbed

LEMMA PageUndisturbed ==
  ASSUME Always, Always', ~overtaken, ~overtaken', Undisturbed,
         \/ \E p \in Pages : Visit(p) \/ EndAnswered(p)
         \/ Leave \/ SignOut \/ SessionLost \/ DeleteAccount \/ SignIn \/ Reaped
  PROVE  Undisturbed'
  <1> USE DEF Always
  <1>1. ASSUME NEW p \in Pages, Visit(p)
        PROVE  Undisturbed'
    <2>1. /\ page = Null /\ page' = p /\ ~refs[p].used
          /\ UNCHANGED <<status, active, host, stream, capturing, open, attempt, row, dropped>>
          /\ \A q \in Pages : /\ refs'[q].id = refs[q].id
                              /\ refs'[q].ending = refs[q].ending
                              /\ refs'[q].status = refs[q].status
      BY <1>1 DEF Visit, slice, service, calls, GoLiveTypeOK, Refs
    <2>2. AttemptsSound'
      BY <2>1, GoLiveAssumption DEF Undisturbed, AttemptsSound, Sound
    <2>3. AllSettled' <=> AllSettled
      BY <2>1 DEF AllSettled
    <2>4. LiveIsUp'
      BY <2>1, <2>3, SettledMeans, GoLiveAssumption DEF Undisturbed, LiveIsUp, Lit, Hosted
    <2>5. EndingIsDark' /\ SettledIsDark'
      BY <2>1, <2>3, SettledMeans DEF Undisturbed, EndingIsDark, SettledIsDark, Dark
    <2>6. IdIsCurrent' /\ RowAccounted'
      BY <2>1, AccountedMeans DEF Undisturbed, IdIsCurrent, Accounted, MountsUsed
    <2>7. QED
      BY <2>2, <2>4, <2>5, <2>6 DEF Undisturbed
  <1>2. CASE Leave
    <2>1. /\ AllSettled
          /\ UNCHANGED <<status, active, host, stream, capturing, open, attempt, row, dropped>>
      BY <1>2, SettledMeans DEF Leave, Overtakes, slice, service, calls
    <2>2. /\ page' = Null
          /\ \A q \in Pages :
               /\ refs'[q].id = refs[q].id /\ refs'[q].ending = refs[q].ending
               /\ refs'[q].status = IF q = page THEN status ELSE refs[q].status
      BY <1>2, UnmountDoes DEF Leave
    <2>3. AllSettled'
      BY <2>1, <2>2 DEF AllSettled
    <2>4. AttemptsSound' /\ IdIsCurrent'
      BY <2>2, <2>3, GoLiveAssumption DEF AttemptsSound, AllSettled, IdIsCurrent
    <2>5. LiveIsUp'
      BY <2>1, <2>2, <2>3, SettledMeans DEF Undisturbed, LiveIsUp, Lit, Hosted
    <2>6. EndingIsDark' /\ SettledIsDark'
      BY <2>1, <2>2, SettledMeans DEF Undisturbed, EndingIsDark, SettledIsDark, Dark
    <2>7. RowAccounted'
      BY <2>1, <2>2, AccountedMeans DEF Undisturbed, Accounted
    <2>8. QED
      BY <2>4, <2>5, <2>6, <2>7 DEF Undisturbed
  <1>3. CASE SignOut
    <2>1. AllSettled /\ Cleanup /\ status' = "idle" /\ Unmount /\ UNCHANGED attempt
      BY <1>3, SettledMeans DEF SignOut, Overtakes, Stopped, calls
    <2>2. \/ row' = Null
          \/ row' = row /\ dropped \subseteq dropped'
      BY <1>3 DEF SignOut, EndRequest
    <2>3. QED
      BY <2>1, <2>2, UnmountDoes, ComesToRest
  <1>4. CASE SessionLost
    <2>1. AllSettled /\ Cleanup /\ status' = "idle" /\ Unmount /\ UNCHANGED <<attempt, row>>
          /\ dropped \subseteq dropped'
      BY <1>4, SettledMeans DEF SessionLost, Overtakes, Stopped, calls
    <2>2. QED
      BY <2>1, UnmountDoes, ComesToRest
  <1>5. CASE DeleteAccount \/ SignIn \/ Reaped
    <2>1. /\ UNCHANGED <<status, active, host, stream, capturing, open, page, refs, attempt, dropped>>
          /\ row' \in {row, Null}
      BY <1>5 DEF DeleteAccount, SignIn, Reaped, slice, service, calls
    <2>2. AttemptsSound'
      <3>1. ASSUME NEW a \in Attempts, Sound(a)
            PROVE  Sound(a)'
        BY <2>1, <3>1 DEF Sound, UpRow, Aborted, Dark, Lit, Hosted
      <3>2. QED
        BY <2>1, <3>1 DEF Undisturbed, AttemptsSound
    <2>3. LiveIsUp' /\ EndingIsDark'
      BY <2>1, SettledMeans DEF Undisturbed, LiveIsUp, EndingIsDark, Lit, Hosted, Dark, AllSettled
    <2>4. SettledIsDark' /\ IdIsCurrent'
      BY <2>1, SettledMeans DEF Undisturbed, SettledIsDark, IdIsCurrent, Dark, AllSettled, Aborted
    <2>5. RowAccounted'
      BY <2>1, AccountedMeans DEF Undisturbed, Accounted
    <2>6. QED
      BY <2>2, <2>3, <2>4, <2>5 DEF Undisturbed
  <1>6. ASSUME NEW p \in Pages, EndAnswered(p)
        PROVE  Undisturbed'
    <2>1. /\ refs[p].ending # Null /\ status' = "idle" /\ EndRequest(refs[p].ending)
          /\ refs'[p].ending = Null
          /\ \A q \in Pages : /\ refs'[q].id = refs[q].id
                              /\ refs'[q].aborted = refs[q].aborted
                              /\ q # p => refs'[q].ending = refs[q].ending
          /\ UNCHANGED <<host, stream, capturing, open, page, attempt>>
      BY <1>6 DEF EndAnswered, Stopped, service, calls, GoLiveTypeOK, Refs
    <2>2. Dark /\ Dark' /\ status # "live"
      BY <2>1 DEF Undisturbed, EndingIsDark, Dark
    <2>3. row' \in {row, Null} /\ dropped \subseteq dropped'
          /\ (row' = refs[p].ending => row' \in dropped')
      BY <2>1, GoLiveAssumption DEF EndRequest
    <2>4. AttemptsSound'
      <3>1. ASSUME NEW a \in Attempts, attempt[a].phase \in Waits
            PROVE  Sound(a)'
        <4>1. Sound(a) /\ Aborted(a) /\ attempt[a].page \in Pages
          BY <2>1, <3>1 DEF Undisturbed, AttemptsSound, Sound
        <4>2. Aborted(a)'
          BY <2>1, <4>1 DEF Aborted
        <4>3. QED
          BY <2>1, <2>2, <2>3, <4>1, <4>2 DEF Sound, UpRow
      <3>2. QED
        BY <2>1, <3>1 DEF AttemptsSound
    <2>5. LiveIsUp' /\ EndingIsDark' /\ SettledIsDark'
      BY <2>1, <2>2 DEF LiveIsUp, EndingIsDark, SettledIsDark
    <2>6. IdIsCurrent'
      <3>1. page \in Pages => refs[page].id = Null
        BY <2>1, <2>2 DEF Undisturbed, IdIsCurrent, AttemptsSound, Sound, Waits
      <3>2. QED
        BY <2>1, <3>1 DEF IdIsCurrent
    <2>7. RowAccounted'
      BY <2>1, <2>3, AccountedMeans DEF Undisturbed, Accounted
    <2>8. QED
      BY <2>4, <2>5, <2>6, <2>7 DEF Undisturbed
  <1>7. QED
    BY <1>1, <1>2, <1>3, <1>4, <1>5, <1>6

-----------------------------------------------------------------------------
(* The theorems *)

LEMMA GoLiveStepHolds ==
  ASSUME GoLiveIInv, [GoLiveNext]_goLiveVars
  PROVE  GoLiveIInv'
  <1> USE DEF GoLiveIInv
  <1>1. CASE UNCHANGED goLiveVars
    <2>1. Always'
      BY <1>1 DEF goLiveVars, slice, service, calls, Always, GoLiveTypeOK, MountsUsed, StreamsKnown,
         RowIsServed, UpRow
    <2>2. ASSUME ~overtaken
          PROVE  Undisturbed'
      BY <1>1, <2>1, <2>2, CapturesChange DEF goLiveVars, slice, service, calls
    <2>3. QED
      BY <1>1, <2>1, <2>2 DEF goLiveVars
  <1>2. CASE GoLiveNext
    <2>1. Always'
      <3>1. ASSUME NEW s \in Streams, NativeStop(s)
            PROVE  Always'
        BY <3>1, NativeStopEnds, KnownOfEnding DEF Always
      <3>2. CASE EndButton
        BY <3>2, EndButtonEnds, KnownOfEnding DEF Always
      <3>3. QED
        BY <1>2, <3>1, <3>2, KnownOfPreviews, KnownOfPress, KnownOfAnswers,
           KnownOfPage DEF GoLiveNext
    <2>2. overtaken => overtaken'
      <3>1. CASE \E a \in Attempts : Answers(a)
        BY <3>1, AnswersDo
      <3>2. QED
        BY <1>2, <3>1 DEF GoLiveNext, Press, StartPreview, PreviewShown, PreviewRefused,
           CancelPreview, NativeStop, EndButton, EndAnswered, Visit, Leave, SignOut,
           SessionLost, DeleteAccount, SignIn, Reaped, Overtakes
    <2>3. ASSUME ~overtaken, ~overtaken'
          PROVE  Undisturbed'
      BY <1>2, <2>1, <2>3, PreviewsUndisturb, PressUndisturbed, AnswersUndisturbed,
         EndingUndisturbed, PageUndisturbed DEF GoLiveNext
    <2>4. QED
      BY <2>1, <2>2, <2>3
  <1>3. QED
    BY <1>1, <1>2

\* The inductive invariant of a tab that goes live and ends.
THEOREM GoLiveInvariant == GoLiveSpec => []GoLiveIInv
  BY GoLiveInitHolds, GoLiveStepHolds, PTL DEF GoLiveSpec

\* Every variable keeps its type.
THEOREM GoLiveTypeCorrect == GoLiveSpec => []GoLiveTypeOK
  BY GoLiveInvariant, PTL DEF GoLiveIInv, Always

LEMMA TrueWhenUndisturbed == GoLiveIInv => StatusIsTrue /\ RowAccounted
  <1> SUFFICES ASSUME GoLiveIInv PROVE StatusIsTrue /\ RowAccounted
    OBVIOUS
  <1>1. CASE overtaken
    BY <1>1 DEF StatusIsTrue, RowAccounted
  <1>2. CASE ~overtaken
    BY <1>2 DEF GoLiveIInv, Undisturbed, StatusIsTrue, LiveIsUp, SettledIsDark, Lit, Hosted, Dark
  <1>3. QED
    BY <1>1, <1>2

\* What a tab says of its broadcast is so (BroadcastPage.tsx).
THEOREM StatusHolds == GoLiveSpec => []StatusIsTrue
  BY GoLiveInvariant, TrueWhenUndisturbed, PTL

\* No row is forgotten at the server (BroadcastPage.tsx, Layout.tsx).
THEOREM RowsAccounted == GoLiveSpec => []RowAccounted
  BY GoLiveInvariant, TrueWhenUndisturbed, PTL
=============================================================================
