--------------------------------- MODULE Host ---------------------------------
(***************************************************************************)
(* The broadcaster's side of the mesh: BroadcastHost of web/src/lib/peer.ts *)
(* as it admits viewers, shapes what it sends them and lets them go.       *)
(*                                                                         *)
(* A viewer has a fresh peer id for every attempt and opens two links with *)
(* it, a media call and a data connection.  Both are verified by a request *)
(* to the server (opts.verify) before the host keeps them, and their close *)
(* handlers are attached only then.  Senders are reparametrised one after  *)
(* another for each peer (serializeOn).  Of the chat, the module has whose *)
(* lines the host keeps and whom it and its page mute, not what is said.   *)
(* The host has a bitrate policy.                                          *)
(***************************************************************************)
EXTENDS Integers, Sequences, FiniteSets

CONSTANTS
  Peers,     \* peer ids of viewers
  None,
  LastTier,  \* policy.tiersKbps.length - 1
  Ratchet    \* policy.ratchetSamples

ASSUME HostAssumption ==
  /\ IsFiniteSet(Peers)
  /\ LastTier \in Nat /\ Ratchet \in Nat \ {0} /\ None \notin Nat

VARIABLES
  up,        \* the host is not stopped
  media,     \* media[p]: the call of p
  data,      \* data[p]: its data connection
  names,     \* peers with an entry in `names`
  tier,      \* tier[p]: its entry in `tiers`, None without
  cap,       \* cap[p]: the tier whose cap the senders of p have
  params,    \* params[p]: the queue of caps to apply to the senders of p
  batch,     \* peers whose cap of the last ratchet is not applied (ratcheting)
  over,      \* overBudgetSamples
  overload,  \* whether the uplink carries more than the budget
  camera,    \* the camera on the air: "front", "rear", or "asking" for the rear one
             \* (bound: switched once)
  spoke,     \* peers with a line in chatHistory
  muted,     \* mutedPeers
  shown,     \* mutedPeers of the broadcast page, a copy
  late,      \* peers with a link that closed, or that were kicked, while a link
             \* was being verified (observer)
  unset      \* peers whose senders refused a cap while they watched (observer)

links == <<media, data, names>>
shaping == <<tier, cap, params, batch, over>>
chat == <<spoke, muted, shown>>
vars == <<up, links, shaping, overload, camera, chat, late, unset>>

\* A link: "new" (not opened), "checking" (being verified), "shut" (closed while
\* it was), "in" (a member of `calls` or `dataConns`), "dead" (a member that is
\* closed, which nobody will be told), "gone".
Phases == {"new", "checking", "shut", "in", "dead", "gone"}
Kept == {"in", "dead"}
Open == {"checking", "in"}
Tiers == 0..LastTier

Init ==
  /\ up = TRUE
  /\ media = [p \in Peers |-> "new"] /\ data = [p \in Peers |-> "new"]
  /\ names = {}
  /\ tier = [p \in Peers |-> None]
  /\ cap = [p \in Peers |-> 0] /\ params = [p \in Peers |-> <<>>]
  /\ batch = {} /\ over = 0 /\ overload = FALSE
  /\ camera = "front" /\ late = {} /\ unset = {}
  /\ spoke = {} /\ muted = {} /\ shown = {}

-----------------------------------------------------------------------------
(* Helpers *)

Calls == {p \in Peers : media[p] \in Kept}
Least(a, b) == IF a <= b THEN a ELSE b

\* tierForViewer
TierFor(n) == Least(n, LastTier)

Deeper(p) == tier[p] + 1

\* mutant: parameters are set without waiting for those before them.
ParamsAtOnce(q, t) == <<t>> \o q
\* serializeOn
Queued(q, t) == Append(q, t)

\* What a link becomes when it closes, and whether the host is told.
Closed(l) == IF l = "checking" THEN "shut" ELSE IF l = "shut" THEN "shut" ELSE "gone"
\* Answering a call that is over does not bring it back.
Admitted(l) == IF l = "checking" THEN "in" ELSE "dead"
Verifying(l) == l \in {"checking", "shut"}

\* The senders of a connection that is over refuse at once whatever is queued.
Settle(p) ==
  /\ params' = [params EXCEPT ![p] = <<>>]
  /\ cap' = [cap EXCEPT ![p] = 0]
  /\ batch' = batch \ {p}
  /\ unset' = unset \ {p}

-----------------------------------------------------------------------------
(* Links *)

\* The viewer calls with both links; each asks the server for its ticket.
Connect(p) ==
  /\ up /\ media[p] = "new"
  /\ media' = [media EXCEPT ![p] = "checking"]
  /\ data' = [data EXCEPT ![p] = "checking"]
  /\ UNCHANGED <<up, names, shaping, overload, camera, chat, late, unset>>

\* handleCall: named, put on a tier by the number of calls, answered, counted
\* and capped, whatever has become of the call.
AdmitCall(p) ==
  /\ Verifying(media[p])
  /\ LET t == TierFor(Cardinality(Calls))
     IN /\ tier' = [tier EXCEPT ![p] = t]
        /\ params' = IF t = 0 \/ media[p] = "shut" THEN params
                     ELSE [params EXCEPT ![p] = Queued(@, t)]
  /\ media' = [media EXCEPT ![p] = Admitted(@)]
  /\ names' = names \cup {p}
  /\ UNCHANGED <<up, data, cap, batch, over, overload, camera, chat, late, unset>>

\* handleConn
AdmitData(p) ==
  /\ Verifying(data[p])
  /\ data' = [data EXCEPT ![p] = Admitted(@)]
  /\ names' = names \cup {p}
  /\ UNCHANGED <<up, media, shaping, overload, camera, chat, late, unset>>

\* verify gives no name: the link is closed.
Refuse(p) ==
  /\ \/ /\ Verifying(media[p])
        /\ media' = [media EXCEPT ![p] = "gone"] /\ UNCHANGED data
     \/ /\ Verifying(data[p])
        /\ data' = [data EXCEPT ![p] = "gone"] /\ UNCHANGED media
  /\ UNCHANGED <<up, names, shaping, overload, camera, chat, late, unset>>

Forgotten(p) == names' = names \ {p} /\ tier' = [tier EXCEPT ![p] = None]

\* close or error of the call; before it is admitted nobody listens.
CallCloses(p) ==
  /\ media[p] \in Open
  /\ media' = [media EXCEPT ![p] = Closed(@)]
  /\ IF media[p] = "in"
     THEN Forgotten(p) /\ UNCHANGED late
     ELSE late' = late \cup {p} /\ UNCHANGED <<names, tier>>
  /\ Settle(p)
  /\ UNCHANGED <<up, data, over, overload, camera, chat>>

\* close of the data connection, which follows its error, deletes the name too.
DataCloses(p) ==
  /\ data[p] \in Open
  /\ data' = [data EXCEPT ![p] = Closed(@)]
  /\ IF data[p] = "in"
     THEN names' = names \ {p} /\ UNCHANGED late
     ELSE late' = late \cup {p} /\ UNCHANGED names
  /\ UNCHANGED <<up, media, shaping, overload, camera, chat, unset>>

\* kickPeer.  Its button stands beside every line of the chat, whether or not
\* the viewer is still there; the page keeps a record of who is muted.
Dropped(l) == IF l \in Kept THEN "gone" ELSE l
Kick(p) ==
  /\ up /\ p \in spoke
  /\ media' = [media EXCEPT ![p] = Dropped(@)]
  /\ data' = [data EXCEPT ![p] = Dropped(@)]
  /\ Forgotten(p)
  /\ muted' = muted \ {p}
  /\ late' = IF Verifying(media[p]) \/ Verifying(data[p])
             THEN late \cup {p} ELSE late
  /\ Settle(p)
  /\ UNCHANGED <<up, over, overload, camera, spoke, shown>>

-----------------------------------------------------------------------------
(* The chat *)

\* handleChat: a line of a viewer who is not muted is relayed and retained.
Says(p) ==
  /\ data[p] = "in" /\ p \notin muted
  /\ spoke' = spoke \cup {p}
  /\ UNCHANGED <<up, links, shaping, overload, camera, muted, shown, late, unset>>

Toggled(S, p) == IF p \in muted THEN S \ {p} ELSE S \cup {p}
ToggleMute(p) ==
  /\ up /\ p \in spoke
  /\ muted' = Toggled(muted, p)
  /\ shown' = Toggled(shown, p)
  /\ UNCHANGED <<up, links, shaping, overload, camera, spoke, late, unset>>

\* The page is left and mounted again: it asks the host.
Remount ==
  /\ up
  /\ shown' = muted
  /\ UNCHANGED <<up, links, shaping, overload, camera, spoke, muted, late, unset>>

-----------------------------------------------------------------------------
(* Shaping *)

LoadChanges ==
  /\ up
  /\ overload' = ~overload
  /\ UNCHANGED <<up, links, shaping, camera, chat, late, unset>>

\* sample: over budget Ratchet times in a row, every call goes one rung deeper.
\* mutant: the last rung is left out.
DemotedShort == {p \in Calls : tier[p] # None /\ tier[p] + 1 < LastTier}
\* mutant: the ladder runs out.
DemotedAlways == {p \in Calls : tier[p] # None}
Demoted == {p \in Calls : tier[p] # None /\ tier[p] < LastTier}
Capped == {p \in Demoted : media[p] = "in"}
Sample ==
  LET busy == overload /\ Calls # {} IN
  /\ up
  /\ IF busy /\ over + 1 >= Ratchet /\ batch = {}
     THEN /\ tier' = [p \in Peers |-> IF p \in Demoted THEN Deeper(p) ELSE tier[p]]
          /\ params' = [p \in Peers |-> IF p \in Capped
                          THEN Queued(params[p], Deeper(p)) ELSE params[p]]
          /\ batch' = Capped
          /\ over' = 0
     ELSE /\ over' = IF busy THEN Least(over + 1, Ratchet) ELSE 0
          /\ UNCHANGED <<tier, params, batch>>
  /\ UNCHANGED <<up, links, cap, overload, camera, chat, late, unset>>

BatchAfter(p) == IF Len(params[p]) = 1 THEN batch \ {p} ELSE batch

\* applyBitrate: setParameters succeeds, or is refused and swallowed.
ApplyParams(p) ==
  /\ params[p] # <<>>
  /\ params' = [params EXCEPT ![p] = Tail(@)]
  /\ \/ cap' = [cap EXCEPT ![p] = Head(params[p])] /\ unset' = unset \ {p}
     \/ UNCHANGED cap /\ unset' = unset \cup {p}
  /\ batch' = BatchAfter(p)
  /\ UNCHANGED <<up, links, tier, over, overload, camera, chat, late>>

\* toggleCamera: the host is read before the prompt and used after it.
AskCamera ==
  /\ up /\ camera = "front" /\ camera' = "asking"
  /\ UNCHANGED <<up, links, shaping, overload, chat, late, unset>>

\* No camera, no track, or a sender that does not take it.
CameraRefused ==
  /\ camera = "asking" /\ camera' = "front"
  /\ UNCHANGED <<up, links, shaping, overload, chat, late, unset>>

\* replaceVideoTrack: once the senders have the new track, the caps again; a
\* host that has stopped meanwhile has no senders left.
SwitchCamera ==
  /\ camera = "asking" /\ camera' = "rear"
  /\ params' = [p \in Peers |-> IF media[p] = "in" /\ tier[p] # None
                  THEN Queued(params[p], tier[p]) ELSE params[p]]
  /\ UNCHANGED <<up, links, tier, cap, batch, over, overload, chat, late, unset>>

\* stop: destroying the peer closes every link there is; the chat and the load
\* are of no interest any more.
Stop ==
  /\ up
  /\ up' = FALSE
  /\ media' = [p \in Peers |-> Closed(media[p])]
  /\ data' = [p \in Peers |-> Closed(data[p])]
  /\ late' = late \cup {p \in Peers : "checking" \in {media[p], data[p]}}
  /\ names' = {} /\ tier' = [p \in Peers |-> None] /\ over' = 0
  /\ params' = [p \in Peers |-> <<>>] /\ cap' = [p \in Peers |-> 0]
  /\ batch' = {} /\ unset' = {}
  /\ overload' = FALSE
  /\ spoke' = {} /\ muted' = {} /\ shown' = {}
  /\ UNCHANGED camera

Next ==
  \/ \E p \in Peers :
       \/ Connect(p) \/ AdmitCall(p) \/ AdmitData(p) \/ Refuse(p)
       \/ CallCloses(p) \/ DataCloses(p) \/ Kick(p) \/ ApplyParams(p)
       \/ Says(p) \/ ToggleMute(p)
  \/ Remount \/ LoadChanges \/ Sample \/ Stop
  \/ AskCamera \/ CameraRefused \/ SwitchCamera

Spec == Init /\ [][Next]_vars

\* setInterval(sample) and setParameters; viewers and the server owe nothing.
FairSpec ==
  Spec /\ WF_vars(Sample) /\ \A p \in Peers : WF_vars(ApplyParams(p))

-----------------------------------------------------------------------------
(* Properties *)

TypeOK ==
  /\ up \in BOOLEAN /\ overload \in BOOLEAN
  /\ camera \in {"front", "asking", "rear"}
  /\ media \in [Peers -> Phases] /\ data \in [Peers -> Phases]
  /\ tier \in [Peers -> Tiers \cup {None}]
  /\ cap \in [Peers -> Tiers] /\ params \in [Peers -> Seq(Tiers)]
  /\ over \in 0..Ratchet
  /\ \A S \in {names, batch, late, unset, spoke, muted, shown} : S \subseteq Peers

\* Who is counted, named or on a tier is there, and who is there has a tier: an
\* entry survives its viewer only when a link closed under its verification.
AudienceIsThere ==
  \A p \in Peers \ late :
    /\ media[p] # "dead" /\ data[p] # "dead"
    /\ tier[p] # None <=> media[p] = "in"
    /\ p \in names => "in" \in {media[p], data[p]}

\* When the queue of parameters is empty a sender has the cap of its viewer's present tier,
\* though admission, the ratchet and a camera switch set caps concurrently.
CapFollowsTier ==
  \A p \in Peers \ unset :
    media[p] = "in" /\ params[p] = <<>> /\ tier[p] # None => cap[p] = tier[p]

\* The page tells of every viewer who can still talk whether it is muted, though
\* it keeps a copy, is mounted anew and does not clear the copy on a kick.
MutesAreShown ==
  up => \A p \in Peers : data[p] = "in" => (p \in muted <=> p \in shown)

\* What the host lists is what it serves: viewers, names, tiers, caps and mutes
\* agree, whatever joins, leaves, fails or is kicked while links are verified
\* and parameters are queued.
RosterIsTrue == AudienceIsThere /\ CapFollowsTier /\ MutesAreShown

\* A lasting overload brings every viewer to the bottom rung, whoever leaves
\* while the last batch of caps is being applied.
OverloadDemotes ==
  <>[](overload /\ up) =>
    \A p \in Peers :
      media[p] = "in" ~> (tier[p] = LastTier \/ media[p] # "in" \/ p \in late)
=============================================================================
