----------------------------- MODULE ExtensionProofs -----------------------------
(* Theorems about Extension for any number of casts and viewers. *)
EXTENDS Extension, TLAPS

USE ExtensionAssumption

-----------------------------------------------------------------------------
(* The inductive invariant *)

\* At most one attempt is in the document, nothing but its stream runs, and the
\* document knows every Peer there is.
OneAtATime ==
  /\ \A c, d \in UnderWay : c = d
  /\ \A c \in tracks : c = stream
  /\ \A c \in Casts :
       /\ cast[c] = "capturing" => stream = None
       /\ cast[c] \in {"capturing", "captured"} => peer = None
       /\ peers[c] # "none" => peer = c

\* A start that no stop has met has what it captured; a popup that says idle has
\* nothing behind it, and one that says live has all of it.
StartHolds ==
  /\ \A c \in Casts :
       cast[c] = "captured" \/ (cast[c] = "hosting" /\ peer = c) =>
         stream = c /\ c \in tracks
  /\ session.status = "idle" => tracks = {} /\ stream = None /\ peer = None
  /\ session.status = "live" => peer # None /\ stream \in tracks /\ sampling

\* An attempt has no Peer before it hosts; a call needs the open Peer it came by,
\* and an answered one a stream.
CallsFlow ==
  /\ \A c \in Casts : cast[c] \notin {"hosting", "done"} => peers[c] = "none"
  /\ \A v \in Viewers :
       /\ call[v].live => call[v].via \in Casts /\ peers[call[v].via] = "open"
       /\ call[v].phase = "answered" => call[v].live /\ stream # None

IInv ==
  /\ TypeOK
  /\ ~raced => OneAtATime
  /\ ~raced /\ stopping = "none" => StartHolds
  /\ CallsFlow

LEMMA InitHolds == Init => IInv
  <1> SUFFICES ASSUME Init PROVE IInv
    OBVIOUS
  <1>1. NoCall \in Calls /\ ~NoCall.live /\ NoCall.phase = "none"
    BY DEF NoCall, Calls
  <1>2. session \in Session /\ session.status = "idle"
    BY DEF Init, Session
  <1>3. \A c \in Casts : cast[c] = "new"
    BY DEF Init
  <1>4. TypeOK
    BY <1>1, <1>2 DEF Init, TypeOK, Phases
  <1>5. OneAtATime /\ StartHolds
    BY <1>2, <1>3 DEF Init, OneAtATime, StartHolds, UnderWay, InDocument
  <1>6. CallsFlow
    BY <1>1 DEF Init, CallsFlow
  <1>7. QED
    BY <1>4, <1>5, <1>6 DEF IInv

\* What the invariant says of what is shown.
LEMMA Consequences == IInv => ShownIsTrue
  BY DEF IInv, TypeOK, StartHolds, CallsFlow, ShownIsTrue

-----------------------------------------------------------------------------
(* Helpers *)

LEMMA ShowsTypes ==
  ASSUME TypeOK, NEW s \in {"idle", "starting", "live", "error"}, Shows(s)
  PROVE  session' \in Session /\ session'.status = s
  BY DEF TypeOK, Shows, Session

LEMMA HungUpTypes ==
  ASSUME TypeOK
  PROVE  /\ HungUp \in [Viewers -> Calls]
         /\ \A v \in Viewers :
              /\ HungUp[v].phase # "answered"
              /\ HungUp[v].live => /\ call[v].live /\ call[v].via # peer
                                   /\ HungUp[v].via = call[v].via
  <1> SUFFICES ASSUME NEW v \in Viewers
               PROVE  /\ HungUp[v] \in Calls /\ HungUp[v].phase # "answered"
                      /\ HungUp[v].live => /\ call[v].live /\ call[v].via # peer
                                           /\ HungUp[v].via = call[v].via
    BY DEF HungUp
  <1>1. call[v] \in Calls
    BY DEF TypeOK
  <1>2. CASE call[v].phase = "checking"
    <2> DEFINE l == call[v].live /\ call[v].via # peer
    <2>1. l \in BOOLEAN
      OBVIOUS
    <2>2. HungUp[v] = [call[v] EXCEPT !.live = l]
      BY <1>1, <1>2 DEF HungUp, Calls
    <2> HIDE DEF l
    <2>3. /\ HungUp[v] \in Calls /\ HungUp[v].phase = "checking"
          /\ HungUp[v].via = call[v].via /\ HungUp[v].live = l
      BY <1>1, <1>2, <2>1, <2>2 DEF Calls
    <2>4. QED
      BY <2>3 DEF l
  <1>3. CASE call[v].phase # "checking"
    BY <1>3 DEF HungUp, Calls, NoCall
  <1>4. QED
    BY <1>2, <1>3

\* Moving one attempt leaves the others where they are.
LEMMA CastMoves ==
  ASSUME TypeOK, NEW c \in Casts, NEW to \in Phases,
         cast' = [cast EXCEPT ![c] = to]
  PROVE  /\ cast' \in [Casts -> Phases] /\ cast'[c] = to
         /\ \A d \in Casts \ {c} : cast'[d] = cast[d]
         /\ to \notin InDocument => UnderWay' = UnderWay \ {c}
         /\ to \in InDocument => UnderWay' = UnderWay \cup {c}
  BY DEF TypeOK, UnderWay

-----------------------------------------------------------------------------
(* The steps *)

\* The worker moves an attempt that is not in the document, and may show that it
\* starts or has failed.
LEMMA WorkerMoves ==
  ASSUME IInv, NEW c \in Casts, NEW to \in Phases \ InDocument,
         cast[c] \notin InDocument \cup {"done"}, cast' = [cast EXCEPT ![c] = to],
         doc' \in BOOLEAN,
         UNCHANGED session \/ Shows("starting") \/ Shows("error"),
         UNCHANGED <<auth, stopping, leaving, stream, peer, peers, sampling, tracks,
                     call, server, raced>>
  PROVE  IInv'
  <1>1. session' \in Session
        /\ (session' = session \/ session'.status \in {"starting", "error"})
    BY ShowsTypes DEF IInv, TypeOK
  <1>2. cast' \in [Casts -> Phases] /\ UnderWay' = UnderWay
        /\ cast'[c] = to /\ \A d \in Casts \ {c} : cast'[d] = cast[d]
    BY CastMoves DEF IInv, UnderWay
  <1>3. TypeOK'
    BY <1>1, <1>2 DEF IInv, TypeOK, server
  <1>4. ~raced => OneAtATime'
    BY <1>2 DEF IInv, OneAtATime, InDocument
  <1>5. ~raced /\ stopping = "none" => StartHolds'
    BY <1>1, <1>2 DEF IInv, StartHolds, InDocument
  <1>6. CallsFlow'
    BY <1>2 DEF IInv, CallsFlow, InDocument
  <1>7. QED
    BY <1>3, <1>4, <1>5, <1>6 DEF IInv

LEMMA PreparesStep ==
  ASSUME IInv, NEW c \in Casts,
         \/ ClickTab(c) \/ StartTab(c) \/ PressKey(c) \/ Minted(c)
         \/ MintFails(c) \/ PickDesktop(c) \/ StartDesktop(c) \/ PickerCloses(c)
  PROVE  IInv'
  <1>1. cast[c] \in {"new", "clicked", "minting", "picking"}
    BY DEF ClickTab, StartTab, PressKey, Minted, MintFails, PickDesktop,
       StartDesktop, PickerCloses, Moves
  <1>2. PICK to \in {"clicked", "minting", "picking", "building", "done"} :
          cast' = [cast EXCEPT ![c] = to]
    BY DEF ClickTab, StartTab, PressKey, Minted, MintFails, PickDesktop,
       StartDesktop, PickerCloses, Moves, Prepare
  <1>3. /\ doc' \in BOOLEAN
        /\ UNCHANGED session \/ Shows("starting") \/ Shows("error")
        /\ UNCHANGED <<auth, stopping, leaving, stream, peer, peers, sampling,
                       tracks, call, server, raced>>
    BY DEF ClickTab, StartTab, PressKey, Minted, MintFails, PickDesktop,
       StartDesktop, PickerCloses, Moves, Prepare, EnsureDocument, document,
       IInv, TypeOK
  <1>4. QED
    BY <1>1, <1>2, <1>3, WorkerMoves DEF Phases, InDocument

LEMMA SendStartStep ==
  ASSUME IInv, NEW c \in Casts, SendStart(c)
  PROVE  IInv'
  <1>1. CASE doc /\ peer = None /\ stream = None
    <2>1. cast' = [cast EXCEPT ![c] = "capturing"]
          /\ raced' = (raced \/ UnderWay # {})
          /\ UNCHANGED <<session, auth, stopping, leaving, document, server>>
      BY <1>1 DEF SendStart
    <2>2. cast' \in [Casts -> Phases] /\ cast'[c] = "capturing"
          /\ UnderWay' = UnderWay \cup {c}
          /\ \A d \in Casts \ {c} : cast'[d] = cast[d]
      BY <2>1, CastMoves DEF IInv, Phases, InDocument
    <2>3. TypeOK'
      BY <2>1, <2>2 DEF IInv, TypeOK, document, server
    <2>4. ~raced' => OneAtATime'
      BY <1>1, <2>1, <2>2 DEF IInv, OneAtATime, document
    <2>5. ~raced' /\ stopping' = "none" => StartHolds'
      BY <2>1, <2>2 DEF IInv, StartHolds, document
    <2>6. CallsFlow'
      BY <1>1, <2>1, <2>2 DEF SendStart, IInv, CallsFlow, document
    <2>7. QED
      BY <2>3, <2>4, <2>5, <2>6 DEF IInv
  <1>2. CASE ~(doc /\ peer = None /\ stream = None)
    <2>1. cast[c] = "building" /\ cast' = [cast EXCEPT ![c] = "done"]
          /\ Shows("error")
          /\ UNCHANGED <<raced, auth, stopping, leaving, document, server>>
      BY <1>2 DEF SendStart
    <2>2. QED
      BY <2>1, WorkerMoves DEF Phases, InDocument, document, IInv, TypeOK
  <1>3. QED
    BY <1>1, <1>2

LEMMA CaptureFailsStep ==
  ASSUME IInv, NEW c \in Casts, CaptureFails(c)
  PROVE  IInv'
  <1>1. cast' = [cast EXCEPT ![c] = "done"] /\ Shows("error")
        /\ UNCHANGED <<auth, stopping, leaving, document, server, raced>>
    BY DEF CaptureFails, Moves, FailureShown
  <1>2. session' \in Session /\ session'.status = "error"
    BY <1>1, ShowsTypes DEF IInv
  <1>3. cast' \in [Casts -> Phases] /\ cast'[c] = "done"
        /\ UnderWay' = UnderWay \ {c}
        /\ \A d \in Casts \ {c} : cast'[d] = cast[d]
    BY <1>1, CastMoves DEF IInv, Phases, InDocument
  <1>4. TypeOK'
    BY <1>1, <1>2, <1>3 DEF IInv, TypeOK, document, server
  <1>5. ~raced' => OneAtATime'
    BY <1>1, <1>3 DEF IInv, OneAtATime, document
  <1>6. ~raced' /\ stopping' = "none" => StartHolds'
    BY <1>1, <1>2, <1>3 DEF IInv, StartHolds, document
  <1>7. CallsFlow'
    BY <1>1, <1>3 DEF IInv, CallsFlow, document
  <1>8. QED
    BY <1>4, <1>5, <1>6, <1>7 DEF IInv

LEMMA CapturedStep ==
  ASSUME IInv, NEW c \in Casts, Captured(c)
  PROVE  IInv'
  <1>1. cast[c] = "capturing" /\ c \in UnderWay
    BY DEF Captured, UnderWay, InDocument
  <1>2. session' \in Session /\ session'.status = "starting"
    BY ShowsTypes DEF IInv, Captured
  <1>3. cast' \in [Casts -> Phases] /\ cast'[c] = "captured"
        /\ UnderWay' = UnderWay \cup {c}
        /\ \A d \in Casts \ {c} : cast'[d] = cast[d]
    BY CastMoves DEF IInv, Phases, InDocument, Captured
  <1>4. stream' = c /\ tracks' = tracks \cup {c}
        /\ UNCHANGED <<auth, stopping, leaving, doc, peer, peers, sampling, call,
                       server, raced>>
    BY DEF Captured
  <1>5. TypeOK'
    BY <1>2, <1>3, <1>4 DEF IInv, TypeOK, server
  <1>6. ~raced => tracks = {} /\ \A d \in Casts \ {c} : d \notin UnderWay
    BY <1>1 DEF IInv, OneAtATime, TypeOK, UnderWay
  <1>7. ~raced' => OneAtATime'
    BY <1>1, <1>3, <1>4, <1>6 DEF IInv, OneAtATime, UnderWay, InDocument
  <1>8. ~raced' /\ stopping' = "none" => StartHolds'
    BY <1>2, <1>3, <1>4, <1>6 DEF IInv, StartHolds, UnderWay, InDocument
  <1>9. CallsFlow'
    BY <1>1, <1>3, <1>4 DEF IInv, CallsFlow
  <1>10. QED
    BY <1>5, <1>7, <1>8, <1>9 DEF IInv

LEMMA NewPeerStep ==
  ASSUME IInv, NEW c \in Casts, NewPeer(c)
  PROVE  IInv'
  <1>1. cast[c] = "captured" /\ c \in UnderWay
    BY DEF NewPeer, UnderWay, InDocument
  <1>2. cast' \in [Casts -> Phases] /\ cast'[c] = "hosting"
        /\ UnderWay' = UnderWay \cup {c}
        /\ \A d \in Casts \ {c} : cast'[d] = cast[d]
    BY CastMoves DEF IInv, Phases, InDocument, NewPeer
  <1>3. peer' = c /\ UNCHANGED <<worker, doc, stream, sampling, tracks, call,
                                 server, raced>>
    BY DEF NewPeer
  <1>4. /\ peers' \in [Casts -> {"none", "new", "open"}] /\ peers'[c] = "new"
        /\ \A d \in Casts \ {c} : peers'[d] = peers[d]
    BY DEF NewPeer, IInv, TypeOK
  <1>5. TypeOK'
    BY <1>2, <1>3, <1>4 DEF IInv, TypeOK, worker, server
  <1>6. ~raced => \A d \in Casts \ {c} : d \notin UnderWay /\ peers[d] = "none"
    BY <1>1, ExtensionAssumption DEF IInv, OneAtATime
  <1>7. ~raced' => OneAtATime'
    BY <1>1, <1>2, <1>3, <1>4, <1>6 DEF IInv, OneAtATime, UnderWay, InDocument
  <1>8. ~raced' /\ stopping' = "none" => StartHolds'
    BY <1>1, <1>2, <1>3, <1>6 DEF IInv, StartHolds, UnderWay, InDocument, worker
  <1>9. CallsFlow'
    BY <1>1, <1>2, <1>3, <1>4 DEF IInv, CallsFlow
  <1>10. QED
    BY <1>5, <1>7, <1>8, <1>9 DEF IInv

LEMMA OpenedStep ==
  ASSUME IInv, NEW c \in Casts, Opened(c)
  PROVE  IInv'
  <1>1. session' \in Session /\ session'.status = "live"
    BY ShowsTypes DEF IInv, Opened
  <1>2. cast' \in [Casts -> Phases] /\ cast'[c] = "done"
        /\ UnderWay' = UnderWay \ {c}
        /\ \A d \in Casts \ {c} : cast'[d] = cast[d]
    BY CastMoves DEF IInv, Phases, InDocument, Opened
  <1>3. /\ cast[c] = "hosting" /\ sampling' = TRUE
        /\ UNCHANGED <<auth, stopping, leaving, doc, stream, peer, tracks, call,
                       ending, row, raced>>
    BY DEF Opened, StartMonitor
  <1>4. /\ peers[c] = "new"
        /\ peers' \in [Casts -> {"none", "new", "open"}] /\ peers'[c] = "open"
        /\ \A d \in Casts \ {c} : peers'[d] = peers[d]
    BY DEF Opened, IInv, TypeOK
  <1>5. post' \in [Casts -> {"none", "sent", "answered"}]
    BY DEF Opened, IInv, TypeOK
  <1>6. TypeOK'
    BY <1>1, <1>2, <1>3, <1>4, <1>5 DEF IInv, TypeOK
  <1>7. ~raced => peer = c
    BY <1>4 DEF IInv, OneAtATime
  <1>8. ~raced' => OneAtATime'
    BY <1>2, <1>3, <1>4, <1>7 DEF IInv, OneAtATime
  <1>9. ~raced' /\ stopping' = "none" => StartHolds'
    BY <1>1, <1>2, <1>3, <1>7 DEF IInv, StartHolds
  <1>10. CallsFlow'
    BY <1>2, <1>3, <1>4 DEF IInv, CallsFlow
  <1>11. QED
    BY <1>6, <1>8, <1>9, <1>10 DEF IInv

\* Everything in the document is put away, and the popup shows a failure or,
\* when nothing that has started is left, idle.
LEMMA PutAway ==
  ASSUME IInv, NEW s \in {"idle", "error"}, Shows(s),
         NEW over, Teardown(over), ~raced' => tracks' = {},
         cast' \in [Casts -> Phases],
         \A c \in Casts : cast'[c] \in {cast[c], "done"},
         raced => raced', raced' \in BOOLEAN,
         stopping' \in {"none", "asked", "answered"},
         stopping' = "none" /\ ~raced' => \A c \in Casts : cast'[c] # "captured",
         UNCHANGED <<auth, leaving, doc, server>>
  PROVE  IInv'
  <1>1. session' \in Session /\ session'.status = s
    BY ShowsTypes DEF IInv
  <1>2. /\ sampling' = FALSE /\ call' = HungUp /\ peer' = None /\ stream' = None
        /\ tracks' \subseteq tracks
        /\ peers' \in [Casts -> {"none", "new", "open"}]
        /\ \A c \in Casts : peers'[c] = IF c = peer THEN "none" ELSE peers[c]
    BY DEF Teardown, StopMonitor, IInv, TypeOK
  <1>3. TypeOK'
    BY <1>1, <1>2, HungUpTypes DEF IInv, TypeOK, server
  <1>4. ~raced' => OneAtATime'
    BY <1>2 DEF IInv, OneAtATime, UnderWay, InDocument
  <1>5. ~raced' /\ stopping' = "none" => StartHolds'
    BY <1>1, <1>2 DEF StartHolds, IInv
  <1>6. CallsFlow'
    BY <1>2, HungUpTypes DEF IInv, CallsFlow
  <1>7. QED
    BY <1>3, <1>4, <1>5, <1>6 DEF IInv

LEMMA HostFailsStep ==
  ASSUME IInv, NEW c \in Casts, HostFails(c)
  PROVE  IInv'
  <1>1. cast' \in [Casts -> Phases] /\ \A d \in Casts : cast'[d] \in {cast[d], "done"}
    BY DEF HostFails, IInv, TypeOK, Phases
  <1>2. ~raced => \A d \in Casts : cast'[d] # "captured"
    <2>1. c \in UnderWay
      BY DEF HostFails, UnderWay, InDocument
    <2>2. QED
      BY <2>1 DEF HostFails, IInv, TypeOK, OneAtATime, UnderWay, InDocument
  <1>3. ~raced => tracks' = {}
    BY DEF HostFails, Teardown, IInv, OneAtATime
  <1>4. QED
    BY <1>1, <1>2, <1>3, PutAway DEF HostFails, FailureShown, IInv, TypeOK

LEMMA CaptureEndsStep ==
  ASSUME IInv, NEW c \in Casts, CaptureEnds(c)
  PROVE  IInv'
  <1>1. raced' = (raced \/ cast[c] = "captured") /\ raced' \in BOOLEAN
    BY DEF CaptureEnds, IInv, TypeOK
  <1>2. CASE /\ cast[c] = "captured" \/ {stream, peer} = {None}
             /\ tracks' = tracks \ {c}
             /\ UNCHANGED <<stream, peer, peers, sampling, call, session>>
    <2>1. raced'
      BY <1>1, <1>2 DEF CaptureEnds, IInv, OneAtATime, TypeOK
    <2>2. TypeOK'
      BY <1>1, <1>2 DEF CaptureEnds, IInv, TypeOK, server
    <2>3. CallsFlow'
      BY <1>2 DEF CaptureEnds, IInv, CallsFlow
    <2>4. QED
      BY <2>1, <2>2, <2>3 DEF IInv
  <1>3. CASE /\ stream # None \/ peer # None
             /\ Teardown({c}) /\ EndShown
    <2>1. ~raced => tracks' = {} /\ c = stream
      BY <1>3 DEF CaptureEnds, Teardown, IInv, OneAtATime
    <2>2. ~raced' /\ stopping = "none" => \A d \in Casts : cast[d] # "captured"
      BY <1>1, <2>1 DEF IInv, StartHolds
    <2>3. QED
      BY <1>1, <1>3, <2>1, <2>2, PutAway
         DEF CaptureEnds, EndShown, IInv, TypeOK
  <1>4. QED
    BY <1>2, <1>3 DEF CaptureEnds

LEMMA DocumentStopsStep ==
  ASSUME IInv, DocumentStops
  PROVE  IInv'
  <1>1. ~raced => tracks' = {}
    BY DEF DocumentStops, Teardown, IInv, OneAtATime
  <1>2. QED
    BY <1>1, PutAway DEF DocumentStops, IInv, TypeOK

\* Asking for a stop, giving the document up, signing in and out.
LEMMA AskingStep ==
  ASSUME IInv, Stop \/ ToggleStops \/ SignOut \/ SignIn \/ StoreAuth \/ StopUnanswered
  PROVE  IInv'
  <1>1. /\ UNCHANGED <<session, cast, document, server, raced>>
        /\ auth' \in {"in", "out", "asking"} /\ leaving' \in BOOLEAN
        /\ stopping' \in {"none", "asked", "answered"}
        /\ stopping' = "none" => stopping = "none"
    BY DEF Stop, ToggleStops, StopAsked, SignOut, SignIn, StoreAuth, StopUnanswered,
       IInv, TypeOK
  <1>2. TypeOK'
    BY <1>1 DEF IInv, TypeOK, document, server
  <1>3. ~raced' => OneAtATime'
    BY <1>1 DEF IInv, OneAtATime, UnderWay, document
  <1>4. ~raced' /\ stopping' = "none" => StartHolds'
    BY <1>1 DEF IInv, StartHolds, document
  <1>5. CallsFlow'
    BY <1>1 DEF IInv, CallsFlow, document
  <1>6. QED
    BY <1>2, <1>3, <1>4, <1>5 DEF IInv

\* The document is closed, by the worker or with the browser.
LEMMA DocumentGoneStep ==
  ASSUME IInv, FinishStop \/ BrowserRestarts
  PROVE  IInv'
  <1>1. DocumentGone /\ session' = [status |-> "idle", id |-> None]
        /\ stopping' = "none" /\ leaving' = FALSE /\ row' = row
    BY DEF FinishStop, BrowserRestarts
  <1>2. \A c \in Casts : cast'[c] \in Phases \ InDocument
    BY <1>1 DEF DocumentGone, IInv, TypeOK, Phases, InDocument
  <1>3. ending' \subseteq Casts /\ post' \in [Casts -> {"none", "sent", "answered"}]
        /\ auth' \in {"in", "out", "asking"}
    BY DEF FinishStop, BrowserRestarts, IInv, TypeOK, Session
  <1>4. \A v \in Viewers : call'[v] = NoCall
    BY <1>1 DEF DocumentGone
  <1>5. cast' \in [Casts -> Phases] /\ call' \in [Viewers -> Calls]
    BY <1>1, <1>2, <1>4 DEF DocumentGone, Calls, NoCall
  <1>6. TypeOK'
    BY <1>1, <1>3, <1>5 DEF DocumentGone, IInv, TypeOK, Session
  <1>7. OneAtATime'
    BY <1>1, <1>2 DEF DocumentGone, OneAtATime, UnderWay, InDocument
  <1>8. StartHolds'
    BY <1>1, <1>2 DEF DocumentGone, StartHolds, InDocument
  <1>9. CallsFlow'
    BY <1>1, <1>4 DEF DocumentGone, CallsFlow, NoCall
  <1>10. QED
    BY <1>6, <1>7, <1>8, <1>9 DEF IInv

\* The server and its answers touch nothing that runs.
LEMMA RowStep ==
  ASSUME IInv,
         RowReaped \/ \E c \in Casts :
           RowStarts(c) \/ RowKnown(c) \/ RowUnknown(c) \/ RowEnds(c)
  PROVE  IInv'
  <1>1. UNCHANGED <<auth, stopping, leaving, cast, document, raced>>
    BY DEF RowReaped, RowStarts, RowKnown, RowUnknown, RowEnds, worker
  <1>2. session' \in Session /\ session'.status = session.status
    BY DEF RowReaped, RowStarts, RowKnown, RowUnknown, RowEnds, worker, IInv, TypeOK,
       Session
  <1>3. row' \in Casts \cup {None} /\ ending' \subseteq Casts
        /\ post' \in [Casts -> {"none", "sent", "answered"}]
    BY DEF RowReaped, RowStarts, RowKnown, RowUnknown, RowEnds, Ended, IInv, TypeOK
  <1>4. TypeOK'
    BY <1>1, <1>2, <1>3 DEF IInv, TypeOK, document
  <1>5. ~raced' => OneAtATime'
    BY <1>1 DEF IInv, OneAtATime, UnderWay, document
  <1>6. ~raced' /\ stopping' = "none" => StartHolds'
    BY <1>1, <1>2 DEF IInv, StartHolds, document
  <1>7. CallsFlow'
    BY <1>1 DEF IInv, CallsFlow, document
  <1>8. QED
    BY <1>4, <1>5, <1>6, <1>7 DEF IInv

LEMMA ViewerStep ==
  ASSUME IInv, NEW v \in Viewers,
         Rings(v) \/ Verified(v) \/ Declined(v) \/ HangsUp(v)
  PROVE  IInv'
  <1>1. UNCHANGED <<worker, cast, doc, stream, peer, peers, sampling, tracks, server,
                  raced>>
    BY DEF Rings, Verified, Declined, HangsUp
  <1>2. call[v] \in Calls
    BY DEF IInv, TypeOK
  <1>3. PICK k \in Calls :
          /\ call' = [call EXCEPT ![v] = k]
          /\ k.live => k.via \in Casts /\ peers[k.via] = "open"
          /\ k.phase = "answered" => k.live /\ stream # None
    <2>1. CASE Rings(v)
      <3>1. PICK c \in Casts :
              /\ peers[c] = "open"
              /\ call' = [call EXCEPT
                   ![v] = [phase |-> "checking", live |-> TRUE, via |-> c]]
        BY <2>1 DEF Rings
      <3>2. [phase |-> "checking", live |-> TRUE, via |-> c] \in Calls
        BY DEF Calls
      <3>3. QED
        BY <3>1, <3>2
    <2>2. CASE Verified(v)
      <3>1. [call[v] EXCEPT !.phase = "answered"] \in Calls
        BY <1>2 DEF Calls
      <3>2. call' = [call EXCEPT ![v] = [call[v] EXCEPT !.phase = "answered"]]
        BY <2>2 DEF Verified, IInv, TypeOK
      <3>3. call[v].live /\ stream # None
        BY <2>2 DEF Verified, Answerable, IInv, CallsFlow
      <3>4. QED
        BY <1>2, <3>1, <3>2, <3>3 DEF Calls, IInv, CallsFlow
    <2>3. CASE Declined(v)
      <3>1. NoCall \in Calls /\ ~NoCall.live /\ NoCall.phase = "none"
        BY DEF NoCall, Calls
      <3>2. QED
        BY <2>3, <3>1 DEF Declined
    <2>4. CASE HangsUp(v)
      <3>1. CASE call[v].phase = "checking"
        <4>1. [call[v] EXCEPT !.live = FALSE] \in Calls
              /\ [call[v] EXCEPT !.live = FALSE].phase = "checking"
              /\ ~[call[v] EXCEPT !.live = FALSE].live
          BY <1>2, <3>1 DEF Calls
        <4>2. call' = [call EXCEPT ![v] = [call[v] EXCEPT !.live = FALSE]]
          BY <2>4, <3>1 DEF HangsUp, IInv, TypeOK
        <4>3. QED
          BY <4>1, <4>2
      <3>2. CASE call[v].phase # "checking"
        BY <2>4, <3>2 DEF HangsUp, Calls, NoCall
      <3>3. QED
        BY <3>1, <3>2
    <2>5. QED
      BY <2>1, <2>2, <2>3, <2>4
  <1>4. call' \in [Viewers -> Calls] /\ CallsFlow'
    BY <1>1, <1>3 DEF IInv, TypeOK, CallsFlow
  <1>5. TypeOK'
    BY <1>1, <1>4 DEF IInv, TypeOK, worker, server
  <1>6. ~raced' => OneAtATime'
    BY <1>1 DEF IInv, OneAtATime, UnderWay
  <1>7. ~raced' /\ stopping' = "none" => StartHolds'
    BY <1>1 DEF IInv, StartHolds, worker
  <1>8. QED
    BY <1>4, <1>5, <1>6, <1>7 DEF IInv

LEMMA StutterStep ==
  ASSUME IInv, UNCHANGED vars
  PROVE  IInv'
  BY DEF vars, worker, document, server, IInv, TypeOK, OneAtATime, StartHolds,
     CallsFlow, UnderWay

LEMMA StepHolds == IInv /\ [Next]_vars => IInv'
  BY PreparesStep, SendStartStep, CaptureFailsStep, CapturedStep, NewPeerStep,
     OpenedStep, HostFailsStep, CaptureEndsStep, DocumentStopsStep, AskingStep,
     DocumentGoneStep, RowStep, ViewerStep, StutterStep DEF Next

-----------------------------------------------------------------------------
(* Theorems *)

\* The inductive invariant of the extension: one start at a time, and what runs
\* is what the session says, unless two starts have raced or a stop is under way.
THEOREM Invariant == Spec => []IInv
  BY InitHolds, StepHolds, PTL DEF Spec

\* Every variable of the worker, the document and the server keeps its type.
THEOREM TypeCorrect == Spec => []TypeOK
  <1>1. IInv => TypeOK
    BY DEF IInv
  <1>2. QED
    BY <1>1, Invariant, PTL

\* What the popup shows is so: idle is dark, live is hosted, and only calls that
\* go on are served.
THEOREM PopupTellsTheTruth == Spec => []ShownIsTrue
  BY Consequences, Invariant, PTL
=============================================================================
