------------------------------ MODULE Extension ------------------------------
(***************************************************************************)
(* The browser extension: the service worker (background.js), which keeps  *)
(* the session the popup shows and talks to the server, the offscreen      *)
(* document (offscreen.js), which captures and hosts, and the broadcasts   *)
(* row the server keeps for the account.                                   *)
(*                                                                         *)
(* Worker and document know of each other only by messages.  Messages of   *)
(* the document are delivered in order and before the document is gone, so *)
(* that a state patch is applied with the step that sends it; what either  *)
(* side awaits ends in a step of its own.  The row is live at the server   *)
(* until it is ended, replaced or silent for staleLiveMs.                  *)
(***************************************************************************)
EXTENDS FiniteSets

CONSTANTS
  Casts,     \* attempts to broadcast
  Viewers,
  None

ASSUME ExtensionAssumption == None \notin Casts

VARIABLES
  auth,      \* storage.session: "in" with a token, "out" without one, or
             \* "asking" while the popup signs in
  session,   \* storage.local.session: status, and id for broadcastId
  cast,      \* cast[c]: how far the attempt is
  stopping,  \* stopBroadcast: none, the document asked to stop, or answered
  leaving,   \* whether SIGN_OUT waits for stopBroadcast
  doc,       \* whether the offscreen document exists
  stream,    \* its `stream`: the cast that captured it
  peer,      \* its `peer`: the cast that made it
  peers,     \* the Peer that each cast made, which `peer` may have forgotten:
             \* none or destroyed, new, or open at the signaling server
  sampling,  \* bitrateTimer: statistics are sent to the worker
  tracks,    \* casts whose captured tracks run
  call,      \* call[v]: the call of a viewer
  post,      \* post[c]: POST /broadcasts for the peer of c
  ending,    \* ids whose POST .../end is under way
  row,       \* the cast whose row is live at the server, or None
  raced      \* whether, in this document, a START found another one before
             \* its capture, or a capture ended before its peer existed (observer)

worker == <<auth, session, stopping, leaving>>
document == <<doc, stream, peer, peers, sampling, tracks, call>>
server == <<post, ending, row>>
vars == <<worker, cast, document, server, raced>>

Session == [status : {"idle", "starting", "live", "error"},
            id : Casts \cup {None}]

\* In the document: handleStart awaits the capture, then (captured) a message,
\* then (hosting) the signaling server.
InDocument == {"capturing", "captured", "hosting"}
\* Before that: asked for in the popup, or by key and waiting for the token of
\* the tab, or in the picker; then (building) START is put together.
Phases == {"new", "clicked", "minting", "picking", "building", "done"}
            \cup InDocument

\* live: the local `live` of answerCall; via: whose Peer got the call.
Calls == [phase : {"none", "checking", "answered"}, live : BOOLEAN,
          via : Casts \cup {None}]
NoCall == [phase |-> "none", live |-> FALSE, via |-> None]

Init ==
  /\ auth = "in"
  /\ session = [status |-> "idle", id |-> None]
  /\ cast = [c \in Casts |-> "new"]
  /\ stopping = "none" /\ leaving = FALSE
  /\ doc = FALSE /\ stream = None /\ peer = None /\ sampling = FALSE
  /\ peers = [c \in Casts |-> "none"]
  /\ tracks = {}
  /\ call = [v \in Viewers |-> NoCall]
  /\ post = [c \in Casts |-> "none"] /\ ending = {}
  /\ row = None
  /\ raced = FALSE

-----------------------------------------------------------------------------
(* Helpers *)

\* getAuth, isSignedIn
SignedIn == auth = "in"

Shows(s) == session' = [session EXCEPT !.status = s]
Busy == session.status \in {"live", "starting"}
\* What the popup draws, once a second.
View == IF ~SignedIn THEN "signIn" ELSE IF Busy THEN session.status ELSE "controls"
UnderWay == {c \in Casts : cast[c] \in InDocument}

FailureShown == Shows("error")

\* mutant: the end of the capture is shown as no known status.
EndUnknown == Shows("ended")
EndShown == Shows("idle")

\* teardownLocal closes the calls it answered; destroying `peer` closes those
\* of it that are being verified.  Only the Peer and the stream that the
\* document still knows are destroyed and stopped.
HungUp == [v \in Viewers |->
  IF call[v].phase = "checking"
  THEN [call[v] EXCEPT !.live = @ /\ call[v].via # peer] ELSE NoCall]
StopMonitor == sampling' = FALSE
Teardown(over) ==
  /\ StopMonitor
  /\ call' = HungUp
  /\ peer' = None /\ stream' = None
  /\ peers' = [c \in Casts |-> IF c = peer THEN "none" ELSE peers[c]]
  /\ tracks' = tracks \ ({stream} \cup over)

\* closeDocument: everything that runs or waits in the document is gone.
DocumentGone ==
  /\ doc' = FALSE /\ stream' = None /\ peer' = None /\ sampling' = FALSE
  /\ peers' = [c \in Casts |-> "none"]
  /\ tracks' = {}
  /\ call' = [v \in Viewers |-> NoCall]
  /\ cast' = [c \in Casts |-> IF cast[c] \in InDocument THEN "done" ELSE cast[c]]
  /\ raced' = FALSE

-----------------------------------------------------------------------------
(* Starting: the worker *)

EnsureDocument == doc' = TRUE

\* The document exists, the metadata is kept, and the session is starting.
Prepare(c) ==
  /\ EnsureDocument
  /\ Shows("starting")
  /\ cast' = [cast EXCEPT ![c] = "building"]
  /\ UNCHANGED <<auth, stopping, leaving, stream, peer, peers, sampling, tracks,
                 call, server, raced>>

Moves(c, from, to) ==
  /\ cast[c] = from
  /\ cast' = [cast EXCEPT ![c] = to]
  /\ UNCHANGED <<auth, stopping, leaving, document, server, raced>>

\* The popup mints the token of the tab under the click, and sends a message
\* that nothing but the sign-in is asked for when it comes.
ClickTab(c) == View = "controls" /\ Moves(c, "new", "clicked") /\ UNCHANGED session
StartTab(c) ==
  /\ cast[c] = "clicked"
  /\ \/ SignedIn /\ Prepare(c)
     \/ Moves(c, "clicked", "done") /\ UNCHANGED session

\* start-cast, whatever is running, or toggle-cast when nothing is: who is not
\* signed in gets the popup.
PressKey(c) == SignedIn /\ Moves(c, "new", "minting") /\ UNCHANGED session
Minted(c) == cast[c] = "minting" /\ Prepare(c)
MintFails(c) == Moves(c, "minting", "done") /\ Shows("error")

\* The popup's button, and the look at the session that the worker takes.
SharesScreen == View = "controls"
PickDesktop(c) ==
  /\ SharesScreen /\ ~Busy
  /\ Moves(c, "new", "picking") /\ UNCHANGED session

StartDesktop(c) == cast[c] = "picking" /\ Prepare(c)

\* Cancelled, or timed out after 120 s with an error for the popup.
PickerCloses(c) ==
  /\ Moves(c, "picking", "done")
  /\ UNCHANGED session \/ Shows("error")

\* The payload is built (configuration, signaling ticket): START is sent.
SendStart(c) ==
  /\ cast[c] = "building"
  /\ IF doc /\ peer = None /\ stream = None
     THEN /\ cast' = [cast EXCEPT ![c] = "capturing"]
          /\ raced' = (raced \/ UnderWay # {})
          /\ UNCHANGED session
     ELSE \* no receiver, or "A broadcast appears to be running already"
          /\ cast' = [cast EXCEPT ![c] = "done"]
          /\ Shows("error")
          /\ UNCHANGED raced
  /\ UNCHANGED <<auth, stopping, leaving, document, server>>

-----------------------------------------------------------------------------
(* Starting: the document *)

CaptureFails(c) ==
  /\ Moves(c, "capturing", "done")
  /\ FailureShown

Captured(c) ==
  /\ cast[c] = "capturing"
  /\ stream' = c /\ tracks' = tracks \cup {c}
  /\ cast' = [cast EXCEPT ![c] = "captured"]
  /\ Shows("starting")
  /\ UNCHANGED <<auth, stopping, leaving, doc, peer, peers, sampling, call,
                 server, raced>>

\* A Peer that another start made is overwritten and not destroyed.
NewPeer(c) ==
  /\ cast[c] = "captured"
  /\ peer' = c
  /\ peers' = [peers EXCEPT ![c] = "new"]
  /\ cast' = [cast EXCEPT ![c] = "hosting"]
  /\ UNCHANGED <<worker, doc, stream, sampling, tracks, call, server, raced>>

StartMonitor == sampling' = TRUE

\* open: waitForOpen listens on the Peer of its own start, whatever `peer` is
\* by now.  The session is live and announced, and backendStart posts the row
\* if there is a token.
Opened(c) ==
  /\ cast[c] = "hosting" /\ peers[c] = "new"
  /\ peers' = [peers EXCEPT ![c] = "open"]
  /\ cast' = [cast EXCEPT ![c] = "done"]
  /\ StartMonitor
  /\ Shows("live")
  /\ post' = [post EXCEPT ![c] = IF SignedIn THEN "sent" ELSE "none"]
  /\ UNCHANGED <<auth, stopping, leaving, doc, stream, peer, tracks, call,
                 ending, row, raced>>

\* error or the 20 s timer of waitForOpen, whatever has become of the peer.
HostFails(c) ==
  /\ cast[c] = "hosting"
  /\ cast' = [cast EXCEPT ![c] = "done"]
  /\ Teardown({})
  /\ FailureShown
  /\ UNCHANGED <<auth, stopping, leaving, doc, server, raced>>

\* The shared source is closed: handleCaptureEnded, unless the listener is not
\* attached yet or all is torn down already.
CaptureEnds(c) ==
  /\ c \in tracks
  /\ \/ /\ cast[c] = "captured" \/ {stream, peer} = {None}
        /\ tracks' = tracks \ {c}
        /\ UNCHANGED <<stream, peer, peers, sampling, call, session>>
     \/ /\ stream # None \/ peer # None
        /\ Teardown({c})
        /\ EndShown
  /\ raced' = (raced \/ cast[c] = "captured")
  /\ UNCHANGED <<auth, stopping, leaving, doc, cast, server>>

-----------------------------------------------------------------------------
(* Stopping *)

StopAsked ==
  /\ stopping = "none"
  /\ stopping' = "asked"
  /\ UNCHANGED <<auth, session, leaving, cast, document, server, raced>>

\* The popup has a Stop button while it shows a live session.
Stop == View = "live" /\ StopAsked
\* toggle-cast
ToggleStops == Busy /\ StopAsked

SignOut ==
  /\ SignedIn /\ ~leaving
  /\ IF Busy
     THEN /\ leaving' = TRUE
          /\ stopping' = IF stopping = "none" THEN "asked" ELSE stopping
          /\ UNCHANGED auth
     ELSE auth' = "out" /\ UNCHANGED <<leaving, stopping>>
  /\ UNCHANGED <<session, cast, document, server, raced>>

SignIn ==
  /\ View = "signIn" /\ ~leaving
  /\ auth' = IF auth = "out" THEN "asking" ELSE "out"   \* or it is refused
  /\ UNCHANGED <<session, stopping, leaving, cast, document, server, raced>>

StoreAuth ==
  /\ auth = "asking"
  /\ auth' = "in"
  /\ UNCHANGED <<session, stopping, leaving, cast, document, server, raced>>

\* handleStop: the document tears down, shows idle and answers.
DocumentStops ==
  /\ stopping = "asked" /\ doc
  /\ stopping' = "answered"
  /\ Teardown({})
  /\ Shows("idle")
  /\ UNCHANGED <<auth, leaving, doc, cast, server, raced>>

\* mutant: stopBroadcast waits for the answer alone.
GivesUpIfGone == ~doc
GivesUp == TRUE

\* The document is gone, or has not answered for 4 s.
StopUnanswered ==
  /\ stopping = "asked" /\ GivesUp
  /\ stopping' = "answered"
  /\ UNCHANGED <<auth, session, leaving, cast, document, server, raced>>

\* closeDocument, backendEnd with the id of the session, and idle.
FinishStop ==
  /\ stopping = "answered"
  /\ stopping' = "none" /\ leaving' = FALSE
  /\ DocumentGone
  /\ ending' = IF SignedIn THEN ending \cup ({session.id} \ {None}) ELSE ending
  /\ session' = [status |-> "idle", id |-> None]
  /\ auth' = IF leaving THEN "out" ELSE auth
  /\ UNCHANGED <<post, row>>

\* The browser restarts: onStartup resets the session, the token is gone.
BrowserRestarts ==
  /\ doc /\ DocumentGone
  /\ session' = [status |-> "idle", id |-> None]
  /\ stopping' = "none" /\ leaving' = FALSE /\ auth' = "out"
  /\ ending' = {} /\ post' = [c \in Casts |-> "none"]
  /\ UNCHANGED row

-----------------------------------------------------------------------------
(* The row *)

\* POST /broadcasts ends the row before it; the answer is on its way.
RowStarts(c) ==
  /\ post[c] = "sent"
  /\ post' = [post EXCEPT ![c] = "answered"]
  /\ row' = c
  /\ UNCHANGED <<worker, cast, document, ending, raced>>

\* backendStart stores the id, whatever has become of the cast.
RowKnown(c) ==
  /\ post[c] = "answered"
  /\ post' = [post EXCEPT ![c] = "none"]
  /\ session' = [session EXCEPT !.id = c]
  /\ UNCHANGED <<auth, stopping, leaving, cast, document, ending, row, raced>>

\* Refused, or lost on either way: a warning.
RowUnknown(c) ==
  /\ post[c] # "none"
  /\ post' = [post EXCEPT ![c] = "none"]
  /\ UNCHANGED <<worker, cast, document, ending, row, raced>>

Ended(c) == IF row = c THEN None ELSE row

RowEnds(c) ==
  /\ c \in ending
  /\ ending' = ending \ {c}
  /\ row' \in {row, Ended(c)}
  /\ UNCHANGED <<worker, cast, document, post, raced>>

\* sampleBitrate, reportViewerCount
Reports == sampling

\* mutant: statistics are sent though nothing is sampled.
BeatingSignedIn == SignedIn /\ session.id # None /\ session.id = row
\* forwardStats: the running broadcast's statistics go to the row that
\* session.broadcastId names.
Beating == Reports /\ SignedIn /\ session.id # None /\ session.id = row

\* endStale: the heartbeats have stopped or were lost for staleLiveMs.
RowReaped ==
  /\ row # None
  /\ row' = None
  /\ UNCHANGED <<worker, cast, document, post, ending, raced>>

-----------------------------------------------------------------------------
(* Viewers *)

\* answerCall wires its handlers, then asks the server to verify the ticket.
Rings(v) ==
  /\ stream # None /\ call[v] = NoCall
  /\ \E c \in Casts :
       /\ peers[c] = "open"
       /\ call' = [call EXCEPT
            ![v] = [phase |-> "checking", live |-> TRUE, via |-> c]]
  /\ UNCHANGED <<worker, cast, doc, stream, peer, peers, sampling, tracks, server,
                 raced>>

\* mutant: no second look at the call.
AnswerableAny(v) == stream # None
Answerable(v) == call[v].live /\ stream # None

Verified(v) ==
  /\ call[v].phase = "checking" /\ Answerable(v)
  /\ call' = [call EXCEPT ![v].phase = "answered"]
  /\ UNCHANGED <<worker, cast, doc, stream, peer, peers, sampling, tracks, server,
                 raced>>

\* The ticket is refused, or the call or the broadcast ended meanwhile.
Declined(v) ==
  /\ call[v].phase = "checking"
  /\ call' = [call EXCEPT ![v] = NoCall]
  /\ UNCHANGED <<worker, cast, doc, stream, peer, peers, sampling, tracks, server,
                 raced>>

HangsUp(v) ==
  /\ call[v].live
  /\ call' = [call EXCEPT ![v] = IF @.phase = "checking"
                                 THEN [@ EXCEPT !.live = FALSE] ELSE NoCall]
  /\ UNCHANGED <<worker, cast, doc, stream, peer, peers, sampling, tracks, server,
                 raced>>

Next ==
  \/ \E c \in Casts :
       \/ ClickTab(c) \/ StartTab(c) \/ PressKey(c) \/ Minted(c) \/ MintFails(c)
       \/ PickDesktop(c) \/ StartDesktop(c) \/ PickerCloses(c)
       \/ SendStart(c) \/ CaptureFails(c) \/ Captured(c) \/ NewPeer(c)
       \/ Opened(c) \/ HostFails(c) \/ CaptureEnds(c)
       \/ RowStarts(c) \/ RowKnown(c) \/ RowUnknown(c) \/ RowEnds(c)
  \/ Stop \/ ToggleStops \/ SignOut \/ SignIn \/ StoreAuth \/ DocumentStops \/ StopUnanswered \/ FinishStop
  \/ BrowserRestarts \/ RowReaped
  \/ \E v \in Viewers : Rings(v) \/ Verified(v) \/ Declined(v) \/ HangsUp(v)

Spec == Init /\ [][Next]_vars

\* What is awaited ends: getUserMedia and the pickers settle or fail, the timers
\* of stopBroadcast and waitForOpen run out, and the reaper runs.  Users owe
\* nothing, and no answer of the server is certain.
Fairness ==
  /\ \A c \in Casts : WF_vars(SendStart(c)) /\ WF_vars(NewPeer(c))
       /\ WF_vars(CaptureFails(c) \/ Captured(c)) /\ WF_vars(HostFails(c))
  /\ WF_vars(StopUnanswered) /\ WF_vars(FinishStop)
  /\ WF_vars(RowReaped /\ ~Beating)
FairSpec == Spec /\ Fairness

-----------------------------------------------------------------------------
(* Properties *)

TypeOK ==
  /\ auth \in {"in", "out", "asking"} /\ leaving \in BOOLEAN /\ doc \in BOOLEAN
  /\ session \in Session
  /\ cast \in [Casts -> Phases]
  /\ stopping \in {"none", "asked", "answered"}
  /\ {stream, peer, row} \subseteq Casts \cup {None}
  /\ peers \in [Casts -> {"none", "new", "open"}]
  /\ sampling \in BOOLEAN /\ raced \in BOOLEAN
  /\ tracks \subseteq Casts /\ ending \subseteq Casts
  /\ call \in [Viewers -> Calls]
  /\ post \in [Casts -> {"none", "sent", "answered"}]

\* What the popup shows is so.  Idle, with no start or stop under way: nothing is
\* captured behind the user's back, though the stop may have come at any await
\* of the start.  Live: there is a running capture, and a peer.  Both exempt a
\* document in which two starts have overlapped (`raced`): it forgets a capture
\* and a Peer.  And a viewer gets the stream only while his call, the Peer it
\* came by and the broadcast go on, however long his ticket was verified.
ShownIsTrue ==
  /\ session.status = "idle" /\ stopping = "none" /\ UnderWay = {} /\ ~raced =>
       tracks = {} /\ stream = None /\ peer = None
  /\ session.status = "live" /\ stopping = "none" /\ ~raced =>
       peer # None /\ stream \in tracks /\ sampling
  /\ \A v \in Viewers : call[v].phase = "answered" =>
       call[v].live /\ stream # None /\ peers[call[v].via] = "open"

\* Stopping releases what was captured, whether the document answers or hangs;
\* and a start settles: "Any unexpected failure lands in persisted state instead
\* of hanging forever" (offscreen.js:693).
StopReleases ==
  /\ \A c \in Casts : stopping # "none" /\ c \in tracks ~> c \notin tracks
  /\ session.status = "starting" ~> session.status # "starting"

\* A row whose capture is over ends, though the stop may have met the request
\* that makes the row, unless a Peer is left in the document that may keep the
\* row alive.  That is a later broadcast's, or one that an overlapping start
\* has made the document forget: such a Peer still opens, shows the session
\* live and posts a row, and once its capture is over nothing but a stop
\* ends the statistics that keep this row alive.
RowsDrain ==
  \A c \in Casts :
    row = c /\ c \notin tracks ~> row # c \/ \E k \in Casts : peers[k] # "none"
=============================================================================
