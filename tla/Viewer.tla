-------------------------------- MODULE Viewer --------------------------------
(***************************************************************************)
(* The page that watches: web/src/pages/ViewerPage.tsx, its embedded        *)
(* variant EmbedPage.tsx, and the handle of connectAsViewer (lib/peer.ts).  *)
(*                                                                         *)
(* A page resolves a username to a peer and dials it.  Each resolve is a    *)
(* function suspended at two awaits, that outlives the username it was      *)
(* called for; refs guard what it does when it comes back.  A dropped       *)
(* stream is resolved again by a timer, until a window is spent.  The       *)
(* viewer is signed in, so that both awaits are requests.                   *)
(***************************************************************************)
EXTENDS Naturals, FiniteSets

CONSTANTS
  Users,       \* usernames in the route
  None,
  Flights,     \* bound: resolves under way at a time
  MaxLeaked    \* bound: timers of the embed page that no ref knows

VARIABLES
  embed,      \* whether the page is the embed
  user,       \* username
  disposed,   \* disposedRef
  shown,      \* phase
  resolving,  \* resolvingRef
  flights,    \* flights[f]: a call of resolve, None where there is none
  handle,     \* handleRef, with what has become of its call
  timer,      \* reconnectTimer: the username its closure resolves
  leaked,     \* timers of the embed page that another one replaced
  wasLive,    \* wasLiveRef
  window,     \* Date.now() < retryDeadlineRef
  host        \* host[u]: has no row, is live, or is gone with its row left live

refs == <<disposed, resolving, handle, timer, leaked, wasLive, window>>
vars == <<embed, user, shown, flights, refs, host>>

Phases == {"resolving", "offline", "need-auth", "need-code", "connecting",
           "playing", "error"}
Flight == [user : Users, at : {"session", "ticket"}]
\* dialing: also when the host has closed the call before it answered, of which
\* nothing comes to the viewer.
Handle == [user : Users, call : {"dialing", "flowing", "over"}]

ASSUME ViewerAssumption ==
  MaxLeaked \in Nat /\ None \notin Users \cup Flight \cup Handle

\* Mounted, with the first resolve on its way.
Init ==
  /\ embed \in BOOLEAN
  /\ user \in Users
  /\ disposed = FALSE
  /\ shown = "resolving"
  /\ resolving = TRUE
  /\ \E f \in Flights :
       flights = [g \in Flights |->
                    IF g = f THEN [user |-> user, at |-> "session"] ELSE None]
  /\ handle = None /\ timer = None /\ leaked = 0
  /\ wasLive = FALSE
  /\ window = ~embed
  /\ host \in [Users -> {"off", "live", "stale"}]

-----------------------------------------------------------------------------
(* Helpers *)

Least(a, b) == IF a <= b THEN a ELSE b
Flowing == handle # None /\ handle.call = "flowing"
Unanswered == handle # None /\ handle.call = "dialing"

\* mutant: every resolve gets a window of its own.
WindowAlways(background) == TRUE
\* Only a resolve the user asked for, and only on the watch page.
WindowAfter(background) == window \/ (~embed /\ ~background)

\* resolve(username, background), up to its first await
Resolve(u, background) ==
  IF disposed \/ resolving
  THEN UNCHANGED <<resolving, shown, window, flights>>
  ELSE /\ \E f \in Flights :
            /\ flights[f] = None
            /\ flights' = [flights EXCEPT ![f] = [user |-> u, at |-> "session"]]
       /\ resolving' = TRUE
       /\ shown' = IF background /\ ~embed THEN shown ELSE "resolving"
       /\ window' = WindowAfter(background)

\* mutant: the page keeps the phase its caller chose when the window is spent.
RetryQuietly(u, phase) ==
  /\ shown' = phase
  /\ timer' = IF window THEN u ELSE timer
  /\ UNCHANGED leaked
\* mutant: the timer's closure is given the handle.
RetryHandle(u, phase) ==
  /\ shown' = phase
  /\ timer' = handle
  /\ UNCHANGED leaked
\* scheduleReconnect: one timer, or the Retry button once the window is spent.
\* The embed does not clear the timer it replaces.
Retry(u, phase) ==
  IF window
  THEN /\ shown' = phase
       /\ timer' = u
       /\ leaked' = IF embed /\ timer # None THEN Least(leaked + 1, MaxLeaked)
                    ELSE leaked
  ELSE /\ shown' = "offline"
       /\ UNCHANGED <<timer, leaked>>

Landed(f) ==
  /\ flights' = [flights EXCEPT ![f] = None]
  /\ resolving' = FALSE

-----------------------------------------------------------------------------
(* resolve, from its first await *)

Disposed(f) ==
  /\ flights[f] # None /\ disposed
  /\ Landed(f)
  /\ UNCHANGED <<embed, user, shown, disposed, handle, timer, leaked, wasLive,
                 window, host>>

\* 404: a page that was watching keeps asking.
NotLive(f) ==
  /\ flights[f] # None /\ flights[f].at = "session" /\ ~disposed
  /\ host[flights[f].user] = "off"
  /\ Landed(f)
  /\ IF wasLive THEN Retry(flights[f].user, "offline")
     ELSE shown' = "offline" /\ UNCHANGED <<timer, leaked>>
  /\ UNCHANGED <<embed, user, disposed, handle, wasLive, window, host>>

\* 401, 403, needsCode, a row without peer; any other error.
Denied(f) ==
  /\ flights[f] # None /\ flights[f].at = "session" /\ ~disposed
  /\ \/ shown' = "error"
     \/ /\ host[flights[f].user] # "off"
        /\ shown' \in {"need-auth", "need-code"}
  /\ Landed(f)
  /\ UNCHANGED <<embed, user, disposed, handle, timer, leaked, wasLive, window,
                 host>>

Granted(f) ==
  /\ flights[f] # None /\ flights[f].at = "session" /\ ~disposed
  /\ host[flights[f].user] # "off"
  /\ flights' = [flights EXCEPT ![f].at = "ticket"]
  /\ UNCHANGED <<embed, user, shown, refs, host>>

\* teardown: the watch page forgets a handle before it closes it, the embed
\* hears of the close.
TearDown ==
  IF embed /\ Flowing /\ window
  THEN /\ timer' = handle.user
       /\ leaked' = IF timer # None THEN Least(leaked + 1, MaxLeaked) ELSE leaked
  ELSE UNCHANGED <<timer, leaked>>

\* connect, with or without a signaling ticket.
Connect(f) ==
  /\ flights[f] # None /\ flights[f].at = "ticket" /\ ~disposed
  /\ Landed(f)
  /\ handle' = [user |-> flights[f].user, call |-> "dialing"]
  /\ shown' = "connecting"
  /\ TearDown
  /\ UNCHANGED <<embed, user, disposed, wasLive, window, host>>

-----------------------------------------------------------------------------
(* The handle *)

\* onStream, also for what is left of a call that the host has declined.
Streams ==
  /\ Unanswered
  /\ host[handle.user] = "live"
  /\ handle' = [handle EXCEPT !.call = "flowing"]
  /\ shown' = "playing"
  /\ wasLive' = (wasLive \/ ~embed)
  /\ window' = TRUE
  /\ UNCHANGED <<embed, user, flights, disposed, resolving, timer, leaked, host>>

\* onError: nobody has the peer id, the call fails or, whatever has become of it,
\* the signaling server is lost.  Nothing of it is certain: a dial that the host
\* refuses or leaves unanswered has no timeout and may bring no event at all.
Fails ==
  /\ handle # None
  /\ \/ handle' = [handle EXCEPT !.call = "over"] /\ Unanswered
     \/ UNCHANGED handle
  /\ shown' = "error"
  /\ UNCHANGED <<embed, user, flights, disposed, resolving, timer, leaked,
                 wasLive, window, host>>

\* onClose
Closes ==
  /\ Flowing
  /\ handle' = [handle EXCEPT !.call = "over"]
  /\ Retry(handle.user, "resolving")
  /\ UNCHANGED <<embed, user, flights, disposed, resolving, wasLive, window, host>>

TimerFires ==
  /\ \/ timer # None /\ timer' = None /\ Resolve(timer, TRUE) /\ UNCHANGED leaked
     \/ /\ leaked > 0
        /\ leaked' = leaked - 1 /\ Resolve(user, TRUE) /\ UNCHANGED timer
  /\ UNCHANGED <<embed, user, disposed, handle, wasLive, host>>

WindowEnds ==
  /\ window
  /\ window' = FALSE
  /\ UNCHANGED <<embed, user, shown, flights, disposed, resolving, handle, timer,
                 leaked, wasLive, host>>

-----------------------------------------------------------------------------
(* The viewer and the host *)

\* Retry, or the form for the code.
Click ==
  /\ ~disposed /\ ~resolving
  /\ shown \in {"error", "need-code"} \/ (shown = "offline" /\ ~embed)
  /\ Resolve(user, FALSE)
  /\ UNCHANGED <<embed, user, disposed, handle, timer, leaked, wasLive, host>>

\* The clean-up of the effect, on leaving the page ...
Unmount ==
  /\ ~disposed
  /\ disposed' = TRUE
  /\ resolving' = FALSE /\ handle' = None /\ timer' = None
  /\ wasLive' = FALSE
  /\ window' = (embed /\ window)
  /\ UNCHANGED <<embed, user, shown, flights, leaked, host>>

\* ... or, followed by the effect itself, for another username.
Navigate(u) ==
  /\ ~embed /\ ~disposed /\ u # user
  /\ user' = u
  /\ \E f \in Flights :
       /\ flights[f] = None
       /\ flights' = [flights EXCEPT ![f] = [user |-> u, at |-> "session"]]
  /\ resolving' = TRUE /\ handle' = None /\ timer' = None
  /\ wasLive' = FALSE /\ window' = TRUE
  /\ shown' = "resolving"
  /\ UNCHANGED <<embed, disposed, leaked, host>>

HostChanges(u) ==
  /\ \/ host[u] # "live" /\ host' = [host EXCEPT ![u] = "live"]
     \/ host[u] # "off" /\ host' = [host EXCEPT ![u] = "off"]
     \/ host[u] = "live" /\ host' = [host EXCEPT ![u] = "stale"]
  /\ UNCHANGED <<embed, user, shown, flights, refs>>

Answers(f) == Disposed(f) \/ NotLive(f) \/ Denied(f) \/ Granted(f) \/ Connect(f)
Asks == Click \/ \E u \in Users : Navigate(u)

Next ==
  \/ \E f \in Flights : Answers(f)
  \/ Streams \/ Fails \/ Closes \/ TimerFires \/ WindowEnds
  \/ Asks \/ Unmount
  \/ \E u \in Users : HostChanges(u)

Spec == Init /\ [][Next]_vars

\* Requests are answered, timers fire and time passes.
FairSpec ==
  /\ Spec
  /\ \A f \in Flights : WF_vars(Answers(f))
  /\ WF_vars(TimerFires) /\ WF_vars(WindowEnds)

-----------------------------------------------------------------------------
(* Properties *)

TypeOK ==
  /\ \A b \in {embed, disposed, resolving, wasLive, window} : b \in BOOLEAN
  /\ user \in Users
  /\ shown \in Phases
  /\ flights \in [Flights -> Flight \cup {None}]
  /\ handle \in Handle \cup {None}
  /\ timer \in Users \cup {None}
  /\ leaked \in 0..MaxLeaked
  /\ host \in [Users -> {"off", "live", "stale"}]

UnderWay == timer # None \/ leaked > 0 \/ \E f \in Flights : flights[f] # None

\* What the page shows is so, whatever timers, drops, retries and late answers
\* meet.  While it looks for the broadcast, or waits for the host of the stream
\* it was watching to come back, a request or a timer is under way that will
\* change it: no "permanent spinner with no way out but a page reload"
\* (ViewerPage.tsx:117).  While it says that it connects, its call has neither
\* streamed nor ended; no more is promised, as a dial has no timeout and one that
\* the host declines may stay there for ever.  A page that says LIVE has a stream,
\* and a page that was left has none.
ShownIsBacked ==
  /\ ~disposed /\ (shown = "resolving" \/ (shown = "offline" /\ wasLive /\ window))
       => UnderWay
  /\ ~disposed /\ shown = "connecting" => Unanswered
  /\ ~disposed /\ shown = "playing" => Flowing
  /\ disposed => handle = None

\* "an open tab must never poll forever" (ViewerPage.tsx:38): once nobody asks
\* and nothing plays, the page falls silent.
PollingEnds ==
  \/ []<><<Asks>>_vars
  \/ []<>(shown = "playing")
  \/ <>[](timer = None /\ leaked = 0 /\ \A f \in Flights : flights[f] = None)
=============================================================================
