-------------------------------- MODULE GoLive --------------------------------
(***************************************************************************)
(* A broadcaster's tab going live and ending: goLive and endLive of        *)
(* BroadcastPage.tsx, the broadcastService singleton, the Redux slice, the *)
(* ways a session ends (Layout.tsx, store/api.ts, SettingsPage.tsx) and    *)
(* the broadcasts row the server keeps meanwhile.                          *)
(*                                                                         *)
(* goLive awaits five times, endLive and startPreview once; an action is   *)
(* the code between two awaits, and what a request does at the server is   *)
(* one of its own where the tab can act in between.  Each mount of the     *)
(* page has refs and a preview of its own; the service and the slice       *)
(* outlive them.  Recordings and Host model what the page does with a      *)
(* broadcast that is live.  A stream stands for its first video track.     *)
(***************************************************************************)
EXTENDS FiniteSets

CONSTANTS
  Attempts,    \* calls of goLive
  Previews,    \* calls of startPreview
  Pages,       \* mounts of BroadcastPage
  Null         \* null

ASSUME GoLiveAssumption ==
  Null \notin Attempts \cup Previews \cup Pages /\ Attempts \cap Previews = {}

VARIABLES
  session,     \* "in", "out", or "deleted" with the account
  status,      \* broadcast.status of the slice
  active,      \* broadcast.active of the slice: the attempt whose row it names
  host,        \* broadcastService.host: the attempt that made it
  stream,      \* broadcastService.stream: the call that captured it
  page,        \* the mounted BroadcastPage, or Null
  refs,        \* refs[p]: the refs of a mount of the page
  attempt,     \* attempt[a]: how far the call is, the mount it runs in and
               \* the stream it goes live with
  preview,     \* preview[v]: how far the call is, and in which mount it runs
  capturing,   \* calls whose stream has a running track
  open,        \* attempts whose host is not stopped
  row,         \* the attempt whose row is live at the server, or Null
  dropped,     \* rows the tab gave up on: its request to end them failed, or
               \* goLive failed after creating them (observer)
  overtaken    \* whether a call of goLive or endLive that waited has been
               \* overtaken by a new press, by leaving the page or by the end
               \* of the session, or a stopped preview has been reused (observer)

slice == <<status, active>>
service == <<host, stream, capturing, open>>
calls == <<attempt, preview>>
goLiveVars == <<session, slice, service, page, refs, calls, row, dropped, overtaken>>

Waits == {"capture", "ticket", "posting", "posted", "retiring", "signalling"}
GoLivePhases == {"new", "done"} \cup Waits

Ids == Attempts \cup {Null}
Streams == Attempts \cup Previews
Attempt == [phase : GoLivePhases, page : Pages \cup {Null},
            stream : Streams \cup {Null}]
Preview == [phase : {"new", "asking", "done"}, page : Pages \cup {Null}]

\* aborted: liveAbortedRef; id: broadcastIdRef; ending: the id endLive waits
\* for, endingRef being set meanwhile; status: statusRef when the mount ended;
\* preview: previewStream; previewing: isPreviewing.
Refs == [used : BOOLEAN, aborted : BOOLEAN, id : Ids, ending : Ids,
         status : {"idle", "starting", "live", "ending"},
         preview : Previews \cup {Null}, previewing : BOOLEAN]
NewRefs == [used |-> FALSE, aborted |-> FALSE, id |-> Null, ending |-> Null,
            status |-> "idle", preview |-> Null, previewing |-> FALSE]

GoLiveInit ==
  /\ session = "in"
  /\ status = "idle" /\ active = Null
  /\ host = Null /\ stream = Null
  /\ page = Null
  /\ refs = [p \in Pages |-> NewRefs]
  /\ attempt = [a \in Attempts |->
                 [phase |-> "new", page |-> Null, stream |-> Null]]
  /\ preview = [v \in Previews |-> [phase |-> "new", page |-> Null]]
  /\ capturing = {} /\ open = {}
  /\ row = Null
  /\ dropped = {}
  /\ overtaken = FALSE

-----------------------------------------------------------------------------
(* Helpers *)

UnderWay == {a \in Attempts : attempt[a].phase \in Waits}
Ending == {p \in Pages : refs[p].ending # Null}

\* Nothing waits: every call of goLive and endLive has returned.
Settled == UnderWay = {} /\ Ending = {}
Overtakes == overtaken' = (overtaken \/ ~Settled)

\* statusRef: what the slice says while the page is mounted, and what it said
\* last once it is not.
StatusRef(p) == IF p = page THEN status ELSE refs[p].status

\* Calls and mounts are alike, so the next one is any that is left.
NextAttempt == CHOOSE a \in Attempts : attempt[a].phase = "new"
NextPreview == CHOOSE v \in Previews : preview[v].phase = "new"
NextPage == CHOOSE p \in Pages : ~refs[p].used

Goes(a, phase) == attempt' = [attempt EXCEPT ![a].phase = phase]
Stopped == status' = "idle" /\ active' = Null

\* broadcastService.cleanup stops what the service holds, and no more.
Cleanup ==
  /\ open' = open \ {host} /\ host' = Null
  /\ capturing' = capturing \ {stream} /\ stream' = Null

\* A request to end the row of attempt a: it is served, or fails unnoticed.
EndRequest(a) ==
  \/ row' = (IF row = a THEN Null ELSE row) /\ UNCHANGED dropped
  \/ dropped' = dropped \cup {a} /\ UNCHANGED row

-----------------------------------------------------------------------------
(* The preview *)

\* A mount that has ended keeps no state.
Shows(v, p, on) ==
  refs' = IF p # page THEN refs
          ELSE [refs EXCEPT ![p].preview = v, ![p].previewing = on]

\* The Preview button, which the page has unless it is live or starting.
StartPreview(v) ==
  /\ preview[v].phase = "new" /\ v = NextPreview
  /\ page # Null /\ session = "in" /\ status \in {"idle", "ending"}
  /\ ~refs[page].previewing
  /\ preview' = [preview EXCEPT ![v] = [phase |-> "asking", page |-> page]]
  /\ refs' = [refs EXCEPT ![page].previewing = TRUE]
  /\ UNCHANGED <<session, slice, service, page, attempt, row, dropped,
                 overtaken>>

\* The stream runs, whether or not anything will show it.
PreviewShown(v) ==
  LET p == preview[v].page IN
  /\ preview[v].phase = "asking"
  /\ preview' = [preview EXCEPT ![v].phase = "done"]
  /\ capturing' = capturing \cup {v}
  /\ Shows(v, p, refs[p].previewing)
  /\ UNCHANGED <<session, slice, host, stream, open, page, attempt, row,
                 dropped, overtaken>>

PreviewRefused(v) ==
  LET p == preview[v].page IN
  /\ preview[v].phase = "asking"
  /\ preview' = [preview EXCEPT ![v].phase = "done"]
  /\ Shows(refs[p].preview, p, FALSE)
  /\ UNCHANGED <<session, slice, service, page, attempt, row, dropped,
                 overtaken>>

\* The Cancel button; a prompt that is still open is left to be answered.
CancelPreview ==
  /\ page # Null /\ status \in {"idle", "ending"} /\ refs[page].previewing
  /\ capturing' = capturing \ {refs[page].preview}
  /\ Shows(Null, page, FALSE)
  /\ UNCHANGED <<session, slice, host, stream, open, page, calls, row,
                 dropped, overtaken>>

-----------------------------------------------------------------------------
(* goLive *)

\* A preview is reused, running or not, and stays the preview of the page.
Press(a) ==
  LET v == refs[page].preview IN
  /\ attempt[a].phase = "new" /\ a = NextAttempt
  /\ page # Null /\ session = "in" /\ status \in {"idle", "ending"}
  /\ attempt' = [attempt EXCEPT ![a] =
                   [phase |-> IF v = Null THEN "capture" ELSE "ticket",
                    page |-> page, stream |-> v]]
  /\ stream' = IF v = Null THEN stream ELSE v
  /\ status' = "starting" /\ active' = Null
  /\ refs' = [refs EXCEPT ![page].aborted = FALSE]
  /\ overtaken' = (overtaken \/ ~Settled \/ v \in Previews \ capturing)
  /\ UNCHANGED <<session, host, capturing, open, page, preview, row, dropped>>

\* The catch of goLive; a row that was created is not ended.
Fail(a) ==
  /\ Goes(a, "done")
  /\ refs' = [refs EXCEPT ![attempt[a].page].id = Null]
  /\ Cleanup /\ Stopped
  /\ dropped' = IF row = a THEN dropped \cup {a} ELSE dropped
  /\ UNCHANGED <<session, page, preview, row, overtaken>>

CaptureRefused(a) == attempt[a].phase = "capture" /\ Fail(a)

\* A preview that has come meanwhile is forgotten and runs on.
Captured(a) ==
  /\ attempt[a].phase = "capture"
  /\ attempt' = [attempt EXCEPT ![a].phase = "ticket", ![a].stream = a]
  /\ capturing' = capturing \cup {a} /\ stream' = a
  /\ Shows(Null, attempt[a].page, FALSE)
  /\ UNCHANGED <<session, slice, host, open, page, preview, row, dropped,
                 overtaken>>

\* What goLive looks at after an await.
AbortedNever(a) == FALSE                                           \* mutant
Aborted(a) == refs[attempt[a].page].aborted

\* The signaling ticket has come, or could not be had (non-fatal).
Ticketed(a) ==
  /\ attempt[a].phase = "ticket"
  /\ Goes(a, IF Aborted(a) THEN "done" ELSE "posting")
  /\ UNCHANGED <<session, slice, service, page, refs, preview, row, dropped,
                 overtaken>>

\* POST /broadcasts/start: a new live row, which ends the one before.  Signing
\* out in the tab does not take its access token from the request.
StartServed(a) ==
  /\ attempt[a].phase = "posting" /\ session # "deleted"
  /\ Goes(a, "posted")
  /\ row' = a
  /\ UNCHANGED <<session, slice, service, page, refs, preview, dropped,
                 overtaken>>

\* The request or its response is lost, or the server refuses.
StartFailed(a) == attempt[a].phase \in {"posting", "posted"} /\ Fail(a)

StartAnswered(a) ==
  /\ attempt[a].phase = "posted"
  /\ IF Aborted(a)
     THEN Goes(a, "retiring") /\ UNCHANGED <<refs, host, open>>
     ELSE /\ Goes(a, "signalling")
          /\ refs' = [refs EXCEPT ![attempt[a].page].id = a]
          /\ host' = a /\ open' = open \cup {a}
  /\ UNCHANGED <<session, slice, stream, capturing, page, preview, row,
                 dropped, overtaken>>

\* The stopped attempt ends the row it created.
Retired(a) ==
  /\ attempt[a].phase = "retiring"
  /\ Goes(a, "done")
  /\ EndRequest(a)
  /\ Cleanup
  /\ UNCHANGED <<session, slice, page, refs, preview, overtaken>>

\* The host's peer is open; a destroyed peer never opens.
Opened(a) ==
  /\ attempt[a].phase = "signalling" /\ a \in open
  /\ Goes(a, "done")
  /\ IF Aborted(a)
     THEN Cleanup /\ UNCHANGED slice
     ELSE status' = "live" /\ active' = a /\ UNCHANGED service
  /\ UNCHANGED <<session, page, refs, preview, row, dropped, overtaken>>

\* A signaling error, or no answer within 15 s; the peer may be destroyed.
SignallingFailed(a) == attempt[a].phase = "signalling" /\ Fail(a)

-----------------------------------------------------------------------------
(* endLive *)

\* endLive as called by mount p; it returns at once when the mount is ending
\* already or knows of nothing to end.
Endable(p) == refs[p].ending = Null /\ StatusRef(p) # "idle"

\* When there is no id there is no request to wait for.
StatusAfterEndUnlessAsked(id) == "ending"                          \* mutant
StatusAfterEndStopped(id) == IF id = Null THEN "stopped" ELSE "ending"  \* mutant
StatusAfterEnd(id) == IF id = Null THEN "idle" ELSE "ending"

\* The id endLive asks the server to end.
EndedIdForgotten(p) == Null                                        \* mutant
EndedId(p) == refs[p].id

EndedRefs(p) == [refs[p] EXCEPT !.aborted = TRUE, !.id = Null,
                                !.ending = EndedId(p)]
StatusIsEnding(p) ==
  /\ status' = StatusAfterEnd(EndedId(p))
  /\ active' = IF EndedId(p) = Null THEN Null ELSE active

EndButton ==
  /\ page # Null /\ status = "live" /\ Endable(page)
  /\ refs' = [refs EXCEPT ![page] = EndedRefs(page)]
  /\ StatusIsEnding(page) /\ Cleanup
  /\ UNCHANGED <<session, page, calls, row, dropped, overtaken>>

\* "Stop sharing" in the browser ends a track.  Its listeners drop the preview
\* if it was one, and call the endLive of the mount whose goLive took it,
\* mounted or not.
NativeStop(s) ==
  LET p == IF s \in Attempts THEN attempt[s].page ELSE preview[s].page
      taken == \E a \in Attempts : attempt[a].stream = s
      was == IF taken /\ Endable(p) THEN EndedRefs(p) ELSE refs[p]
      now == IF s \in Attempts \/ p # page THEN was
             ELSE [was EXCEPT !.preview = Null, !.previewing = FALSE]
  IN
  /\ s \in capturing
  /\ refs' = [refs EXCEPT ![p] = now]
  /\ IF taken /\ Endable(p)
     THEN /\ StatusIsEnding(p)
          /\ open' = open \ {host} /\ host' = Null
          /\ capturing' = capturing \ {stream, s} /\ stream' = Null
     ELSE capturing' = capturing \ {s} /\ UNCHANGED <<slice, host, stream, open>>
  /\ UNCHANGED <<session, page, calls, row, dropped, overtaken>>

EndAnswered(p) ==
  /\ refs[p].ending # Null
  /\ EndRequest(refs[p].ending)
  /\ refs' = [refs EXCEPT ![p].ending = Null]
  /\ Stopped
  /\ UNCHANGED <<session, service, page, calls, overtaken>>

-----------------------------------------------------------------------------
(* The page and the session *)

\* The page is mounted anew; the broadcast survives leaving it.
Visit(p) ==
  /\ page = Null /\ session = "in" /\ ~refs[p].used /\ p = NextPage
  /\ page' = p
  /\ refs' = [refs EXCEPT ![p].used = TRUE]
  /\ UNCHANGED <<session, slice, service, calls, row, dropped, overtaken>>

Unmount ==
  /\ page' = Null
  /\ refs' = IF page = Null THEN refs
             ELSE [refs EXCEPT ![page].status = status, ![page].preview = Null,
                               ![page].previewing = FALSE]

Leave ==
  /\ page # Null
  /\ Unmount /\ Overtakes
  /\ UNCHANGED <<session, slice, service, calls, row, dropped>>

\* Layout.signOut: the row of `active` is ended without waiting for it.
SignOut ==
  /\ session = "in" /\ session' = "out"
  /\ IF active = Null THEN UNCHANGED <<row, dropped>> ELSE EndRequest(active)
  /\ Cleanup /\ Stopped /\ Unmount /\ Overtakes
  /\ UNCHANGED calls

\* A refresh is refused (store/api.ts); the server is not told of the end.
SessionLost ==
  /\ session = "in" /\ session' = "out"
  /\ dropped' = IF row = Null THEN dropped ELSE dropped \cup {row}
  /\ Cleanup /\ Stopped /\ Unmount /\ Overtakes
  /\ UNCHANGED <<calls, row>>

\* SettingsPage: the account and its rows are deleted, the tab signs out; the
\* broadcast in the tab is left alone.
DeleteAccount ==
  /\ session = "in" /\ page = Null
  /\ session' = "deleted"
  /\ row' = Null
  /\ Overtakes
  /\ UNCHANGED <<slice, service, page, refs, calls, dropped>>

SignIn ==
  /\ session # "in" /\ session' = "in"
  /\ UNCHANGED <<slice, service, page, refs, calls, row, dropped, overtaken>>

\* The reaper ends a row no host reports for.
Reaped ==
  /\ row # Null /\ row \notin open /\ row \notin UnderWay
  /\ row' = Null
  /\ UNCHANGED <<session, slice, service, page, refs, calls, dropped, overtaken>>

Answers(a) ==
  \/ Captured(a) \/ CaptureRefused(a) \/ Ticketed(a)
  \/ StartServed(a) \/ StartFailed(a) \/ StartAnswered(a) \/ Retired(a)
  \/ Opened(a) \/ SignallingFailed(a)

GoLiveNext ==
  \/ \E a \in Attempts : Press(a) \/ Answers(a)
  \/ \E v \in Previews : StartPreview(v) \/ PreviewShown(v) \/ PreviewRefused(v)
  \/ \E s \in Streams : NativeStop(s)
  \/ CancelPreview
  \/ \E p \in Pages : EndAnswered(p) \/ Visit(p)
  \/ EndButton \/ Leave \/ SignOut \/ SessionLost \/ DeleteAccount \/ SignIn
  \/ Reaped

GoLiveSpec == GoLiveInit /\ [][GoLiveNext]_goLiveVars

\* Prompts are answered, requests are answered or fail, and the 15 s timer of
\* goLive runs out; nothing is assumed of the user or of the reaper.
GoLiveFairSpec ==
  /\ GoLiveSpec
  /\ \A a \in Attempts : WF_goLiveVars(Answers(a))
  /\ \A p \in Pages : WF_goLiveVars(EndAnswered(p))

-----------------------------------------------------------------------------
(* Properties *)

GoLiveTypeOK ==
  /\ session \in {"in", "out", "deleted"}
  /\ status \in {"idle", "starting", "live", "ending"}
  /\ {active, host, row} \subseteq Ids /\ stream \in Streams \cup {Null}
  /\ page \in Pages \cup {Null}
  /\ refs \in [Pages -> Refs]
  /\ attempt \in [Attempts -> Attempt] /\ preview \in [Previews -> Preview]
  /\ capturing \subseteq Streams /\ open \cup dropped \subseteq Attempts
  /\ overtaken \in BOOLEAN

\* A tab that says it is live has a running capture and an open host, both in
\* the service and both of the broadcast it shows: an attempt that was stopped
\* at any of its awaits, even by the browser, never goes live afterwards.  Once
\* every call has returned, an idle tab has no stream running that it went live
\* with, and no peer that answers calls, whichever way the broadcast ended.
StatusIsTrue ==
  /\ ~overtaken /\ status = "live" =>
       /\ stream = attempt[active].stream /\ stream \in capturing
       /\ host = active /\ active \in open
  /\ ~overtaken /\ Settled /\ status = "idle" =>
       /\ \A a \in Attempts : attempt[a].stream \notin capturing
       /\ open = {}

\* A row that is live at the server is accounted for: its attempt is under way,
\* a mount still knows its id or is ending it, or the tab is known to have
\* given it up for the reaper.  A stopped attempt does not leave one behind.
RowAccounted ==
  ~overtaken /\ row # Null =>
    \/ row \in UnderWay \cup dropped
    \/ \E p \in Pages : row \in {refs[p].id, refs[p].ending}

\* The tab does not stay in "starting" or "ending": whatever fails, stops or
\* overtakes the calls that wait, it comes to "live" or "idle".
StatusSettles == status \in {"starting", "ending"} ~> status \in {"idle", "live"}
=============================================================================
