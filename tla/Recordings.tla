----------------------------- MODULE Recordings -----------------------------
(***************************************************************************)
(* Replays of one account: the MediaRecorder of BroadcastPage.tsx, the     *)
(* rows and the files that routes/recordings.ts and repos/recordings.ts    *)
(* keep, and the housekeeping that collects them (index.ts).               *)
(*                                                                         *)
(* A recording is a row, a .webm.part file while it is made and a .webm    *)
(* file afterwards.  Row and file change in two steps of one handler, and  *)
(* the process may die between the two.  A handler runs without awaiting,  *)
(* except that the body of a chunk is drained before anything is looked    *)
(* up.  A chunk is the unit of size.  Ids are random: one is used once.    *)
(***************************************************************************)
EXTENDS Integers, Sequences, FiniteSets, FiniteSetsExt

CONSTANTS
  Recordings,   \* ids
  Pages,        \* tabs of the account that broadcast
  None,
  MaxBytes,     \* config.recordings.maxBytes, in chunks
  MaxPerUser,   \* config.recordings.maxBytesPerUser, in chunks
  OrphanAge,    \* config.retention.orphanRecordingHours, in ticks
  MaxEmitted,   \* bound: chunks a recorder emits
  MaxCreating   \* bound: presses of Record while the first is unanswered

ASSUME RecordingsAssumption ==
  /\ None \notin Recordings \cup Pages \cup Nat
  /\ MaxBytes \in Nat /\ MaxPerUser \in Nat /\ OrphanAge \in Nat
  /\ MaxEmitted \in Nat /\ IsFiniteSet(Recordings)

VARIABLES
  account,    \* whether the account exists (every request asks requireAuth)
  row,        \* row[r]: the row, or what has become of the id
  part,       \* part[r]: chunks in <id>.webm.part, None without the file
  replay,     \* replay[r]: chunks in <id>.webm
  uploads,    \* chunk requests whose body the server is draining
  page,       \* page[p]: the stream and the recorder refs of a tab
  emitted,    \* emitted[r]: chunks the recorder of r has emitted (observer)
  spoilt,     \* recordings that met a failed or refused upload or shared the
              \* refs of a page with another (observer)
  torn        \* recordings in whose handler the process has died, or whose
              \* row the retention has purged (observer)

store == <<account, row, part, replay>>
client == <<page, emitted>>
vars == <<store, uploads, client, spoilt, torn>>

Row == [status : {"unused", "recording", "complete", "gone"},
        size : Nat, age : 0..OrphanAge+1]
NoRow(s) == [status |-> s, size |-> 0, age |-> 0]

\* streaming: broadcastService has a stream whose tracks run; creating: create requests unanswered; id: recordingIdRef; ref: recorderRef,
\* a recorder being named by the recording it was made for; running: recorders
\* not stopped; queue: the chain recUploadRef, whose head may be `sent`.
Job == [kind : {"chunk", "finish"}, id : Recordings]
Page == [streaming : BOOLEAN, creating : Nat, id : Recordings \cup {None},
         ref : Recordings \cup {None}, running : SUBSET Recordings,
         queue : Seq(Job), sent : BOOLEAN]
NewPage == [streaming |-> FALSE, creating |-> 0, id |-> None, ref |-> None, running |-> {},
            queue |-> <<>>, sent |-> FALSE]

\* waited: the page still waits for the answer.
Upload == [id : Recordings, page : Pages, waited : BOOLEAN]

Init ==
  /\ account = TRUE
  /\ row = [r \in Recordings |-> NoRow("unused")]
  /\ part = [r \in Recordings |-> None]
  /\ replay = [r \in Recordings |-> None]
  /\ uploads = {}
  /\ page = [p \in Pages |-> NewPage]
  /\ emitted = [r \in Recordings |-> 0]
  /\ spoilt = {} /\ torn = {}

-----------------------------------------------------------------------------
(* The server *)

Bytes(f) == IF f = None THEN 0 ELSE f
HasRow(r) == row[r].status \in {"recording", "complete"}
Unfinished(r) == row[r].status = "recording"

SizeOf(r) == row[r].size

TotalBytes == MapThenSumSet(SizeOf, {r \in Recordings : HasRow(r)})

Fits(r) == row[r].size + 1 <= MaxBytes /\ TotalBytes + 1 <= MaxPerUser

\* mutant: the handler does not look at the status again.
AppendableAny(r) == HasRow(r)
Appendable(r) == Unfinished(r)

FilesRemoved(R) ==
  /\ part' = [r \in Recordings |-> IF r \in R THEN None ELSE part[r]]
  /\ replay' = [r \in Recordings |-> IF r \in R THEN None ELSE replay[r]]

RowsRemoved(R) ==
  [r \in Recordings |-> IF r \in R THEN NoRow("gone") ELSE row[r]]

\* mutant: goes by what has been uploaded, so an empty row is never collected.
OrphanedIfBytes(r) == Unfinished(r) /\ row[r].age > OrphanAge /\ part[r] # None
Orphaned(r) == Unfinished(r) /\ row[r].age > OrphanAge

-----------------------------------------------------------------------------
(* The page *)

Popped(p) == [page[p] EXCEPT !.queue = Tail(@), !.sent = FALSE]
Waiting(p) == page[p].queue # <<>> /\ Head(page[p].queue).kind = "chunk"
Finishing(p) == page[p].queue # <<>> /\ Head(page[p].queue).kind = "finish"
NextId(p) == Head(page[p].queue).id

\* What a tab still has to upload or to record.
Involved(p) ==
  page[p].running \cup {page[p].queue[i].id : i \in DOMAIN page[p].queue}

StreamStarts(p) ==
  /\ ~page[p].streaming
  /\ page' = [page EXCEPT ![p].streaming = TRUE]
  /\ UNCHANGED <<emitted, store, uploads, spoilt, torn>>

\* The guard reads recorderRef, which is set only when the answer is here.
PressRecord(p) ==
  /\ page[p].streaming /\ page[p].ref = None
  /\ page[p].creating < MaxCreating
  /\ page' = [page EXCEPT ![p].creating = @ + 1]
  /\ UNCHANGED <<emitted, store, uploads, spoilt, torn>>

NewRecording == [status |-> "recording", size |-> 0, age |-> 0]

\* What startRecording does with the answer.  The recorder may fail to be made,
\* or to start on a stream that has ended since.
Begun(pg, r) ==
  LET answered == [pg EXCEPT !.creating = @ - 1]
      named == [answered EXCEPT !.id = r]
  IN {answered, named, [named EXCEPT !.ref = r]} \cup
       IF pg.streaming THEN {[named EXCEPT !.ref = r, !.running = @ \cup {r}]} ELSE {}

\* POST /recordings, and its answer.
CreateRecording(p, r) ==
  /\ account /\ page[p].creating > 0 /\ row[r].status = "unused"
  /\ row' = [row EXCEPT ![r] = NewRecording]
  /\ page' \in {[page EXCEPT ![p] = pg] : pg \in Begun(page[p], r)}
  /\ UNCHANGED <<emitted, account, part, replay, uploads,
                 spoilt, torn>>

CreateFails(p) ==
  /\ page[p].creating > 0
  /\ page' = [page EXCEPT ![p].creating = @ - 1]
  /\ UNCHANGED <<emitted, store, uploads, spoilt, torn>>

\* dataavailable: the chunk goes to whatever recordingIdRef names now.
EmitChunk(p, r) ==
  /\ r \in page[p].running /\ emitted[r] < MaxEmitted
  /\ emitted' = [emitted EXCEPT ![r] = @ + 1]
  /\ LET id == page[p].id
     IN /\ page' = IF id = None THEN page
                   ELSE [page EXCEPT ![p].queue =
                           Append(@, [kind |-> "chunk", id |-> id])]
        /\ spoilt' = IF id = r THEN spoilt ELSE spoilt \cup ({r, id} \ {None})
  /\ UNCHANGED <<store, uploads, torn>>

\* mutant: finishRecording does not await the chain.
FinishedAtOnce(q, id) == <<[kind |-> "finish", id |-> id]>> \o q
FinishedAfter(q, id) == Append(q, [kind |-> "finish", id |-> id])

\* mutant: finalizes whatever recordingIdRef holds.
StoppedUnchecked(pg, R) ==
  IF R \cap pg.running = {} THEN pg
  ELSE [pg EXCEPT !.running = @ \ R, !.id = None, !.ref = None,
                  !.queue = FinishedAfter(@, pg.id)]

\* The stop events of the recorders R: the first finishes the recording that
\* recordingIdRef names, the others find none.
Stopped(pg, R) ==
  IF R \cap pg.running = {} THEN pg
  ELSE [pg EXCEPT !.running = @ \ R, !.id = None, !.ref = None,
                  !.queue = IF pg.id = None THEN @
                            ELSE FinishedAfter(@, pg.id)]

PressStop(p) ==
  /\ page[p].ref \in page[p].running
  /\ page' = [page EXCEPT ![p] = Stopped(@, {@.ref})]
  /\ UNCHANGED <<emitted, store, uploads, spoilt, torn>>

\* endLive, sign-out or the end of the tracks stops every recorder.
StreamEnds(p) ==
  /\ page[p].streaming
  /\ page' = [page EXCEPT ![p] =
                [Stopped(@, @.running) EXCEPT !.streaming = FALSE]]
  /\ UNCHANGED <<emitted, store, uploads, spoilt, torn>>

\* PUT /recordings/:id/chunk passes requireAuth and the server drains the body.
SendChunk(p) ==
  /\ Waiting(p) /\ ~page[p].sent /\ account
  /\ page' = [page EXCEPT ![p].sent = TRUE]
  /\ uploads' = uploads \cup
       {[id |-> NextId(p), page |-> p, waited |-> TRUE]}
  /\ UNCHANGED <<emitted, store, spoilt, torn>>

\* The upload fails at the client, which drops the chunk; what the server is
\* draining is aborted or, behind a proxy, arrives yet (bound: one a tab).
Late(p) == {u \in uploads : u.page = p /\ ~u.waited}
UploadFails(p) ==
  /\ Waiting(p)
  /\ LET u == [id |-> NextId(p), page |-> p, waited |-> TRUE]
     IN \/ uploads' = uploads \ {u}
        \/ /\ u \in uploads /\ Late(p) = {}
           /\ uploads' = (uploads \ {u}) \cup {[u EXCEPT !.waited = FALSE]}
  /\ spoilt' = spoilt \cup {NextId(p)}
  /\ page' = [page EXCEPT ![p] = Popped(p)]
  /\ UNCHANGED <<emitted, store, torn>>

\* The tab closes, reloads or crashes.
CloseTab(p) ==
  /\ page[p] # NewPage /\ Late(p) = {}
  /\ page' = [page EXCEPT ![p] = NewPage]
  /\ spoilt' = spoilt \cup Involved(p)
  /\ LET mine == {u \in uploads : u.page = p}
     IN uploads' \in {uploads \ mine,
                      (uploads \ mine) \cup {[u EXCEPT !.waited = FALSE] : u \in mine}}
  /\ UNCHANGED <<emitted, store, torn>>

-----------------------------------------------------------------------------
(* The handlers *)

\* The process dies while it serves R: what is being drained is lost, and the
\* page whose request it was sees it fail.
Served(S) == [p \in Pages |-> IF p \in S THEN Popped(p) ELSE page[p]]
Dies(R, S) ==
  /\ torn' = torn \cup R
  /\ spoilt' = spoilt \cup {u.id : u \in uploads}
  /\ uploads' = {}
  /\ page' = Served(S \cup {u.page : u \in {v \in uploads : v.waited}})
  /\ UNCHANGED <<emitted, account>>

Restart == Dies({}, {}) /\ UNCHANGED <<row, part, replay>>

\* The body is complete: row, status and limits are looked up, the file is
\* appended to and the size is counted.
PutChunk(u) ==
  LET r == u.id IN
  /\ u \in uploads
  /\ IF Appendable(r) /\ Fits(r)
     THEN /\ part' = [part EXCEPT ![r] = Bytes(@) + 1]
          /\ row' = [row EXCEPT ![r].size = @ + 1]
          /\ UNCHANGED spoilt
     ELSE /\ spoilt' = IF Appendable(r) THEN spoilt \cup {r} ELSE spoilt
          /\ UNCHANGED <<row, part>>
  /\ uploads' = uploads \ {u}
  /\ page' = Served(IF u.waited THEN {u.page} ELSE {})
  /\ UNCHANGED <<emitted, account, replay, torn>>

PutChunkDies(u) ==
  /\ u \in uploads /\ Appendable(u.id) /\ Fits(u.id)
  /\ part' = [part EXCEPT ![u.id] = Bytes(@) + 1]
  /\ Dies({u.id}, {})
  /\ UNCHANGED <<row, replay>>

\* POST /recordings/:id/finalize: .part becomes .webm, an empty one without it.
Renamed(r) ==
  /\ replay' = [replay EXCEPT ![r] = Bytes(part[r])]
  /\ part' = [part EXCEPT ![r] = None]

Completed(r) == row' = [row EXCEPT ![r].status = "complete", ![r].age = 0]

FinalizeRecording(p) ==
  LET r == NextId(p) IN
  /\ Finishing(p) /\ account
  /\ IF Unfinished(r)
     THEN Renamed(r) /\ Completed(r)
     ELSE UNCHANGED <<row, part, replay>>
  /\ page' = Served({p})
  /\ UNCHANGED <<emitted, account, uploads, spoilt, torn>>

FinalizeDies(p) ==
  /\ Finishing(p) /\ account /\ Unfinished(NextId(p))
  /\ Renamed(NextId(p))
  /\ Dies({NextId(p)}, {p})
  /\ UNCHANGED row

FinalizeFails(p) ==
  /\ Finishing(p)
  /\ page' = Served({p})
  /\ UNCHANGED <<emitted, store, uploads, spoilt, torn>>

\* DELETE /recordings/:id from the dashboard.
DeleteRecording(r) ==
  /\ account /\ HasRow(r)
  /\ row' = RowsRemoved({r})
  /\ FilesRemoved({r})
  /\ UNCHANGED <<client, account, uploads, spoilt, torn>>

\* The row goes first: the process dies before the files, or one of them, went.
RemoveDies(r) ==
  /\ HasRow(r) /\ (account \/ Orphaned(r))
  /\ row' = RowsRemoved({r})
  /\ part' \in {part, [part EXCEPT ![r] = None]}
  /\ Dies({r}, {})
  /\ UNCHANGED replay

\* deleteAllForUser, before the account goes.
DeleteAccount ==
  /\ account
  /\ account' = FALSE
  /\ LET mine == {r \in Recordings : HasRow(r)}
     IN row' = RowsRemoved(mine) /\ FilesRemoved(mine)
  /\ UNCHANGED <<client, uploads, spoilt, torn>>

\* The timer and the boot: reapOrphaned, then purgeEndedOlderThan, which drops
\* the rows B, whose broadcasts are past the retention, and leaves their files.
Housekeeping(B) ==
  LET orphans == {r \in Recordings : Orphaned(r)} IN
  /\ \A r \in B : HasRow(r) /\ ~Orphaned(r)
  /\ row' = RowsRemoved(orphans \cup B)
  /\ FilesRemoved(orphans)
  /\ torn' = torn \cup B
  /\ UNCHANGED <<client, account, uploads, spoilt>>

Tick ==
  /\ row' = [r \in Recordings |->
       IF Unfinished(r) /\ row[r].age <= OrphanAge
       THEN [row[r] EXCEPT !.age = @ + 1] ELSE row[r]]
  /\ UNCHANGED <<account, part, replay, client, uploads, spoilt, torn>>

Next ==
  \/ \E p \in Pages :
       \/ StreamStarts(p) \/ StreamEnds(p) \/ PressRecord(p) \/ PressStop(p)
       \/ CloseTab(p) \/ CreateFails(p) \/ SendChunk(p) \/ UploadFails(p)
       \/ FinalizeRecording(p) \/ FinalizeDies(p) \/ FinalizeFails(p)
       \/ \E r \in Recordings : CreateRecording(p, r) \/ EmitChunk(p, r)
  \/ \E u \in uploads : PutChunk(u) \/ PutChunkDies(u)
  \/ \E r \in Recordings : DeleteRecording(r) \/ RemoveDies(r)
  \/ \E B \in SUBSET Recordings : Housekeeping(B)
  \/ DeleteAccount \/ Restart \/ Tick

Spec == Init /\ [][Next]_vars

\* setInterval(housekeeping) and the clock; retention is off by default and
\* nobody else owes anything.
FairSpec == Spec /\ WF_vars(Tick) /\ WF_vars(Housekeeping({}))

-----------------------------------------------------------------------------
(* Properties *)

TypeOK ==
  /\ account \in BOOLEAN
  /\ row \in [Recordings -> Row]
  /\ part \in [Recordings -> Nat \cup {None}]
  /\ replay \in [Recordings -> Nat \cup {None}]
  /\ uploads \subseteq Upload
  /\ page \in [Pages -> Page]
  /\ emitted \in [Recordings -> 0..MaxEmitted]
  /\ spoilt \subseteq Recordings /\ torn \subseteq Recordings

\* Unless the process died in one of its handlers, a row and its files tell the
\* same story: while it is made all its bytes are in the .part file, afterwards
\* all of them are in the replay, the size it is charged for is theirs, and no
\* file is left without a row, whatever deletes the row and however late a chunk.
RowMatchesFiles ==
  \A r \in Recordings \ torn :
    /\ Unfinished(r) => replay[r] = None /\ Bytes(part[r]) = row[r].size
    /\ row[r].status = "complete" => part[r] = None /\ replay[r] = row[r].size
    /\ part[r] # None \/ replay[r] # None => HasRow(r)

\* The bytes on the disk keep to the quota of the account and to the limit of a
\* recording, though uploads are checked one by one while others are drained.
DiskWithinQuota ==
  torn = {} =>
    LET OnDisk(r) == Bytes(part[r]) + Bytes(replay[r])
    IN /\ MapThenSumSet(OnDisk, Recordings) <= MaxPerUser
       /\ \A r \in Recordings : OnDisk(r) <= MaxBytes

\* The disk is accounted for: by the rows, and within the quota they are
\* charged to.
DiskIsAccounted == RowMatchesFiles /\ DiskWithinQuota

\* A finished recording has every chunk its recorder emitted, the last one too,
\* unless an upload of it failed or was refused for its size.
ReplayIsWhole ==
  \A r \in Recordings \ (spoilt \cup torn) :
    row[r].status = "complete" => replay[r] = emitted[r]

\* A recording that nobody finishes does not hold the quota for ever.
UnfinishedIsReclaimed ==
  \A r \in Recordings : Unfinished(r) ~> ~Unfinished(r)
=============================================================================
