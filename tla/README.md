# PeerCast in TLA+

PeerCast lets an account broadcast a screen or a camera from its browser to
viewers over WebRTC. The server never sees media: it keeps accounts, sessions
and a table of broadcasts, resolves a broadcaster's handle to the PeerJS id of
the host, issues short-lived tickets for gated broadcasts, stores replays and
tells followers. This directory holds TLA+ models of the parts where
interleavings, crashes and lost messages matter, TLC runs over small instances,
and TLAPS proofs for every instance.

Paths below are relative to the repository; `server/src`, `web/src` and
`extension` are under `src/packages/`.

## Inventory

| Part | State | Operations | Talks to |
| --- | --- | --- | --- |
| Broadcast store (`server/src/repos/broadcasts.ts`, `routes/broadcasts.ts`) | `broadcasts` rows: status, peer id, gate, heartbeat, audience | start (awaits bcrypt for an access code), stats, end, lists, takedown, reap, purge | hosts, viewers, admins |
| Resolution and tickets (`routes/sessions.ts`, `lib/auth.ts`) | `tickets` | resolve (awaits bcrypt for a code), issue, verify, expire | viewers, hosts |
| Sessions (`lib/auth.ts`, `routes/auth.ts`, `middleware/auth.ts`) | `refresh_tokens`, `token_version`, the cookie of a browser | login, register, refresh with rotation and a grace window, logout, revoke | every client |
| Login lockout (`repos/users.ts`, `routes/auth.ts`) | `failed_logins`, its window, `locked_until` | login (awaits bcrypt), record, reset | sessions |
| Signaling (`signaling/peerServer.ts`, `lib/auth.ts`, `lib/redis.ts`) | single-use signaling tickets, in the process or in Redis; named sockets | mint, upgrade, consume, evict the banned | PeerJS |
| Registration, invites, mail tokens (`routes/{auth,email,admin}.ts`, `repos/{invites,emailTokens}.ts`) | `invites`, three token tables | register (awaits bcrypt and two imports), verify, change address, reset | accounts, mail |
| Accounts (`repos/users.ts`, `routes/users.ts`) | `users` | password change and reset, address change, deletion | sessions, store |
| Moderation (`routes/{admin,reports}.ts`) | `banned`, roles, reports, audit log | ban, unban, delete, takedown | accounts, store |
| Recordings (`repos/recordings.ts`, `routes/recordings.ts`) | rows and `.part`/`.webm` files | create, chunk, finalize, delete, reap, purge | broadcast page |
| Follows and push (`repos/notifications.ts`, `routes/push.ts`, both `lib/push.ts`, `SettingsPage.tsx`) | `follows`, `push_subscriptions`, the subscription of a browser | follow, toggle, alert, prune | push service |
| Housekeeping (`index.ts`) | none of its own | sweep every 5 minutes and at boot | all tables |
| Broadcast page (`web/src/pages/BroadcastPage.tsx`, `lib/broadcastService.ts`, `store/broadcastSlice.ts`) | service singleton, slice, refs of each mount | goLive (five awaits), startPreview, endLive, native stop, recorder | store, host |
| Host (`web/src/lib/peer.ts`) | calls, data connections, tiers, queued caps, names, mutes | verify and admit, ratchet, switch camera, relay chat, mute, kick, stop | viewers, store |
| Viewer and embed pages (`ViewerPage.tsx`, `EmbedPage.tsx`) | phase, resolves in flight, retry timer and window, handle | resolve, connect, reconnect, retry, navigate | store, host |
| Web store (`web/src/store/*`) | access token, single-flight refresh | retry after 401, tear down a lost session | sessions, service |
| Extension (`extension/{background,offscreen,popup}.js`) | session in the service worker, stream and peer in the offscreen document | start, stop, capture ended, sign out, row at the server | store, viewers |
| Shared types, HTTP shell, mail, avatars, TURN, pages of forms | nothing that another part relies on | | |

What is hard here is concurrency without threads. better-sqlite3 is synchronous,
so a handler is atomic between its awaits, and everything interesting happens at
the awaits there are: bcrypt (hundreds of milliseconds) in start, resolve,
login, password change, reset, deletion and registration; Redis; every request,
prompt and message between contexts in the browser. Around them come lost and
reordered responses, hosts that die silently, a process that dies between a file
and its row, restarts, and accounts that are banned, deleted and registered anew
under handlers that have read them already. `PROJECT.json` lists each hazard at
its line with the properties that cover it.

What makes each part correct: the store has at most one live row per account,
reachable exactly while it is live, and forgets hosts that fall silent; a ticket
opens only the broadcast it was paid for; a session rests on the present password
and no race between tabs that answers in time signs anybody out; guessing is bounded; an address is
proved before it is trusted and an invite is not overspent; rows and files of a
replay tell the same story and nothing is lost of it; what a page, a popup or a
toggle says is so; nothing is captured that the user has stopped; what is waited
for comes to an end.

## Modules

| Module | Models | Proofs |
| --- | --- | --- |
| `Broadcasts` | store, accounts' status, resolution, tickets, housekeeping, restart | `BroadcastsProofs` |
| `LiveDirectory` | abstract: what a lookup may rely on | refinement in `BroadcastsProofs` |
| `AuthSessions` | one handle's refresh and access tokens, tabs with one cookie, credential changes | `AuthSessionsProofs` |
| `SignIn` | overlapping logins and the lockout; signaling tickets and the upgrade handler | `AccountProofs` |
| `Registration` | registering, one invite, and the links of three token tables | `AccountProofs` |
| `Notifications` | the server's follows and subscriptions, and the alerts that join them | `NotificationsProofs` |
| `PushToggle` | the toggle of the settings page in the tabs of a browser, its one subscription, its rows | `NotificationsProofs` |
| `Recordings` | rows and files of replays, recorders and upload chains of pages, crashes | `RecordingsProofs` |
| `GoLive` | one tab: `startPreview`, `goLive`, `endLive`, service, slice, refs, session end, its row at the server | `BroadcasterProofs` |
| `Host` | `BroadcastHost`: links under verification, tiers and caps, chat, kick, stop | `BroadcasterProofs` |
| `Viewer` | the page that watches, and its embed: resolves, dialing, reconnecting | `ViewerProofs` |
| `Extension` | service worker, popup and offscreen document, and the row of the cast | `ExtensionProofs` |
| `MC*` | values and symmetry sets for TLC | |

In every module an action is the code between two awaits. A handler that waits is
a record in a variable: `starting` or `resolving` in `Broadcasts`, `call` in
`AuthSessions` and `PushToggle`, `login` and `sock` in `SignIn`, `calls` in
`Registration`, `uploads` and `page[p].queue` in `Recordings`, `attempt`,
`preview` and `refs[p].ending` in `GoLive`, a link that is `"checking"` in `Host`,
`flights` in `Viewer`, `cast`, `stopping`, `post` and `ending` in `Extension`.
What the code reads before the await and uses after it is a field of the record;
what it reads again is not. Names follow the code: `Listed` is `listLive`,
`Cleanup` is `broadcastService.cleanup`, `TicketTaken` is `consumeSignalingTicket`. A
definition marked `mutant` is never used by the specification; it is a plausible
bug that breaks a property, kept to show that the property can fail. A variable
marked `observer` records what has happened for a property to speak of, and no
guard reads it.

Data are abstracted to what a property tells apart. A row's id is also the peer
id of its host (both are random and fresh). A password is its number in the
handle's history, an *epoch*; a mail token is the mailbox its link was sent to.
Timestamps are ages that stop growing one past the threshold they are compared
with, or flags that say on which side of a deadline the clock is. A chunk of a
recording is the unit of size. A cap on a sender is the tier it stands for.
Messages of the extension are delivered in order.

### How the modules compose

The server's modules share accounts and are separate where their other state is:
`AuthSessions` gives the guard `account[u] = "active"` of `Broadcasts` its detail
(`requireAuth` reads the row afresh on every request), `SignIn` refines the moment
before a session exists, and `Registration` the account's own beginning; what a
reset does to sessions is in `AuthSessions`, what sends its link in
`Registration`. Each carries as environment what the others may do to it: bans,
deletions and registrations anew are actions of those they matter to.
`Notifications` takes any endpoint from any account; `PushToggle` says which ones a
browser sends, and when. Each has the table of subscriptions as a variable of its own.

On the client side `GoLive` carries the one row its tab may own and the reaper
that ends it, and `Extension` does so for its casts; `Broadcasts` is the full
store with every host and viewer as environment. `Recordings` runs the recorder
of the page against the store's files, with the awaits of both. `Host` begins
where `GoLive` says the host is open. `Viewer` has a host that comes, goes and
goes silently as its environment.

The abstract `LiveDirectory` is what both sides rely on: each account has at most
one current broadcast, an identifier is current once, and goes off for good.
`Broadcasts` is shown to implement it with `current[u] = the live row of u`,
`spent = every id ever inserted`, by TLC (`ImplementsDirectory`) and by proof.

## Runs

Passing runs. "States" are distinct states.

| Run | Instance | States | Shows |
| --- | --- | --- | --- |
| `broadcasts_safety` | 2 accounts, 2 rows, 2 codes, at most 2 lookups and tickets outstanding, thresholds of one tick | 642 606 | one live row per account, what is listed resolves, tickets open what was proved, banned stays dark, refinement of `LiveDirectory` |
| `broadcasts_liveness` | 1 account, 2 rows | 132 159 | silent rows end, a lasting ban goes dark, tickets of an ended broadcast drain |
| `auth_sessions` | 2 tabs, 3 tokens and 2 families at a time, grace 0, lifetime 1 tick, one change of password or registration anew | 2.30 million | racing tabs keep a cookie that the next refresh accepts, sessions stay proved with the present password |
| `go_live` | 2 attempts, 1 preview, 2 mounts | 1 057 640 | the tab's status is true, its row is accounted for, it settles |
| `recordings` | 2 recordings, 1 tab, a quota and a limit of one chunk, one chunk emitted, 2 unanswered presses, orphaned after the first tick | 72 332 | disk and rows agree and keep the quota, an undisturbed replay is whole, an unfinished one is reclaimed |
| `extension` | 2 casts, 1 viewer | 88 516 | the popup tells the truth, stopping releases and starting settles, rows drain |
| `host` | 2 viewers of two links, 2 tiers, ratchet after 2 samples | 611 235 | roster, caps and mutes are true, a lasting overload demotes everyone |
| `viewer` | 2 broadcasters, 2 resolves in flight, 1 unknown timer | 67 842 | what is shown is backed, polling ends |
| `registration` | 2 handles (one admin), 2 mailboxes, 2 suspended handlers, an invite of 2 uses | 618 691 | addresses are unique and proved, the invite holds |
| `sign_in` | 1 account, 2 logins, lock after 2, 1 ticket, 2 sockets | 500 520 | guesses are bounded, a ticket names one socket |
| `notifications` | tables: 2 accounts, 2 endpoints, 2 alerts on their way; browser: 2 accounts, 2 tabs, 2 endpoints, 2 toggles under way | 1 012 884 | alerts go to who asked and to nobody else; a toggle at rest tells the truth |

Why the bounds are enough. Every hazard listed takes two of something: a row and its
replacement, a ticket and another code, two tabs with one cookie, an attempt and the
one that overtakes it, a recording and the one that takes its refs, a resolve and the
one that comes back late, a login and one that overlaps it, an endpoint and the one
after it, a toggle and one of another mount or tab. Thresholds of one tick, quotas of
one chunk, two tiers and a lock after two failures already separate below, at and
past. Three tokens are what two tabs that race with one cookie produce. Where a
property does not depend on the bound, the proofs below remove it.

Some properties exempt what the code leaves open, by an observer: `overtaken` in
`GoLive` (another press, leaving the page or the end of the session while a call
waits, or a preview reused after it was stopped), `raced` in `Extension` (a START
that finds another one before its capture, or a capture that ends in the milliseconds
before its peer; until the document is closed), `late` and `unset` in `Host` (a link
that closed while it was being verified; a cap that the browser refused), `torn` and
`spoilt` in `Recordings` (the process died in a handler; an upload failed), `late` in
`AuthSessions` (a response with a cookie was lost, or a cookie reached the server
after its row had expired or the grace window of its rotation had passed), `stale`
and `spoilt` in `PushToggle` (the subscription changed under a mounted page, or its
own toggle failed half-way; the latest POST of the subscription failed). Others say
what was meant: `ended` in `AuthSessions` (tokens whose rows went on purpose),
`maker` in `PushToggle` (whose toggle made the subscription), `asked` and `wanted` in
`Notifications`. Everything they name is reachable in the runs, and the liveness
properties `StatusSettles`, `StopReleases`, `RowsDrain` and `UnfinishedIsReclaimed`
are checked over all of it.

Deadlock is checked except in `host` (a stopped host whose links are gone), `viewer` (a page
that was left) and `registration` (links and handlers
used up under the bound); elsewhere time can pass or a session begin.

The run `auth_password_change` expects a violation: a sign-in with the old
password that waits for bcrypt while the password is changed gets a session that
the change does not revoke, though the comment above the change says that every
session is signed out. `SessionsStayCurrent` is what holds instead.

`notifications` runs two modules that share no variable, `Notifications` and
`PushToggle`: a behaviour is one of the first or one of the second, as an
interleaving of the two would show nothing more.

What `ShownIsBacked` claims of a page that says "Connecting…" is only that its call
has neither streamed nor ended. A call that the host declines is closed before it is
answered (`peer.ts:614-616`) and a dial has no timeout, so such a page stays there
until it is left, although the extension says that it tells a viewer it refuses
(`offscreen.js:258-260`): `connectAsViewer` takes no connection from the host.

## Fairness

Nothing is assumed of users, viewers or the network: a host may fall silent, a
request may be lost, nobody needs to press anything. What is assumed is what
timers and promises guarantee.

* `Broadcasts`: the clock, the housekeeping (`setInterval`), and the resumption
  of a queued bcrypt job.
* `GoLive`: prompts and requests are answered or fail, and the 15 s timer of
  `goLive` runs out (`Promise.race`). That a request is answered *well* is never
  assumed: every awaited step may fail instead.
* `Recordings`: the clock and the housekeeping.
* `Extension`: the capture settles or fails, the 4 s timer of `stopBroadcast` and
  the 20 s timer of `waitForOpen` run out, and the reaper takes rows without
  heartbeats.
* `Host`: the sampling timer, and promises of `setParameters` that settle.
* `Viewer`: requests are answered, timers fire, and the reconnect window ends. Nothing
  is assumed of a dial: it has no timeout.
* `PushToggle` and `Notifications` have safety properties only, and no fairness.

## Proofs

TLAPS proves every invariant and action property of the passing runs, and some that
no run checks (`PeerIdWhileLive`, `NoOrphanRows`, `AudienceIsRecorded`,
`TokensGoWithAccount`, `BanHolds`, `RotationTraced`), for any values of the constants
that satisfy the module's assumption: thresholds and bounds are numbers, the special
values are not members of the sets, and sets whose size is counted or summed over
(logins, suspended registrations, viewers, recordings) are finite.
Each component is treated alike: an inductive invariant `IInv`, `InitHolds`, one
lemma for each action or group of actions with the same effect, `StepHolds`, and
theorems that follow from `Invariant == Spec => []IInv`. TLC checked the
inductive invariants of `GoLive` and `Recordings` on the runs' instances, and the
latter with two tabs as well, before they were proved. `TypeCorrect`
is proved of all eleven components.

Three modules treat two components each, one after the other: `AccountProofs` has
`Registration` and `SignIn`, `BroadcasterProofs` has `Host` and `GoLive`,
`NotificationsProofs` has `Notifications` and `PushToggle`. The two share no
variable, and the names they would both use are qualified in `SignIn`
(`SignInSpec`, `SignInTypeOK`, `accounts`, `Null`), `GoLive` (`GoLiveSpec`,
`GoLiveTypeOK`) and `PushToggle` (`PushSpec`, `PushTypeOK`, `members`), as are their
invariants (`HostIInv`, `GoLiveIInv`, `PushInv`, ...). A theorem about one uses the
assumption of that one only.

`BroadcastsProofs`. `IInv` conjoins the invariants with two facts about what is
suspended. `PendingFresh`: the id of a suspended start is unused, and no two
suspended starts share one; without it a resuming start could overwrite a live
row. `ProvedInv`: a ticket, or a lookup in bcrypt.compare, names a peer whose row
had the access it was granted for, and a row's gate and code never change while
its id is in use. `AtMostOneLive` needs `StartTx` to end the account's rows in the
same transaction. `NoOrphanRows` needs the foreign key that makes a resumed start
fail. `StoreImplementsDirectory` proves the refinement: starts map to `GoOnAir`;
ends, bans, deletions and sweeps to `GoOffAir` of the accounts concerned;
everything else to a stutter.

`AuthSessionsProofs` reduces its actions to a few kinds of step. To the table: a
step leaves a `Remnant`, rows that were there and are at most older or spent, or
`Issues` one row with a fresh token (`TypeCorrect`, `TokensGoWithAccount`,
`BanHolds`, `RotationTraced`). To the tokens of tabs: each was there before, is
empty, or is granted on a row or a sign-in; `PasswordChangeRevokes` follows with
`NothingAhead`, that no session is proved by a password the account does not have
yet. To the cookie: `CookieInv` says a cookie on its way belongs to one tab and is
unspent, that when the one in the jar is spent an answer is on its way, and that
the cookies in the jar and on their way are known: each has its row or was ended
on purpose (`CookieKnown`). A lost response breaks the second part, and a cookie
that comes too late the third, as its whole family goes; hence `~late`. The
theorem does not depend on the length of the grace window.

`AccountProofs`, on signing in. `GuessesBounded` is not inductive: a lock may fall
while logins wait that looked at the row before. `LockHolds` adds what they may still
do: under a lock, the guesses and the logins that wait *together* stay below the
threshold plus the logins there can be, and none begins; without one, the count of
the row covers the guesses. `TicketIsSpent` (in the process, the ticket of a named
socket is spent) gives `TicketsNameOneSocket`.

`AccountProofs`, on registration. `LinkIsOwn` says a verification link goes to the
address of the account unless that has been verified since; it is why replacing,
spending and deleting tokens in the same statement as the address changes matters.
For the invite, accounts made and registrations suspended after the invite was spent
are counted together.

`NotificationsProofs`, on alerts. The table of follows is what was asked for, and a
row names an account exactly when that one wants alerts there (`RowsWanted`), which
makes the taker of an alert unique; together they give `AlertsAreAskedFor`. That a
deletion cascades to both tables is what keeps the next account of the name apart.

`NotificationsProofs`, on the toggle. `PushInv` has `AliveIsHeld` (the one endpoint
that delivers is the subscription of the browser), `OneToggle` (a mount has one
toggle under way, whatever others are), `PagesFit` (what each await of a toggle may
find, for a page under which nothing has changed: the browser subscribes before the
POST and unsubscribes before the DELETE) and `MakerServed` (the account that made the
subscription has its row, or its POST is on its way). The last needs that nobody
else's POST or DELETE changes the row.

`ViewerProofs`. `ShownIsBacked` needs to know why a resolve that comes back may clear
`resolvingRef`: `ResolvingIsFlying` says it is set only while one is under way,
`ConnectingDials` that a connecting page has an unanswered call, and
`ResolvingIsBacked` is stated without the handle, so that losing a call cannot leave
a spinner alone.

`ExtensionProofs`. `OneAtATime` (unless two starts raced, one attempt is in the
document, its stream is the only one whose tracks run, and nothing is left of an
earlier one while it captures) and `StartHolds` (an attempt that no stop has met
still has what it captured) carry `ShownIsTrue` across the awaits of `handleStart`.

`BroadcasterProofs`, on the host. `CapsFollow` speaks of the last entry of the queue
of each viewer, which is the tier's cap whether admission, the ratchet or a camera
switch put it there; senders agree once the queue is empty. `MutesFollow` says by how
much the page's copy of the mutes may differ from the host's: by viewers whose data
connection is gone for good. It rests on a peer id being used for one attempt.

`BroadcasterProofs`, on going live. `StatusIsTrue` says what holds when the tab is
"live" or settled; to be inductive it has to say what each of the five awaits of
`goLive` may find. `Always` holds whatever overtakes what: where a stream comes from
(`StreamsKnown`), that a mount knows ids only once it is used (`MountsUsed`), that a
row was made by an attempt that got that far (`RowIsServed`). `Undisturbed` holds
until `overtaken`. `AttemptsSound` is its core: the one call under way runs in the
mounted page, and either `liveAbortedRef` says it was stopped, and then nothing runs
that it would go live with, or it holds exactly what it has opened so far, so that
the look at the ref after the next await decides rightly. `EndingIsDark` says the
same of `endLive` while it waits for its request, `IdIsCurrent` that the mounted page
names a broadcast that is up, which is what makes a press of "End broadcast" end the
right one, and `LiveIsUp` that the mount that went live and was left will be told.
`RowsAccounted` needs all of these: a row could be forgotten by a stop at any await.

`RecordingsProofs` has two halves. On the server, `ServerInv` says of the rows what
`DiskIsAccounted` says of the files: the *sizes charged* keep to `maxBytesPerUser`
and `maxBytesPerRecording`, and an id without a row is charged for nothing. As the
row is written after the file, `RowMatchesFiles` turns the one into the other except
where the process died between (`torn`). The quota is a sum over a set of any size.
The library's sum is a fold, and no induction theorem can be instantiated for it;
but the fold over the subsets of a finite set is a *function* that satisfies a
first-order equation (`IsSum`). That such a function exists, is unique, changes by
the difference when one summand does, and grows with its summands is shown by a
minimal counterexample (`SubsetInduction`, from `WFMin` over cardinalities), with
the set of good subsets as a set and not as a predicate. `ChargedWithinQuota` then
needs only what an upload adds to one row.

On the side of the tab, `ReplayIsWhole` relates a finished row to a counter in a
recorder that is long gone. `Lossless` says where the chunks are meanwhile: what the
recorder has emitted is in the `.part` file or in the queue of its tab. For that to
survive a step, a recording has one tab (`OneHome`), the recorder named by
`recordingIdRef` is the one in `recorderRef` (`RefsAgree`), nothing is queued after
the request that finishes (`FinishIsLast`), a complete recording has stopped
(`CompleteIsOver`), and a request being drained is for the head of the queue that
waits for it, or of a recording that has met a failure (`UploadsFit`): so a chunk
that enters the file is the one that leaves the queue. Chunks in a queue are counted
by cardinality, and `Tail` and `Append` are followed by a bijection of the places.
The theorem has any number of tabs, recordings and chunks.

Only model-checked: liveness (`SilentRowsEnd`, `BannedGoesDark`, `AccessDrains`,
`StatusSettles`, `UnfinishedIsReclaimed`, `StopReleases`, `RowsDrain`,
`OverloadDemotes`, `PollingEnds`), since fairness is out of the prover's reach.

## What the code does that a reader may not expect

The models follow the code, and these behaviours are in them. They disagree with
a comment or with what a user would expect, and no passing property covers them.

* **Going live.** A preview reused after its tracks were stopped goes live without
  media (`BroadcastPage.tsx:269`). A preview whose prompt is open when goLive
  captures is dropped with its tracks running (`:294`); so is one whose page is left.
  Signing out while `goLive` waits (`Layout.tsx:149`), or a second press that resets
  `liveAbortedRef` (`:254`), lets a stopped call go live, contrary to the comment at
  `:99-105`. None of these wrong outcomes is forbidden by a property: `StatusIsTrue`
  exempts them (`overtaken`). After leaving the page and coming back "End broadcast"
  has lost the id: the row stays live until the reaper (`:525`). Deleting the account
  while live leaves camera and host running (`SettingsPage.tsx:558`). Ending during
  the camera-switch prompt leaves the new track running (`:141-155`).
* **Store.** A start that waits for bcrypt while its account is banned puts a
  banned account on the air; `BannedGoesDark` bounds it. Ended rows keep their
  `stat_*` columns when a new start replaces them, though `db/index.ts:58` says
  they are cleared.
* **Sessions.** Access tokens of a deleted account are accepted again when the
  handle is registered anew, as `token_version` restarts at 0 (`SessionsStayCurrent`
  excludes it). A tab whose refresh reaches the server after the grace window of
  another tab's rotation revokes the family under that tab: both are signed out. An
  account banned while its sign-in is in bcrypt gets a session, of no use while the
  ban lasts. The web client never calls `/auth/logout`.
* **Lockout and signaling.** A right password that was waiting clears a lock; one
  more failure after a lock has run out locks again while its window lasts; a
  reset does not clear the lockout. In Redis a get and then a del may name two
  sockets with one ticket, and a failing Redis leaves the socket unchecked. The
  comment at `repos/users.ts:267` gives other figures than the constants.
* **Registration.** The loser of two concurrent registrations of a handle has
  spent a use of its invite. A reset link to the old address survives a change of
  address. A change of address suspended in bcrypt while the account is deleted
  and registered anew stores its token for the new account.
* **Recordings.** The reaper goes by `created_at`, so a long recording is collected
  while its chunks arrive; `purgeEndedOlderThan` removes rows and leaves files.
* **Notifications.** The toggle reads the browser's subscription and not the
  server's row: it shows "on" to an account without one, and a failed request leaves
  the two apart. Such an account that switches it off unsubscribes the browser "from
  all push" (`push.ts:54`): the first account's delivery ends, its own DELETE removes
  nothing, and the row stays until an alert finds the endpoint gone. `notifBusy` is
  of one mount: toggles of other mounts and tabs overlap, and a mounted page does not
  learn what they do. An account deleted and registered anew while
  `notifyFollowersLive` imports is announced to its own followers for a broadcast of
  the old one. Follows survive a ban and hiding, and signing out leaves the
  subscription.
* **Host.** A kick or a close during verification leaves an entry behind. Closing
  only the data connection removes the name. A viewer admitted while
  `replaceVideoTrack` awaits keeps the old, stopped track. `kickPeer` does not
  consume the ticket its comment speaks of (`peer.ts:781-786`), and the page's
  copy of the mutes keeps a kicked peer.
* **Viewer.** A late resolve of the old username survives a change of the route.
  Retry does not clear an armed timer. A stale row found after a drop ends the
  automatic retries with an error. The embed forgets timers it replaces. A call that
  the host declines, or never answers, leaves the page at "Connecting…".
* **Extension.** Statistics of a cast may keep alive a row of an earlier one whose
  id was stored late. A service worker terminated in the middle of a start leaves
  "starting". START while live shows "error", without a Stop button. A second START
  before the first has captured overwrites `stream` and `peer` (`offscreen.js:451`):
  the forgotten Peer is not destroyed, still opens, shows the session live and posts
  a row; once nothing is known to the document, `handleCaptureEnded` returns at once
  (`:396`) and only a stop ends the statistics that keep that row alive.
* **Elsewhere.** `GET /users/me/export` (`routes/users.ts:196`) selects
  `followed_lc` and `follower_lc`, which the schema does not have. Making a banned
  user an admin is not refused, and reports can be resolved twice.

## Not modelled, and why

* Roles, reports, metrics and the audit log store and list rows; only bans,
  deletions and takedowns, which other parts rely on, are modelled.
* What is said in the chat, and the figures a host and the extension sample and
  show: no other state depends on them. The viewer's side of the chat.
* The termination of an idle service worker of the extension: the browser decides
  when, and the session then waits for the next message.
* Rate limits, CSRF, configuration, error mapping: stateless filters and a library.
* Mail delivery, avatars and TURN: pure I/O, or a credential computed from the clock.
* Dashboard, admin and landing pages: forms and rendering over operations that are
  actions of the server's modules. Types and validation of the shared package.
* PeerJS, WebRTC, the push service and SQLite are external; the modules take from
  them what the code relies on: links open, close and fail in any order; a
  subscription delivers until it is given up; a statement is atomic and durable.

What would come next: the termination of the service worker as a crash in
`Extension`, and a composition of `Host` and `Viewer` over lossy links.
