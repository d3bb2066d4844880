------------------------------ MODULE Broadcasts ------------------------------
(***************************************************************************)
(* The server's broadcast store, the account state its guards read, and    *)
(* the viewer tickets of the rendezvous                                    *)
(* (repos/broadcasts.ts, routes/{broadcasts,sessions,admin,users}.ts,      *)
(* lib/auth.ts tickets, index.ts housekeeping).                            *)
(*                                                                         *)
(* better-sqlite3 is synchronous, so the code between two awaits is one    *)
(* action.  Exactly two handlers are suspended in the middle: starting a   *)
(* broadcast that has an access code waits for bcrypt.hash, resolving a    *)
(* `code` broadcast waits for bcrypt.compare.  What such a handler carries *)
(* over its await is a record in `starting` or `resolving`.                *)
(*                                                                         *)
(* Timestamps are kept as ages that stop growing one past the threshold    *)
(* they are compared with, so time never ends and the state stays finite.  *)
(***************************************************************************)
EXTENDS Integers, FiniteSets

CONSTANTS
  Users,        \* handles of (non-admin) accounts
  Ids,          \* broadcast ids; also the fresh PeerJS id each host opens
  Codes,        \* access codes a broadcaster may choose
  Anon,         \* a viewer who is not signed in
  None,         \* SQL NULL
  StaleLive,    \* STALE_LIVE_MS, in ticks
  TicketTtl,    \* TICKET_TTL_MS, in ticks
  Retention,    \* RETENTION_BROADCAST_DAYS, in ticks; 0 = never purge
  MaxAudience,  \* bound on the audience figures a host reports
  MaxTickets    \* bound on the lookups and tickets outstanding at a time

ASSUME BroadcastsAssumption ==
  /\ StaleLive \in Nat \ {0}
  /\ TicketTtl \in Nat \ {0}
  /\ Retention \in Nat
  /\ MaxAudience \in Nat
  /\ MaxTickets \in Nat
  /\ Anon \notin Users
  /\ None \notin Ids \cup Codes \cup Nat

VARIABLES
  account,      \* [Users -> "active" | "banned" | "gone"]
  row,          \* the broadcasts table: identity, gate, status, peer_id
  age,          \* of a live row: since COALESCE(stat_at, started_at);
                \* of an ended row: since ended_at; otherwise 0
  reported,     \* ids of the rows whose stat_* columns are not NULL
  audience,     \* the peak_viewers and total_views columns
  starting,     \* start requests suspended in hashCode
  resolving,    \* /sessions requests suspended in verifyAccessCode
  tickets       \* the tickets table

table == <<row, age, reported, audience>>
vars == <<account, row, age, reported, audience, starting, resolving, tickets>>

Access == {"public", "authenticated", "code"}
Viewers == Users \cup {Anon}

Larger(m, n) == IF m < n THEN n ELSE m
MaxAge == Larger(StaleLive, Retention) + 1
Older(n, cap) == IF n < cap THEN n + 1 ELSE cap

\* "unused": no insert has taken the id; "deleted": its row is gone.
Rows == [status : {"unused", "live", "ended", "deleted"},
         owner : Users \cup {None}, access : Access,
         code : Codes \cup {None}, peer : Ids \cup {None}]

Requests == [id : Ids, owner : Users, access : Access,
             code : Codes \cup {None}]

\* `code` is the code the viewer proved; the table does not keep it.
Resolves == [viewer : Viewers, id : Ids, peer : Ids \cup {None}, code : Codes]

Tickets == [viewer : Viewers, peer : Ids \cup {None},
            code : Codes \cup {None}, age : 0..(TicketTtl + 1)]

UnusedRow == [status |-> "unused", owner |-> None, access |-> "public",
              code |-> None, peer |-> None]

Init ==
  /\ account = [u \in Users |-> "active"]
  /\ row = [id \in Ids |-> UnusedRow]
  /\ age = [id \in Ids |-> 0]
  /\ reported = {}
  /\ audience = [id \in Ids |-> [peak |-> 0, total |-> 0]]
  /\ starting = {}
  /\ resolving = {}
  /\ tickets = {}

-----------------------------------------------------------------------------
(* What the statements of the store select and write *)

IsLiveOf(id, u) == row[id].status = "live" /\ row[id].owner = u
LiveOf(u) == {id \in Ids : IsLiveOf(id, u)}
Kept == {id \in Ids : row[id].status \in {"live", "ended"}}

\* liveForUser: the reaper will end a silent row, so it is not offered.
LiveForUser(u) == {id \in LiveOf(u) : age[id] < StaleLive}

\* listLive / searchLive, for an account that kept `discoverable` on.
ListedThoughSilent(id) ==                                          \* mutant
  /\ row[id].status = "live" /\ row[id].access = "public"
  /\ account[row[id].owner] = "active"
Listed(id) ==
  /\ row[id].status = "live"
  /\ row[id].access = "public"
  /\ account[row[id].owner] = "active"
  /\ age[id] < StaleLive

Over(r) == [r EXCEPT !.status = "ended", !.peer = None]

Removed(r) == [r EXCEPT !.status = "deleted", !.peer = None]

\* The UPDATE shared by end, adminEnd, endAllForUser and endStale on the rows
\* `over`, and the DELETE of the rows `removed`.
Rewrite(over, removed) ==
  /\ row' = [id \in Ids |-> IF id \in over THEN Over(row[id])
                            ELSE IF id \in removed THEN Removed(row[id])
                            ELSE row[id]]
  /\ age' = [id \in Ids |-> IF id \in over \cup removed THEN 0 ELSE age[id]]
  /\ reported' = reported \ (over \cup removed)
  /\ UNCHANGED audience

NewRow(s) == [status |-> "live", owner |-> s.owner, access |-> s.access,
              code |-> s.code, peer |-> s.id]

\* start()'s transaction ends what the user has live and inserts the new row.
\* Its UPDATE leaves the stat_* columns of the ended rows alone.
StartTxKeepsOld(s) ==                                              \* mutant
  /\ row' = [row EXCEPT ![s.id] = NewRow(s)]
  /\ age' = [age EXCEPT ![s.id] = 0]
  /\ UNCHANGED <<reported, audience>>
StartTx(s) ==
  /\ row' = [id \in Ids |-> IF id = s.id THEN NewRow(s)
                            ELSE IF IsLiveOf(id, s.owner) THEN Over(row[id])
                            ELSE row[id]]
  /\ age' = [id \in Ids |-> IF id = s.id \/ IsLiveOf(id, s.owner) THEN 0
                            ELSE age[id]]
  /\ UNCHANGED <<reported, audience>>

\* ON DELETE CASCADE from users to broadcasts.
OwnedRows(u) == {id \in Kept : row[id].owner = u}

\* endStale and purgeEndedOlderThan.
ReapableIfReported == {id \in reported : row[id].status = "live"   \* mutant
                                         /\ age[id] > StaleLive}
Reapable == {id \in Ids : row[id].status = "live" /\ age[id] > StaleLive}
Purgeable == {id \in Ids : /\ Retention > 0
                           /\ row[id].status = "ended" /\ age[id] > Retention}

UnexpiredKeepsAll == tickets                                       \* mutant
Unexpired == {t \in tickets : t.age <= TicketTtl}

-----------------------------------------------------------------------------
(* The broadcaster's requests.                                             *)

\* requireAuth reads the account's row afresh on every request.
MayBroadcastUnlessGone(u) == account[u] # "gone"                   \* mutant
MayBroadcast(u) == account[u] = "active"

\* Nobody else has opened peer `id`: nanoid and freshPeerId draw at random.
FreshIdOfChannel(id) == row[id].status # "live"                    \* mutant
FreshId(id) ==
  /\ row[id].status = "unused"
  /\ \A s \in starting : s.id # id

\* Without an access code start() never awaits: one atomic step.
Start(u, id, access) ==
  /\ MayBroadcast(u)
  /\ FreshId(id)
  /\ access # "code"
  /\ StartTx([id |-> id, owner |-> u, access |-> access, code |-> None])
  /\ UNCHANGED <<account, starting, resolving, tickets>>

\* With one, the handler is suspended in hashCode ...
StartHashing(u, id, access, code) ==
  /\ MayBroadcast(u)
  /\ FreshId(id)
  /\ starting' = starting \cup
       {[id |-> id, owner |-> u, access |-> access, code |-> code]}
  /\ UNCHANGED <<account, table, resolving, tickets>>

\* ... and runs the transaction when it resumes; the insert fails on its
\* foreign key when the account has been deleted meanwhile.
StartHashed(s) ==
  /\ starting' = starting \ {s}
  /\ IF account[s.owner] = "gone" THEN UNCHANGED table ELSE StartTx(s)
  /\ UNCHANGED <<account, resolving, tickets>>

\* end(): the owner's request; the row need not be live any more.
End(u, id) ==
  /\ MayBroadcast(u)
  /\ id \in OwnedRows(u)
  /\ Rewrite({id}, {})
  /\ UNCHANGED <<account, starting, resolving, tickets>>

\* updateStats(): the heartbeat.  `conns` is None from a client that does
\* not send totalConnections.
NewPeak(a, viewers) == Larger(a.peak, viewers)

NewTotalUnchecked(a, viewers, conns) == conns                      \* mutant
NewTotal(a, viewers, conns) ==
  IF conns = None THEN Larger(Larger(a.total, a.peak), viewers)
  ELSE Larger(a.total, conns)

Heartbeat(u, id, viewers, conns) ==
  /\ MayBroadcast(u)
  /\ IsLiveOf(id, u)
  /\ age' = [age EXCEPT ![id] = 0]
  /\ reported' = reported \cup {id}
  /\ audience' = [audience EXCEPT ![id] =
       [peak |-> NewPeak(audience[id], viewers),
        total |-> NewTotal(audience[id], viewers, conns)]]
  /\ UNCHANGED <<account, row, starting, resolving, tickets>>

-----------------------------------------------------------------------------
(* The viewer's lookup.  optionalAuth treats a banned or deleted account's *)
(* request as anonymous.  A public row is answered without a ticket and    *)
(* changes nothing on the server, so it has no action.                     *)

Room == Cardinality(resolving) + Cardinality(tickets) < MaxTickets

MayAsk(v) == v \in Users => account[v] = "active"

ResolveMember(v, u) ==
  /\ Room
  /\ account[v] = "active"
  /\ \E id \in LiveForUser(u) :
       /\ row[id].access = "authenticated"
       /\ tickets' = tickets \cup
            {[viewer |-> v, peer |-> row[id].peer, code |-> None, age |-> 0]}
  /\ UNCHANGED <<account, table, starting, resolving>>

\* A wrong code is refused and changes nothing; with the right one the handler
\* keeps the row it read while bcrypt.compare runs ...
ResolveComparing(v, u, code) ==
  /\ Room /\ MayAsk(v)
  /\ \E id \in LiveForUser(u) :
       /\ row[id].access = "code"
       /\ row[id].code = code
       /\ resolving' = resolving \cup
            {[viewer |-> v, id |-> id, peer |-> row[id].peer, code |-> code]}
  /\ UNCHANGED <<account, table, starting, tickets>>

\* ... and issues the ticket from that row, without reading the table again.
IssuedPeerReread(q) ==                                             \* mutant
  LET live == LiveOf(row[q.id].owner)
  IN  IF live = {} THEN q.peer ELSE row[CHOOSE id \in live : TRUE].peer
IssuedPeer(q) == q.peer

ResolveCompared(q) ==
  /\ resolving' = resolving \ {q}
  /\ tickets' = tickets \cup
       {[viewer |-> q.viewer, peer |-> IssuedPeer(q), code |-> q.code,
         age |-> 0]}
  /\ UNCHANGED <<account, table, starting>>

\* verifyTicket: what the host of `peer` is told about a caller's ticket.
VerifyTicket(t, peer) == t.age <= TicketTtl /\ t.peer = peer

-----------------------------------------------------------------------------
(* Moderation and accounts *)

Ban(u) ==
  /\ account[u] \in {"active", "banned"}
  /\ account' = [account EXCEPT ![u] = "banned"]
  /\ Rewrite(LiveOf(u), {})
  /\ UNCHANGED <<starting, resolving, tickets>>

Unban(u) ==
  /\ account[u] = "banned"
  /\ account' = [account EXCEPT ![u] = "active"]
  /\ UNCHANGED <<table, starting, resolving, tickets>>

AdminEnd(id) ==
  /\ id \in Kept
  /\ Rewrite({id}, {})
  /\ UNCHANGED <<account, starting, resolving, tickets>>

\* By an admin, or by the owner: an owner banned while her password is being
\* compared still gets the account removed, so no guard on `banned`.
DeleteAccount(u) ==
  /\ account[u] # "gone"
  /\ account' = [account EXCEPT ![u] = "gone"]
  /\ Rewrite({}, OwnedRows(u))
  /\ tickets' = {t \in tickets : t.viewer # u}
  /\ UNCHANGED <<starting, resolving>>

\* A handle that was deleted is free to be registered again.
Register(u) ==
  /\ account[u] = "gone"
  /\ account' = [account EXCEPT ![u] = "active"]
  /\ UNCHANGED <<table, starting, resolving, tickets>>

-----------------------------------------------------------------------------
(* Time, housekeeping, restart *)

\* With retention off nothing reads the age of an ended row.
Ages(id) == \/ row[id].status = "live"
            \/ row[id].status = "ended" /\ Retention > 0

Tick ==
  /\ age' = [id \in Ids |-> IF Ages(id) THEN Older(age[id], MaxAge)
                            ELSE age[id]]
  /\ tickets' = {[t EXCEPT !.age = Older(@, TicketTtl + 1)] : t \in tickets}
  /\ UNCHANGED <<account, row, reported, audience, starting, resolving>>

\* A row just reaped is too young to be purged in the same sweep.
Sweep == /\ tickets' = Unexpired
         /\ Rewrite(Reapable, Purgeable)

Housekeeping == Sweep /\ UNCHANGED <<account, starting, resolving>>

\* The process dies with its suspended handlers; the new one sweeps at boot.
Restart ==
  /\ Sweep
  /\ starting' = {}
  /\ resolving' = {}
  /\ UNCHANGED account

Broadcaster(u) ==
  \E id \in Ids :
    \/ \E access \in Access : Start(u, id, access)
    \/ \E access \in Access, code \in Codes : StartHashing(u, id, access, code)
    \/ End(u, id)
    \/ \E viewers \in 0..MaxAudience :
         \E conns \in {None} \cup viewers..MaxAudience :
           Heartbeat(u, id, viewers, conns)

Moderation(u) == Ban(u) \/ Unban(u) \/ DeleteAccount(u) \/ Register(u)

Next ==
  \/ \E u \in Users : Broadcaster(u) \/ Moderation(u)
  \/ \E s \in starting : StartHashed(s)
  \/ \E v, u \in Users : ResolveMember(v, u)
  \/ \E v \in Viewers, u \in Users, code \in Codes :
       ResolveComparing(v, u, code)
  \/ \E q \in resolving : ResolveCompared(q)
  \/ \E id \in Ids : AdminEnd(id)
  \/ Tick
  \/ Housekeeping
  \/ Restart

Spec == Init /\ [][Next]_vars

\* setInterval keeps sweeping and the clock keeps running; a bcrypt job that
\* was queued completes unless the process dies.  Users owe nothing.
Fairness ==
  /\ WF_vars(Tick)
  /\ WF_vars(Housekeeping)
  /\ \A id \in Ids :
       /\ WF_vars(\E s \in starting : s.id = id /\ StartHashed(s))
       /\ WF_vars(\E q \in resolving : q.id = id /\ ResolveCompared(q))

FairSpec == Spec /\ Fairness
-----------------------------------------------------------------------------
(* Properties *)

\* Every variable has its type: ages saturate, the audience figures stay
\* numbers whether or not the client sends totalConnections (updateStats).
TypeOK ==
  /\ account \in [Users -> {"active", "banned", "gone"}]
  /\ row \in [Ids -> Rows]
  /\ age \in [Ids -> 0..MaxAge]
  /\ reported \subseteq Ids
  /\ audience \in [Ids -> [peak : Nat, total : Nat]]
  /\ starting \subseteq Requests
  /\ resolving \subseteq Resolves
  /\ tickets \subseteq Tickets

\* No interleaving of starts from several tabs and the extension, ends, bans,
\* sweeps and restarts leaves an account with two live rows (start's
\* transaction ends the previous one).
AtMostOneLive ==
  \A u \in Users : \A i, j \in LiveOf(u) : i = j

\* A row has a peer id exactly while it is live, and it is the one its host
\* opened ("null once ended", db/index.ts).
PeerOnlyWhileLive ==
  \A id \in Ids : row[id].peer = IF row[id].status = "live" THEN id ELSE None

\* Rows never outlive their account, although a start may be suspended in
\* hashCode when the account is deleted.
RowsHaveOwner ==
  \A id \in Kept :
    row[id].owner \in Users /\ account[row[id].owner] # "gone"

\* Every card of the discovery feed leads to that broadcast: /sessions for
\* its owner answers with exactly the listed row, not with 404 or another one.
ListedResolves ==
  \A id \in Ids : Listed(id) => LiveForUser(row[id].owner) = {id}

\* A ticket that verifies for a host's peer belongs to a gated broadcast and
\* was paid for there: an account for `authenticated`, and for `code` the very
\* code of that broadcast, whatever was started or ended during the compare.
TicketOpensProvedRow ==
  \A t \in tickets, id \in Ids : VerifyTicket(t, id) =>
    \/ row[id].access = "authenticated" /\ t.viewer # Anon
    \/ row[id].access = "code" /\ t.code # None /\ t.code = row[id].code

\* Once a banned account is off the air with no start in flight it stays off
\* the air for as long as the ban lasts.
Dark(u) == /\ LiveOf(u) = {}
           /\ \A s \in starting : s.owner # u

BannedStaysDark ==
  [][\A u \in Users :
       account[u] = "banned" /\ Dark(u) /\ account'[u] = "banned" =>
         Dark(u)']_vars

\* The audience figures of a broadcast only grow, the peak never exceeds the
\* total, and nothing changes them once the broadcast has ended.
AudienceRecorded ==
  [][\A id \in Kept :
       LET a == audience[id]  an == audience'[id] IN
       /\ a.peak <= an.peak /\ a.total <= an.total /\ an.peak <= an.total
       /\ row[id].status = "ended" => a = an]_vars

\* What lookups promise: the store implements LiveDirectory.
LiveId(u) == IF LiveOf(u) = {} THEN None ELSE CHOOSE id \in LiveOf(u) : TRUE

Directory == INSTANCE LiveDirectory WITH
               current <- [u \in Users |-> LiveId(u)],
               spent <- {id \in Ids : row[id].status # "unused"}

ImplementsDirectory == Directory!Spec

\* A row stays live forever only if its host is heard from again and again;
\* also one whose host died before its first heartbeat ends (endStale).
SilentRowsEnd ==
  \A id \in Ids : \/ []<>(row[id].status # "live")
                  \/ []<>(age[id] = 0)

\* A lasting ban takes the account off the air for good, even when a start
\* that was in flight slipped past it: the ban silences the heartbeat and the
\* sweep ends the row.
BannedGoesDark ==
  \A u \in Users :
    <>[](account[u] = "banned") => <>[](LiveOf(u) = {})

\* After a broadcast has ended every ticket for it disappears for good,
\* including one issued by a lookup that was being compared at the time.
AccessDrains ==
  \A id \in Ids :
    row[id].status = "ended" ~> [](\A t \in tickets : t.peer # id)
=============================================================================
