--------------------------- MODULE BroadcastsProofs ---------------------------
(* Theorems about Broadcasts for any accounts, ids, codes and timeouts. *)
EXTENDS Broadcasts, TLAPS

USE BroadcastsAssumption

-----------------------------------------------------------------------------
(* Types *)

\* The statements of the store keep the columns well typed.
LEMMA RewriteType ==
  ASSUME TypeOK, NEW over, NEW removed, Rewrite(over, removed)
  PROVE  /\ row' \in [Ids -> Rows] /\ age' \in [Ids -> 0..MaxAge]
         /\ reported' \subseteq Ids
         /\ audience' \in [Ids -> [peak : Nat, total : Nat]]
  <1>1. \A r \in Rows : Over(r) \in Rows /\ Removed(r) \in Rows
    BY DEF Rows, Over, Removed
  <1>2. row' \in [Ids -> Rows]
    BY <1>1 DEF Rewrite, TypeOK
  <1>3. age' \in [Ids -> 0..MaxAge]
    BY DEF Rewrite, TypeOK, MaxAge, Larger
  <1>4. QED
    BY <1>2, <1>3 DEF Rewrite, TypeOK

LEMMA StartTxType ==
  ASSUME TypeOK, NEW s \in Requests, StartTx(s)
  PROVE  /\ row' \in [Ids -> Rows] /\ age' \in [Ids -> 0..MaxAge]
         /\ reported' \subseteq Ids
         /\ audience' \in [Ids -> [peak : Nat, total : Nat]]
  <1>1. \A r \in Rows : Over(r) \in Rows
    BY DEF Rows, Over
  <1>2. NewRow(s) \in Rows
    BY DEF Rows, Requests, NewRow
  <1>3. row' \in [Ids -> Rows]
    BY <1>1, <1>2 DEF StartTx, TypeOK
  <1>4. age' \in [Ids -> 0..MaxAge]
    BY DEF StartTx, TypeOK, MaxAge, Larger
  <1>5. QED
    BY <1>3, <1>4 DEF StartTx, TypeOK

LEMMA InitTypeOK == Init => TypeOK
  BY DEF Init, TypeOK, Rows, UnusedRow, Access, MaxAge, Larger

LEMMA NextTypeOK == TypeOK /\ [Next]_vars => TypeOK'
  <1> SUFFICES ASSUME TypeOK, [Next]_vars PROVE TypeOK'
    OBVIOUS
  <1>1. ASSUME NEW u \in Users, NEW id \in Ids, NEW access \in Access,
               Start(u, id, access)
        PROVE TypeOK'
    <2> DEFINE s == [id |-> id, owner |-> u, access |-> access, code |-> None]
    <2>1. s \in Requests
      BY DEF Requests
    <2>2. StartTx(s) /\ UNCHANGED <<account, starting, resolving, tickets>>
      BY <1>1 DEF Start
    <2> HIDE DEF s
    <2>3. QED
      BY <2>1, <2>2, StartTxType DEF TypeOK
  <1>2. ASSUME NEW u \in Users, NEW id \in Ids, NEW access \in Access,
               NEW code \in Codes, StartHashing(u, id, access, code)
        PROVE TypeOK'
    BY <1>2 DEF StartHashing, Requests, TypeOK, table
  <1>3. ASSUME NEW s \in starting, StartHashed(s) PROVE TypeOK'
    <2>1. s \in Requests
      BY DEF TypeOK
    <2>2. CASE StartTx(s)
      BY <1>3, <2>1, <2>2, StartTxType DEF StartHashed, TypeOK
    <2>3. CASE UNCHANGED table
      BY <1>3, <2>3 DEF StartHashed, TypeOK, table
    <2>4. QED
      BY <1>3, <2>2, <2>3 DEF StartHashed
  <1>4. ASSUME NEW u \in Users, NEW id \in Ids, End(u, id) PROVE TypeOK'
    BY <1>4, RewriteType DEF End, TypeOK
  <1>5. ASSUME NEW u \in Users, NEW id \in Ids, NEW viewers \in 0..MaxAudience,
               NEW conns \in {None} \cup viewers..MaxAudience,
               Heartbeat(u, id, viewers, conns)
        PROVE TypeOK'
    <2>1. NewPeak(audience[id], viewers) \in Nat
      BY DEF NewPeak, Larger, TypeOK
    <2>2. NewTotal(audience[id], viewers, conns) \in Nat
      BY DEF NewTotal, Larger, TypeOK
    <2>3. age' \in [Ids -> 0..MaxAge]
      BY <1>5 DEF Heartbeat, TypeOK, MaxAge, Larger
    <2>4. QED
      BY <1>5, <2>1, <2>2, <2>3 DEF Heartbeat, TypeOK
  <1>6. ASSUME NEW u \in Users, Ban(u) PROVE TypeOK'
    BY <1>6, RewriteType DEF Ban, TypeOK
  <1>7. ASSUME NEW u \in Users, Unban(u) \/ Register(u) PROVE TypeOK'
    BY <1>7 DEF Unban, Register, TypeOK, table
  <1>8. ASSUME NEW u \in Users, DeleteAccount(u) PROVE TypeOK'
    BY <1>8, RewriteType DEF DeleteAccount, TypeOK
  <1>9. ASSUME NEW v \in Users, NEW u \in Users, ResolveMember(v, u)
        PROVE TypeOK'
    BY <1>9 DEF ResolveMember, LiveForUser, LiveOf, Rows, Tickets, Viewers,
                TypeOK, table
  <1>10. ASSUME NEW v \in Viewers, NEW u \in Users, NEW code \in Codes,
                ResolveComparing(v, u, code)
         PROVE TypeOK'
    BY <1>10 DEF ResolveComparing, LiveForUser, LiveOf, Rows, Resolves, TypeOK,
                 table
  <1>11. ASSUME NEW q \in resolving, ResolveCompared(q) PROVE TypeOK'
    BY <1>11 DEF ResolveCompared, IssuedPeer, Resolves, Tickets, TypeOK, table
  <1>12. ASSUME NEW id \in Ids, AdminEnd(id) PROVE TypeOK'
    BY <1>12, RewriteType DEF AdminEnd, TypeOK
  <1>13. ASSUME Tick PROVE TypeOK'
    <2>1. age' \in [Ids -> 0..MaxAge]
      BY <1>13 DEF Tick, Older, TypeOK, MaxAge, Larger
    <2>2. ASSUME NEW t \in Tickets
          PROVE  [t EXCEPT !.age = Older(t.age, TicketTtl + 1)] \in Tickets
      BY DEF Tickets, Older
    <2>3. tickets' \subseteq Tickets
      BY <1>13, <2>2 DEF Tick, TypeOK
    <2>4. QED
      BY <1>13, <2>1, <2>3 DEF Tick, TypeOK
  <1>14. ASSUME Housekeeping \/ Restart PROVE TypeOK'
    BY <1>14, RewriteType DEF Housekeeping, Restart, Sweep, Unexpired, TypeOK
  <1>15. CASE UNCHANGED vars
    BY <1>15 DEF vars, TypeOK
  <1>16. QED
    BY <1>1, <1>2, <1>3, <1>4, <1>5, <1>6, <1>7, <1>8, <1>9, <1>10, <1>11,
       <1>12, <1>13, <1>14, <1>15
    DEF Next, Broadcaster, Moderation

\* Type correctness for every value of the constants.
THEOREM TypeCorrect == Spec => []TypeOK
  BY InitTypeOK, NextTypeOK, PTL DEF Spec
-----------------------------------------------------------------------------
(* The inductive invariant *)

\* A suspended start has an id that no row and no other start has taken.
PendingFresh ==
  \A s \in starting :
    /\ row[s.id].status = "unused"
    /\ \A s2 \in starting : s2.id = s.id => s2 = s

\* A lookup under way has matched the code of its row; a ticket was paid for
\* with an account or with that code.  Both hold for expired tickets as well.
Matched(q) ==
  /\ q.id \in Ids /\ row[q.id].status # "unused"
  /\ row[q.id].access = "code" /\ row[q.id].code = q.code
  /\ q.peer = q.id /\ q.code # None

Paid(t) ==
  /\ t.peer \in Ids /\ row[t.peer].status # "unused"
  /\ \/ row[t.peer].access = "authenticated" /\ t.viewer # Anon
     \/ row[t.peer].access = "code" /\ t.code # None
                                    /\ t.code = row[t.peer].code

ProvedInv == /\ \A q \in resolving : Matched(q)
             /\ \A t \in tickets : Paid(t)

IInv == /\ TypeOK /\ AtMostOneLive /\ PeerOnlyWhileLive
        /\ RowsHaveOwner /\ PendingFresh /\ ProvedInv

\* The three things a step can do to the broadcasts table.
Inserts(s) ==
  /\ s \in Requests /\ row[s.id].status = "unused"
  /\ account[s.owner] = "active" \/ s \in starting
  /\ account[s.owner] # "gone"
  /\ StartTx(s)
  /\ account' = account
  /\ \A s2 \in starting' : s2 \in starting /\ s2.id # s.id

Rewrites(over, removed) ==
  /\ over \subseteq Kept /\ removed \subseteq Kept /\ over \cap removed = {}
  /\ Rewrite(over, removed)
  /\ starting' \subseteq starting
  /\ \A u \in Users : account'[u] = "gone" =>
       account[u] = "gone" \/ OwnedRows(u) \subseteq removed

Keeps ==
  /\ row' = row
  /\ \A u \in Users : account'[u] = "gone" => account[u] = "gone"
  /\ \/ starting' = starting
     \/ \E s \in Requests : /\ FreshId(s.id) /\ account[s.owner] = "active"
                            /\ starting' = starting \cup {s}
                            /\ account' = account

LEMMA TableStep ==
  ASSUME TypeOK, PendingFresh, [Next]_vars
  PROVE  \/ \E s \in Requests : Inserts(s)
         \/ \E over, removed \in SUBSET Ids : Rewrites(over, removed)
         \/ Keeps
  <1> DEFINE Goal == \/ \E s \in Requests : Inserts(s)
                     \/ \E over, removed \in SUBSET Ids :
                          Rewrites(over, removed)
                     \/ Keeps
  <1>1. ASSUME NEW u \in Users, NEW id \in Ids, NEW access \in Access,
               Start(u, id, access)
        PROVE Goal
    <2> DEFINE s == [id |-> id, owner |-> u, access |-> access, code |-> None]
    <2>1. s \in Requests /\ s.id = id /\ s.owner = u
      BY DEF Requests
    <2>2. /\ StartTx(s) /\ FreshId(id) /\ account[u] = "active"
          /\ UNCHANGED <<account, starting, resolving, tickets>>
      BY <1>1 DEF Start, MayBroadcast
    <2> HIDE DEF s
    <2>3. Inserts(s)
      BY <2>1, <2>2 DEF Inserts, FreshId
    <2>4. QED
      BY <2>1, <2>3
  <1>2. ASSUME NEW u \in Users, NEW id \in Ids, NEW access \in Access,
               NEW code \in Codes, StartHashing(u, id, access, code)
        PROVE Goal
    <2> DEFINE s == [id |-> id, owner |-> u, access |-> access, code |-> code]
    <2>1. s \in Requests /\ s.id = id /\ s.owner = u
      BY DEF Requests
    <2>2. /\ starting' = starting \cup {s} /\ FreshId(id)
          /\ account[u] = "active" /\ account' = account /\ row' = row
      BY <1>2 DEF StartHashing, MayBroadcast, table
    <2> HIDE DEF s
    <2>3. Keeps
      BY <2>1, <2>2 DEF Keeps
    <2>4. QED
      BY <2>3
  <1>3. ASSUME NEW s \in starting, StartHashed(s) PROVE Goal
    <2>1. s \in Requests
      BY DEF TypeOK
    <2>2. CASE account[s.owner] = "gone"
      <3>1. Rewrites({}, {})
        BY <1>3, <2>2 DEF StartHashed, Rewrites, Rewrite, table, TypeOK
      <3>2. QED
        BY <3>1
    <2>3. CASE account[s.owner] # "gone"
      <3>1. Inserts(s)
        BY <1>3, <2>1, <2>3 DEF StartHashed, Inserts, PendingFresh
      <3>2. QED
        BY <2>1, <3>1
    <2>4. QED
      BY <2>2, <2>3
  <1>4. ASSUME NEW u \in Users, NEW id \in Ids, End(u, id) PROVE Goal
    <2>1. Rewrites({id}, {})
      BY <1>4 DEF End, Rewrites, OwnedRows
    <2>2. QED
      BY <2>1
  <1>5. ASSUME NEW u \in Users, NEW id \in Ids, NEW viewers \in 0..MaxAudience,
               NEW conns \in {None} \cup viewers..MaxAudience,
               Heartbeat(u, id, viewers, conns)
        PROVE Goal
    BY <1>5 DEF Heartbeat, Keeps
  <1>6. ASSUME NEW u \in Users, Ban(u) PROVE Goal
    <2>1. Rewrites(LiveOf(u), {})
      BY <1>6 DEF Ban, Rewrites, LiveOf, IsLiveOf, Kept, TypeOK
    <2>2. QED
      BY <2>1 DEF LiveOf
  <1>7. ASSUME NEW u \in Users, Unban(u) \/ Register(u) PROVE Goal
    BY <1>7 DEF Unban, Register, Keeps, TypeOK, table
  <1>8. ASSUME NEW u \in Users, DeleteAccount(u) PROVE Goal
    <2>1. Rewrites({}, OwnedRows(u))
      BY <1>8 DEF DeleteAccount, Rewrites, OwnedRows, Kept, TypeOK
    <2>2. QED
      BY <2>1 DEF OwnedRows, Kept
  <1>9. ASSUME NEW v \in Users, NEW u \in Users, ResolveMember(v, u)
        PROVE Goal
    BY <1>9 DEF ResolveMember, Keeps, table
  <1>10. ASSUME NEW v \in Viewers, NEW u \in Users, NEW code \in Codes,
                ResolveComparing(v, u, code)
         PROVE Goal
    BY <1>10 DEF ResolveComparing, Keeps, table
  <1>11. ASSUME NEW q \in resolving, ResolveCompared(q) PROVE Goal
    BY <1>11 DEF ResolveCompared, Keeps, table
  <1>12. ASSUME NEW id \in Ids, AdminEnd(id) PROVE Goal
    <2>1. Rewrites({id}, {})
      BY <1>12 DEF AdminEnd, Rewrites
    <2>2. QED
      BY <2>1
  <1>13. ASSUME Tick PROVE Goal
    BY <1>13 DEF Tick, Keeps
  <1>14. ASSUME Housekeeping \/ Restart PROVE Goal
    <2>1. Rewrites(Reapable, Purgeable)
      BY <1>14 DEF Housekeeping, Restart, Sweep, Rewrites, Reapable, Purgeable,
                   Kept
    <2>2. QED
      BY <2>1 DEF Reapable, Purgeable
  <1>15. CASE UNCHANGED vars
    BY <1>15 DEF vars, Keeps
  <1>16. QED
    BY <1>1, <1>2, <1>3, <1>4, <1>5, <1>6, <1>7, <1>8, <1>9, <1>10, <1>11,
       <1>12, <1>13, <1>14, <1>15
    DEF Next, Broadcaster, Moderation

\* What each kind of step means for the rows.
LEMMA RowsAfterInsert ==
  ASSUME TypeOK, NEW s \in Requests, Inserts(s)
  PROVE  /\ row'[s.id] = NewRow(s)
         /\ \A id \in Ids \ {s.id} :
              row'[id] = IF IsLiveOf(id, s.owner) THEN Over(row[id])
                         ELSE row[id]
  BY DEF Inserts, StartTx, TypeOK, Requests

LEMMA RowsAfterRewrite ==
  ASSUME TypeOK, NEW over \in SUBSET Ids, NEW removed \in SUBSET Ids,
         Rewrites(over, removed)
  PROVE  \A id \in Ids :
           row'[id] = IF id \in over THEN Over(row[id])
                      ELSE IF id \in removed THEN Removed(row[id])
                      ELSE row[id]
  BY DEF Rewrites, Rewrite, TypeOK

LEMMA OverRow ==
  ASSUME NEW r \in Rows
  PROVE  /\ Over(r).status = "ended" /\ Over(r).peer = None
         /\ Over(r).owner = r.owner /\ Over(r).access = r.access
         /\ Over(r).code = r.code
         /\ Removed(r).status = "deleted" /\ Removed(r).peer = None
         /\ Removed(r).owner = r.owner /\ Removed(r).access = r.access
         /\ Removed(r).code = r.code
  BY DEF Over, Removed, Rows

LEMMA NewRowFields ==
  ASSUME NEW s \in Requests
  PROVE  /\ NewRow(s).status = "live" /\ NewRow(s).peer = s.id
         /\ NewRow(s).owner = s.owner /\ NewRow(s).access = s.access
         /\ NewRow(s).code = s.code
  BY DEF NewRow

\* What no step changes: an id once used stays used, a row's owner and gate are
\* those of its insert, and only a row that was live is live.
LEMMA RowsEvolve ==
  ASSUME TypeOK, PendingFresh, [Next]_vars,
         NEW id \in Ids, row[id].status # "unused"
  PROVE  /\ row'[id].status # "unused"
         /\ row'[id].owner = row[id].owner
         /\ row'[id].access = row[id].access /\ row'[id].code = row[id].code
         /\ row'[id].status = "live" => row[id].status = "live"
         /\ row'[id].status = "live" => row'[id].peer = row[id].peer
  <1>1. row[id] \in Rows
    BY DEF TypeOK
  <1>2. ASSUME NEW s \in Requests, Inserts(s)
        PROVE  s.id # id /\ row'[id] \in {row[id], Over(row[id])}
    BY <1>2, RowsAfterInsert DEF Inserts
  <1>3. ASSUME NEW over \in SUBSET Ids, NEW removed \in SUBSET Ids,
               Rewrites(over, removed)
        PROVE  row'[id] \in {row[id], Over(row[id]), Removed(row[id])}
    BY <1>3, RowsAfterRewrite
  <1>4. ASSUME Keeps PROVE row'[id] = row[id]
    BY <1>4 DEF Keeps
  <1>5. row'[id] \in {row[id], Over(row[id]), Removed(row[id])}
    BY <1>2, <1>3, <1>4, TableStep
  <1>6. QED
    BY <1>1, <1>5, OverRow

\* A row comes into existence by an insert and in no other way.
LEMMA FreshRowStep ==
  ASSUME TypeOK, PendingFresh, [Next]_vars,
         NEW id \in Ids, row[id].status = "unused", row'[id].status # "unused"
  PROVE  \E s \in Requests : Inserts(s) /\ s.id = id
  <1>1. ASSUME NEW s \in Requests, Inserts(s) PROVE s.id = id
    BY <1>1, RowsAfterInsert DEF IsLiveOf
  <1>2. ASSUME NEW over \in SUBSET Ids, NEW removed \in SUBSET Ids,
               Rewrites(over, removed)
        PROVE  FALSE
    BY <1>2, RowsAfterRewrite DEF Rewrites, Kept
  <1>3. ASSUME Keeps PROVE FALSE
    BY <1>3 DEF Keeps
  <1>4. QED
    BY <1>1, <1>2, <1>3, TableStep

LEMMA NextAtMostOneLive ==
  ASSUME TypeOK, PendingFresh, AtMostOneLive, [Next]_vars
  PROVE  AtMostOneLive'
  <1>1. ASSUME NEW s \in Requests, Inserts(s) PROVE AtMostOneLive'
    <2>1. ASSUME NEW id \in Ids \ {s.id}, row'[id].status = "live"
          PROVE  row'[id] = row[id] /\ row[id].owner # s.owner
      <3>1. Over(row[id]).status = "ended"
        BY OverRow DEF TypeOK
      <3>2. row'[id] = IF IsLiveOf(id, s.owner) THEN Over(row[id])
                       ELSE row[id]
        BY <1>1, RowsAfterInsert
      <3>3. QED
        BY <2>1, <3>1, <3>2 DEF IsLiveOf
    <2>2. row'[s.id].owner = s.owner
      BY <1>1, RowsAfterInsert, NewRowFields
    <2>3. QED
      BY <2>1, <2>2 DEF AtMostOneLive, LiveOf, IsLiveOf
  <1>2. ASSUME NEW over \in SUBSET Ids, NEW removed \in SUBSET Ids,
               Rewrites(over, removed)
        PROVE  AtMostOneLive'
    <2>1. ASSUME NEW id \in Ids, row'[id].status = "live"
          PROVE  row'[id] = row[id]
      <3>1. Over(row[id]).status = "ended" /\ Removed(row[id]).status = "deleted"
        BY OverRow DEF TypeOK
      <3>2. row'[id] \in {row[id], Over(row[id]), Removed(row[id])}
        BY <1>2, RowsAfterRewrite
      <3>3. QED
        BY <2>1, <3>1, <3>2
    <2>2. QED
      BY <2>1 DEF AtMostOneLive, LiveOf, IsLiveOf
  <1>3. ASSUME Keeps PROVE AtMostOneLive'
    BY <1>3 DEF Keeps, AtMostOneLive, LiveOf, IsLiveOf
  <1>4. QED
    BY <1>1, <1>2, <1>3, TableStep

LEMMA NextPeerOnlyWhileLive ==
  ASSUME TypeOK, PendingFresh, PeerOnlyWhileLive, [Next]_vars
  PROVE  PeerOnlyWhileLive'
  <1> SUFFICES ASSUME NEW id \in Ids
               PROVE  row'[id].peer = IF row'[id].status = "live" THEN id
                                      ELSE None
    BY DEF PeerOnlyWhileLive
  <1>1. /\ Over(row[id]).status = "ended" /\ Over(row[id]).peer = None
        /\ Removed(row[id]).status = "deleted" /\ Removed(row[id]).peer = None
    BY OverRow DEF TypeOK
  <1>2. ASSUME NEW s \in Requests, Inserts(s)
        PROVE  \/ row'[id] \in {row[id], Over(row[id])}
               \/ row'[id].status = "live" /\ row'[id].peer = id
    BY <1>2, RowsAfterInsert, NewRowFields
  <1>3. ASSUME NEW over \in SUBSET Ids, NEW removed \in SUBSET Ids,
               Rewrites(over, removed)
        PROVE  row'[id] \in {row[id], Over(row[id]), Removed(row[id])}
    BY <1>3, RowsAfterRewrite
  <1>4. ASSUME Keeps PROVE row'[id] = row[id]
    BY <1>4 DEF Keeps
  <1>5. \/ row'[id] \in {row[id], Over(row[id]), Removed(row[id])}
        \/ row'[id].status = "live" /\ row'[id].peer = id
    BY <1>2, <1>3, <1>4, TableStep
  <1>6. row[id].peer = IF row[id].status = "live" THEN id ELSE None
    BY DEF PeerOnlyWhileLive
  <1>7. QED
    BY <1>1, <1>5, <1>6

LEMMA NextRowsHaveOwner ==
  ASSUME TypeOK, PendingFresh, RowsHaveOwner, [Next]_vars
  PROVE  RowsHaveOwner'
  <1> DEFINE Owned(id) == row'[id].owner \in Users
                          /\ account'[row'[id].owner] # "gone"
  <1> SUFFICES ASSUME NEW id \in Ids, row'[id].status \in {"live", "ended"}
               PROVE  Owned(id)
    BY DEF RowsHaveOwner, Kept
  <1>1. /\ Over(row[id]).owner = row[id].owner
        /\ Removed(row[id]).status = "deleted"
    BY OverRow DEF TypeOK
  <1>2. row[id].status \in {"live", "ended"} =>
          row[id].owner \in Users /\ account[row[id].owner] # "gone"
    BY DEF RowsHaveOwner, Kept
  <1>3. ASSUME NEW s \in Requests, Inserts(s) PROVE Owned(id)
    <2>1. account' = account /\ account[s.owner] # "gone" /\ s.owner \in Users
      BY <1>3 DEF Inserts, Requests
    <2>2. CASE id = s.id
      BY <1>3, <2>1, <2>2, RowsAfterInsert, NewRowFields
    <2>3. CASE id # s.id
      <3>1. row'[id] = IF IsLiveOf(id, s.owner) THEN Over(row[id]) ELSE row[id]
        BY <1>3, <2>3, RowsAfterInsert
      <3>2. QED
        BY <1>1, <1>2, <2>1, <3>1 DEF IsLiveOf
    <2>4. QED
      BY <2>2, <2>3
  <1>4. ASSUME NEW over \in SUBSET Ids, NEW removed \in SUBSET Ids,
               Rewrites(over, removed)
        PROVE  Owned(id)
    <2>1. row'[id] = IF id \in over THEN Over(row[id])
                     ELSE IF id \in removed THEN Removed(row[id]) ELSE row[id]
      BY <1>4, RowsAfterRewrite
    <2>2. id \notin removed /\ (id \in over => id \in Kept)
      BY <1>1, <1>4, <2>1 DEF Rewrites
    <2>3. row[id].status \in {"live", "ended"} /\ row'[id].owner = row[id].owner
      BY <1>1, <2>1, <2>2 DEF Kept
    <2>4. account'[row[id].owner] # "gone"
      BY <1>2, <1>4, <2>2, <2>3 DEF Rewrites, OwnedRows, Kept
    <2>5. QED
      BY <1>2, <2>3, <2>4
  <1>5. ASSUME Keeps PROVE Owned(id)
    BY <1>2, <1>5 DEF Keeps
  <1>6. QED
    BY <1>3, <1>4, <1>5, TableStep

\* A start that is suspended keeps its id to itself: every other insert and
\* every other start draws an id that is still unused and not asked for.
LEMMA NextPendingFresh ==
  ASSUME TypeOK, PendingFresh, [Next]_vars
  PROVE  PendingFresh'
  <1> DEFINE Fresh(s) == row'[s.id].status = "unused"
  <1>1. ASSUME NEW s0 \in Requests, Inserts(s0) PROVE PendingFresh'
    <2>1. \A s \in starting' : s \in starting /\ s.id # s0.id
      BY <1>1 DEF Inserts
    <2>2. ASSUME NEW s \in starting, s.id # s0.id PROVE Fresh(s)
      <3>1. s.id \in Ids /\ row[s.id].status = "unused"
        BY DEF TypeOK, Requests, PendingFresh
      <3>2. row'[s.id] = row[s.id]
        BY <1>1, <2>2, <3>1, RowsAfterInsert DEF IsLiveOf
      <3>3. QED
        BY <3>1, <3>2
    <2>3. QED
      BY <2>1, <2>2 DEF PendingFresh
  <1>2. ASSUME NEW over \in SUBSET Ids, NEW removed \in SUBSET Ids,
               Rewrites(over, removed)
        PROVE  PendingFresh'
    <2>1. ASSUME NEW s \in starting PROVE Fresh(s)
      <3>1. s.id \in Ids /\ row[s.id].status = "unused"
        BY DEF TypeOK, Requests, PendingFresh
      <3>2. s.id \notin over \cup removed
        BY <1>2, <3>1 DEF Rewrites, Kept
      <3>3. row'[s.id] = row[s.id]
        BY <1>2, <3>1, <3>2, RowsAfterRewrite
      <3>4. QED
        BY <3>1, <3>3
    <2>2. starting' \subseteq starting
      BY <1>2 DEF Rewrites
    <2>3. QED
      BY <2>1, <2>2 DEF PendingFresh
  <1>3. ASSUME Keeps PROVE PendingFresh'
    BY <1>3 DEF Keeps, PendingFresh, FreshId
  <1>4. QED
    BY <1>1, <1>2, <1>3, TableStep

-----------------------------------------------------------------------------
(* Tickets *)

\* What was matched or paid for stays so: a row's gate never changes.
LEMMA ProofsLast ==
  ASSUME TypeOK, PendingFresh, [Next]_vars
  PROVE  /\ \A q \in Resolves : Matched(q) =>
              /\ row'[q.id].status # "unused"
              /\ row'[q.id].access = "code" /\ row'[q.id].code = q.code
         /\ \A t \in Tickets : Paid(t) =>
              /\ row'[t.peer].status # "unused"
              /\ row'[t.peer].access = row[t.peer].access
              /\ row'[t.peer].code = row[t.peer].code
  <1>1. ASSUME NEW id \in Ids, row[id].status # "unused"
        PROVE  /\ row'[id].status # "unused"
               /\ row'[id].access = row[id].access
               /\ row'[id].code = row[id].code
    BY <1>1, RowsEvolve
  <1>2. QED
    BY <1>1 DEF Matched, Paid

\* Where the lookups and tickets of the next state come from.
NewLookups == \A q \in resolving' : q \in resolving \/ Matched(q)

NewTickets ==
  \A t \in tickets' :
    \/ \E old \in tickets : /\ old.viewer = t.viewer /\ old.peer = t.peer
                            /\ old.code = t.code
    \/ Paid(t)

LEMMA ProofStep ==
  ASSUME TypeOK, PeerOnlyWhileLive, ProvedInv, [Next]_vars
  PROVE  NewLookups /\ NewTickets
  <1> DEFINE Goal == NewLookups /\ NewTickets
  <1>1. ASSUME resolving' \subseteq resolving, tickets' \subseteq tickets
        PROVE  Goal
    BY <1>1 DEF NewLookups, NewTickets
  <1>2. ASSUME NEW u \in Users, Broadcaster(u) \/ Moderation(u) PROVE Goal
    BY <1>1, <1>2 DEF Broadcaster, Moderation, Start, StartHashing, End,
      Heartbeat, Ban, Unban, DeleteAccount, Register
  <1>3. ASSUME NEW s \in starting, StartHashed(s) PROVE Goal
    BY <1>1, <1>3 DEF StartHashed
  <1>4. ASSUME NEW v \in Users, NEW u \in Users, ResolveMember(v, u)
        PROVE Goal
    <2>1. PICK id \in Ids :
            /\ row[id].status = "live" /\ row[id].access = "authenticated"
            /\ tickets' = tickets \cup {[viewer |-> v, peer |-> row[id].peer,
                                         code |-> None, age |-> 0]}
      BY <1>4 DEF ResolveMember, LiveForUser, LiveOf, IsLiveOf
    <2>2. row[id].peer = id /\ v # Anon
      BY <2>1 DEF PeerOnlyWhileLive
    <2>3. Paid([viewer |-> v, peer |-> id, code |-> None, age |-> 0])
      BY <2>1, <2>2 DEF Paid
    <2>4. resolving' = resolving
      BY <1>4 DEF ResolveMember
    <2>5. QED
      BY <2>1, <2>2, <2>3, <2>4 DEF NewLookups, NewTickets
  <1>5. ASSUME NEW v \in Viewers, NEW u \in Users, NEW code \in Codes,
               ResolveComparing(v, u, code)
        PROVE Goal
    <2>1. PICK id \in Ids :
            /\ row[id].status = "live" /\ row[id].access = "code"
            /\ row[id].code = code
            /\ resolving' = resolving \cup {[viewer |-> v, id |-> id,
                                             peer |-> row[id].peer,
                                             code |-> code]}
      BY <1>5 DEF ResolveComparing, LiveForUser, LiveOf, IsLiveOf
    <2>2. row[id].peer = id /\ code # None
      BY <2>1 DEF PeerOnlyWhileLive
    <2>3. Matched([viewer |-> v, id |-> id, peer |-> id, code |-> code])
      BY <2>1, <2>2 DEF Matched
    <2>4. tickets' = tickets
      BY <1>5 DEF ResolveComparing
    <2>5. QED
      BY <2>1, <2>2, <2>3, <2>4 DEF NewLookups, NewTickets
  <1>6. ASSUME NEW q \in resolving, ResolveCompared(q) PROVE Goal
    <2>1. Matched(q)
      BY DEF ProvedInv
    <2>2. Paid([viewer |-> q.viewer, peer |-> q.peer, code |-> q.code,
                age |-> 0])
      BY <2>1 DEF Matched, Paid
    <2>3. QED
      BY <1>6, <2>2 DEF ResolveCompared, IssuedPeer, NewLookups, NewTickets
  <1>7. ASSUME NEW id \in Ids, AdminEnd(id) PROVE Goal
    BY <1>1, <1>7 DEF AdminEnd
  <1>8. ASSUME Tick PROVE Goal
    <2>1. ASSUME NEW t \in tickets'
          PROVE \E old \in tickets : /\ old.viewer = t.viewer
                                     /\ old.peer = t.peer /\ old.code = t.code
      <3>1. PICK old \in tickets :
              t = [old EXCEPT !.age = Older(old.age, TicketTtl + 1)]
        BY <1>8, <2>1 DEF Tick
      <3>2. old \in Tickets
        BY DEF TypeOK
      <3>3. QED
        BY <3>1, <3>2 DEF Tickets
    <2>2. QED
      BY <1>8, <2>1 DEF Tick, NewLookups, NewTickets
  <1>9. ASSUME Housekeeping \/ Restart PROVE Goal
    BY <1>1, <1>9 DEF Housekeeping, Restart, Sweep, Unexpired
  <1>10. CASE UNCHANGED vars
    BY <1>1, <1>10 DEF vars
  <1>11. QED
    BY <1>2, <1>3, <1>4, <1>5, <1>6, <1>7, <1>8, <1>9, <1>10 DEF Next

LEMMA NextProvedInv ==
  ASSUME TypeOK, PendingFresh, PeerOnlyWhileLive, ProvedInv, [Next]_vars
  PROVE  ProvedInv'
  <1>1. ASSUME NEW q \in resolving' PROVE Matched(q)'
    <2>1. Matched(q) /\ q \in Resolves
      BY ProofStep, NextTypeOK DEF NewLookups, ProvedInv, TypeOK
    <2>2. QED
      BY <2>1, ProofsLast DEF Matched
  <1>2. ASSUME NEW t \in tickets' PROVE Paid(t)'
    <2>1. t \in Tickets
      BY NextTypeOK DEF TypeOK
    <2>2. Paid(t)
      <3>1. ASSUME NEW old \in tickets, old.viewer = t.viewer,
                   old.peer = t.peer, old.code = t.code
            PROVE  Paid(t)
        BY <3>1 DEF ProvedInv, Paid
      <3>2. QED
        BY <3>1, ProofStep DEF NewTickets
    <2>3. QED
      BY <2>1, <2>2, ProofsLast DEF Paid
  <1>3. QED
    BY <1>1, <1>2 DEF ProvedInv

-----------------------------------------------------------------------------
(* The theorems *)

LEMMA InitIInv == Init => IInv
  <1> SUFFICES ASSUME Init PROVE IInv
    OBVIOUS
  <1>1. \A id \in Ids : row[id].status = "unused" /\ row[id].peer = None
    BY DEF Init, UnusedRow
  <1>2. QED
    BY <1>1, InitTypeOK
    DEF Init, IInv, AtMostOneLive, LiveOf, IsLiveOf, PeerOnlyWhileLive,
        RowsHaveOwner, Kept, PendingFresh, ProvedInv

LEMMA NextIInv == IInv /\ [Next]_vars => IInv'
  BY NextTypeOK, NextAtMostOneLive, NextPeerOnlyWhileLive, NextRowsHaveOwner,
     NextPendingFresh, NextProvedInv DEF IInv

\* The invariant the theorems below rest on, for every value of the constants.
THEOREM Invariant == Spec => []IInv
  BY InitIInv, NextIInv, PTL DEF Spec

\* start()'s transaction keeps one live row per account, for any number of
\* accounts, ids and suspended starts.
THEOREM OneLiveRow == Spec => []AtMostOneLive
  BY Invariant, PTL DEF IInv

\* The peer_id column is the host's own id exactly while the row is live.
THEOREM PeerIdWhileLive == Spec => []PeerOnlyWhileLive
  BY Invariant, PTL DEF IInv

\* The foreign key and its cascade leave no row without its account.
THEOREM NoOrphanRows == Spec => []RowsHaveOwner
  BY Invariant, PTL DEF IInv

\* verify-ticket admits to a gated host only who may join that broadcast,
\* however lookups, starts, ends, bans and sweeps interleave.
THEOREM TicketsOpenProvedRows == Spec => []TicketOpensProvedRow
  <1>1. IInv => TicketOpensProvedRow
    BY DEF IInv, ProvedInv, Paid, TicketOpensProvedRow, VerifyTicket
  <1>2. QED
    BY <1>1, Invariant, PTL

\* A card of the discovery feed resolves to its own row: listLive and
\* liveForUser apply the same staleness rule, and there is one row to find.
THEOREM ListedRowsResolve == Spec => []ListedResolves
  <1>1. ASSUME IInv, NEW id \in Ids, Listed(id)
        PROVE  LiveForUser(row[id].owner) = {id}
    <2>1. id \in LiveForUser(row[id].owner) /\ row[id].owner \in Users
      BY <1>1 DEF IInv, RowsHaveOwner, Kept, Listed, LiveForUser, LiveOf,
                  IsLiveOf
    <2>2. QED
      BY <1>1, <2>1 DEF IInv, AtMostOneLive, LiveForUser
  <1>2. IInv => ListedResolves
    BY <1>1 DEF ListedResolves
  <1>3. QED
    BY <1>2, Invariant, PTL

\* requireAuth turns a banned account's requests away, so only a start that
\* was already suspended can put it back on the air.
THEOREM BannedAccountsStayDark == Spec => BannedStaysDark
  <1> DEFINE P == \A u \in Users :
                    account[u] = "banned" /\ Dark(u) /\ account'[u] = "banned"
                      => Dark(u)'
  <1>1. ASSUME IInv, [Next]_vars PROVE P
    <2> SUFFICES ASSUME NEW u \in Users, account[u] = "banned", Dark(u)
                 PROVE  Dark(u)'
      OBVIOUS
    <2>1. ASSUME NEW s \in Requests, Inserts(s) PROVE s.owner # u
      BY <2>1 DEF Inserts, Dark
    <2>2. ASSUME NEW id \in Ids, row'[id].status = "live"
          PROVE  row'[id].owner # u
      <3>1. CASE row[id].status # "unused"
        BY <2>2, <3>1, <1>1, RowsEvolve DEF IInv, Dark, LiveOf, IsLiveOf
      <3>2. CASE row[id].status = "unused"
        <4>1. \E s \in Requests : Inserts(s) /\ s.id = id
          BY <1>1, <2>2, <3>2, FreshRowStep DEF IInv
        <4>2. QED
          BY <1>1, <2>1, <4>1, RowsAfterInsert, NewRowFields DEF IInv
      <3>3. QED
        BY <3>1, <3>2
    <2>3. \A s \in starting' : s.owner # u
      <3>1. ASSUME NEW s \in Requests, Inserts(s) PROVE starting' \subseteq starting
        BY <3>1 DEF Inserts
      <3>2. ASSUME NEW over \in SUBSET Ids, NEW removed \in SUBSET Ids,
                   Rewrites(over, removed)
            PROVE  starting' \subseteq starting
        BY <3>2 DEF Rewrites
      <3>3. ASSUME Keeps, starting' # starting
            PROVE  \E s \in Requests : /\ s.owner # u
                                       /\ starting' = starting \cup {s}
        BY <3>3 DEF Keeps
      <3>4. QED
        BY <1>1, <3>1, <3>2, <3>3, TableStep DEF IInv, Dark
    <2>4. QED
      BY <2>2, <2>3 DEF Dark, LiveOf, IsLiveOf
  <1>2. IInv /\ [Next]_vars => [P]_vars
    BY <1>1
  <1>3. QED
    BY <1>2, Invariant, PTL DEF Spec, BannedStaysDark

-----------------------------------------------------------------------------
(* The store implements LiveDirectory *)

\* What the refinement mapping makes of the rows, now and in the next state.
Spent == {id \in Ids : row[id].status # "unused"}
Current == [u \in Users |-> LiveId(u)]

\* With one live row per account LiveId names it.
LEMMA LiveIdIs ==
  ASSUME AtMostOneLive, NEW u \in Users, NEW id \in LiveOf(u)
  PROVE  LiveId(u) = id
  BY DEF AtMostOneLive, LiveId

LEMMA LiveIdNone ==
  ASSUME NEW u \in Users, LiveOf(u) = {}
  PROVE  LiveId(u) = None
  BY DEF LiveId

LEMMA InsertGoesOnAir ==
  ASSUME IInv, IInv', NEW s \in Requests, Inserts(s)
  PROVE  /\ s.id \notin Spent
         /\ Current' = [Current EXCEPT ![s.owner] = s.id]
         /\ Spent' = Spent \cup {s.id}
  <1>1. s.id \in Ids /\ s.owner \in Users /\ row[s.id].status = "unused"
    BY DEF Requests, Inserts
  <1>2. row'[s.id].status = "live" /\ row'[s.id].owner = s.owner
    BY RowsAfterInsert, NewRowFields DEF IInv
  <1>3. ASSUME NEW id \in Ids \ {s.id}
        PROVE  /\ row'[id].status = "unused" <=> row[id].status = "unused"
               /\ row'[id].owner = row[id].owner
               /\ row[id].owner # s.owner =>
                    row'[id].status = row[id].status
    <2>1. row'[id] = IF IsLiveOf(id, s.owner) THEN Over(row[id]) ELSE row[id]
      BY RowsAfterInsert DEF IInv
    <2>2. Over(row[id]).status = "ended" /\ Over(row[id]).owner = row[id].owner
      BY OverRow DEF IInv, TypeOK
    <2>3. QED
      BY <2>1, <2>2 DEF IsLiveOf
  <1>4. Spent' = Spent \cup {s.id}
    BY <1>1, <1>2, <1>3 DEF Spent
  <1>5. LiveId(s.owner)' = s.id
    <2>1. s.id \in LiveOf(s.owner)'
      BY <1>1, <1>2 DEF LiveOf, IsLiveOf
    <2>2. QED
      BY <1>1, <2>1 DEF IInv, AtMostOneLive, LiveId
  <1>6. ASSUME NEW u \in Users, u # s.owner PROVE LiveId(u)' = LiveId(u)
    <2>1. LiveOf(u)' = LiveOf(u)
      BY <1>1, <1>2, <1>3, <1>6 DEF LiveOf, IsLiveOf
    <2>2. QED
      BY <2>1 DEF LiveId
  <1>7. QED
    BY <1>1, <1>4, <1>5, <1>6 DEF Spent, Current

LEMMA RewriteGoesOffAir ==
  ASSUME IInv, IInv', NEW over \in SUBSET Ids, NEW removed \in SUBSET Ids,
         Rewrites(over, removed)
  PROVE  /\ \E S \in SUBSET Users :
              Current' = [u \in Users |-> IF u \in S THEN None
                                          ELSE Current[u]]
         /\ Spent' = Spent
  <1> DEFINE Off == {u \in Users : LiveOf(u)' = {}}
  <1>1. ASSUME NEW id \in Ids
        PROVE  /\ row'[id].status = "unused" <=> row[id].status = "unused"
               /\ row'[id].status = "live" => row'[id] = row[id]
    <2>1. row'[id] = IF id \in over THEN Over(row[id])
                     ELSE IF id \in removed THEN Removed(row[id]) ELSE row[id]
      BY RowsAfterRewrite DEF IInv
    <2>2. Over(row[id]).status = "ended" /\ Removed(row[id]).status = "deleted"
      BY OverRow DEF IInv, TypeOK
    <2>3. id \in over \cup removed => row[id].status # "unused"
      BY DEF Rewrites, Kept
    <2>4. QED
      BY <2>1, <2>2, <2>3
  <1>2. ASSUME NEW u \in Users
        PROVE  LiveId(u)' = IF u \in Off THEN None ELSE LiveId(u)
    <2>1. CASE u \in Off
      BY <2>1 DEF LiveId
    <2>2. CASE u \notin Off
      <3>1. PICK id \in Ids : id \in LiveOf(u)'
        BY <2>2 DEF LiveOf
      <3>2. id \in LiveOf(u)
        BY <1>1, <3>1 DEF LiveOf, IsLiveOf
      <3>3. LiveId(u) = id
        BY <3>2, LiveIdIs DEF IInv
      <3>4. LiveId(u)' = id
        BY <3>1 DEF IInv, AtMostOneLive, LiveId
      <3>5. QED
        BY <2>2, <3>3, <3>4
    <2>3. QED
      BY <2>1, <2>2
  <1>3. Current' = [u \in Users |-> IF u \in Off THEN None ELSE Current[u]]
    BY <1>2 DEF Current
  <1>4. QED
    BY <1>1, <1>3 DEF Spent

\* Every lookup that follows /sessions sees LiveDirectory: an account's
\* current broadcast changes only to a new one or to none.
THEOREM StoreImplementsDirectory == Spec => ImplementsDirectory
  <1>1. IInv /\ Init => Directory!Init
    <2> SUFFICES ASSUME Init PROVE Directory!Init
      OBVIOUS
    <2>1. \A id \in Ids : row[id].status = "unused"
      BY DEF Init, UnusedRow
    <2>2. \A u \in Users : LiveId(u) = None
      BY <2>1, LiveIdNone DEF LiveOf, IsLiveOf
    <2>3. QED
      BY <2>1, <2>2 DEF Directory!Init
  <1>2. IInv /\ IInv' /\ [Next]_vars => [Directory!Next]_Directory!vars
    <2> SUFFICES ASSUME IInv, IInv', [Next]_vars
                 PROVE  [Directory!Next]_Directory!vars
      OBVIOUS
    <2>1. ASSUME NEW s \in Requests, Inserts(s) PROVE Directory!Next
      <3>1. Directory!GoOnAir(s.owner, s.id)
        BY <2>1, InsertGoesOnAir DEF Directory!GoOnAir, Spent, Current
      <3>2. QED
        BY <3>1 DEF Directory!Next, Requests
    <2>2. ASSUME NEW over \in SUBSET Ids, NEW removed \in SUBSET Ids,
                 Rewrites(over, removed)
          PROVE  Directory!Next
      <3>1. \E S \in SUBSET Users : Directory!GoOffAir(S)
        BY <2>2, RewriteGoesOffAir DEF Directory!GoOffAir, Spent, Current
      <3>2. QED
        BY <3>1 DEF Directory!Next
    <2>3. ASSUME Keeps PROVE UNCHANGED Directory!vars
      BY <2>3 DEF Keeps, Directory!vars, LiveId, LiveOf, IsLiveOf
    <2>4. QED
      BY <2>1, <2>2, <2>3, TableStep DEF IInv
  <1>3. QED
    BY <1>1, <1>2, InitIInv, Invariant, PTL
    DEF Spec, ImplementsDirectory, Directory!Spec

-----------------------------------------------------------------------------
(* Audience figures *)

PeakWithinTotal == \A id \in Ids : audience[id].peak <= audience[id].total

Grows(id) ==
  LET a == audience[id]  an == audience'[id] IN
  /\ a.peak <= an.peak /\ a.total <= an.total /\ an.peak <= an.total
  /\ row[id].status = "ended" => a = an

LEMMA NextAudience ==
  ASSUME TypeOK, PeakWithinTotal, [Next]_vars
  PROVE  PeakWithinTotal' /\ \A id \in Ids : Grows(id)
  <1>1. ASSUME audience' = audience
        PROVE  PeakWithinTotal' /\ \A id \in Ids : Grows(id)
    BY <1>1 DEF PeakWithinTotal, Grows, TypeOK
  <1>2. ASSUME NEW u \in Users, NEW b \in Ids, NEW viewers \in 0..MaxAudience,
               NEW conns \in {None} \cup viewers..MaxAudience,
               Heartbeat(u, b, viewers, conns)
        PROVE  PeakWithinTotal' /\ \A id \in Ids : Grows(id)
    <2> DEFINE peak == NewPeak(audience[b], viewers)
               total == NewTotal(audience[b], viewers, conns)
    <2>1. /\ audience[b].peak \in Nat /\ audience[b].total \in Nat
          /\ audience[b].peak <= audience[b].total
      BY DEF TypeOK, PeakWithinTotal
    <2>2. /\ peak \in Nat /\ total \in Nat /\ peak <= total
          /\ audience[b].peak <= peak /\ audience[b].total <= total
      BY <2>1 DEF NewPeak, NewTotal, Larger
    <2>3. row[b].status = "live"
      BY <1>2 DEF Heartbeat, IsLiveOf
    <2>4. audience' = [audience EXCEPT ![b] = [peak |-> peak, total |-> total]]
      BY <1>2 DEF Heartbeat
    <2> HIDE DEF peak, total
    <2>5. audience'[b].peak = peak /\ audience'[b].total = total
      BY <2>4 DEF TypeOK
    <2>6. \A id \in Ids \ {b} : audience'[id] = audience[id]
      BY <2>4 DEF TypeOK
    <2>7. \A id \in Ids : Grows(id)
      <3>1. Grows(b)
        BY <2>2, <2>3, <2>5 DEF Grows
      <3>2. \A id \in Ids \ {b} : Grows(id)
        BY <2>6 DEF Grows, PeakWithinTotal, TypeOK
      <3>3. QED
        BY <3>1, <3>2
    <2>8. QED
      BY <2>7 DEF Grows, PeakWithinTotal
  <1>3. ASSUME NEW u \in Users,
               \/ \E id \in Ids, access \in Access : Start(u, id, access)
               \/ \E id \in Ids, access \in Access, code \in Codes :
                    StartHashing(u, id, access, code)
               \/ \E id \in Ids : End(u, id)
               \/ Moderation(u)
        PROVE  audience' = audience
    BY <1>3 DEF Start, StartTx, StartHashing, table, End, Rewrite, Moderation,
                Ban, Unban, DeleteAccount, Register
  <1>4. ASSUME NEW s \in starting, StartHashed(s) PROVE audience' = audience
    BY <1>4 DEF StartHashed, StartTx, table
  <1>5. ASSUME \/ \E v, u \in Users : ResolveMember(v, u)
               \/ \E v \in Viewers, u \in Users, code \in Codes :
                    ResolveComparing(v, u, code)
               \/ \E q \in resolving : ResolveCompared(q)
        PROVE  audience' = audience
    BY <1>5 DEF ResolveMember, ResolveComparing, ResolveCompared, table
  <1>6. ASSUME Tick \/ Housekeeping \/ Restart \/ \E id \in Ids : AdminEnd(id)
        PROVE  audience' = audience
    BY <1>6 DEF Tick, Housekeeping, Restart, Sweep, AdminEnd, Rewrite
  <1>7. QED
    BY <1>1, <1>2, <1>3, <1>4, <1>5, <1>6 DEF Next, Broadcaster, vars

\* updateStats keeps peak_viewers and total_views in step for every sequence
\* of heartbeats, from clients that send totalConnections and that do not.
THEOREM AudienceIsRecorded == Spec => AudienceRecorded
  <1> DEFINE P == \A id \in Kept : Grows(id)
             Inv == TypeOK /\ PeakWithinTotal
  <1>1. Init => Inv
    BY InitTypeOK DEF Init, PeakWithinTotal
  <1>2. Inv /\ [Next]_vars => Inv' /\ [P]_vars
    BY NextTypeOK, NextAudience DEF Kept
  <1>3. QED
    BY <1>1, <1>2, PTL DEF Spec, AudienceRecorded, Grows
=============================================================================
