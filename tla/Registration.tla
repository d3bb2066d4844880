----------------------------- MODULE Registration -----------------------------
(***************************************************************************)
(* How an account comes to be and how its address is proved: invites,       *)
(* registration, and the links sent by mail                                 *)
(* (routes/{auth,email,admin}.ts, repos/{invites,emailTokens,users}.ts).    *)
(*                                                                         *)
(* A handler is atomic between its awaits.  A registration waits for the    *)
(* hash of the password and then for two imports, a change of address for   *)
(* the comparison of the password.  Each table holds one token per handle;  *)
(* a link whose token is replaced, spent or expired opens nothing, so that  *)
(* a token stands here for its link, and knows the mailbox it was sent to.  *)
(* There is one invite.  What a reset does to the sessions of the account   *)
(* is in AuthSessions.                                                      *)
(***************************************************************************)
EXTENDS Naturals, FiniteSets

CONSTANTS
  Handles,     \* usernames
  Admins,      \* handles of adminUsernames, registered with the secret
  Mailboxes,   \* e-mail addresses
  Calls,       \* bound: suspended handlers at a time
  MaxUses,     \* max_uses of the invite
  Mode,        \* registrationMode: "open", "invite" or "closed"
  None

VARIABLES
  users,     \* users[h]: the address of the row of h, and email_verified
  verify,    \* email_verifications[h]: the mailbox of its link
  change,    \* email_changes[h]: new_email, where its link is sent
  reset,     \* password_resets[h]: the mailbox of its link
  invite,    \* the invite, when made: uses, and whether it is disabled or expired
  calls,     \* calls[c]: a suspended handler
  proved,    \* proved[h]: mailboxes whose links were followed for this account
             \* (observer)
  entered    \* registrations that spent the invite and made an account (observer)

tokens == <<verify, change, reset>>
vars == <<users, tokens, invite, calls, proved, entered>>

Row == [email : Mailboxes, verified : BOOLEAN]
Call == [op : {"hash", "import", "compare"}, h : Handles, email : Mailboxes,
         invited : BOOLEAN]
Invite == [uses : Nat, shut : BOOLEAN]

ASSUME RegistrationAssumption ==
  /\ MaxUses \in Nat /\ IsFiniteSet(Calls)
  /\ Mode \in {"open", "invite", "closed"}
  /\ None \notin Mailboxes \cup Row \cup Call \cup Invite
  /\ Admins \subseteq Handles

Init ==
  /\ users = [h \in Handles |-> None]
  /\ verify = [h \in Handles |-> None]
  /\ change = [h \in Handles |-> None]
  /\ reset = [h \in Handles |-> None]
  /\ invite = None
  /\ calls = [c \in Calls |-> None]
  /\ proved = [h \in Handles |-> {}]
  /\ entered = 0

-----------------------------------------------------------------------------
(* Helpers *)

Exists(h) == users[h] # None
\* requireAdmin: the role of those who registered with the secret.
AdminAtWork == \E a \in Admins : Exists(a)
EmailExists(e) == \E h \in Handles : Exists(h) /\ users[h].email = e

Suspend(c, op, h, e, invited) ==
  /\ calls[c] = None
  /\ calls' = [calls EXCEPT ![c] =
                 [op |-> op, h |-> h, email |-> e, invited |-> invited]]
Resumes(c, op) == calls[c] # None /\ calls[c].op = op
Ends(c) == calls' = [calls EXCEPT ![c] = None]
Registering(c) == calls[c] # None /\ calls[c].op = "hash" /\ calls[c].invited

\* mutant: the limit is read, not part of the UPDATE.
ConsumableAlways == invite # None /\ ~invite.shut
\* invitesRepo.consume: the conditions of its UPDATE.
Consumable == invite # None /\ ~invite.shut /\ invite.uses < MaxUses

\* emailTokensRepo: a new token takes the place of the one before it, and using
\* one removes it.
CreateVerification(h, e) == verify' = [verify EXCEPT ![h] = e]
ConsumeVerification(h) == verify[h] # None /\ verify' = [verify EXCEPT ![h] = None]
CreateReset(h, e) == reset' = [reset EXCEPT ![h] = e]
ConsumeReset(h) == reset[h] # None /\ reset' = [reset EXCEPT ![h] = None]
CreateEmailChange(h, e) == change' = [change EXCEPT ![h] = e]
ConsumeEmailChange(h) == change[h] # None /\ change' = [change EXCEPT ![h] = None]

\* usersRepo: an UPDATE that may find no row.
MarkEmailVerified(h) ==
  users' = IF Exists(h) THEN [users EXCEPT ![h].verified = TRUE] ELSE users
SetEmail(h, e) ==
  users' = [users EXCEPT ![h] = [email |-> e, verified |-> TRUE]]

-----------------------------------------------------------------------------
(* Registration *)

\* Both collisions get one answer.
Taken(h, e) == Exists(h) \/ EmailExists(e)

\* The checks, and then the invite, before the password is hashed.
Register(c, h, e) ==
  LET invited == Mode = "invite" /\ h \notin Admins IN
  /\ Mode = "closed" => h \in Admins
  /\ ~Taken(h, e)
  /\ invited => Consumable
  /\ invite' = IF invited THEN [invite EXCEPT !.uses = @ + 1] ELSE invite
  /\ Suspend(c, "hash", h, e, invited)
  /\ UNCHANGED <<users, tokens, proved, entered>>

\* mutant: email_verified has no default.
NewRowNull(e) == [email |-> e, verified |-> None]
\* The address of a new account is not proved.
NewRow(e) == [email |-> e, verified |-> FALSE]

\* usersRepo.create: both unique indexes decide again.
Create(c) ==
  /\ Resumes(c, "hash")
  /\ LET h == calls[c].h
         e == calls[c].email
     IN IF Taken(h, e)
        THEN Ends(c) /\ UNCHANGED <<users, proved, entered>>
        ELSE /\ users' = [users EXCEPT ![h] = NewRow(e)]
             /\ proved' = [proved EXCEPT ![h] = {}]
             /\ calls' = [calls EXCEPT ![c].op = "import"]
             /\ entered' = IF calls[c].invited THEN entered + 1 ELSE entered
  /\ UNCHANGED <<tokens, invite>>

\* createVerification after the imports; the account may be gone, and then the
\* token is made and not sent.
Welcome(c) ==
  /\ Resumes(c, "import")
  /\ LET h == calls[c].h
     IN CreateVerification(h, IF Exists(h) THEN users[h].email ELSE None)
  /\ Ends(c)
  /\ UNCHANGED <<users, change, reset, invite, proved, entered>>

CreateInvite ==
  /\ AdminAtWork /\ invite = None
  /\ invite' = [uses |-> 0, shut |-> FALSE]
  /\ UNCHANGED <<users, tokens, calls, proved, entered>>

\* Disabled by an admin, or expired.
DisableInvite ==
  /\ invite # None /\ ~invite.shut
  /\ invite' = [invite EXCEPT !.shut = TRUE]
  /\ UNCHANGED <<users, tokens, calls, proved, entered>>

-----------------------------------------------------------------------------
(* Links *)

SendVerification(h) ==
  /\ Exists(h) /\ ~users[h].verified
  /\ CreateVerification(h, users[h].email)
  /\ UNCHANGED <<users, change, reset, invite, calls, proved, entered>>

VerifyEmail(h) ==
  /\ ConsumeVerification(h)
  /\ proved' = [proved EXCEPT ![h] = @ \cup {verify[h]}]
  /\ MarkEmailVerified(h)
  /\ UNCHANGED <<change, reset, invite, calls, entered>>

\* /change-email reads the row and compares the password ...
ChangeEmail(c, h, e) ==
  /\ Exists(h) /\ e # users[h].email
  /\ Suspend(c, "compare", h, e, FALSE)
  /\ UNCHANGED <<users, tokens, invite, proved, entered>>

Free(e) == ~EmailExists(e)

\* ... and sends the link to the new address, if nobody has it.
SendChange(c) ==
  /\ Resumes(c, "compare")
  /\ LET h == calls[c].h
         e == calls[c].email
     IN IF Free(e) THEN CreateEmailChange(h, e) ELSE UNCHANGED change
  /\ Ends(c)
  /\ UNCHANGED <<users, verify, reset, invite, proved, entered>>

\* /verify-email-change
ConfirmChange(h) ==
  /\ ConsumeEmailChange(h)
  /\ IF Free(change[h]) /\ Exists(h)
     THEN /\ SetEmail(h, change[h])
          /\ proved' = [proved EXCEPT ![h] = @ \cup {change[h]}]
     ELSE UNCHANGED <<users, proved>>
  /\ UNCHANGED <<verify, reset, invite, calls, entered>>

Forgot(h) ==
  /\ Exists(h)
  /\ CreateReset(h, users[h].email)
  /\ UNCHANGED <<users, verify, change, invite, calls, proved, entered>>

ResetPassword(h) ==
  /\ ConsumeReset(h)
  /\ UNCHANGED <<users, verify, change, invite, calls, proved, entered>>

\* A token that is past its time is as good as gone; housekeeping drops it.
Expires(h) ==
  /\ \/ ConsumeVerification(h) /\ UNCHANGED <<change, reset>>
     \/ ConsumeEmailChange(h) /\ UNCHANGED <<verify, reset>>
     \/ ConsumeReset(h) /\ UNCHANGED <<verify, change>>
  /\ UNCHANGED <<users, invite, calls, proved, entered>>

\* mutant: the tokens of a deleted account are left to expire.
PurgedNot(table, h) == table
Purged(table, h) == [table EXCEPT ![h] = None]

\* usersRepo.delete
Delete(h) ==
  /\ Exists(h)
  /\ users' = [users EXCEPT ![h] = None]
  /\ verify' = Purged(verify, h)
  /\ change' = Purged(change, h)
  /\ reset' = Purged(reset, h)
  /\ UNCHANGED <<invite, calls, proved, entered>>

Next ==
  \/ \E h \in Handles :
       \/ \E c \in Calls, e \in Mailboxes : Register(c, h, e) \/ ChangeEmail(c, h, e)
       \/ SendVerification(h) \/ VerifyEmail(h) \/ ConfirmChange(h)
       \/ Forgot(h) \/ ResetPassword(h) \/ Expires(h) \/ Delete(h)
  \/ \E c \in Calls : Create(c) \/ Welcome(c) \/ SendChange(c)
  \/ CreateInvite \/ DisableInvite

Spec == Init /\ [][Next]_vars

-----------------------------------------------------------------------------
(* Properties *)

TypeOK ==
  /\ users \in [Handles -> Row \cup {None}]
  /\ \A t \in {verify, change, reset} : t \in [Handles -> Mailboxes \cup {None}]
  /\ invite \in Invite \cup {None}
  /\ calls \in [Calls -> Call \cup {None}]
  /\ proved \in [Handles -> SUBSET Mailboxes]
  /\ entered \in Nat

\* No address belongs to two accounts, and an account that is verified has
\* followed a link sent to the very address it has, however registration,
\* change of address and deletion of one handle overlap.
VerifiedIsProved ==
  /\ \A h \in Handles : Exists(h) /\ users[h].verified => users[h].email \in proved[h]
  /\ \A g, h \in Handles :
       Exists(g) /\ Exists(h) /\ users[g].email = users[h].email => g = h

\* An invite lets in at most its number of accounts, those still being hashed
\* included, and each spends a use.
InviteHolds ==
  LET uses == IF invite = None THEN 0 ELSE invite.uses
  IN /\ entered + Cardinality({c \in Calls : Registering(c)}) <= uses
     /\ uses <= MaxUses
=============================================================================
