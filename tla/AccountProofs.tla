------------------------------ MODULE AccountProofs ------------------------------
(***************************************************************************)
(* Theorems about an account and what it signs in to: about Registration,   *)
(* for any handles, mailboxes and invites, and about SignIn, for any        *)
(* accounts, logins, tickets and sockets.  The two share no variable.       *)
(***************************************************************************)
EXTENDS Registration, SignIn, FiniteSetTheorems, TLAPS

USE RegistrationAssumption

-----------------------------------------------------------------------------
(* Registration: the inductive invariant *)

\* A link that verifies an address goes to the address of the account, unless
\* that has been verified, perhaps another one, since.
LinkIsOwn ==
  \A h \in Handles : verify[h] # None =>
    Exists(h) /\ (users[h].verified \/ verify[h] = users[h].email)

Types ==
  /\ users \in [Handles -> Row \cup {None}]
  /\ verify \in [Handles -> Mailboxes \cup {None}]
  /\ change \in [Handles -> Mailboxes \cup {None}]
  /\ reset \in [Handles -> Mailboxes \cup {None}]
  /\ invite \in Invite \cup {None}
  /\ calls \in [Calls -> Call \cup {None}]
  /\ proved \in [Handles -> SUBSET Mailboxes]
  /\ entered \in Nat

LEMMA TypesAre == TypeOK <=> Types
  BY DEF TypeOK, Types

RegistrationIInv == Types /\ LinkIsOwn /\ VerifiedIsProved /\ InviteHolds

\* The handlers that have spent a use of the invite and made no account yet.
Spending == {c \in Calls : Registering(c)}
Uses == IF invite = None THEN 0 ELSE invite.uses

LEMMA HoldsUses ==
  InviteHolds <=> entered + Cardinality(Spending) <= Uses /\ Uses <= MaxUses
  BY DEF InviteHolds, Spending, Uses

LEMMA RegistrationInitHolds == Init => RegistrationIInv
  <1> SUFFICES ASSUME Init PROVE RegistrationIInv
    OBVIOUS
  <1>1. Types /\ LinkIsOwn /\ VerifiedIsProved
    BY DEF Init, Types, LinkIsOwn, VerifiedIsProved, Exists
  <1>2. Spending = {}
    BY DEF Init, Spending, Registering
  <1>3. Cardinality(Spending) = 0
    BY <1>2, FS_EmptySet
  <1>4. QED
    BY <1>1, <1>3, HoldsUses DEF Init, RegistrationIInv, Uses

-----------------------------------------------------------------------------
(* The invite *)

\* Handlers that come and go.
LEMMA WaitingFinite ==
  IsFiniteSet(Spending) /\ Cardinality(Spending) \in Nat
  <1>1. Spending \subseteq Calls
    BY DEF Spending
  <1>2. QED
    BY <1>1, FS_Subset, FS_CardinalityType

LEMMA WaitingGains ==
  ASSUME NEW S, NEW T, IsFiniteSet(S), NEW c, T = S \cup {c}, c \notin S
  PROVE  Cardinality(T) = Cardinality(S) + 1
  BY FS_AddElement

LEMMA WaitingLoses ==
  ASSUME NEW S, NEW T, IsFiniteSet(S), NEW c \in S, T = S \ {c}
  PROVE  Cardinality(T) = Cardinality(S) - 1
  BY FS_RemoveElement

LEMMA InviteKept ==
  ASSUME RegistrationIInv, entered' = entered, Uses' = Uses, Spending' = Spending
  PROVE  InviteHolds'
  <1>1. entered + Cardinality(Spending) <= Uses /\ Uses <= MaxUses
    BY HoldsUses DEF RegistrationIInv
  <1>2. QED
    BY <1>1 DEF InviteHolds, Spending, Uses

LEMMA RegisterHolds ==
  ASSUME RegistrationIInv, NEW c \in Calls, NEW h \in Handles, NEW e \in Mailboxes,
         Register(c, h, e)
  PROVE  InviteHolds'
  <1> DEFINE invited == Mode = "invite" /\ h \notin Admins
             new == [op |-> "hash", h |-> h, email |-> e, invited |-> invited]
  <1>1. calls[c] = None /\ calls' = [calls EXCEPT ![c] = new] /\ entered' = entered
    BY DEF Register, Suspend
  <1>2. new \in Call /\ new.op = "hash" /\ new.invited = invited
    BY DEF Call
  <1>3. c \notin Spending
    BY <1>1 DEF Spending, Registering
  <1>4. \A x \in Calls \ {c} : calls'[x] = calls[x]
    BY <1>1 DEF RegistrationIInv, Types
  <1>5. calls'[c] = new
    BY <1>1 DEF RegistrationIInv, Types
  <1> HIDE DEF new
  <1>6. CASE invited
    <2>1. Spending' = Spending \cup {c}
      BY <1>2, <1>4, <1>5, <1>6 DEF Spending, Registering
    <2>2. Cardinality(Spending') = Cardinality(Spending) + 1
      BY <1>3, <2>1, WaitingFinite, WaitingGains
    <2>3. /\ invite \in Invite /\ invite.uses < MaxUses
          /\ invite' = [invite EXCEPT !.uses = @ + 1]
      BY <1>6 DEF Register, Consumable, RegistrationIInv, Types
    <2>4. invite' \in Invite /\ invite'.uses = invite.uses + 1 /\ invite.uses \in Nat
      BY <2>3 DEF Invite
    <2>5. entered + Cardinality(Spending) <= invite.uses
      BY <2>3, HoldsUses DEF RegistrationIInv, Uses
    <2>6. entered' + Cardinality(Spending') <= invite'.uses /\ invite'.uses <= MaxUses
      BY <1>1, <2>2, <2>3, <2>4, <2>5, WaitingFinite DEF RegistrationIInv, Types
    <2>7. QED
      BY <2>4, <2>6 DEF InviteHolds, Spending
  <1>7. CASE ~invited
    <2>1. Spending' = Spending
      BY <1>2, <1>3, <1>4, <1>5, <1>7 DEF Spending, Registering
    <2>2. Uses' = Uses
      BY <1>7 DEF Register, Uses
    <2>3. QED
      BY <1>1, <2>1, <2>2, InviteKept
  <1>8. QED
    BY <1>6, <1>7

\* A handler that goes on waits no more for its account.
LEMMA WaitingEnds ==
  ASSUME RegistrationIInv, NEW c \in Calls, NEW v, v = None \/ v.op # "hash",
         calls' = [calls EXCEPT ![c] = v]
  PROVE  Spending' = Spending \ {c}
  BY DEF Spending, Registering, RegistrationIInv, Types

LEMMA EndHolds ==
  ASSUME RegistrationIInv, NEW c \in Calls, NEW v, v = None \/ v.op # "hash",
         calls' = [calls EXCEPT ![c] = v], UNCHANGED invite,
         (entered' = entered + 1 /\ c \in Spending) \/ UNCHANGED entered
  PROVE  InviteHolds'
  <1>1. Spending' = Spending \ {c}
    BY WaitingEnds
  <1>2. entered + Cardinality(Spending) <= Uses /\ Uses <= MaxUses
    BY HoldsUses DEF RegistrationIInv
  <1>3. Cardinality(Spending') = IF c \in Spending THEN Cardinality(Spending) - 1
                                ELSE Cardinality(Spending)
    <2>1. CASE c \in Spending
      BY <1>1, <2>1, WaitingFinite, WaitingLoses
    <2>2. CASE c \notin Spending
      BY <1>1, <2>2
    <2>3. QED
      BY <2>1, <2>2
  <1>4. Uses \in Nat /\ Uses' = Uses
    BY DEF Uses, RegistrationIInv, Types, Invite
  <1>5. entered' + Cardinality(Spending') <= Uses' /\ Uses' <= MaxUses
    BY <1>2, <1>3, <1>4, WaitingFinite DEF RegistrationIInv, Types
  <1>6. QED
    BY <1>5 DEF InviteHolds, Spending, Uses

-----------------------------------------------------------------------------
(* The steps *)

\* Accounts and links are what they were.
LEMMA RowsKept ==
  ASSUME RegistrationIInv, UNCHANGED <<users, verify, proved>>
  PROVE  LinkIsOwn' /\ VerifiedIsProved'
  BY DEF RegistrationIInv, LinkIsOwn, VerifiedIsProved, Exists

LEMMA RegisterSteps ==
  ASSUME RegistrationIInv, NEW c \in Calls, NEW h \in Handles, NEW e \in Mailboxes,
         Register(c, h, e)
  PROVE  RegistrationIInv'
  <1>1. [op |-> "hash", h |-> h, email |-> e,
         invited |-> Mode = "invite" /\ h \notin Admins] \in Call
    BY DEF Call
  <1>2. calls' \in [Calls -> Call \cup {None}]
    BY <1>1 DEF Register, Suspend, RegistrationIInv, Types
  <1>3. invite' \in Invite \cup {None}
    <2>1. CASE Mode = "invite" /\ h \notin Admins
      <3>1. invite \in Invite
        BY <2>1 DEF Register, Consumable, RegistrationIInv, Types
      <3>2. QED
        BY <2>1, <3>1 DEF Register, Invite
    <2>2. CASE ~(Mode = "invite" /\ h \notin Admins)
      BY <2>2 DEF Register, RegistrationIInv, Types
    <2>3. QED
      BY <2>1, <2>2
  <1>4. QED
    BY <1>2, <1>3, RowsKept, RegisterHolds DEF Register, tokens, RegistrationIInv, Types

LEMMA SuspendedTypes ==
  ASSUME RegistrationIInv, NEW c \in Calls, calls[c] # None
  PROVE  /\ calls[c] \in Call /\ calls[c].h \in Handles
         /\ calls[c].email \in Mailboxes
  BY DEF RegistrationIInv, Types, Call

LEMMA CreateSteps ==
  ASSUME RegistrationIInv, NEW c \in Calls, Create(c)
  PROVE  RegistrationIInv'
  <1> DEFINE h == calls[c].h
             e == calls[c].email
             new == [calls[c] EXCEPT !.op = "import"]
  <1>1. h \in Handles /\ e \in Mailboxes /\ new \in Call /\ new.op = "import"
    BY SuspendedTypes DEF Create, Resumes, Call
  <1>2. CASE Taken(h, e)
    <2>1. calls' = [calls EXCEPT ![c] = None] /\ UNCHANGED <<users, proved, entered>>
      BY <1>2 DEF Create, Ends
    <2>2. InviteHolds'
      BY <2>1, EndHolds DEF Create
    <2>3. QED
      BY <2>1, <2>2, RowsKept DEF Create, tokens, RegistrationIInv, Types
  <1>3. CASE ~Taken(h, e)
    <2>1. /\ users' = [users EXCEPT ![h] = NewRow(e)]
          /\ proved' = [proved EXCEPT ![h] = {}]
          /\ calls' = [calls EXCEPT ![c] = new]
          /\ entered' = IF calls[c].invited THEN entered + 1 ELSE entered
      BY <1>3 DEF Create
    <2>2. NewRow(e) \in Row /\ ~NewRow(e).verified /\ NewRow(e).email = e
      BY <1>1 DEF NewRow, Row
    <2>3. users' \in [Handles -> Row \cup {None}]
      BY <2>1, <2>2 DEF RegistrationIInv, Types
    <2>4. calls' \in [Calls -> Call \cup {None}]
      BY <1>1, <2>1 DEF RegistrationIInv, Types
    <2>5. InviteHolds'
      BY <1>1, <2>1, EndHolds DEF Create, Resumes, Spending, Registering
    <2>6. verify[h] = None
      BY <1>1, <1>3 DEF Taken, RegistrationIInv, LinkIsOwn
    <2>7. LinkIsOwn'
      BY <2>1, <2>6 DEF Create, tokens, LinkIsOwn, Exists, RegistrationIInv, Types
    <2>8. VerifiedIsProved'
      BY <1>1, <1>3, <2>1, <2>2 DEF Taken, EmailExists, VerifiedIsProved, Exists, RegistrationIInv, Types
    <2>9. QED
      BY <1>1, <2>1, <2>3, <2>4, <2>5, <2>7, <2>8 DEF Create, tokens, RegistrationIInv, Types
  <1>4. QED
    BY <1>2, <1>3

LEMMA WelcomeSteps ==
  ASSUME RegistrationIInv, NEW c \in Calls, Welcome(c)
  PROVE  RegistrationIInv'
  <1> DEFINE h == calls[c].h
             e == IF Exists(h) THEN users[h].email ELSE None
  <1>1. h \in Handles
    BY SuspendedTypes DEF Welcome, Resumes
  <1>2. verify' = [verify EXCEPT ![h] = e] /\ e \in Mailboxes \cup {None}
    BY <1>1 DEF Welcome, CreateVerification, Exists, RegistrationIInv, Types, Row
  <1>3. InviteHolds'
    BY EndHolds DEF Welcome, Ends
  <1>4. LinkIsOwn'
    BY <1>1, <1>2 DEF Welcome, LinkIsOwn, Exists, RegistrationIInv, Types
  <1>5. VerifiedIsProved'
    BY DEF Welcome, VerifiedIsProved, Exists, RegistrationIInv
  <1>6. QED
    BY <1>2, <1>3, <1>4, <1>5 DEF Welcome, Ends, RegistrationIInv, Types

LEMMA ChangeEmailSteps ==
  ASSUME RegistrationIInv, NEW c \in Calls, NEW h \in Handles, NEW e \in Mailboxes,
         ChangeEmail(c, h, e)
  PROVE  RegistrationIInv'
  <1> DEFINE new == [op |-> "compare", h |-> h, email |-> e, invited |-> FALSE]
  <1>1. new \in Call /\ new.op = "compare" /\ calls' = [calls EXCEPT ![c] = new]
    BY DEF Call, ChangeEmail, Suspend
  <1> HIDE DEF new
  <1>2. InviteHolds'
    BY <1>1, EndHolds DEF ChangeEmail
  <1>3. QED
    BY <1>1, <1>2, RowsKept DEF ChangeEmail, tokens, RegistrationIInv, Types

LEMMA SendChangeSteps ==
  ASSUME RegistrationIInv, NEW c \in Calls, SendChange(c)
  PROVE  RegistrationIInv'
  <1>1. InviteHolds'
    BY EndHolds DEF SendChange, Ends
  <1>2. change' \in [Handles -> Mailboxes \cup {None}]
    BY SuspendedTypes DEF SendChange, Resumes, CreateEmailChange, RegistrationIInv, Types
  <1>3. QED
    BY <1>1, <1>2, RowsKept DEF SendChange, Ends, RegistrationIInv, Types

LEMMA InviteSteps ==
  ASSUME RegistrationIInv, CreateInvite \/ DisableInvite
  PROVE  RegistrationIInv'
  <1>1. invite' \in Invite /\ Uses' = Uses
    <2>1. CASE CreateInvite
      <3>1. invite = None /\ invite' = [uses |-> 0, shut |-> FALSE]
        BY <2>1 DEF CreateInvite
      <3>2. invite' \in Invite /\ invite' # None
        <4>1. [uses |-> 0, shut |-> FALSE] \in Invite
          BY DEF Invite
        <4>2. QED
          BY <3>1, <4>1, RegistrationAssumption
      <3>3. QED
        BY <3>1, <3>2 DEF Uses
    <2>2. CASE DisableInvite
      <3>1. invite \in Invite
        BY <2>2 DEF DisableInvite, RegistrationIInv, Types
      <3>2. invite' = [invite EXCEPT !.shut = TRUE]
        BY <2>2 DEF DisableInvite
      <3>3. invite' \in Invite /\ invite'.uses = invite.uses
        BY <3>1, <3>2 DEF Invite
      <3>4. invite # None /\ invite' # None
        BY <3>1, <3>3, RegistrationAssumption
      <3>5. QED
        BY <3>3, <3>4 DEF Uses
    <2>3. QED
      BY <2>1, <2>2
  <1>2. Spending' = Spending
    BY DEF CreateInvite, DisableInvite, Spending, Registering
  <1>3. InviteHolds'
    BY <1>1, <1>2, InviteKept DEF CreateInvite, DisableInvite
  <1>4. QED
    BY <1>1, <1>3, RowsKept DEF CreateInvite, DisableInvite, tokens, RegistrationIInv, Types

\* Following a link, asking for one or losing it leaves the invite alone.
LEMMA InviteUntouched ==
  ASSUME RegistrationIInv, UNCHANGED <<invite, calls, entered>>
  PROVE  InviteHolds' /\ invite' \in Invite \cup {None}
           /\ calls' \in [Calls -> Call \cup {None}] /\ entered' \in Nat
  BY DEF RegistrationIInv, Types, InviteHolds, Registering

LEMMA VerifySteps ==
  ASSUME RegistrationIInv, NEW h \in Handles, SendVerification(h) \/ VerifyEmail(h)
  PROVE  RegistrationIInv'
  <1>1. CASE SendVerification(h)
    <2>1. users[h] \in Row /\ users[h].email \in Mailboxes
      BY <1>1 DEF SendVerification, Exists, RegistrationIInv, Types, Row
    <2>2. verify' = [verify EXCEPT ![h] = users[h].email]
      BY <1>1 DEF SendVerification, CreateVerification
    <2>3. LinkIsOwn' /\ VerifiedIsProved'
      BY <1>1, <2>2 DEF SendVerification, LinkIsOwn, VerifiedIsProved, Exists, RegistrationIInv, Types
    <2>4. QED
      BY <1>1, <2>1, <2>2, <2>3, InviteUntouched DEF SendVerification, RegistrationIInv, Types
  <1>2. CASE VerifyEmail(h)
    <2>1. /\ verify[h] # None /\ verify' = [verify EXCEPT ![h] = None]
          /\ proved' = [proved EXCEPT ![h] = @ \cup {verify[h]}]
      BY <1>2 DEF VerifyEmail, ConsumeVerification
    <2>2. Exists(h) /\ (users[h].verified \/ verify[h] = users[h].email)
      BY <2>1 DEF RegistrationIInv, LinkIsOwn
    <2>3. users[h] \in Row
      BY <2>2 DEF Exists, RegistrationIInv, Types
    <2> DEFINE new == [users[h] EXCEPT !.verified = TRUE]
    <2>4. new \in Row /\ new.email = users[h].email /\ new.verified
      BY <2>3 DEF Row
    <2>5. users' = [users EXCEPT ![h] = new]
      BY <1>2, <2>2 DEF VerifyEmail, MarkEmailVerified
    <2> HIDE DEF new
    <2>6. users[h].verified => users[h].email \in proved[h]
      BY <2>2 DEF RegistrationIInv, VerifiedIsProved
    <2>7. users' \in [Handles -> Row \cup {None}]
            /\ proved' \in [Handles -> SUBSET Mailboxes]
            /\ verify' \in [Handles -> Mailboxes \cup {None}]
      BY <2>1, <2>4, <2>5 DEF RegistrationIInv, Types
    <2>8. \A g \in Handles : (Exists(g))' <=> Exists(g)
      BY <2>2, <2>4, <2>5 DEF Exists, RegistrationIInv, Types
    <2>9. \A g \in Handles : users'[g].email = users[g].email
      BY <2>4, <2>5 DEF RegistrationIInv, Types
    <2>10. LinkIsOwn'
      BY <2>1, <2>5, <2>8, <2>9 DEF LinkIsOwn, RegistrationIInv, Types
    <2>11. VerifiedIsProved'
      <3>1. \A g \in Handles : g # h => users'[g] = users[g] /\ proved'[g] = proved[g]
        BY <2>1, <2>5 DEF RegistrationIInv, Types
      <3>2. users'[h].email \in proved'[h]
        BY <2>1, <2>2, <2>6, <2>9 DEF RegistrationIInv, Types
      <3>3. QED
        BY <2>8, <2>9, <3>1, <3>2 DEF VerifiedIsProved, RegistrationIInv
    <2>12. QED
      BY <1>2, <2>7, <2>10, <2>11, InviteUntouched DEF VerifyEmail, RegistrationIInv, Types
  <1>3. QED
    BY <1>1, <1>2

LEMMA ConfirmSteps ==
  ASSUME RegistrationIInv, NEW h \in Handles, ConfirmChange(h)
  PROVE  RegistrationIInv'
  <1> DEFINE e == change[h]
  <1>1. e \in Mailboxes /\ change' = [change EXCEPT ![h] = None]
    BY DEF ConfirmChange, ConsumeEmailChange, RegistrationIInv, Types
  <1>2. change' \in [Handles -> Mailboxes \cup {None}]
    BY <1>1 DEF RegistrationIInv, Types
  <1>3. CASE Free(e) /\ Exists(h)
    <2>1. /\ users' = [users EXCEPT ![h] = [email |-> e, verified |-> TRUE]]
          /\ proved' = [proved EXCEPT ![h] = @ \cup {e}]
      BY <1>3 DEF ConfirmChange, SetEmail
    <2>2. [email |-> e, verified |-> TRUE] \in Row
      BY <1>1 DEF Row
    <2>3. users' \in [Handles -> Row \cup {None}] /\ proved' \in [Handles -> SUBSET Mailboxes]
      BY <1>1, <2>1, <2>2 DEF RegistrationIInv, Types
    <2>4. LinkIsOwn'
      BY <1>3, <2>1, <2>2 DEF ConfirmChange, LinkIsOwn, Exists, RegistrationIInv, Types
    <2>5. VerifiedIsProved'
      BY <1>3, <2>1, <2>2 DEF VerifiedIsProved, Free, EmailExists, Exists, RegistrationIInv, Types
    <2>6. QED
      BY <1>2, <2>3, <2>4, <2>5, InviteUntouched DEF ConfirmChange, RegistrationIInv, Types
  <1>4. CASE ~(Free(e) /\ Exists(h))
    BY <1>2, <1>4, InviteUntouched, RowsKept DEF ConfirmChange, RegistrationIInv, Types
  <1>5. QED
    BY <1>3, <1>4

LEMMA ResetSteps ==
  ASSUME RegistrationIInv, NEW h \in Handles, Forgot(h) \/ ResetPassword(h) \/ Expires(h)
  PROVE  RegistrationIInv'
  <1>1. CASE Forgot(h)
    <2>1. users[h].email \in Mailboxes
      BY <1>1 DEF Forgot, Exists, RegistrationIInv, Types, Row
    <2>2. QED
      BY <1>1, <2>1, InviteUntouched, RowsKept DEF Forgot, CreateReset, RegistrationIInv, Types
  <1>2. CASE ResetPassword(h)
    BY <1>2, InviteUntouched, RowsKept DEF ResetPassword, ConsumeReset, RegistrationIInv, Types
  <1>3. CASE Expires(h)
    <2>1. /\ verify' \in {verify, [verify EXCEPT ![h] = None]}
          /\ change' \in {change, [change EXCEPT ![h] = None]}
          /\ reset' \in {reset, [reset EXCEPT ![h] = None]}
          /\ UNCHANGED <<users, invite, calls, proved, entered>>
      BY <1>3 DEF Expires, ConsumeVerification, ConsumeEmailChange, ConsumeReset
    <2>2. LinkIsOwn' /\ VerifiedIsProved'
      BY <2>1 DEF LinkIsOwn, VerifiedIsProved, Exists, RegistrationIInv, Types
    <2>3. QED
      BY <2>1, <2>2, InviteUntouched DEF RegistrationIInv, Types
  <1>4. QED
    BY <1>1, <1>2, <1>3

LEMMA DeleteSteps ==
  ASSUME RegistrationIInv, NEW h \in Handles, Delete(h)
  PROVE  RegistrationIInv'
  <1>1. LinkIsOwn' /\ VerifiedIsProved'
    BY DEF Delete, Purged, LinkIsOwn, VerifiedIsProved, Exists, RegistrationIInv, Types
  <1>2. QED
    BY <1>1, InviteUntouched DEF Delete, Purged, RegistrationIInv, Types

-----------------------------------------------------------------------------
(* The theorems *)

LEMMA RegistrationStepHolds ==
  ASSUME RegistrationIInv, [Next]_vars
  PROVE  RegistrationIInv'
  <1>1. CASE UNCHANGED vars
    BY <1>1, InviteUntouched, RowsKept DEF vars, tokens, RegistrationIInv, Types
  <1>2. CASE Next
    BY <1>2, RegisterSteps, ChangeEmailSteps, VerifySteps, ConfirmSteps, ResetSteps,
       DeleteSteps, CreateSteps, WelcomeSteps, SendChangeSteps, InviteSteps DEF Next
  <1>3. QED
    BY <1>1, <1>2

\* The inductive invariant of registration and links.
THEOREM RegistrationInvariant == Spec => []RegistrationIInv
  BY RegistrationInitHolds, RegistrationStepHolds, PTL DEF Spec

\* Every variable keeps its type.
THEOREM RegistrationTypeCorrect == Spec => []TypeOK
  BY RegistrationInvariant, TypesAre, PTL DEF RegistrationIInv

\* A verified account has followed a link to its address, which no other account
\* has (routes/email.ts, repos/users.ts).
THEOREM AddressesAreProved == Spec => []VerifiedIsProved
  BY RegistrationInvariant, PTL DEF RegistrationIInv

\* An invite lets in no more than its uses (repos/invites.ts).
THEOREM InvitesHold == Spec => []InviteHolds
  BY RegistrationInvariant, PTL DEF RegistrationIInv

-----------------------------------------------------------------------------
HIDE RegistrationAssumption
USE SignInAssumption

-----------------------------------------------------------------------------
(* SignIn: the inductive invariant *)

Waiting(h) == {c \in Logins : login[c] # Null /\ login[c].h = h}

\* A lock keeps new logins out, so that what is guessed under it comes from those
\* that wait already; without it the count of the row covers the guesses.
LockHolds ==
  \A h \in Accounts :
    IF accounts[h].locked
    THEN guesses[h] + Cardinality(Waiting(h)) < LockAfter + Cardinality(Logins)
    ELSE guesses[h] <= accounts[h].fails /\ guesses[h] < LockAfter

\* In the process the look-up is part of the upgrade, and the ticket of a socket
\* that has a name is spent.
TicketIsSpent ==
  ~redis => \A s \in Sockets :
    /\ sock[s].phase \in {"closed", "open"}
    /\ sock[s].who # Null /\ sock[s].with \in Tickets => ticket[sock[s].with] = "spent"

SignInIInv == SignInTypeOK /\ LockHolds /\ TicketIsSpent

LEMMA LoginsCount ==
  /\ IsFiniteSet(Logins) /\ Cardinality(Logins) \in Nat
  /\ MaxGuesses \in Nat /\ LockAfter <= MaxGuesses
  /\ \A h \in Accounts : IsFiniteSet(Waiting(h)) /\ Cardinality(Waiting(h)) \in Nat
                        /\ Cardinality(Waiting(h)) <= Cardinality(Logins)
  <1>1. Cardinality(Logins) \in Nat
    BY FS_CardinalityType
  <1>2. \A h \in Accounts : Waiting(h) \subseteq Logins
    BY DEF Waiting
  <1>3. QED
    BY <1>1, <1>2, FS_CardinalityType, FS_Subset DEF MaxGuesses

LEMMA ClosedTypes ==
  /\ Closed \in Socket /\ Closed.phase = "closed"
  /\ Closed.who = Null /\ Closed.with = Null /\ Closed.seen = Null
  BY DEF Closed, Socket, Credentials

LEMMA SignInInitHolds == SignInInit => SignInIInv
  <1> SUFFICES ASSUME SignInInit PROVE SignInIInv
    OBVIOUS
  <1>1. [banned |-> FALSE, tv |-> 0, fails |-> 0, open |-> FALSE, locked |-> FALSE]
          \in User
    BY DEF User
  <1>2. SignInTypeOK
    BY <1>1, LoginsCount, ClosedTypes DEF SignInInit, SignInTypeOK
  <1>3. LockHolds
    BY DEF SignInInit, LockHolds
  <1>4. TicketIsSpent
    BY ClosedTypes DEF SignInInit, TicketIsSpent
  <1>5. QED
    BY <1>2, <1>3, <1>4 DEF SignInIInv

\* What the invariant says of the guesses.
LEMMA Consequences == SignInIInv => GuessesBounded
  <1> SUFFICES ASSUME SignInIInv, NEW h \in Accounts
               PROVE  guesses[h] < LockAfter + Cardinality(Logins)
    BY DEF GuessesBounded
  <1>1. guesses[h] \in Nat /\ accounts[h] \in User
    BY LoginsCount DEF SignInIInv, SignInTypeOK
  <1>2. QED
    BY <1>1, LoginsCount DEF SignInIInv, LockHolds, User

-----------------------------------------------------------------------------
(* The lockout *)

\* One account's row and guesses change, and a login may end; if the row and the
\* guesses of that account still agree, everything does.
LEMMA OneAccount ==
  ASSUME SignInIInv, NEW h \in Accounts, NEW u \in User, NEW n \in 0..MaxGuesses,
         accounts' = [accounts EXCEPT ![h] = u], guesses' = [guesses EXCEPT ![h] = n],
         login' \in [Logins -> Attempt \cup {Null}],
         \A c \in Logins : login'[c] \in {login[c], Null},
         jwts' \subseteq Jwts, UNCHANGED signaling,
         IF u.locked
         THEN n + Cardinality(Waiting(h)') < LockAfter + Cardinality(Logins)
         ELSE n <= u.fails /\ n < LockAfter
  PROVE  SignInIInv'
  <1>1. SignInTypeOK'
    BY DEF SignInIInv, SignInTypeOK, signaling
  <1>2. TicketIsSpent'
    BY DEF SignInIInv, TicketIsSpent, signaling
  <1>3. ASSUME NEW g \in Accounts, g # h
        PROVE  Cardinality(Waiting(g)') <= Cardinality(Waiting(g))
               /\ Cardinality(Waiting(g)') \in Nat
    <2>1. Waiting(g)' \subseteq Waiting(g)
      BY DEF Waiting
    <2>2. QED
      BY <2>1, LoginsCount, FS_Subset, FS_CardinalityType
  <1>4. LockHolds'
    <2> SUFFICES ASSUME NEW g \in Accounts
                 PROVE IF accounts'[g].locked
                       THEN guesses'[g] + Cardinality(Waiting(g)')
                              < LockAfter + Cardinality(Logins)
                       ELSE guesses'[g] <= accounts'[g].fails /\ guesses'[g] < LockAfter
      BY DEF LockHolds
    <2>1. CASE g = h
      BY <2>1 DEF SignInIInv, SignInTypeOK
    <2>2. CASE g # h
      <3>1. accounts'[g] = accounts[g] /\ guesses'[g] = guesses[g]
            /\ guesses[g] \in Nat
        BY <2>2, LoginsCount DEF SignInIInv, SignInTypeOK
      <3>2. QED
        BY <1>3, <2>2, <3>1, LoginsCount DEF SignInIInv, LockHolds
    <2>3. QED
      BY <2>1, <2>2
  <1>5. QED
    BY <1>1, <1>2, <1>4 DEF SignInIInv

LEMMA LoginStep ==
  ASSUME SignInIInv, NEW c \in Logins, NEW h \in Accounts, NEW right \in BOOLEAN,
         Login(c, h, right)
  PROVE  SignInIInv'
  <1> DEFINE a == [h |-> h, right |-> right, banned |-> accounts[h].banned]
  <1>1. a \in Attempt /\ a.h = h
    BY DEF Attempt, SignInIInv, SignInTypeOK, User
  <1>2. login' = [login EXCEPT ![c] = a] /\ login[c] = Null /\ ~accounts[h].locked
        /\ UNCHANGED <<accounts, jwts, signaling, guesses>>
    BY DEF Login, IsLocked
  <1>3. SignInTypeOK'
    BY <1>1, <1>2 DEF SignInIInv, SignInTypeOK, signaling
  <1>4. TicketIsSpent'
    BY <1>2 DEF SignInIInv, TicketIsSpent, signaling
  <1>5. \A g \in Accounts \ {h} : Waiting(g)' = Waiting(g)
    BY <1>1, <1>2 DEF Waiting, SignInIInv, SignInTypeOK
  <1>6. LockHolds'
    BY <1>2, <1>5 DEF SignInIInv, LockHolds
  <1>7. QED
    BY <1>3, <1>4, <1>6 DEF SignInIInv

\* A login that ends no longer waits.
LEMMA EndsCount ==
  ASSUME SignInIInv, NEW c \in Logins, login[c] # Null, LoginEnds(c), NEW h, h = login[c].h
  PROVE  /\ h \in Accounts
         /\ login' \in [Logins -> Attempt \cup {Null}]
         /\ \A d \in Logins : login'[d] \in {login[d], Null}
         /\ Cardinality(Waiting(h)') = Cardinality(Waiting(h)) - 1
  <1>1. login[c] \in Attempt /\ h \in Accounts
    BY DEF SignInIInv, SignInTypeOK, Attempt
  <1>2. login' \in [Logins -> Attempt \cup {Null}]
        /\ \A d \in Logins : login'[d] = IF d = c THEN Null ELSE login[d]
    BY DEF LoginEnds, SignInIInv, SignInTypeOK
  <1>3. Waiting(h)' = Waiting(h) \ {c} /\ c \in Waiting(h)
    BY <1>2 DEF Waiting
  <1>4. QED
    <2>1. IsFiniteSet(Waiting(h))
      BY <1>1, LoginsCount
    <2>2. Cardinality(Waiting(h) \ {c}) = Cardinality(Waiting(h)) - 1
      BY <1>3, <2>1, FS_RemoveElement
    <2>3. QED
      BY <1>1, <1>2, <1>3, <2>2

Recount(u, f, o, l) == [u EXCEPT !.fails = f, !.open = o, !.locked = l]

LEMMA UserFields ==
  ASSUME NEW u \in User, NEW f \in 0..LockAfter, NEW o \in BOOLEAN, NEW l \in BOOLEAN
  PROVE  /\ Recount(u, f, o, l) \in User
         /\ Recount(u, f, o, l).fails = f /\ Recount(u, f, o, l).locked = l
  <1> DEFINE w1 == [u EXCEPT !.fails = f]
             w2 == [w1 EXCEPT !.open = o]
  <1>1. w1 \in User /\ w1.fails = f
    BY DEF User
  <1> HIDE DEF w1
  <1>2. w2 \in User /\ w2.fails = f
    BY <1>1 DEF User
  <1> HIDE DEF w2
  <1>3. [w2 EXCEPT !.locked = l] \in User /\ [w2 EXCEPT !.locked = l].fails = f
        /\ [w2 EXCEPT !.locked = l].locked = l
    BY <1>2 DEF User
  <1>4. Recount(u, f, o, l) = [w2 EXCEPT !.locked = l]
    BY DEF w1, w2, Recount
  <1>5. QED
    BY <1>3, <1>4

LEMMA WrongPasswordStep ==
  ASSUME SignInIInv, NEW c \in Logins, WrongPassword(c)
  PROVE  SignInIInv'
  <1>0. PICK h : h = login[c].h
    OBVIOUS
  <1> DEFINE u == accounts[h]
             count == IF u.open THEN Smaller(u.fails + 1, LockAfter) ELSE 1
             n == IF u.open THEN Smaller(guesses[h] + 1, MaxGuesses) ELSE 1
  <1>1. /\ h \in Accounts /\ login' \in [Logins -> Attempt \cup {Null}]
        /\ \A d \in Logins : login'[d] \in {login[d], Null}
        /\ Cardinality(Waiting(h)') = Cardinality(Waiting(h)) - 1
    BY <1>0, EndsCount DEF WrongPassword
  <1>2. u \in User /\ guesses[h] \in 0..MaxGuesses
    BY <1>1 DEF SignInIInv, SignInTypeOK
  <1>3. count \in 1..LockAfter /\ n \in 1..MaxGuesses
    BY <1>2, LoginsCount DEF Smaller, User
  <1>4. /\ Recorded(c) \in User /\ Recorded(c).fails = count
        /\ Recorded(c).locked <=> u.locked \/ count >= LockAfter
    <2> DEFINE l == u.locked \/ count >= LockAfter
    <2>1. Recorded(c) = Recount(u, count, TRUE, l)
      BY <1>0 DEF Recorded, Recount
    <2>2. l \in BOOLEAN
      BY <1>2, <1>3 DEF User
    <2> HIDE DEF u, count, l
    <2>3. count \in 0..LockAfter
      BY <1>3
    <2>4. Recorded(c) \in User /\ Recorded(c).fails = count /\ Recorded(c).locked = l
      <3>1. PICK k \in BOOLEAN, t \in BOOLEAN : k = l /\ t = TRUE
        BY <2>2
      <3>2. /\ Recount(u, count, t, k) \in User
            /\ Recount(u, count, t, k).fails = count /\ Recount(u, count, t, k).locked = k
        BY <1>2, <2>3, UserFields
      <3>3. QED
        BY <2>1, <3>1, <3>2
    <2>5. QED
      BY <2>4 DEF l
  <1>5. accounts' = [accounts EXCEPT ![h] = Recorded(c)]
        /\ guesses' = [guesses EXCEPT ![h] = n]
        /\ UNCHANGED <<jwts, signaling>>
    BY <1>0, <1>1 DEF WrongPassword, SignInIInv, SignInTypeOK
  <1>6. IF Recorded(c).locked
        THEN n + Cardinality(Waiting(h)') < LockAfter + Cardinality(Logins)
        ELSE n <= Recorded(c).fails /\ n < LockAfter
    <2>1. IF u.locked THEN guesses[h] + Cardinality(Waiting(h))
                             < LockAfter + Cardinality(Logins)
          ELSE guesses[h] <= u.fails /\ guesses[h] < LockAfter
      BY <1>1 DEF SignInIInv, LockHolds
    <2>2. /\ guesses[h] \in Nat /\ u.fails \in Nat
          /\ Cardinality(Waiting(h)) \in Nat
          /\ Cardinality(Waiting(h)) <= Cardinality(Logins)
          /\ Cardinality(Logins) \in Nat
      BY <1>1, <1>2, LoginsCount DEF User
    <2>3. n <= guesses[h] + 1
      BY <2>2, LoginsCount DEF Smaller
    <2> HIDE DEF n, u
    <2>10. count \in Nat /\ n \in Nat
      BY <1>3, LoginsCount
    <2>4. CASE u.locked
      BY <1>1, <1>4, <2>1, <2>2, <2>3, <2>10, <2>4
    <2>5. CASE ~u.locked /\ count >= LockAfter
      BY <1>1, <1>4, <2>1, <2>2, <2>3, <2>10, <2>5
    <2>6. CASE ~u.locked /\ count < LockAfter
      <3>1. n <= count
        BY <2>1, <2>2, <2>6, LoginsCount DEF Smaller, n
      <3>2. QED
        BY <1>3, <1>4, <2>6, <3>1
    <2>7. QED
      BY <1>3, <2>4, <2>5, <2>6
  <1>7. jwts' \subseteq Jwts /\ n \in 0..MaxGuesses
    BY <1>3, <1>5 DEF SignInIInv, SignInTypeOK
  <1> HIDE DEF n, count, u
  <1>8. QED
    BY <1>1, <1>4, <1>5, <1>6, <1>7, OneAccount

LEMMA RightPasswordStep ==
  ASSUME SignInIInv, NEW c \in Logins, RightPassword(c)
  PROVE  SignInIInv'
  <1>0. PICK h : h = login[c].h
    OBVIOUS
  <1> DEFINE u == [accounts[h] EXCEPT !.fails = 0, !.open = FALSE, !.locked = FALSE]
  <1>1. /\ h \in Accounts /\ login' \in [Logins -> Attempt \cup {Null}]
        /\ \A d \in Logins : login'[d] \in {login[d], Null}
    BY <1>0, EndsCount DEF RightPassword
  <1>2. accounts[h] \in User
    BY <1>1 DEF SignInIInv, SignInTypeOK
  <1>3. u \in User /\ u.fails = 0 /\ ~u.locked
    <2>1. 0 \in 0..LockAfter /\ FALSE \in BOOLEAN
      OBVIOUS
    <2>2. u = Recount(accounts[h], 0, FALSE, FALSE)
      BY DEF Recount
    <2> HIDE DEF u
    <2>3. u \in User /\ u.fails = 0 /\ u.locked = FALSE
      BY <1>2, <2>1, <2>2, UserFields
    <2>4. QED
      BY <2>3
  <1>4. accounts' = [accounts EXCEPT ![h] = u] /\ guesses' = [guesses EXCEPT ![h] = 0]
        /\ UNCHANGED signaling
    BY <1>0, <1>1 DEF RightPassword, SignInIInv, SignInTypeOK
  <1>5. jwts' \subseteq Jwts
    BY <1>0, <1>1, <1>2 DEF RightPassword, SignInIInv, SignInTypeOK, Jwts, User
  <1>6. 0 \in 0..MaxGuesses
    BY LoginsCount
  <1>7. 0 <= u.fails /\ 0 < LockAfter
    BY <1>3
  <1> HIDE DEF u
  <1>8. QED
    BY <1>1, <1>3, <1>4, <1>5, <1>6, <1>7, OneAccount

LEMMA RefusedStep ==
  ASSUME SignInIInv, NEW c \in Logins, Refused(c)
  PROVE  SignInIInv'
  <1>0. PICK h : h = login[c].h
    OBVIOUS
  <1>1. /\ h \in Accounts /\ login' \in [Logins -> Attempt \cup {Null}]
        /\ \A d \in Logins : login'[d] \in {login[d], Null}
        /\ Cardinality(Waiting(h)') = Cardinality(Waiting(h)) - 1
    BY <1>0, EndsCount DEF Refused
  <1>2. accounts[h] \in User /\ guesses[h] \in 0..MaxGuesses
    BY <1>1 DEF SignInIInv, SignInTypeOK
  <1>3. accounts' = [accounts EXCEPT ![h] = accounts[h]]
        /\ guesses' = [guesses EXCEPT ![h] = guesses[h]]
        /\ UNCHANGED <<jwts, signaling>>
    BY <1>1 DEF Refused, SignInIInv, SignInTypeOK
  <1>4. jwts' \subseteq Jwts
    BY <1>3 DEF SignInIInv, SignInTypeOK
  <1>5. IF accounts[h].locked
        THEN guesses[h] + Cardinality(Waiting(h)') < LockAfter + Cardinality(Logins)
        ELSE guesses[h] <= accounts[h].fails /\ guesses[h] < LockAfter
    BY <1>1, <1>2, LoginsCount DEF SignInIInv, LockHolds
  <1>6. QED
    BY <1>1, <1>2, <1>3, <1>4, <1>5, OneAccount

\* The clock, a ban and a new token version: the row changes and no login ends.
LEMMA AccountStep ==
  ASSUME SignInIInv, NEW h \in Accounts, WindowEnds(h) \/ LockEnds(h) \/ Ban(h) \/ Revoke(h)
  PROVE  SignInIInv'
  <1>1. accounts[h] \in User /\ guesses[h] \in 0..MaxGuesses
    BY DEF SignInIInv, SignInTypeOK
  <1>2. PICK u \in User, n \in 0..MaxGuesses :
          /\ accounts' = [accounts EXCEPT ![h] = u] /\ guesses' = [guesses EXCEPT ![h] = n]
          /\ u.fails = accounts[h].fails
          /\ (u.locked = accounts[h].locked /\ n = guesses[h]) \/ (~u.locked /\ n = 0)
    <2>1. guesses = [guesses EXCEPT ![h] = guesses[h]]
      BY DEF SignInIInv, SignInTypeOK
    <2>2. CASE WindowEnds(h)
      <3>1. [accounts[h] EXCEPT !.open = FALSE] \in User
        BY <1>1 DEF User
      <3>2. accounts' = [accounts EXCEPT ![h] = [accounts[h] EXCEPT !.open = FALSE]]
        BY <2>2 DEF WindowEnds, SignInIInv, SignInTypeOK
      <3>3. [accounts[h] EXCEPT !.open = FALSE].fails = accounts[h].fails
            /\ [accounts[h] EXCEPT !.open = FALSE].locked = accounts[h].locked
        BY <1>1 DEF User
      <3>4. QED
        BY <1>1, <2>1, <2>2, <3>1, <3>2, <3>3 DEF WindowEnds
    <2>3. CASE LockEnds(h)
      <3>1. [accounts[h] EXCEPT !.locked = FALSE] \in User
        BY <1>1 DEF User
      <3>2. accounts' = [accounts EXCEPT ![h] = [accounts[h] EXCEPT !.locked = FALSE]]
        BY <2>3 DEF LockEnds, SignInIInv, SignInTypeOK
      <3>3. [accounts[h] EXCEPT !.locked = FALSE].fails = accounts[h].fails
            /\ ~[accounts[h] EXCEPT !.locked = FALSE].locked
        BY <1>1 DEF User
      <3>4. 0 \in 0..MaxGuesses /\ guesses' = [guesses EXCEPT ![h] = 0]
        BY <2>3, LoginsCount DEF LockEnds
      <3>5. QED
        BY <3>1, <3>2, <3>3, <3>4
    <2>4. CASE Ban(h)
      <3>1. [accounts[h] EXCEPT !.banned = ~accounts[h].banned] \in User
        BY <1>1 DEF User
      <3>2. accounts' = [accounts EXCEPT ![h] = [accounts[h] EXCEPT !.banned = ~accounts[h].banned]]
        BY <2>4 DEF Ban, SignInIInv, SignInTypeOK
      <3>3. [accounts[h] EXCEPT !.banned = ~accounts[h].banned].fails = accounts[h].fails
            /\ [accounts[h] EXCEPT !.banned = ~accounts[h].banned].locked = accounts[h].locked
        BY <1>1 DEF User
      <3>4. QED
        BY <1>1, <2>1, <2>4, <3>1, <3>2, <3>3 DEF Ban
    <2>5. CASE Revoke(h)
      <3>1. [accounts[h] EXCEPT !.tv = accounts[h].tv + 1] \in User
        BY <1>1, <2>5 DEF User, Revoke
      <3>2. accounts' = [accounts EXCEPT ![h] = [accounts[h] EXCEPT !.tv = accounts[h].tv + 1]]
        BY <2>5 DEF Revoke, SignInIInv, SignInTypeOK
      <3>3. [accounts[h] EXCEPT !.tv = accounts[h].tv + 1].fails = accounts[h].fails
            /\ [accounts[h] EXCEPT !.tv = accounts[h].tv + 1].locked = accounts[h].locked
        BY <1>1 DEF User
      <3>4. QED
        BY <1>1, <2>1, <2>5, <3>1, <3>2, <3>3 DEF Revoke
    <2>6. QED
      BY <2>2, <2>3, <2>4, <2>5
  <1>3. UNCHANGED <<login, jwts, signaling>>
    BY DEF WindowEnds, LockEnds, Ban, Revoke
  <1>4. Waiting(h)' = Waiting(h)
    BY <1>3 DEF Waiting
  <1>5. IF u.locked
        THEN n + Cardinality(Waiting(h)') < LockAfter + Cardinality(Logins)
        ELSE n <= u.fails /\ n < LockAfter
    <2>1. CASE u.locked = accounts[h].locked /\ n = guesses[h]
      BY <1>2, <1>4, <2>1 DEF SignInIInv, LockHolds
    <2>2. CASE ~u.locked /\ n = 0
      BY <1>1, <1>2, <2>2 DEF User
    <2>3. QED
      BY <1>2, <2>1, <2>2
  <1>6. QED
    BY <1>2, <1>3, <1>5, OneAccount DEF SignInIInv, SignInTypeOK

-----------------------------------------------------------------------------
(* Signaling *)

\* Nothing but tickets and sockets changes, and tickets that are spent stay so.
LEMMA SignalingStep ==
  ASSUME SignInIInv, UNCHANGED <<accounts, login, redis, guesses>>, jwts' \subseteq jwts,
         ticket' \in [Tickets -> Accounts \cup {"new", "spent"}],
         \A t \in Tickets : ticket[t] = "spent" => ticket'[t] = "spent",
         sock' \in [Sockets -> Socket],
         \A s \in Sockets : sock'[s] # sock[s] /\ ~redis =>
           /\ sock'[s].phase \in {"closed", "open"}
           /\ sock'[s].who # Null /\ sock'[s].with \in Tickets =>
                ticket'[sock'[s].with] = "spent"
  PROVE  SignInIInv'
  <1>1. SignInTypeOK'
    BY DEF SignInIInv, SignInTypeOK
  <1>2. LockHolds'
    BY DEF SignInIInv, LockHolds, Waiting
  <1>3. TicketIsSpent'
    BY DEF SignInIInv, TicketIsSpent
  <1>4. QED
    BY <1>1, <1>2, <1>3 DEF SignInIInv

LEMMA TakenTypes ==
  ASSUME SignInIInv, NEW tok
  PROVE  /\ TicketTaken(tok) \in [Tickets -> Accounts \cup {"new", "spent"}]
         /\ \A t \in Tickets : ticket[t] = "spent" => TicketTaken(tok)[t] = "spent"
         /\ Held(tok) \in Accounts \cup {Null}
         /\ tok \in Tickets /\ Held(tok) # Null =>
              ticket[tok] = Held(tok) /\ TicketTaken(tok)[tok] = "spent"
  BY DEF TicketTaken, Held, SignInIInv, SignInTypeOK

\* A socket that gets a name has that of a ticket or of a token that is its own.
LEMMA CheckedTypes ==
  ASSUME SignInIInv, NEW found \in Accounts \cup {Null}, NEW tok \in Credentials
  PROVE  /\ Checked(found, tok) \in Socket
         /\ Checked(found, tok).phase \in {"closed", "open"}
         /\ Checked(found, tok).who # Null =>
              /\ Checked(found, tok).with = tok
              /\ ~accounts[Checked(found, tok).who].banned
              /\ tok \in Tickets => Checked(found, tok).who = found
  <1>1. Named(found, tok) \in Accounts \cup {Null}
    BY DEF Named, SignInIInv, SignInTypeOK, Jwts
  <1>2. tok \in Tickets => Named(found, tok) = found
    BY DEF Named, SignInIInv, SignInTypeOK
  <1>3. QED
    BY <1>1, <1>2, ClosedTypes DEF Checked, Socket

LEMMA UpgradeStep ==
  ASSUME SignInIInv, NEW s \in Sockets, NEW tok \in Credentials, Upgrade(s, tok)
  PROVE  SignInIInv'
  <1> DEFINE k == Checked(Held(tok), tok)
  <1>1. Held(tok) \in Accounts \cup {Null}
    BY TakenTypes
  <1>2. k \in Socket /\ k.phase \in {"closed", "open"}
        /\ (k.who # Null => k.with = tok /\ (tok \in Tickets => k.who = Held(tok)))
    BY <1>1, CheckedTypes
  <1> HIDE DEF k
  <1>3. sock' = [sock EXCEPT ![s] = k] /\ ticket' = TicketTaken(tok)
        /\ UNCHANGED <<accounts, login, jwts, redis, guesses>>
    BY DEF Upgrade, k
  <1>4. k.who # Null /\ k.with \in Tickets => ticket'[k.with] = "spent"
    BY <1>2, <1>3, TakenTypes
  <1>5. QED
    BY <1>2, <1>3, <1>4, TakenTypes, SignalingStep DEF SignInIInv, SignInTypeOK

\* With Redis a socket is looked up in steps, and then nothing is claimed of it.
LEMMA RedisStep ==
  ASSUME SignInIInv, NEW s \in Sockets,
         \/ \E tok \in Credentials : UpgradeAsync(s, tok)
         \/ GetTicket(s) \/ DelTicket(s) \/ RedisFails(s)
  PROVE  SignInIInv'
  <1>1. redis
    BY DEF UpgradeAsync, GetTicket, DelTicket, RedisFails, SignInIInv, TicketIsSpent
  <1>2. sock[s] \in Socket
    BY DEF SignInIInv, SignInTypeOK
  <1>3. PICK k \in Socket : sock' = [sock EXCEPT ![s] = k]
    <2>1. ASSUME NEW tok \in Credentials, UpgradeAsync(s, tok)
          PROVE  [Closed EXCEPT !.phase = "get", !.with = tok] \in Socket
      BY ClosedTypes DEF Socket
    <2>2. CASE GetTicket(s)
      <3>1. Held(sock[s].with) \in Accounts \cup {Null}
        BY TakenTypes
      <3>2. [sock[s] EXCEPT !.phase = "del", !.seen = Held(sock[s].with)] \in Socket
        BY <1>2, <3>1 DEF Socket
      <3>3. sock' = [sock EXCEPT ![s] =
                       [sock[s] EXCEPT !.phase = "del", !.seen = Held(sock[s].with)]]
        BY <2>2 DEF GetTicket, SignInIInv, SignInTypeOK
      <3>4. QED
        BY <3>2, <3>3
    <2>3. CASE DelTicket(s)
      <3>1. Checked(sock[s].seen, sock[s].with) \in Socket
        BY <1>2, CheckedTypes DEF Socket
      <3>2. QED
        BY <2>3, <3>1 DEF DelTicket
    <2>4. CASE RedisFails(s)
      <3>1. [sock[s] EXCEPT !.phase = "open", !.seen = Null] \in Socket
        BY <1>2 DEF Socket
      <3>2. sock' = [sock EXCEPT ![s] = [sock[s] EXCEPT !.phase = "open", !.seen = Null]]
        BY <2>4 DEF RedisFails, SignInIInv, SignInTypeOK
      <3>3. QED
        BY <3>1, <3>2
    <2>5. QED
      BY <2>1, <2>2, <2>3, <2>4 DEF UpgradeAsync
  <1>4. UNCHANGED <<accounts, login, jwts, redis, guesses>>
        /\ ticket' \in {ticket, TicketTaken(sock[s].with)}
    BY DEF UpgradeAsync, GetTicket, DelTicket, RedisFails
  <1>5. ticket' \in [Tickets -> Accounts \cup {"new", "spent"}]
        /\ \A t \in Tickets : ticket[t] = "spent" => ticket'[t] = "spent"
    BY <1>4, TakenTypes DEF SignInIInv, SignInTypeOK
  <1>6. QED
    BY <1>1, <1>3, <1>4, <1>5, SignalingStep DEF SignInIInv, SignInTypeOK

LEMMA CredentialStep ==
  ASSUME SignInIInv,
         \/ \E s \in Sockets : SocketCloses(s)
         \/ \E t \in Tickets : TicketExpires(t)
         \/ \E j \in jwts : Forget(j) \/ \E t \in Tickets : IssueTicket(j, t)
  PROVE  SignInIInv'
  <1>1. UNCHANGED <<accounts, login, redis, guesses>> /\ jwts' \subseteq jwts
    BY DEF SocketCloses, TicketExpires, Forget, IssueTicket, signaling
  <1>2. ticket' \in [Tickets -> Accounts \cup {"new", "spent"}]
        /\ \A t \in Tickets : ticket[t] = "spent" => ticket'[t] = "spent"
    BY DEF SocketCloses, TicketExpires, Forget, IssueTicket, signaling, SignInIInv, SignInTypeOK, Jwts
  <1>3. sock' = sock \/ \E s \in Sockets : sock' = [sock EXCEPT ![s] = Closed]
    BY DEF SocketCloses, TicketExpires, Forget, IssueTicket, signaling
  <1>4. QED
    BY <1>1, <1>2, <1>3, ClosedTypes, SignalingStep DEF SignInIInv, SignInTypeOK

-----------------------------------------------------------------------------
(* Putting it together *)

LEMMA SignInStepHolds == SignInIInv /\ [SignInNext]_signInVars => SignInIInv'
  <1> SUFFICES ASSUME SignInIInv, [SignInNext]_signInVars PROVE SignInIInv'
    OBVIOUS
  <1>1. Tickets \cup jwts \cup {Null} \subseteq Credentials
    BY DEF Credentials, SignInIInv, SignInTypeOK
  <1>2. CASE UNCHANGED signInVars
    BY <1>2, SignalingStep DEF signInVars, signaling, SignInIInv, SignInTypeOK
  <1>3. CASE SignInNext
    BY <1>1, <1>3, LoginStep, WrongPasswordStep, RightPasswordStep, RefusedStep,
       AccountStep, UpgradeStep, RedisStep, CredentialStep DEF SignInNext
  <1>4. QED
    BY <1>2, <1>3

\* The inductive invariant: the lock covers the guesses, and in the process the
\* ticket of a named socket is spent.
THEOREM SignInInvariant == SignInSpec => []SignInIInv
  BY SignInInitHolds, SignInStepHolds, PTL DEF SignInSpec

\* Accounts, logins, tickets and sockets keep their types.
THEOREM SignInTypeCorrect == SignInSpec => []SignInTypeOK
  <1>1. SignInIInv => SignInTypeOK
    BY DEF SignInIInv
  <1>2. QED
    BY <1>1, SignInInvariant, PTL

\* However many logins overlap in the compare, the lockout bounds the guesses.
THEOREM LockoutBounds == SignInSpec => []GuessesBounded
  BY Consequences, SignInInvariant, PTL

\* A socket is named once for each ticket kept in the process, and never after a
\* ban.
THEOREM SocketsAreNamedOnce == SignInSpec => TicketsNameOneSocket
  <1> DEFINE A == \A s \in Sockets : sock[s].who = Null /\ sock'[s].who # Null =>
       /\ ~accounts[sock'[s].who].banned
       /\ ~redis /\ sock'[s].with \in Tickets =>
            \A r \in Sockets \ {s} : sock[r].with # sock'[s].with \/ sock[r].who = Null
  <1>1. SignInIInv /\ [SignInNext]_signInVars => [A]_signInVars
    <2> SUFFICES ASSUME SignInIInv, SignInNext, NEW s \in Sockets,
                        sock[s].who = Null, sock'[s].who # Null
                 PROVE  /\ ~accounts[sock'[s].who].banned
                        /\ ~redis /\ sock'[s].with \in Tickets =>
                             \A r \in Sockets \ {s} :
                               sock[r].with # sock'[s].with \/ sock[r].who = Null
      OBVIOUS
    <2>1. \/ \E tok \in Credentials : Upgrade(s, tok)
          \/ DelTicket(s)
      <3>1. CASE \E q \in Sockets : GetTicket(q) \/ RedisFails(q) \/ SocketCloses(q)
        BY <3>1, ClosedTypes DEF GetTicket, RedisFails, SocketCloses, SignInIInv, SignInTypeOK, Socket
      <3>2. CASE \E q \in Sockets, tok \in Credentials : UpgradeAsync(q, tok)
        BY <3>2, ClosedTypes DEF UpgradeAsync, SignInIInv, SignInTypeOK, Socket, Closed
      <3>3. CASE \E q \in Sockets, tok \in Credentials : Upgrade(q, tok)
        BY <3>3 DEF Upgrade, SignInIInv, SignInTypeOK
      <3>4. CASE \E q \in Sockets : DelTicket(q)
        BY <3>4 DEF DelTicket, SignInIInv, SignInTypeOK
      <3>5. CASE sock' = sock
        BY <3>5
      <3>6. Tickets \cup jwts \cup {Null} \subseteq Credentials
        BY DEF Credentials, SignInIInv, SignInTypeOK
      <3>7. QED
        BY <3>1, <3>2, <3>3, <3>4, <3>5, <3>6 DEF SignInNext, Login, WrongPassword,
           RightPassword, Refused, WindowEnds, LockEnds, Ban, Revoke, Forget,
           IssueTicket, TicketExpires, signaling
    <2>2. CASE DelTicket(s)
      <3>1. redis
        BY <2>2 DEF DelTicket, SignInIInv, TicketIsSpent
      <3>2. sock[s] \in Socket /\ sock'[s] = Checked(sock[s].seen, sock[s].with)
        BY <2>2 DEF DelTicket, SignInIInv, SignInTypeOK
      <3>3. QED
        BY <3>1, <3>2, CheckedTypes DEF Socket
    <2>3. ASSUME NEW tok \in Credentials, Upgrade(s, tok)
          PROVE  /\ ~accounts[sock'[s].who].banned
                 /\ ~redis /\ sock'[s].with \in Tickets =>
                      \A r \in Sockets \ {s} :
                        sock[r].with # sock'[s].with \/ sock[r].who = Null
      <3>1. sock'[s] = Checked(Held(tok), tok) /\ Held(tok) \in Accounts \cup {Null}
        BY <2>3, TakenTypes DEF Upgrade, SignInIInv, SignInTypeOK
      <3>2. ~accounts[sock'[s].who].banned /\ sock'[s].with = tok
            /\ (tok \in Tickets => sock'[s].who = Held(tok))
        BY <3>1, CheckedTypes
      <3>3. tok \in Tickets => ticket[tok] \in Accounts
        BY <3>2, TakenTypes, <3>1
      <3>4. QED
        BY <3>2, <3>3 DEF SignInIInv, TicketIsSpent
    <2>4. QED
      BY <2>1, <2>2, <2>3
  <1>2. SignInSpec => [][A]_signInVars
    BY <1>1, SignInInvariant, PTL DEF SignInSpec
  <1>3. QED
    BY <1>2 DEF TicketsNameOneSocket
=============================================================================
