----------------------------- MODULE AuthSessions -----------------------------
(***************************************************************************)
(* The sessions of one account handle: refresh tokens, access tokens and   *)
(* the tabs of a browser that share the refresh cookie                     *)
(* (lib/auth.ts, routes/{auth,users,email,admin}.ts, middleware/auth.ts,   *)
(* web store/api.ts).                                                      *)
(*                                                                         *)
(* The code of a handler between two awaits is one action; a handler that  *)
(* waits for bcrypt or an import is the `call` of the tab that made the    *)
(* request.  A request and its response travel separately, so the          *)
(* responses to two tabs may arrive in any order or never.  Each tab has   *)
(* one call at a time: the refresh of a tab is single-flight (store/api).  *)
(*                                                                         *)
(* Every password the account ever had is named by a number, its epoch;    *)
(* epochs, `late` and `ended` only observe, except that equality of epochs *)
(* stands for a successful bcrypt.compare.  An access token is good until  *)
(* its token_version is outdated: its 15-minute expiry only restricts.     *)
(***************************************************************************)
EXTENDS Integers, FiniteSets

CONSTANTS
  Tabs,        \* tabs of a browser, with one cookie jar between them
  Tokens,      \* refresh tokens in existence at a time
  Families,    \* families of refresh tokens in existence at a time
  None,        \* SQL NULL, no cookie, no token
  Grace,       \* ROTATION_GRACE_MS, in ticks
  RefreshTtl,  \* refreshTtlSec, in ticks
  MaxEpoch,    \* bound on the passwords the handle goes through
  MaxVersion   \* bound on token_version

ASSUME AuthAssumption ==
  /\ Grace \in Nat /\ RefreshTtl \in Nat
  /\ MaxEpoch \in Nat /\ MaxVersion \in Nat
  /\ None \notin Tokens \cup Families \cup Nat

VARIABLES
  account,     \* the users row: status, token_version, epoch of its password
  rows,        \* the refresh_tokens table
  jar,         \* the refresh cookie of the browser
  access,      \* access[tab]: version and epoch of the tab's access token
  call,        \* call[tab]: the request the tab is waiting for
  late,        \* whether a response was lost, or a cookie came to the server
               \* when its row was no longer good for anything (observer)
  ended        \* tokens whose rows were revoked on purpose, went with the
               \* account or were purged (observer)

observers == <<late, ended>>
vars == <<account, rows, jar, access, call, observers>>

Epochs == 0..MaxEpoch
Versions == 0..MaxVersion

Accounts == [status : {"active", "banned", "gone"}, version : Versions,
             epoch : Epochs]

\* `since` is the time from consumed_at, None while that is NULL; `proved` is
\* the epoch of the password the login of this family was checked against.
Rows == [token : Tokens, family : Families, since : 0..(Grace + 1) \cup {None},
         age : 0..(RefreshTtl + 1), proved : Epochs]

Suspended == {"login", "change", "reset", "delete", "register", "registered"}
Phases == {"idle", "refresh", "logout", "answer"} \cup Suspended

\* token: the cookie that is sent or set; version: of the access token that is
\* answered, or None; epoch: of the password that was checked.
Calls == [phase : Phases, token : Tokens \cup {None},
          version : Versions \cup {None}, epoch : Epochs]

Access == [version : Versions \cup {None}, epoch : Epochs]

Sent(phase, token) ==
  [phase |-> phase, token |-> token, version |-> None, epoch |-> 0]
Waiting(phase, epoch) ==
  [phase |-> phase, token |-> None, version |-> None, epoch |-> epoch]
Idle == Waiting("idle", 0)
NoAccess == [version |-> None, epoch |-> 0]

\* A response: the cookie it sets (None clears it) and the access token.
Answer(token, version, epoch) ==
  [phase |-> "answer", token |-> token, version |-> version, epoch |-> epoch]
Refusal == Answer(None, None, 0)

Init ==
  /\ account = [status |-> "active", version |-> 0, epoch |-> 0]
  /\ rows = {}
  /\ jar = None
  /\ access = [tab \in Tabs |-> NoAccess]
  /\ call = [tab \in Tabs |-> Idle]
  /\ late = FALSE /\ ended = {}

-----------------------------------------------------------------------------
(* The tables *)

Exists == account.status # "gone"

\* requireAuth: the account exists, is not banned, and the version is current.
Accepted(tab) ==
  account.status = "active" /\ access[tab].version = account.version

FreshToken(t) ==
  /\ \A r \in rows : r.token # t
  /\ \A tab \in Tabs : call[tab].token # t
  /\ t # jar

FreshFamily(f) == \A r \in rows : r.family # f

NewRow(t, f, epoch) ==
  [token |-> t, family |-> f, since |-> None, age |-> 0, proved |-> epoch]

\* consumeRefreshToken returns the family of this row, not null.
Consumable(r) == IF r.since = None THEN r.age <= RefreshTtl ELSE r.since <= Grace

\* What consuming the row leaves of the table.
AfterConsumeInsert(r) ==                                           \* mutant
  IF ~Consumable(r) THEN {x \in rows : x.family # r.family}
  ELSE rows \cup {[r EXCEPT !.since = 0]}
AfterConsume(r) ==
  IF ~Consumable(r) THEN {x \in rows : x.family # r.family}
  ELSE IF r.since = None THEN (rows \ {r}) \cup {[r EXCEPT !.since = 0]}
  ELSE rows

\* Rows go for another reason than that one of them was presented too late.
Drop(R) ==
  /\ rows' = rows \ R
  /\ ended' = ended \cup {r.token : r \in R}

AfterConsumeToken(t) ==
  IF \E r \in rows : r.token = t
  THEN AfterConsume(CHOOSE r \in rows : r.token = t)
  ELSE rows
TooLate(t) == \E r \in rows : r.token = t /\ ~Consumable(r)

\* Every credential change outdates the access tokens...
NextVersionKept == account.version                                 \* mutant
NextVersion == account.version + 1

\* ...and the refresh tokens: setPassword, bumpTokenVersion and
\* revokeAllRefreshTokens in one go.  On a deleted account the UPDATEs find no
\* row and nothing reports it.
SetPassword ==
  IF Exists
  THEN /\ account.epoch < MaxEpoch /\ account.version < MaxVersion
       /\ account' = [account EXCEPT !.epoch = account.epoch + 1,
                                     !.version = NextVersion]
       /\ Drop(rows)
  ELSE UNCHANGED <<account, rows, ended>>

-----------------------------------------------------------------------------
(* Signing in *)

\* `login` reads the row, then waits for bcrypt.compare; a row it read as
\* banned is refused whatever becomes of it.
MayLogin == account.status = "active"

Login(tab) ==
  /\ call[tab].phase = "idle" /\ MayLogin
  /\ call' = [call EXCEPT ![tab] = Waiting("login", account.epoch)]
  /\ UNCHANGED <<account, rows, jar, access, observers>>

\* authResponse: a new family, whatever became of the account meanwhile; the
\* INSERT fails on its foreign key when the account is gone.
Insertable == Exists

Admit(tab) ==
  IF Insertable
  THEN \E t \in Tokens, f \in Families :
         /\ FreshToken(t) /\ FreshFamily(f)
         /\ rows' = rows \cup {NewRow(t, f, call[tab].epoch)}
         /\ ended' = ended \ {t}
         /\ call' = [call EXCEPT
              ![tab] = Answer(t, account.version, call[tab].epoch)]
  ELSE call' = [call EXCEPT ![tab] = Idle] /\ UNCHANGED <<rows, ended>>

LoginCompared(tab) ==
  /\ call[tab].phase = "login"
  /\ Admit(tab)
  /\ UNCHANGED <<account, jar, access, late>>

\* `register` finds the handle free, then waits for bcrypt.hash.
Register(tab) ==
  /\ call[tab].phase = "idle" /\ ~Exists
  /\ call' = [call EXCEPT ![tab] = Waiting("register", 0)]
  /\ UNCHANGED <<account, rows, jar, access, observers>>

\* The INSERT fails when the handle has been taken; else `register` waits for
\* the import of the mail module before it answers.
RegisterCreate(tab) ==
  /\ call[tab].phase = "register"
  /\ IF Exists
     THEN call' = [call EXCEPT ![tab] = Idle] /\ UNCHANGED account
     ELSE /\ account.epoch < MaxEpoch
          /\ account' = [status |-> "active", version |-> 0,
                         epoch |-> account.epoch + 1]
          /\ call' = [call EXCEPT
               ![tab] = Waiting("registered", account.epoch + 1)]
  /\ UNCHANGED <<rows, jar, access, observers>>

RegisterAnswer(tab) ==
  /\ call[tab].phase = "registered"
  /\ Admit(tab)
  /\ UNCHANGED <<account, jar, access, late>>

-----------------------------------------------------------------------------
(* Refreshing and signing out *)

\* A client with a cookie renews its access token (a 401, or a page load).
RefreshSend(tab) ==
  /\ call[tab].phase = "idle" /\ jar # None
  /\ call' = [call EXCEPT ![tab] = Sent("refresh", jar)]
  /\ UNCHANGED <<account, rows, jar, access, observers>>

\* The row whose session a refresh continues.
Continues(r, t) == r.token = t /\ Consumable(r)

\* The cookie a refresh answers with: the token it has just inserted.
CookieOfRequest(tab, t) == call[tab].token                         \* mutant
NewCookie(tab, t) == t

RefreshContinue(tab) ==
  /\ call[tab].phase = "refresh" /\ account.status = "active"
  /\ \E r \in rows, t \in Tokens :
       /\ Continues(r, call[tab].token) /\ FreshToken(t)
       /\ rows' = AfterConsume(r) \cup {NewRow(t, r.family, r.proved)}
       /\ ended' = ended \ {t}
       /\ call' = [call EXCEPT
            ![tab] = Answer(NewCookie(tab, t), account.version, r.proved)]
  /\ UNCHANGED <<account, jar, access, late>>

\* Refused, and the cookie cleared: no such token, an expired one or a late
\* replay (its family is revoked), or a banned account (its token is spent).
RefreshRefuse(tab) ==
  /\ call[tab].phase = "refresh"
  /\ account.status = "active" => ~\E r \in rows : Continues(r, call[tab].token)
  /\ rows' = AfterConsumeToken(call[tab].token)
  /\ late' = (late \/ TooLate(call[tab].token))
  /\ call' = [call EXCEPT ![tab] = Refusal]
  /\ UNCHANGED <<account, jar, access, ended>>

LogoutSend(tab) ==
  /\ call[tab].phase = "idle" /\ access[tab].version # None
  /\ call' = [call EXCEPT ![tab] = Sent("logout", jar)]
  /\ UNCHANGED <<account, rows, jar, access, observers>>

LogoutServe(tab) ==
  /\ call[tab].phase = "logout"
  /\ IF Accepted(tab)
     THEN /\ rows' = AfterConsumeToken(call[tab].token)
          /\ late' = (late \/ TooLate(call[tab].token))
          /\ call' = [call EXCEPT ![tab] = Refusal]
     ELSE call' = [call EXCEPT ![tab] = Idle] /\ UNCHANGED <<rows, late>>
  /\ UNCHANGED <<account, jar, access, ended>>

LogoutAll(tab) ==
  /\ call[tab].phase = "idle" /\ Accepted(tab)
  /\ Drop(rows)
  /\ call' = [call EXCEPT ![tab] = Refusal]
  /\ UNCHANGED <<account, jar, access, late>>

\* A response arrives: the browser stores or clears the cookie, the tab takes
\* the access token or forgets the one it had.
Receive(tab) ==
  /\ call[tab].phase = "answer"
  /\ jar' = call[tab].token
  /\ access' = [access EXCEPT ![tab] =
       [version |-> call[tab].version, epoch |-> call[tab].epoch]]
  /\ call' = [call EXCEPT ![tab] = Idle]
  /\ UNCHANGED <<account, rows, observers>>

\* The response never arrives.
Lose(tab) ==
  /\ call[tab].phase = "answer"
  /\ call' = [call EXCEPT ![tab] = Idle]
  /\ late' = TRUE
  /\ UNCHANGED <<account, rows, jar, access, ended>>

-----------------------------------------------------------------------------
(* Credentials and the account itself *)

\* PUT /users/me/password compares and hashes, then applies to the handle.
ChangeCompare(tab) ==
  /\ call[tab].phase = "idle" /\ Accepted(tab)
  /\ call' = [call EXCEPT ![tab] = Waiting("change", 0)]
  /\ UNCHANGED <<account, rows, jar, access, observers>>

\* The reset link in a mail needs no session.
ResetHash(tab) ==
  /\ call[tab].phase = "idle" /\ Exists
  /\ call' = [call EXCEPT ![tab] = Waiting("reset", 0)]
  /\ UNCHANGED <<account, rows, jar, access, observers>>

PasswordApply(tab) ==
  /\ call[tab].phase \in {"change", "reset"}
  /\ SetPassword
  /\ call' = [call EXCEPT ![tab] = Idle]
  /\ UNCHANGED <<jar, access, late>>

\* A change of address is confirmed by the link in the mail.
VerifyEmailChange ==
  /\ Exists /\ account.version < MaxVersion
  /\ account' = [account EXCEPT !.version = NextVersion]
  /\ Drop(rows)
  /\ UNCHANGED <<jar, access, call, late>>

DeleteCompare(tab) ==
  /\ call[tab].phase = "idle" /\ Accepted(tab)
  /\ call' = [call EXCEPT ![tab] = Waiting("delete", 0)]
  /\ UNCHANGED <<account, rows, jar, access, observers>>

Erase ==
  /\ account' = [account EXCEPT !.status = "gone"]
  /\ Drop(rows)

DeleteApply(tab) ==
  /\ call[tab].phase = "delete"
  /\ Erase
  /\ call' = [call EXCEPT ![tab] = Idle]
  /\ UNCHANGED <<jar, access, late>>

AdminDelete ==
  /\ Exists /\ Erase
  /\ UNCHANGED <<jar, access, call, late>>

Ban ==
  /\ Exists
  /\ account' = [account EXCEPT !.status = "banned"]
  /\ Drop(rows)
  /\ UNCHANGED <<jar, access, call, late>>

Unban ==
  /\ Exists
  /\ account' = [account EXCEPT !.status = "active"]
  /\ UNCHANGED <<rows, jar, access, call, observers>>

-----------------------------------------------------------------------------
(* Time *)

Least(a, b) == IF a < b THEN a ELSE b

Older(r) ==
  [r EXCEPT !.age = Least(r.age + 1, RefreshTtl + 1),
            !.since = IF r.since = None THEN None
                      ELSE Least(r.since + 1, Grace + 1)]

Tick ==
  /\ rows' = {Older(r) : r \in rows}
  /\ UNCHANGED <<account, jar, access, call, observers>>

PurgeExpired ==
  /\ Drop({r \in rows : r.age > RefreshTtl})
  /\ UNCHANGED <<account, jar, access, call, late>>

Next ==
  \/ \E tab \in Tabs :
       \/ Login(tab) \/ LoginCompared(tab)
       \/ Register(tab) \/ RegisterCreate(tab) \/ RegisterAnswer(tab)
       \/ RefreshSend(tab) \/ RefreshContinue(tab) \/ RefreshRefuse(tab)
       \/ LogoutSend(tab) \/ LogoutServe(tab) \/ LogoutAll(tab)
       \/ Receive(tab) \/ Lose(tab)
       \/ ChangeCompare(tab) \/ ResetHash(tab) \/ PasswordApply(tab)
       \/ DeleteCompare(tab) \/ DeleteApply(tab)
  \/ VerifyEmailChange \/ AdminDelete \/ Ban \/ Unban \/ Tick \/ PurgeExpired

Spec == Init /\ [][Next]_vars

-----------------------------------------------------------------------------
(* Properties *)

\* Types, and every token and family names one row or one chain of rows.
TypeOK ==
  /\ account \in Accounts
  /\ rows \subseteq Rows
  /\ jar \in Tokens \cup {None}
  /\ access \in [Tabs -> Access]
  /\ call \in [Tabs -> Calls]
  /\ late \in BOOLEAN /\ ended \subseteq Tokens
  /\ \A r, x \in rows : r.token = x.token => r = x

\* No refresh token outlives its account: a sign-in or a registration that is
\* answered only after the account has been deleted leaves none behind.
TokensHaveAccount == account.status = "gone" => rows = {}

\* Everything that can act for the account was proved with its present
\* password: the refresh tokens, the sign-ins under way, and the access tokens
\* that requireAuth accepts or will come to accept (those the tabs hold and
\* those in responses under way); an older access token is outdated.
NewSessions == {tab \in Tabs : call[tab].phase \in {"login", "registered"}}
Outdated(token) ==
  token.version # None => token.version < account.version
Current ==
  /\ \A r \in rows : r.proved = account.epoch
  /\ \A tab \in NewSessions : call[tab].epoch = account.epoch
  /\ \A tab \in Tabs : \A token \in {access[tab], call[tab]} :
       token.epoch # account.epoch => Outdated(token)

\* A change or reset of the password signs out everybody, and for good, as long
\* as no sign-in is under way when it is applied and the handle is not given
\* to a new account (token_version starts over with a new row).
SessionsStayCurrent ==
  [][ /\ Current /\ account.status # "gone"
      /\ account'.epoch # account.epoch => NewSessions = {}
      => Current' ]_vars

\* A banned account without sessions or sign-ins under way stays so until it
\* is unbanned or registered anew: it cannot sign in, refresh or be admitted.
SignedOut == account.status = "banned" /\ rows = {} /\ NewSessions = {}
BannedStaysSignedOut ==
  [][SignedOut => SignedOut' \/ account'.status # "banned"]_vars

\* A rotated token leaves its spent predecessor in the table, so that a replay
\* is noticed: a row is added to a family that has a spent row, or begins it.
RotationLeavesTrace ==
  [][\A r \in rows' : (\A x \in rows : x.token # r.token) =>
       \/ \A x \in rows : x.family # r.family
       \/ \E x \in rows' : x.family = r.family /\ x.since # None]_vars

\* Tabs that race each other with one cookie do not sign each other out: once
\* all of them have their answers, a cookie in the jar names a session that the
\* next refresh continues, or one that was ended on purpose or has run out.  That
\* asks for what the rotation asks for: no response is lost, and no cookie comes
\* to the server after its row has expired or the grace window of its rotation
\* has passed; else the family is revoked under the tab that has renewed it.
CookieUnspent ==
  ~late /\ jar # None /\ (\A tab \in Tabs : call[tab].phase = "idle") =>
    jar \in ended \/ \E r \in rows : r.token = jar /\ r.since = None

-----------------------------------------------------------------------------
(* What the documentation says and the code does not do *)

\* routes/users.ts:164 on a change of password: "Invalidate every outstanding
\* session".  A sign-in with the old password that is waiting for bcrypt when
\* the change is applied still gets a session afterwards.
PasswordChangeSignsOut == \A r \in rows : r.proved = account.epoch
=============================================================================
