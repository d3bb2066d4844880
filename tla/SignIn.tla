-------------------------------- MODULE SignIn --------------------------------
(***************************************************************************)
(* From a password to a named socket on the signaling server: the login     *)
(* lockout (repos/users.ts, routes/auth.ts), signaling tickets              *)
(* (lib/auth.ts) and the upgrade handler that evicts banned accounts        *)
(* (signaling/peerServer.ts).                                               *)
(*                                                                         *)
(* A login waits for bcrypt between the look at the lock and what it makes  *)
(* of the answer, and logins of one account overlap.  Tickets are kept in   *)
(* the process, where consuming one is part of the upgrade, or in Redis,    *)
(* where the handler waits for a get and then for a del while PeerJS has    *)
(* registered the socket already.  Clocks are abstracted to what is asked   *)
(* of them: whether the window is open and whether the lock is held.        *)
(***************************************************************************)
EXTENDS Naturals, FiniteSets

CONSTANTS
  Accounts,
  Logins,      \* bound: logins suspended in bcrypt at a time
  LockAfter,   \* LOCK_AFTER
  Tickets,     \* bound: signaling tickets ever issued
  Sockets,     \* bound: sockets at a time
  MaxTv,       \* bound: token_version
  Null

VARIABLES
  accounts,  \* accounts[h]: banned, token_version, failed_logins, whether its
             \* window is open, and whether locked_until is to come
  login,     \* login[c]: the suspended login: the row it read, the password
  jwts,      \* access tokens that are about
  redis,     \* whether REDIS_URL is set
  ticket,    \* ticket[t]: whose it is, "new" or "spent"
  sock,      \* sock[s]: the upgrade and what it presented
  guesses    \* guesses[h]: wrong passwords since the last right one, the end
             \* of the lock or of the window (observer)

signInVars == <<accounts, login, jwts, redis, ticket, sock, guesses>>
signaling == <<redis, ticket, sock>>

User == [banned : BOOLEAN, tv : 0..MaxTv, fails : 0..LockAfter,
         open : BOOLEAN, locked : BOOLEAN]
Jwts == [h : Accounts, tv : 0..MaxTv]
Credentials == Tickets \cup Jwts \cup {Null}

\* seen: the result of the get; who: the name the handler found.
Socket == [phase : {"closed", "get", "del", "open"}, with : Credentials,
           seen : Accounts \cup {Null}, who : Accounts \cup {Null}]
Closed == [phase |-> "closed", with |-> Null, seen |-> Null, who |-> Null]

\* A login that waits for the compare.
Attempt == [h : Accounts, right : BOOLEAN, banned : BOOLEAN]

ASSUME SignInAssumption ==
  /\ LockAfter \in Nat \ {0} /\ MaxTv \in Nat
  /\ IsFiniteSet(Logins)
  /\ Null \notin Accounts \cup Tickets \cup Attempt
  /\ Tickets \cap Jwts = {} /\ Accounts \cap {"new", "spent"} = {}

\* Bound of the observer: more guesses than these are not told apart.
MaxGuesses == LockAfter + Cardinality(Logins)

SignInInit ==
  /\ accounts = [h \in Accounts |-> [banned |-> FALSE, tv |-> 0, fails |-> 0,
                                 open |-> FALSE, locked |-> FALSE]]
  /\ login = [c \in Logins |-> Null]
  /\ jwts = {}
  /\ redis \in BOOLEAN
  /\ ticket = [t \in Tickets |-> "new"]
  /\ sock = [s \in Sockets |-> Closed]
  /\ guesses = [h \in Accounts |-> 0]

-----------------------------------------------------------------------------
(* The lockout *)

LoginEnds(c) == login' = [login EXCEPT ![c] = Null]

\* mutant: the lock is not looked at.
IsLockedNever(h) == FALSE
IsLocked(h) == accounts[h].locked

\* The lock is looked at before the (expensive) compare.
Login(c, h, right) ==
  /\ login[c] = Null /\ ~IsLocked(h)
  /\ login' = [login EXCEPT ![c] =
                 [h |-> h, right |-> right, banned |-> accounts[h].banned]]
  /\ UNCHANGED <<accounts, jwts, signaling, guesses>>

Smaller(m, n) == IF m < n THEN m ELSE n

\* recordFailedLogin reads the row again: the count goes on while its window is open (and is cut at
\* LockAfter, which is all that is asked of it); crossing the threshold locks,
\* and so does any failure after the lock has run out.
Recorded(c) ==
  LET u == accounts[login[c].h]
      count == IF u.open THEN Smaller(u.fails + 1, LockAfter) ELSE 1
  IN [u EXCEPT !.fails = count, !.open = TRUE,
               !.locked = u.locked \/ count >= LockAfter]

WrongPassword(c) ==
  /\ login[c] # Null /\ ~login[c].right
  /\ LET h == login[c].h
     IN /\ accounts' = [accounts EXCEPT ![h] = Recorded(c)]
        /\ guesses' = [guesses EXCEPT ![h] =
                         IF accounts[h].open THEN Smaller(@ + 1, MaxGuesses) ELSE 1]
  /\ LoginEnds(c)
  /\ UNCHANGED <<jwts, signaling>>

\* resetFailedLogins and the session, by what was read before the compare ...
RightPassword(c) ==
  /\ login[c] # Null /\ login[c].right /\ ~login[c].banned
  /\ LET h == login[c].h
     IN /\ accounts' = [accounts EXCEPT ![h].fails = 0, ![h].open = FALSE,
                                  ![h].locked = FALSE]
        /\ jwts' = jwts \cup {[h |-> h, tv |-> accounts[h].tv]}
        /\ guesses' = [guesses EXCEPT ![h] = 0]
  /\ LoginEnds(c)
  /\ UNCHANGED signaling

\* ... or a suspended account, or an address to be verified first.
Refused(c) ==
  /\ login[c] # Null /\ login[c].right
  /\ LoginEnds(c)
  /\ UNCHANGED <<accounts, jwts, signaling, guesses>>

WindowEnds(h) ==
  /\ accounts[h].open
  /\ accounts' = [accounts EXCEPT ![h].open = FALSE]
  /\ UNCHANGED <<login, jwts, signaling, guesses>>

LockEnds(h) ==
  /\ accounts[h].locked
  /\ accounts' = [accounts EXCEPT ![h].locked = FALSE]
  /\ guesses' = [guesses EXCEPT ![h] = 0]
  /\ UNCHANGED <<login, jwts, signaling>>

-----------------------------------------------------------------------------
(* The account *)

Ban(h) ==
  /\ accounts' = [accounts EXCEPT ![h].banned = ~@]   \* or unban
  /\ UNCHANGED <<login, jwts, signaling, guesses>>

\* bumpTokenVersion: a change of the password or of the address.
Revoke(h) ==
  /\ accounts[h].tv < MaxTv
  /\ accounts' = [accounts EXCEPT ![h].tv = @ + 1]
  /\ UNCHANGED <<login, jwts, signaling, guesses>>

Forget(j) ==
  /\ j \in jwts
  /\ jwts' = jwts \ {j}
  /\ UNCHANGED <<accounts, login, signaling, guesses>>

-----------------------------------------------------------------------------
(* Signaling *)

\* requireAuth, then issueSignalingTicket.
Authorized(j) == j \in jwts /\ ~accounts[j.h].banned /\ accounts[j.h].tv = j.tv

IssueTicket(j, t) ==
  /\ Authorized(j)
  /\ ticket[t] = "new"
  /\ ticket' = [ticket EXCEPT ![t] = j.h]
  /\ UNCHANGED <<accounts, login, jwts, redis, sock, guesses>>

TicketExpires(t) ==
  /\ ticket[t] \in Accounts
  /\ ticket' = [ticket EXCEPT ![t] = "spent"]
  /\ UNCHANGED <<accounts, login, jwts, redis, sock, guesses>>

\* What the store has for the token a socket presents.
Held(tok) == IF tok \in Tickets /\ ticket[tok] \in Accounts THEN ticket[tok] ELSE Null

\* mutant: a ticket is looked up and stays.
TakenNot(tok) == ticket
\* mutant: the entry is cleared and stays in the map.
TakenNull(tok) == [t \in Tickets |-> IF t = tok THEN Null ELSE ticket[t]]
\* consumeSignalingTicket: the entry goes in any case.
TicketTaken(tok) == [t \in Tickets |-> IF t = tok /\ ticket[t] \in Accounts
                                 THEN "spent" ELSE ticket[t]]

\* The name the handler settles on: the ticket's, or that of a token whose
\* version is current.
Named(found, tok) ==
  IF found # Null THEN found
  ELSE IF tok \in jwts /\ accounts[tok.h].tv = tok.tv THEN tok.h ELSE Null

\* evictIfBanned
Checked(found, tok) ==
  LET who == Named(found, tok)
  IN IF who # Null /\ accounts[who].banned THEN Closed
     ELSE [phase |-> "open", with |-> tok, seen |-> Null, who |-> who]

\* Upgrade without a token, or with a ticket kept in the process.
Upgrade(s, tok) ==
  /\ sock[s] = Closed
  /\ ~redis \/ tok = Null
  /\ ticket' = TicketTaken(tok)
  /\ sock' = [sock EXCEPT ![s] = Checked(Held(tok), tok)]
  /\ UNCHANGED <<accounts, login, jwts, redis, guesses>>

\* With Redis the socket is registered while the ticket is looked for.
UpgradeAsync(s, tok) ==
  /\ sock[s] = Closed
  /\ redis /\ tok # Null
  /\ sock' = [sock EXCEPT ![s] = [Closed EXCEPT !.phase = "get", !.with = tok]]
  /\ UNCHANGED <<accounts, login, jwts, redis, ticket, guesses>>

GetTicket(s) ==
  /\ sock[s].phase = "get"
  /\ sock' = [sock EXCEPT ![s].phase = "del", ![s].seen = Held(sock[s].with)]
  /\ UNCHANGED <<accounts, login, jwts, redis, ticket, guesses>>

DelTicket(s) ==
  /\ sock[s].phase = "del"
  /\ ticket' = TicketTaken(sock[s].with)
  /\ sock' = [sock EXCEPT ![s] = Checked(sock[s].seen, sock[s].with)]
  /\ UNCHANGED <<accounts, login, jwts, redis, guesses>>

\* A command fails or times out: the catch leaves the socket as it is.
RedisFails(s) ==
  /\ sock[s].phase \in {"get", "del"}
  /\ sock' = [sock EXCEPT ![s].phase = "open", ![s].seen = Null]
  /\ UNCHANGED <<accounts, login, jwts, redis, ticket, guesses>>

SocketCloses(s) ==
  /\ sock[s].phase = "open"
  /\ sock' = [sock EXCEPT ![s] = Closed]
  /\ UNCHANGED <<accounts, login, jwts, redis, ticket, guesses>>

SignInNext ==
  \/ \E c \in Logins :
       \/ \E h \in Accounts, right \in BOOLEAN : Login(c, h, right)
       \/ WrongPassword(c) \/ RightPassword(c) \/ Refused(c)
  \/ \E h \in Accounts : WindowEnds(h) \/ LockEnds(h) \/ Ban(h) \/ Revoke(h)
  \/ \E j \in jwts : Forget(j) \/ \E t \in Tickets : IssueTicket(j, t)
  \/ \E t \in Tickets : TicketExpires(t)
  \/ \E s \in Sockets :
       \/ \E tok \in Tickets \cup jwts \cup {Null} :
            Upgrade(s, tok) \/ UpgradeAsync(s, tok)
       \/ GetTicket(s) \/ DelTicket(s) \/ RedisFails(s) \/ SocketCloses(s)

SignInSpec == SignInInit /\ [][SignInNext]_signInVars

-----------------------------------------------------------------------------
(* Properties *)

SignInTypeOK ==
  /\ accounts \in [Accounts -> User]
  /\ login \in [Logins -> Attempt \cup {Null}]
  /\ jwts \subseteq Jwts
  /\ redis \in BOOLEAN
  /\ ticket \in [Tickets -> Accounts \cup {"new", "spent"}]
  /\ sock \in [Sockets -> Socket]
  /\ guesses \in [Accounts -> 0..MaxGuesses]

\* Guessing is bounded: however many logins overlap in bcrypt, no more wrong
\* passwords are tried on an account than the threshold and those already under
\* way when it was crossed, until the lock runs out, a right password clears it
\* or the window starts anew.
GuessesBounded == \A h \in Accounts : guesses[h] < LockAfter + Cardinality(Logins)

\* A ticket kept in the process names one socket ("Single-use (deleted on first
\* consumption)", lib/auth.ts:242); and wherever it is kept, a ban that comes
\* before the check is done holds: no socket gets the name of a banned account.
TicketsNameOneSocket ==
  [][\A s \in Sockets : sock[s].who = Null /\ sock'[s].who # Null =>
       /\ ~accounts[sock'[s].who].banned
       /\ ~redis /\ sock'[s].with \in Tickets =>
            \A r \in Sockets \ {s} : sock[r].with # sock'[s].with \/ sock[r].who = Null
     ]_signInVars
=============================================================================
