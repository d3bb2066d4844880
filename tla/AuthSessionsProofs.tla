-------------------------- MODULE AuthSessionsProofs --------------------------
(* Theorems about AuthSessions for any tabs, tokens, families and bounds. *)
EXTENDS AuthSessions, TLAPS

USE AuthAssumption

-----------------------------------------------------------------------------
(* What a step does to the table of refresh tokens *)

\* x is the row r, aged or spent since.
Descends(x, r) ==
  /\ x.token = r.token /\ x.family = r.family /\ x.proved = r.proved
  /\ r.since # None => x.since # None

\* K holds rows that the table has now, each at most once.
Remnant(K) ==
  /\ K \subseteq Rows
  /\ \A x \in K : \E r \in rows : Descends(x, r)
  /\ \A x, y \in K : x.token = y.token => x = y

\* A sign-in, a registration or a refresh is answered: the table gains a row
\* with a fresh token, which begins a family and is proved by the call itself,
\* or continues the family of a row that it leaves behind as spent.
Begins(tab, K, f, e) ==
  /\ call[tab].phase \in {"login", "registered"} /\ e = call[tab].epoch
  /\ FreshFamily(f)

Rotates(tab, K, f, e) ==
  /\ call[tab].phase = "refresh" /\ account.status = "active"
  /\ \E r \in rows : e = r.proved
  /\ \E x \in K : x.family = f /\ x.since # None

Issues(tab) ==
  \E K \in SUBSET Rows, t \in Tokens, f \in Families, e \in Epochs :
    /\ Remnant(K) /\ FreshToken(t)
    /\ rows' = K \cup {NewRow(t, f, e)}
    /\ call' = [call EXCEPT ![tab] = Answer(t, account.version, e)]
    /\ Exists /\ ended' = ended \ {t} /\ UNCHANGED <<account, jar, access, late>>
    /\ Begins(tab, K, f, e) \/ Rotates(tab, K, f, e)

\* Removing rows leaves a remnant.
LEMMA SubsetRemains ==
  ASSUME TypeOK, NEW K \in SUBSET rows PROVE Remnant(K)
  BY DEF TypeOK, Remnant, Descends

\* So does marking a row as consumed.
LEMMA ConsumeRemains ==
  ASSUME TypeOK, NEW r \in rows PROVE Remnant(AfterConsume(r))
  <1>1. CASE ~Consumable(r)
    BY <1>1, SubsetRemains DEF AfterConsume
  <1>2. CASE Consumable(r) /\ r.since # None
    BY <1>2, SubsetRemains DEF AfterConsume
  <1>3. CASE Consumable(r) /\ r.since = None
    <2> DEFINE spent == [r EXCEPT !.since = 0]
    <2>1. r \in Rows
      BY DEF TypeOK
    <2>2. spent \in Rows /\ spent.since = 0 /\ Descends(spent, r)
      BY <1>3, <2>1 DEF Rows, Descends
    <2>3. AfterConsume(r) = (rows \ {r}) \cup {spent}
      BY <1>3 DEF AfterConsume
    <2> HIDE DEF spent
    <2>4. \A x \in rows \ {r} : Descends(x, x) /\ x.token # r.token
      BY DEF TypeOK, Descends
    <2>5. QED
      BY <2>2, <2>3, <2>4 DEF Remnant, TypeOK, Descends
  <1>4. QED
    BY <1>1, <1>2, <1>3

LEMMA ConsumeTokenRemains ==
  ASSUME TypeOK, NEW t PROVE Remnant(AfterConsumeToken(t))
  <1>1. CASE \E r \in rows : r.token = t
    BY <1>1, ConsumeRemains DEF AfterConsumeToken
  <1>2. CASE ~\E r \in rows : r.token = t
    BY <1>2, SubsetRemains DEF AfterConsumeToken
  <1>3. QED
    BY <1>1, <1>2

\* Time leaves a row what it is.
LEMMA OlderFields ==
  ASSUME NEW r \in Rows
  PROVE  /\ Older(r) \in Rows /\ Older(r).token = r.token
         /\ Older(r).family = r.family /\ Older(r).proved = r.proved
         /\ Older(r).since = None <=> r.since = None
  <1> DEFINE age == Least(r.age + 1, RefreshTtl + 1)
             since == IF r.since = None THEN None
                      ELSE Least(r.since + 1, Grace + 1)
  <1>1. age \in 0..(RefreshTtl + 1)
    BY DEF Rows, Least
  <1>2. since \in 0..(Grace + 1) \cup {None} /\ (since = None <=> r.since = None)
    <2>1. CASE r.since = None
      BY <2>1
    <2>2. CASE r.since # None
      <3>1. r.since \in 0..(Grace + 1)
        BY <2>2 DEF Rows
      <3>2. since \in 0..(Grace + 1)
        BY <2>2, <3>1 DEF Least
      <3>3. QED
        BY <2>2, <3>2
    <2>3. QED
      BY <2>1, <2>2
  <1> DEFINE aged == [r EXCEPT !.age = age]
  <1>3. Older(r) = [aged EXCEPT !.since = since]
    BY DEF Older, Rows
  <1> HIDE DEF age, since
  <1>4. /\ aged \in Rows /\ aged.token = r.token
        /\ aged.family = r.family /\ aged.proved = r.proved
    BY <1>1 DEF Rows
  <1> HIDE DEF aged
  <1>5. QED
    BY <1>2, <1>3, <1>4 DEF Rows

\* So the passing of time leaves a remnant, too.
LEMMA TickRemains ==
  ASSUME TypeOK PROVE Remnant({Older(r) : r \in rows})
  BY OlderFields DEF TypeOK, Remnant, Descends

\* A row that is consumed is there afterwards, and spent.
LEMMA ConsumeSpends ==
  ASSUME TypeOK, NEW r \in rows, Consumable(r)
  PROVE  \E x \in AfterConsume(r) : x.family = r.family /\ x.since # None
  <1>1. CASE r.since = None
    <2> DEFINE spent == [r EXCEPT !.since = 0]
    <2>1. spent \in AfterConsume(r)
      BY <1>1 DEF AfterConsume
    <2>2. spent.family = r.family /\ spent.since # None
      BY <1>1 DEF TypeOK, Rows
    <2>3. QED
      BY <2>1, <2>2
  <1>2. CASE r.since # None
    BY <1>2 DEF AfterConsume
  <1>3. QED
    BY <1>1, <1>2

\* The steps that answer a sign-in, a registration and a refresh issue a token.
LEMMA AdmitIssues ==
  ASSUME TypeOK, NEW tab \in Tabs, Exists, Admit(tab),
         call[tab].phase \in {"login", "registered"},
         UNCHANGED <<account, jar, access, late>>
  PROVE  Issues(tab)
  <1>1. call[tab].epoch \in Epochs /\ Remnant(rows)
    BY SubsetRemains DEF TypeOK, Calls
  <1>2. QED
    BY <1>1 DEF Admit, Insertable, Issues, Begins, TypeOK

LEMMA RefreshIssues ==
  ASSUME TypeOK, NEW tab \in Tabs, RefreshContinue(tab)
  PROVE  Issues(tab)
  <1>1. PICK r \in rows, t \in Tokens :
          /\ FreshToken(t) /\ Consumable(r)
          /\ rows' = AfterConsume(r) \cup {NewRow(t, r.family, r.proved)}
          /\ ended' = ended \ {t}
          /\ call' = [call EXCEPT
               ![tab] = Answer(t, account.version, r.proved)]
    BY DEF RefreshContinue, Continues, NewCookie
  <1>2. r.family \in Families /\ r.proved \in Epochs
    BY DEF TypeOK, Rows
  <1>3. Remnant(AfterConsume(r)) /\ AfterConsume(r) \in SUBSET Rows
    BY ConsumeRemains DEF Remnant
  <1>4. /\ Exists /\ call[tab].phase = "refresh" /\ account.status = "active"
        /\ UNCHANGED <<account, jar, access, late>>
    BY DEF RefreshContinue, Exists
  <1>5. Rotates(tab, AfterConsume(r), r.family, r.proved)
    BY <1>1, <1>4, ConsumeSpends DEF Rotates
  <1>6. QED
    BY <1>1, <1>2, <1>3, <1>4, <1>5 DEF Issues

\* What any step makes of the table.
LEMMA RowsStep ==
  ASSUME TypeOK, [Next]_vars
  PROVE  Remnant(rows') \/ \E tab \in Tabs : Issues(tab)
  <1>1. ASSUME UNCHANGED rows \/ rows' = {} \/ rows' \subseteq rows
        PROVE  Remnant(rows')
    BY <1>1, SubsetRemains
  <1>2. ASSUME NEW tab \in Tabs, LoginCompared(tab) \/ RegisterAnswer(tab)
        PROVE  Remnant(rows') \/ Issues(tab)
    <2>1. CASE Exists
      BY <1>2, <2>1, AdmitIssues DEF LoginCompared, RegisterAnswer
    <2>2. CASE ~Exists
      BY <1>1, <1>2, <2>2 DEF LoginCompared, RegisterAnswer, Admit, Insertable
    <2>3. QED
      BY <2>1, <2>2
  <1>3. ASSUME NEW tab \in Tabs, RefreshRefuse(tab) \/ LogoutServe(tab)
        PROVE  Remnant(rows')
    BY <1>1, <1>3, ConsumeTokenRemains DEF RefreshRefuse, LogoutServe
  <1>4. ASSUME NEW tab \in Tabs, PasswordApply(tab) PROVE Remnant(rows')
    BY <1>1, <1>4 DEF PasswordApply, SetPassword, Drop
  <1>5. ASSUME NEW tab \in Tabs,
               \/ Login(tab) \/ Register(tab) \/ RegisterCreate(tab)
               \/ RefreshSend(tab) \/ LogoutSend(tab) \/ LogoutAll(tab)
               \/ Receive(tab) \/ Lose(tab) \/ ChangeCompare(tab)
               \/ ResetHash(tab) \/ DeleteCompare(tab) \/ DeleteApply(tab)
        PROVE  Remnant(rows')
    BY <1>1, <1>5
    DEF Login, Register, RegisterCreate, RefreshSend, LogoutSend, LogoutAll,
        Receive, Lose, ChangeCompare, ResetHash, DeleteCompare, DeleteApply,
        Erase, Drop
  <1>6. ASSUME \/ VerifyEmailChange \/ AdminDelete \/ Ban \/ Unban
               \/ PurgeExpired \/ UNCHANGED vars
        PROVE  Remnant(rows')
    BY <1>1, <1>6
    DEF VerifyEmailChange, AdminDelete, Erase, Ban, Unban, PurgeExpired, vars,
        Drop
  <1>7. ASSUME Tick PROVE Remnant(rows')
    BY <1>7, TickRemains DEF Tick
  <1>8. QED
    BY <1>2, <1>3, <1>4, <1>5, <1>6, <1>7, RefreshIssues DEF Next

-----------------------------------------------------------------------------
(* Types *)

LEMMA CallTypes ==
  /\ Idle \in Calls /\ Idle.phase = "idle" /\ Idle.token = None
  /\ Idle.version = None /\ Idle.epoch = 0
  /\ \A phase \in Phases, token \in Tokens \cup {None} :
       /\ Sent(phase, token) \in Calls /\ Sent(phase, token).phase = phase
       /\ Sent(phase, token).token = token
       /\ Sent(phase, token).version = None /\ Sent(phase, token).epoch = 0
  /\ \A phase \in Phases, epoch \in Epochs :
       /\ Waiting(phase, epoch) \in Calls
       /\ Waiting(phase, epoch).phase = phase
       /\ Waiting(phase, epoch).token = None
       /\ Waiting(phase, epoch).version = None
       /\ Waiting(phase, epoch).epoch = epoch
  <1>1. 0 \in Epochs
    BY DEF Epochs
  <1>2. QED
    BY <1>1 DEF Idle, Sent, Waiting, Calls, Phases

LEMMA AnswerType ==
  ASSUME NEW token \in Tokens \cup {None}, NEW version \in Versions \cup {None},
         NEW epoch \in Epochs
  PROVE  /\ Answer(token, version, epoch) \in Calls
         /\ Answer(token, version, epoch).phase = "answer"
         /\ Answer(token, version, epoch).token = token
         /\ Answer(token, version, epoch).version = version
         /\ Answer(token, version, epoch).epoch = epoch
  BY DEF Answer, Calls, Phases

LEMMA RefusalType ==
  /\ Refusal \in Calls /\ Refusal.phase = "answer" /\ Refusal.token = None
  /\ Refusal.version = None /\ Refusal.epoch = 0
  BY AnswerType DEF Refusal, Epochs

\* A step of the call of one tab.
LEMMA CallStep ==
  ASSUME TypeOK, NEW tab \in Tabs, NEW c \in Calls,
         call' = [call EXCEPT ![tab] = c]
  PROVE  /\ call' \in [Tabs -> Calls] /\ call'[tab] = c
         /\ \A other \in Tabs \ {tab} : call'[other] = call[other]
  BY DEF TypeOK

\* What becomes of the account when its row is updated.
LEMMA AccountUpdates ==
  ASSUME TypeOK
  PROVE  /\ \A status \in {"active", "banned", "gone"} :
              LET after == [account EXCEPT !.status = status] IN
              /\ after \in Accounts /\ after.status = status
              /\ after.version = account.version /\ after.epoch = account.epoch
         /\ account.version < MaxVersion =>
              LET after == [account EXCEPT !.version = NextVersion] IN
              /\ after \in Accounts /\ after.status = account.status
              /\ after.version = account.version + 1
              /\ after.epoch = account.epoch
  BY DEF TypeOK, Accounts, Versions, NextVersion

\* A new password replaces the old one and outdates the access tokens, and the
\* refresh tokens go; without an account nothing happens.
LEMMA SetPasswordEffect ==
  ASSUME TypeOK, SetPassword
  PROVE  \/ ~Exists /\ UNCHANGED <<account, rows>>
         \/ /\ Exists /\ rows' = {} /\ account' \in Accounts
            /\ account'.status = account.status
            /\ account'.version = account.version + 1
            /\ account'.epoch = account.epoch + 1
  <1>1. CASE ~Exists
    BY <1>1 DEF SetPassword
  <1>2. CASE Exists
    <2> DEFINE first == [account EXCEPT !.epoch = account.epoch + 1]
    <2>1. /\ first \in Accounts /\ first.status = account.status
          /\ first.version = account.version
          /\ first.epoch = account.epoch + 1
      BY <1>2 DEF SetPassword, TypeOK, Accounts, Epochs
    <2>2. /\ account' = [first EXCEPT !.version = NextVersion]
          /\ account.version < MaxVersion /\ rows' = {}
      BY <1>2 DEF SetPassword, Drop, TypeOK, Accounts
    <2>3. NextVersion = account.version + 1 /\ NextVersion \in Versions
      BY <2>2 DEF NextVersion, TypeOK, Accounts, Versions
    <2> HIDE DEF first
    <2>4. QED
      BY <1>2, <2>1, <2>2, <2>3 DEF Accounts
  <1>3. QED
    BY <1>1, <1>2

\* The row that a registration inserts.
LEMMA RegisterEffect ==
  ASSUME TypeOK, NEW tab \in Tabs, RegisterCreate(tab)
  PROVE  \/ /\ Exists /\ UNCHANGED account
            /\ call' = [call EXCEPT ![tab] = Idle]
         \/ /\ ~Exists /\ account' \in Accounts
            /\ account'.status = "active" /\ account'.version = 0
            /\ account'.epoch = account.epoch + 1
            /\ account'.epoch \in Epochs
            /\ call' = [call EXCEPT
                 ![tab] = Waiting("registered", account'.epoch)]
  <1>1. CASE Exists
    BY <1>1 DEF RegisterCreate
  <1>2. CASE ~Exists
    <2>1. account.epoch + 1 \in Epochs /\ 0 \in Versions
      BY <1>2 DEF RegisterCreate, TypeOK, Accounts, Epochs, Versions
    <2>2. QED
      BY <1>2, <2>1 DEF RegisterCreate, Accounts
  <1>3. QED
    BY <1>1, <1>2

\* Each tab makes its calls in these ways.  `Quietly` gathers the steps that
\* touch neither the account nor the table.
Quietly(tab) ==
  \E c \in Calls :
    /\ call' = [call EXCEPT ![tab] = c]
    /\ UNCHANGED <<account, rows, jar, access, observers>>
    /\ call[tab].phase # "answer" /\ c.phase # "answer" /\ c.version = None
    /\ c.token \in {None, jar} /\ c.epoch \in {0, account.epoch}
    /\ c.phase # "registered"
    /\ c.phase = "login" =>
         account.status = "active" /\ c.epoch = account.epoch

LEMMA QuietSteps ==
  ASSUME TypeOK, NEW tab \in Tabs,
         \/ Login(tab) \/ Register(tab) \/ RefreshSend(tab) \/ LogoutSend(tab)
         \/ ChangeCompare(tab) \/ ResetHash(tab) \/ DeleteCompare(tab)
  PROVE  Quietly(tab)
  <1>1. /\ account.epoch \in Epochs /\ jar \in Tokens \cup {None}
        /\ 0 \in Epochs
        /\ {"refresh", "logout", "login", "register", "change", "reset",
            "delete"} \subseteq Phases
    BY DEF TypeOK, Accounts, Phases, Suspended, Epochs
  <1>2. CASE Login(tab)
    <2> DEFINE c == Waiting("login", account.epoch)
    <2>1. /\ c \in Calls /\ c.phase = "login" /\ c.version = None
          /\ c.token = None /\ c.epoch = account.epoch
      BY <1>1, CallTypes
    <2> HIDE DEF c
    <2>2. /\ call' = [call EXCEPT ![tab] = c] /\ call[tab].phase = "idle"
          /\ account.status = "active"
          /\ UNCHANGED <<account, rows, jar, access, observers>>
      BY <1>2 DEF Login, MayLogin, c
    <2>3. QED
      BY <2>1, <2>2 DEF Quietly
  <1>3. CASE \/ Register(tab) \/ ChangeCompare(tab) \/ ResetHash(tab)
             \/ DeleteCompare(tab)
    <2>1. PICK phase \in {"register", "change", "reset", "delete"} :
            /\ call[tab].phase = "idle"
            /\ call' = [call EXCEPT ![tab] = Waiting(phase, 0)]
            /\ UNCHANGED <<account, rows, jar, access, observers>>
      BY <1>3 DEF Register, ChangeCompare, ResetHash, DeleteCompare
    <2> DEFINE c == Waiting(phase, 0)
    <2>2. /\ c \in Calls /\ c.phase = phase /\ c.version = None
          /\ c.token = None /\ c.epoch = 0
      BY <1>1, CallTypes
    <2>3. call' = [call EXCEPT ![tab] = c]
      BY <2>1
    <2> HIDE DEF c
    <2>4. QED
      BY <2>1, <2>2, <2>3 DEF Quietly
  <1>4. CASE RefreshSend(tab) \/ LogoutSend(tab)
    <2>1. PICK phase \in {"refresh", "logout"} :
            /\ call[tab].phase = "idle"
            /\ call' = [call EXCEPT ![tab] = Sent(phase, jar)]
            /\ UNCHANGED <<account, rows, jar, access, observers>>
      BY <1>4 DEF RefreshSend, LogoutSend
    <2> DEFINE c == Sent(phase, jar)
    <2>2. /\ c \in Calls /\ c.phase = phase /\ c.version = None
          /\ c.token = jar /\ c.epoch = 0
      BY <1>1, CallTypes
    <2>3. call' = [call EXCEPT ![tab] = c]
      BY <2>1
    <2> HIDE DEF c
    <2>4. QED
      BY <2>1, <2>2, <2>3 DEF Quietly
  <1>5. QED
    BY <1>2, <1>3, <1>4

\* A request that ends without an answer that sets a cookie: the tab becomes
\* idle or has its cookie cleared.
Ends(tab, c) ==
  c \in {Idle, Refusal} /\ call' = [call EXCEPT ![tab] = c]

LEMMA EndTypes ==
  ASSUME NEW c \in {Idle, Refusal}
  PROVE  /\ c \in Calls /\ c.token = None /\ c.version = None /\ c.epoch = 0
         /\ c.phase \in {"idle", "answer"}
  BY CallTypes, RefusalType

\* What a step does to the observers: `late` stays, and `ended` gains the
\* tokens of rows that go, or loses a token that is in use again.
LEMMA ObserversStep ==
  ASSUME TypeOK, [Next]_vars
  PROVE  /\ late' \in BOOLEAN
         /\ late => late'
         /\ ended' \subseteq Tokens
         /\ \/ ended \subseteq ended'
            \/ \E t \in Tokens : FreshToken(t) /\ ended' = ended \ {t}
  <1> DEFINE O == /\ late' \in BOOLEAN
                  /\ late => late'
                  /\ ended' \subseteq Tokens
                  /\ \/ ended \subseteq ended'
                     \/ \E t \in Tokens : FreshToken(t) /\ ended' = ended \ {t}
  <1>1. ASSUME late' = late \/ late' = TRUE \/ \E t : late' = (late \/ TooLate(t)),
               UNCHANGED ended
        PROVE  O
    BY <1>1 DEF TypeOK, TooLate
  <1>2. ASSUME NEW R \in SUBSET rows, Drop(R), UNCHANGED late PROVE O
    BY <1>2 DEF Drop, TypeOK, Rows
  <1>3. ASSUME NEW tab \in Tabs, LoginCompared(tab) \/ RegisterAnswer(tab)
        PROVE  O
    BY <1>3 DEF LoginCompared, RegisterAnswer, Admit, TypeOK
  <1>4. ASSUME NEW tab \in Tabs, RefreshContinue(tab) PROVE O
    BY <1>4 DEF RefreshContinue, TypeOK
  <1>5. ASSUME NEW tab \in Tabs,
               RefreshRefuse(tab) \/ LogoutServe(tab) \/ Lose(tab)
        PROVE  O
    BY <1>1, <1>5 DEF RefreshRefuse, LogoutServe, Lose
  <1>6. ASSUME NEW tab \in Tabs,
               LogoutAll(tab) \/ PasswordApply(tab) \/ DeleteApply(tab)
        PROVE  O
    BY <1>1, <1>2, <1>6
    DEF LogoutAll, PasswordApply, SetPassword, DeleteApply, Erase
  <1>7. ASSUME NEW tab \in Tabs,
               \/ Login(tab) \/ Register(tab) \/ RegisterCreate(tab)
               \/ RefreshSend(tab) \/ LogoutSend(tab) \/ Receive(tab)
               \/ ChangeCompare(tab) \/ ResetHash(tab) \/ DeleteCompare(tab)
        PROVE  O
    BY <1>1, <1>7
    DEF Login, Register, RegisterCreate, RefreshSend, LogoutSend, Receive,
        ChangeCompare, ResetHash, DeleteCompare, observers
  <1>8. ASSUME VerifyEmailChange \/ AdminDelete \/ Ban \/ PurgeExpired PROVE O
    BY <1>2, <1>8 DEF VerifyEmailChange, AdminDelete, Ban, Erase, PurgeExpired
  <1>9. ASSUME Unban \/ Tick \/ UNCHANGED vars PROVE O
    BY <1>1, <1>9 DEF Unban, Tick, vars, observers
  <1>10. QED
    BY <1>3, <1>4, <1>5, <1>6, <1>7, <1>8, <1>9 DEF Next

\* Account, cookie, access tokens and calls keep their types.
LEMMA RestTyped ==
  ASSUME TypeOK, [Next]_vars
  PROVE  /\ account' \in Accounts /\ jar' \in Tokens \cup {None}
         /\ access' \in [Tabs -> Access] /\ call' \in [Tabs -> Calls]
  <1> DEFINE T == /\ account' \in Accounts /\ jar' \in Tokens \cup {None}
                  /\ access' \in [Tabs -> Access]
                  /\ call' \in [Tabs -> Calls]
  <1>1. ASSUME NEW tab \in Tabs, NEW c, Ends(tab, c)
        PROVE  call' \in [Tabs -> Calls]
    BY <1>1, EndTypes, CallStep DEF Ends
  <1>2. ASSUME NEW tab \in Tabs, Quietly(tab) PROVE T
    BY <1>2, CallStep DEF Quietly, TypeOK
  <1>3. ASSUME NEW tab \in Tabs, Issues(tab) PROVE T
    <2>1. PICK t \in Tokens, e \in Epochs :
            call' = [call EXCEPT ![tab] = Answer(t, account.version, e)]
      BY <1>3 DEF Issues
    <2>2. Answer(t, account.version, e) \in Calls
      BY AnswerType DEF TypeOK, Accounts
    <2>3. UNCHANGED <<account, jar, access>>
      BY <1>3 DEF Issues
    <2>4. QED
      BY <2>1, <2>2, <2>3, CallStep DEF TypeOK
  <1>4. ASSUME NEW tab \in Tabs, LoginCompared(tab) \/ RegisterAnswer(tab)
        PROVE  T
    <2>1. CASE Exists
      BY <1>3, <1>4, <2>1, AdmitIssues DEF LoginCompared, RegisterAnswer
    <2>2. CASE ~Exists
      <3>1. Ends(tab, Idle) /\ UNCHANGED <<account, jar, access>>
        BY <1>4, <2>2
        DEF LoginCompared, RegisterAnswer, Admit, Insertable, Ends
      <3>2. QED
        BY <1>1, <3>1 DEF TypeOK
    <2>3. QED
      BY <2>1, <2>2
  <1>5. ASSUME NEW tab \in Tabs,
               RefreshRefuse(tab) \/ LogoutServe(tab) \/ LogoutAll(tab)
        PROVE  T
    <2>1. /\ Ends(tab, Idle) \/ Ends(tab, Refusal)
          /\ UNCHANGED <<account, jar, access>>
      BY <1>5 DEF RefreshRefuse, LogoutServe, LogoutAll, Ends
    <2>2. QED
      BY <1>1, <2>1 DEF TypeOK
  <1>6. ASSUME NEW tab \in Tabs, RegisterCreate(tab) PROVE T
    <2>1. UNCHANGED <<jar, access>>
      BY <1>6 DEF RegisterCreate
    <2>2. CASE Ends(tab, Idle) /\ UNCHANGED account
      BY <1>1, <2>1, <2>2 DEF TypeOK
    <2>3. CASE /\ account' \in Accounts /\ account'.epoch \in Epochs
               /\ call' = [call EXCEPT
                    ![tab] = Waiting("registered", account'.epoch)]
      BY <2>1, <2>3, CallTypes, CallStep DEF TypeOK, Phases, Suspended
    <2>4. QED
      BY <1>6, <2>2, <2>3, RegisterEffect DEF Ends
  <1>7. ASSUME NEW tab \in Tabs, Receive(tab) PROVE T
    <2>1. Ends(tab, Idle) /\ UNCHANGED account
      BY <1>7 DEF Receive, Ends
    <2>2. call[tab].token \in Tokens \cup {None}
      BY DEF TypeOK, Calls
    <2>3. [version |-> call[tab].version, epoch |-> call[tab].epoch] \in Access
      BY DEF TypeOK, Calls, Access
    <2>4. QED
      BY <1>1, <1>7, <2>1, <2>2, <2>3 DEF Receive, TypeOK
  <1>8. ASSUME NEW tab \in Tabs, Lose(tab) PROVE T
    <2>1. Ends(tab, Idle) /\ UNCHANGED <<account, jar, access>>
      BY <1>8 DEF Lose, Ends
    <2>2. QED
      BY <1>1, <2>1 DEF TypeOK
  <1>9. ASSUME NEW tab \in Tabs, PasswordApply(tab) \/ DeleteApply(tab) PROVE T
    <2>1. Ends(tab, Idle) /\ UNCHANGED <<jar, access>>
      BY <1>9 DEF PasswordApply, DeleteApply, Ends
    <2>2. account' \in Accounts
      BY <1>9, SetPasswordEffect, AccountUpdates
      DEF PasswordApply, DeleteApply, Erase, TypeOK
    <2>3. QED
      BY <1>1, <2>1, <2>2 DEF TypeOK
  <1>10. ASSUME VerifyEmailChange \/ AdminDelete \/ Ban \/ Unban PROVE T
    <2>1. UNCHANGED <<jar, access, call>>
      BY <1>10 DEF VerifyEmailChange, AdminDelete, Ban, Unban
    <2>2. account' \in Accounts
      BY <1>10, AccountUpdates
      DEF VerifyEmailChange, AdminDelete, Erase, Ban, Unban
    <2>3. QED
      BY <2>1, <2>2 DEF TypeOK
  <1>11. ASSUME Tick \/ PurgeExpired \/ UNCHANGED vars PROVE T
    BY <1>11 DEF Tick, PurgeExpired, vars, TypeOK
  <1>12. QED
    BY <1>2, <1>3, <1>4, <1>5, <1>6, <1>7, <1>8, <1>9, <1>10, <1>11,
       QuietSteps, RefreshIssues DEF Next

\* So do the rows, and a token names one row at most.
LEMMA RowsTyped ==
  ASSUME TypeOK, [Next]_vars
  PROVE  rows' \subseteq Rows /\ \A r, x \in rows' : r.token = x.token => r = x
  <1>1. CASE Remnant(rows')
    BY <1>1 DEF Remnant
  <1>2. ASSUME NEW tab \in Tabs, Issues(tab)
        PROVE  rows' \subseteq Rows
               /\ \A r, x \in rows' : r.token = x.token => r = x
    <2>1. PICK K \in SUBSET Rows, t \in Tokens, f \in Families, e \in Epochs :
            Remnant(K) /\ FreshToken(t) /\ rows' = K \cup {NewRow(t, f, e)}
      BY <1>2 DEF Issues
    <2>2. NewRow(t, f, e) \in Rows /\ NewRow(t, f, e).token = t
      BY DEF NewRow, Rows
    <2>3. \A x \in K : x.token # t
      BY <2>1 DEF Remnant, Descends, FreshToken
    <2>4. QED
      BY <2>1, <2>2, <2>3 DEF Remnant
  <1>3. QED
    BY <1>1, <1>2, RowsStep

\* Type correctness (lib/auth.ts, db schema): every column, cookie and call
\* holds a value of its type, and token hashes are unique in refresh_tokens.
THEOREM TypeCorrect == Spec => []TypeOK
  <1>1. Init => TypeOK
    <2>1. ASSUME Init PROVE account \in Accounts /\ rows = {}
      BY <2>1 DEF Init, Accounts, Versions, Epochs
    <2>2. NoAccess \in Access
      BY DEF NoAccess, Access, Versions, Epochs
    <2>3. ASSUME Init PROVE access \in [Tabs -> Access]
      BY <2>2, <2>3 DEF Init
    <2>4. ASSUME Init PROVE call \in [Tabs -> Calls]
      BY <2>4, CallTypes DEF Init
    <2>5. ASSUME Init PROVE /\ jar \in Tokens \cup {None}
                            /\ late \in BOOLEAN /\ ended \subseteq Tokens
      BY <2>5 DEF Init
    <2>6. QED
      BY <2>1, <2>3, <2>4, <2>5 DEF TypeOK
  <1>2. TypeOK /\ [Next]_vars => TypeOK'
    BY RestTyped, RowsTyped, ObserversStep DEF TypeOK
  <1>3. QED
    BY <1>1, <1>2, PTL DEF Spec

-----------------------------------------------------------------------------
(* Deleted and banned accounts *)

\* An empty table gains a row only from a sign-in or a registration.
LEMMA EmptyRemains ==
  ASSUME TypeOK, [Next]_vars, rows = {}
  PROVE  \/ rows' = {}
         \/ /\ Exists /\ UNCHANGED account
            /\ \E tab \in Tabs : call[tab].phase \in {"login", "registered"}
  BY RowsStep DEF Remnant, Issues, Begins, Rotates

\* No step makes away with the account and leaves a row.
LEMMA GoneStep ==
  ASSUME TypeOK, [Next]_vars, account'.status = "gone"
  PROVE  account.status = "gone" \/ rows' = {}
  <1>1. ASSUME UNCHANGED account PROVE account.status = "gone"
    BY <1>1
  <1>2. ASSUME NEW tab \in Tabs, DeleteApply(tab) PROVE rows' = {}
    BY <1>2 DEF DeleteApply, Erase, Drop
  <1>3. ASSUME NEW tab \in Tabs, RegisterCreate(tab)
        PROVE  account.status = "gone"
    BY <1>3, RegisterEffect
  <1>4. ASSUME NEW tab \in Tabs, PasswordApply(tab)
        PROVE  account.status = "gone" \/ rows' = {}
    BY <1>4, SetPasswordEffect DEF PasswordApply
  <1>5. ASSUME VerifyEmailChange \/ AdminDelete \/ Ban PROVE rows' = {}
    BY <1>5 DEF VerifyEmailChange, AdminDelete, Ban, Erase, Drop
  <1>6. ASSUME Unban PROVE FALSE
    BY <1>6, AccountUpdates DEF Unban
  <1>7. ASSUME NEW tab \in Tabs,
               \/ Login(tab) \/ LoginCompared(tab) \/ Register(tab)
               \/ RegisterAnswer(tab) \/ RefreshSend(tab)
               \/ RefreshContinue(tab) \/ RefreshRefuse(tab)
               \/ LogoutSend(tab) \/ LogoutServe(tab) \/ LogoutAll(tab)
               \/ Receive(tab) \/ Lose(tab) \/ ChangeCompare(tab)
               \/ ResetHash(tab) \/ DeleteCompare(tab)
        PROVE  UNCHANGED account
    BY <1>7
    DEF Login, LoginCompared, Register, RegisterAnswer, RefreshSend,
        RefreshContinue, RefreshRefuse, LogoutSend, LogoutServe, LogoutAll,
        Receive, Lose, ChangeCompare, ResetHash, DeleteCompare
  <1>8. ASSUME Tick \/ PurgeExpired \/ UNCHANGED vars PROVE UNCHANGED account
    BY <1>8 DEF Tick, PurgeExpired, vars
  <1>9. QED
    BY <1>1, <1>2, <1>3, <1>4, <1>5, <1>6, <1>7, <1>8 DEF Next

\* The refresh tokens of an account go with it (db schema, ON DELETE CASCADE),
\* and no sign-in that was waiting for bcrypt brings one back.
THEOREM TokensGoWithAccount == Spec => []TokensHaveAccount
  <1>1. Init => TokensHaveAccount
    BY DEF Init, TokensHaveAccount
  <1>2. TokensHaveAccount /\ TypeOK /\ [Next]_vars => TokensHaveAccount'
    BY GoneStep, EmptyRemains DEF TokensHaveAccount, Exists
  <1>3. QED
    BY <1>1, <1>2, TypeCorrect, PTL DEF Spec

\* No sign-in begins, and those under way stay as they are.
NoneBegins ==
  \A tab \in NewSessions' : tab \in NewSessions /\ call'[tab] = call[tab]

\* The two steps by which a sign-in begins.
LEMMA NewSessionsStep ==
  ASSUME TypeOK, [Next]_vars
  PROVE  \/ NoneBegins
         \/ \E tab \in Tabs : Quietly(tab) /\ call'[tab].phase = "login"
         \/ \E tab \in Tabs : RegisterCreate(tab) /\ ~Exists
  <1>1. ASSUME NEW tab \in Tabs, NEW c \in Calls,
               call' = [call EXCEPT ![tab] = c],
               c.phase \notin {"login", "registered"}
        PROVE  NoneBegins
    BY <1>1, CallStep DEF NoneBegins, NewSessions
  <1>2. ASSUME NEW tab \in Tabs, Ends(tab, Idle) \/ Ends(tab, Refusal)
        PROVE  NoneBegins
    <2>1. PICK c \in {Idle, Refusal} : Ends(tab, c)
      BY <1>2
    <2>2. QED
      BY <1>1, <2>1, EndTypes DEF Ends
  <1>3. ASSUME NEW tab \in Tabs, Issues(tab)
        PROVE  NoneBegins
    <2>1. PICK t \in Tokens, e \in Epochs :
            call' = [call EXCEPT ![tab] = Answer(t, account.version, e)]
      BY <1>3 DEF Issues
    <2>2. /\ Answer(t, account.version, e) \in Calls
          /\ Answer(t, account.version, e).phase = "answer"
      BY AnswerType DEF TypeOK, Accounts
    <2>3. QED
      BY <1>1, <2>1, <2>2
  <1>4. ASSUME NEW tab \in Tabs, LoginCompared(tab) \/ RegisterAnswer(tab)
        PROVE  NoneBegins
    <2>1. CASE Exists
      BY <1>3, <1>4, <2>1, AdmitIssues DEF LoginCompared, RegisterAnswer
    <2>2. CASE ~Exists
      BY <1>2, <1>4, <2>2
      DEF LoginCompared, RegisterAnswer, Admit, Insertable, Ends
    <2>3. QED
      BY <2>1, <2>2
  <1>5. ASSUME NEW tab \in Tabs, Quietly(tab)
        PROVE  \/ NoneBegins
               \/ call'[tab].phase = "login"
    <2>1. PICK c \in Calls : /\ call' = [call EXCEPT ![tab] = c]
                             /\ c.phase # "registered"
      BY <1>5 DEF Quietly
    <2>2. CASE c.phase = "login"
      BY <2>1, <2>2, CallStep
    <2>3. CASE c.phase # "login"
      BY <1>1, <2>1, <2>3
    <2>4. QED
      BY <2>2, <2>3
  <1>6. ASSUME NEW tab \in Tabs,
               \/ RefreshRefuse(tab) \/ LogoutServe(tab) \/ LogoutAll(tab)
               \/ Receive(tab) \/ Lose(tab) \/ PasswordApply(tab)
               \/ DeleteApply(tab)
        PROVE  NoneBegins
    BY <1>2, <1>6
    DEF RefreshRefuse, LogoutServe, LogoutAll, Receive, Lose, PasswordApply,
        DeleteApply, Ends
  <1>7. ASSUME NEW tab \in Tabs, RegisterCreate(tab), Exists
        PROVE  NoneBegins
    BY <1>2, <1>7, RegisterEffect DEF Ends
  <1>8. ASSUME \/ VerifyEmailChange \/ AdminDelete \/ Ban \/ Unban \/ Tick
               \/ PurgeExpired \/ UNCHANGED vars
        PROVE  NoneBegins
    BY <1>8
    DEF VerifyEmailChange, AdminDelete, Ban, Unban, Tick, PurgeExpired, vars,
        NoneBegins, NewSessions
  <1>9. QED
    BY <1>3, <1>4, <1>5, <1>6, <1>7, <1>8, QuietSteps, RefreshIssues DEF Next

\* The ban (routes/admin.ts, lib/auth.ts): an account that is banned, with no
\* session and no sign-in under way, gets none while it stays banned.
THEOREM BanHolds == Spec => BannedStaysSignedOut
  <1>1. TypeOK /\ [Next]_vars
          => (SignedOut => SignedOut' \/ account'.status # "banned")
    <2> SUFFICES ASSUME TypeOK, [Next]_vars, SignedOut,
                        account'.status = "banned"
                 PROVE  rows' = {} /\ NewSessions' = {}
      BY DEF SignedOut
    <2>1. rows' = {}
      BY EmptyRemains DEF SignedOut, NewSessions
    <2>2. ASSUME NEW tab \in Tabs, Quietly(tab), call'[tab].phase = "login"
          PROVE  FALSE
      <3>1. PICK c \in Calls :
              /\ call' = [call EXCEPT ![tab] = c]
              /\ c.phase = "login" => account.status = "active"
        BY <2>2 DEF Quietly
      <3>2. QED
        BY <2>2, <3>1, CallStep DEF SignedOut
    <2>3. NoneBegins
      BY <2>2, NewSessionsStep DEF SignedOut, Exists
    <2>4. NewSessions' = {}
      BY <2>3 DEF SignedOut, NoneBegins
    <2>5. QED
      BY <2>1, <2>4
  <1>2. QED
    BY <1>1, TypeCorrect, PTL DEF Spec, BannedStaysSignedOut

-----------------------------------------------------------------------------
(* Rotation *)

\* Rotation (lib/auth.ts, consumeRefreshToken and routes/auth.ts, /refresh):
\* a row enters a family that is new or one that keeps a spent row, by which
\* a replay of the predecessor is noticed.
THEOREM RotationTraced == Spec => RotationLeavesTrace
  <1> DEFINE Traced ==
        \A r \in rows' : (\A x \in rows : x.token # r.token) =>
          \/ \A x \in rows : x.family # r.family
          \/ \E x \in rows' : x.family = r.family /\ x.since # None
  <1>1. ASSUME Remnant(rows') PROVE Traced
    BY <1>1 DEF Remnant, Descends
  <1>2. ASSUME NEW tab \in Tabs, Issues(tab) PROVE Traced
    <2>1. PICK K \in SUBSET Rows, t \in Tokens, f \in Families, e \in Epochs :
            /\ Remnant(K) /\ rows' = K \cup {NewRow(t, f, e)}
            /\ Begins(tab, K, f, e) \/ Rotates(tab, K, f, e)
      BY <1>2 DEF Issues
    <2>2. NewRow(t, f, e).family = f
      BY DEF NewRow
    <2>3. \A x \in K : \E r \in rows : x.token = r.token
      BY <2>1 DEF Remnant, Descends
    <2>4. QED
      BY <2>1, <2>2, <2>3 DEF Begins, Rotates, FreshFamily
  <1>3. TypeOK /\ [Next]_vars => Traced
    BY <1>1, <1>2, RowsStep
  <1>4. QED
    BY <1>3, TypeCorrect, PTL DEF Spec, RotationLeavesTrace

-----------------------------------------------------------------------------
(* Changes of the password *)

\* How version and password of the account move.
LEMMA AccountStep ==
  ASSUME TypeOK, [Next]_vars
  PROVE  \/ UNCHANGED account
         \/ /\ account'.epoch = account.epoch
            /\ account'.version \in {account.version, account.version + 1}
         \/ /\ Exists /\ rows' = {}
            /\ account'.epoch = account.epoch + 1
            /\ account'.version = account.version + 1
         \/ ~Exists /\ account'.epoch = account.epoch + 1
  <1>1. ASSUME NEW tab \in Tabs, DeleteApply(tab)
        PROVE  account'.epoch = account.epoch /\ account'.version = account.version
    BY <1>1, AccountUpdates DEF DeleteApply, Erase
  <1>2. ASSUME NEW tab \in Tabs, PasswordApply(tab)
        PROVE  \/ UNCHANGED account
               \/ /\ Exists /\ rows' = {}
                  /\ account'.epoch = account.epoch + 1
                  /\ account'.version = account.version + 1
    BY <1>2, SetPasswordEffect DEF PasswordApply
  <1>3. ASSUME NEW tab \in Tabs, RegisterCreate(tab)
        PROVE  \/ UNCHANGED account
               \/ ~Exists /\ account'.epoch = account.epoch + 1
    BY <1>3, RegisterEffect
  <1>4. ASSUME VerifyEmailChange
        PROVE  /\ account'.epoch = account.epoch
               /\ account'.version = account.version + 1
    BY <1>4, AccountUpdates DEF VerifyEmailChange
  <1>5. ASSUME AdminDelete \/ Ban \/ Unban
        PROVE  account'.epoch = account.epoch /\ account'.version = account.version
    BY <1>5, AccountUpdates DEF AdminDelete, Erase, Ban, Unban
  <1>6. ASSUME NEW tab \in Tabs,
               \/ Login(tab) \/ LoginCompared(tab) \/ Register(tab)
               \/ RegisterAnswer(tab) \/ RefreshSend(tab)
               \/ RefreshContinue(tab) \/ RefreshRefuse(tab)
               \/ LogoutSend(tab) \/ LogoutServe(tab) \/ LogoutAll(tab)
               \/ Receive(tab) \/ Lose(tab) \/ ChangeCompare(tab)
               \/ ResetHash(tab) \/ DeleteCompare(tab)
        PROVE  UNCHANGED account
    BY <1>6
    DEF Login, LoginCompared, Register, RegisterAnswer, RefreshSend,
        RefreshContinue, RefreshRefuse, LogoutSend, LogoutServe, LogoutAll,
        Receive, Lose, ChangeCompare, ResetHash, DeleteCompare
  <1>7. ASSUME Tick \/ PurgeExpired \/ UNCHANGED vars PROVE UNCHANGED account
    BY <1>7 DEF Tick, PurgeExpired, vars
  <1>8. QED
    BY <1>1, <1>2, <1>3, <1>4, <1>5, <1>6, <1>7 DEF Next

\* A row is proved by what a row or a sign-in was proved by before.
LEMMA ProvedStep ==
  ASSUME TypeOK, [Next]_vars, NEW x \in rows'
  PROVE  \/ \E r \in rows : x.proved = r.proved
         \/ UNCHANGED account /\ \E tab \in NewSessions : x.proved = call[tab].epoch
  <1>1. CASE Remnant(rows')
    BY <1>1 DEF Remnant, Descends
  <1>2. ASSUME NEW tab \in Tabs, Issues(tab)
        PROVE  \/ \E r \in rows : x.proved = r.proved
               \/ /\ UNCHANGED account
                  /\ \E u \in NewSessions : x.proved = call[u].epoch
    <2>1. PICK K \in SUBSET Rows, t \in Tokens, f \in Families, e \in Epochs :
            /\ Remnant(K) /\ rows' = K \cup {NewRow(t, f, e)}
            /\ UNCHANGED account
            /\ Begins(tab, K, f, e) \/ Rotates(tab, K, f, e)
      BY <1>2 DEF Issues
    <2>2. NewRow(t, f, e).proved = e
      BY DEF NewRow
    <2>3. QED
      BY <2>1, <2>2 DEF Remnant, Descends, Begins, Rotates, NewSessions
  <1>3. QED
    BY <1>1, <1>2, RowsStep

\* Where the access token of a tab or of a response comes from: it was there
\* before, or there is none, or it is granted on a session or a sign-in.
Inherited(x) ==
  \E u \in Tabs : \E y \in {access[u], call[u]} :
    x.version = y.version /\ x.epoch = y.epoch
Blank(x) ==
  x.version = None /\ x.epoch \in {0, account.epoch, account'.epoch}
Granted(x) ==
  /\ x.version = account.version /\ UNCHANGED account
  /\ \/ \E r \in rows : x.epoch = r.proved
     \/ \E u \in NewSessions : x.epoch = call[u].epoch
Sources ==
  \A tab \in Tabs : \A x \in {access'[tab], call'[tab]} :
    Inherited(x) \/ Blank(x) \/ Granted(x)

LEMMA CallSources ==
  ASSUME TypeOK, NEW tab \in Tabs, NEW c \in Calls, UNCHANGED access,
         call' = [call EXCEPT ![tab] = c], Blank(c) \/ Granted(c)
  PROVE  Sources
  BY CallStep DEF Sources, Inherited

LEMMA SourcesStep ==
  ASSUME TypeOK, [Next]_vars PROVE Sources
  <1>1. ASSUME NEW tab \in Tabs, UNCHANGED access,
               Ends(tab, Idle) \/ Ends(tab, Refusal)
        PROVE  Sources
    <2>1. PICK c \in {Idle, Refusal} : Ends(tab, c)
      BY <1>1
    <2>2. QED
      BY <1>1, <2>1, EndTypes, CallSources DEF Ends, Blank
  <1>2. ASSUME NEW tab \in Tabs, Quietly(tab) PROVE Sources
    BY <1>2, CallSources DEF Quietly, Blank
  <1>3. ASSUME NEW tab \in Tabs, Issues(tab) PROVE Sources
    <2>1. PICK K \in SUBSET Rows, t \in Tokens, f \in Families, e \in Epochs :
            /\ call' = [call EXCEPT ![tab] = Answer(t, account.version, e)]
            /\ UNCHANGED <<account, access>>
            /\ Begins(tab, K, f, e) \/ Rotates(tab, K, f, e)
      BY <1>3 DEF Issues
    <2> DEFINE c == Answer(t, account.version, e)
    <2>2. c \in Calls /\ c.version = account.version /\ c.epoch = e
      BY AnswerType DEF TypeOK, Accounts
    <2>3. call' = [call EXCEPT ![tab] = c]
      BY <2>1
    <2> HIDE DEF c
    <2>4. Granted(c)
      BY <2>1, <2>2 DEF Granted, Begins, Rotates, NewSessions
    <2>5. QED
      BY <2>1, <2>2, <2>3, <2>4, CallSources
  <1>4. ASSUME NEW tab \in Tabs, LoginCompared(tab) \/ RegisterAnswer(tab)
        PROVE  Sources
    <2>1. CASE Exists
      BY <1>3, <1>4, <2>1, AdmitIssues DEF LoginCompared, RegisterAnswer
    <2>2. CASE ~Exists
      BY <1>1, <1>4, <2>2
      DEF LoginCompared, RegisterAnswer, Admit, Insertable, Ends
    <2>3. QED
      BY <2>1, <2>2
  <1>5. ASSUME NEW tab \in Tabs,
               \/ RefreshRefuse(tab) \/ LogoutServe(tab) \/ LogoutAll(tab)
               \/ Lose(tab) \/ PasswordApply(tab) \/ DeleteApply(tab)
        PROVE  Sources
    BY <1>1, <1>5
    DEF RefreshRefuse, LogoutServe, LogoutAll, Lose, PasswordApply,
        DeleteApply, Ends
  <1>6. ASSUME NEW tab \in Tabs, RegisterCreate(tab) PROVE Sources
    <2>1. UNCHANGED access
      BY <1>6 DEF RegisterCreate
    <2>2. ASSUME account'.epoch \in Epochs,
                 call' = [call EXCEPT
                   ![tab] = Waiting("registered", account'.epoch)]
          PROVE  Sources
      <3> DEFINE c == Waiting("registered", account'.epoch)
      <3>1. c \in Calls /\ c.version = None /\ c.epoch = account'.epoch
        BY <2>2, CallTypes DEF Phases, Suspended
      <3>2. call' = [call EXCEPT ![tab] = c]
        BY <2>2
      <3> HIDE DEF c
      <3>3. QED
        BY <2>1, <3>1, <3>2, CallSources DEF Blank
    <2>3. QED
      BY <1>1, <1>6, <2>1, <2>2, RegisterEffect DEF Ends
  <1>7. ASSUME NEW tab \in Tabs, Receive(tab) PROVE Sources
    <2> DEFINE a == [version |-> call[tab].version, epoch |-> call[tab].epoch]
    <2>1. /\ call'[tab] = Idle
          /\ \A u \in Tabs \ {tab} : call'[u] = call[u] /\ access'[u] = access[u]
          /\ access'[tab] = a
      BY <1>7 DEF Receive, TypeOK
    <2>2. Blank(Idle)
      BY CallTypes DEF Blank
    <2>3. Inherited(a)
      BY DEF Inherited
    <2> HIDE DEF a
    <2>4. QED
      BY <2>1, <2>2, <2>3 DEF Sources, Inherited
  <1>8. ASSUME \/ VerifyEmailChange \/ AdminDelete \/ Ban \/ Unban \/ Tick
               \/ PurgeExpired \/ UNCHANGED vars
        PROVE  Sources
    BY <1>8
    DEF VerifyEmailChange, AdminDelete, Ban, Unban, Tick, PurgeExpired, vars,
        Sources, Inherited
  <1>9. QED
    BY <1>2, <1>3, <1>4, <1>5, <1>6, <1>7, <1>8, QuietSteps, RefreshIssues
    DEF Next

\* Nothing is ahead of the account: neither the passwords by which sessions
\* were proved nor, among the access tokens of the present password, the
\* version.  Without this a new version might not outdate an old token.
NothingAhead ==
  /\ \A r \in rows : r.proved <= account.epoch
  /\ \A tab \in Tabs : \A token \in {access[tab], call[tab]} :
       /\ token.epoch <= account.epoch
       /\ token.version # None /\ token.epoch = account.epoch =>
            token.version <= account.version

\* The numbers that the next two proofs compare.
LEMMA Numbers ==
  ASSUME TypeOK
  PROVE  /\ account.epoch \in Nat /\ account.version \in Nat
         /\ \A r \in rows : r.proved \in Nat
         /\ \A tab \in Tabs : \A token \in {access[tab], call[tab]} :
              token.epoch \in Nat /\ token.version \in Nat \cup {None}
  BY DEF TypeOK, Accounts, Rows, Access, Calls, Epochs, Versions

LEMMA NothingAheadStep ==
  ASSUME TypeOK, TypeOK', NothingAhead, [Next]_vars PROVE NothingAhead'
  <1>1. /\ account'.epoch \in Nat /\ account.epoch <= account'.epoch
        /\ account'.epoch = account.epoch => account.version <= account'.version
    BY AccountStep, Numbers
  <1>2. ASSUME NEW x \in rows' PROVE x.proved <= account'.epoch
    <2>1. CASE \E r \in rows : x.proved = r.proved
      BY <1>1, <2>1, Numbers DEF NothingAhead
    <2>2. CASE UNCHANGED account
               /\ \E tab \in NewSessions : x.proved = call[tab].epoch
      BY <2>2 DEF NothingAhead, NewSessions
    <2>3. QED
      BY <1>2, <2>1, <2>2, ProvedStep
  <1>3. ASSUME NEW tab \in Tabs, NEW x \in {access'[tab], call'[tab]}
        PROVE  /\ x.epoch <= account'.epoch
               /\ x.version # None /\ x.epoch = account'.epoch =>
                    x.version <= account'.version
    <2>1. CASE Inherited(x)
      <3>1. PICK u \in Tabs : \E y \in {access[u], call[u]} :
              x.version = y.version /\ x.epoch = y.epoch
        BY <2>1 DEF Inherited
      <3>2. PICK y \in {access[u], call[u]} :
              x.version = y.version /\ x.epoch = y.epoch
        BY <3>1
      <3>3. /\ y.epoch \in Nat /\ y.epoch <= account.epoch
            /\ y.version # None /\ y.epoch = account.epoch =>
                 y.version \in Nat /\ y.version <= account.version
        BY <3>2, Numbers DEF NothingAhead
      <3>4. /\ account.epoch \in Nat /\ account.version \in Nat
            /\ account'.epoch = account.epoch => account'.version \in Nat
        BY <1>1, AccountStep, Numbers
      <3>5. QED
        BY <1>1, <3>2, <3>3, <3>4
    <2>2. CASE Blank(x)
      BY <1>1, <2>2, Numbers DEF Blank
    <2>3. CASE Granted(x)
      <3>1. x.epoch <= account.epoch
        BY <2>3 DEF Granted, NothingAhead, NewSessions
      <3>2. QED
        BY <2>3, <3>1, Numbers DEF Granted
    <2>4. QED
      BY <1>3, <2>1, <2>2, <2>3, SourcesStep DEF Sources
  <1>4. QED
    BY <1>2, <1>3 DEF NothingAhead

LEMMA AlwaysNothingAhead == Spec => []NothingAhead
  <1>1. Init => NothingAhead
    BY CallTypes DEF Init, NothingAhead, NoAccess
  <1>2. QED
    BY <1>1, NothingAheadStep, TypeCorrect, PTL DEF Spec

LEMMA CurrentStep ==
  ASSUME TypeOK, NothingAhead, [Next]_vars, Current, account.status # "gone",
         account'.epoch # account.epoch => NewSessions = {}
  PROVE  Current'
  <1>1. \/ /\ account'.epoch = account.epoch
           /\ account'.version \in {account.version, account.version + 1}
        \/ /\ rows' = {} /\ NewSessions = {}
           /\ account'.epoch = account.epoch + 1
           /\ account'.version = account.version + 1
    BY AccountStep, Numbers DEF Exists
  <1>2. ASSUME NEW x \in rows' PROVE x.proved = account'.epoch
    BY <1>1, <1>2, ProvedStep DEF Current
  <1>3. ASSUME NEW tab \in NewSessions' PROVE call'[tab].epoch = account'.epoch
    <2>1. CASE NoneBegins
      BY <1>1, <1>3, <2>1 DEF NoneBegins, Current
    <2>2. ASSUME NEW u \in Tabs, Quietly(u), call'[u].phase = "login"
          PROVE  call'[tab].epoch = account'.epoch
      <3>1. PICK c \in Calls :
              /\ call' = [call EXCEPT ![u] = c] /\ UNCHANGED account
              /\ c.phase = "login" => c.epoch = account.epoch
        BY <2>2 DEF Quietly
      <3>2. CASE tab = u
        BY <2>2, <3>1, <3>2, CallStep
      <3>3. CASE tab # u
        BY <1>3, <3>1, <3>3, CallStep DEF NewSessions, Current
      <3>4. QED
        BY <3>2, <3>3
    <2>3. QED
      BY <2>1, <2>2, NewSessionsStep DEF Exists
  <1>4. ASSUME NEW tab \in Tabs, NEW x \in {access'[tab], call'[tab]},
               x.epoch # account'.epoch, x.version # None
        PROVE  x.version < account'.version
    <2>1. CASE Inherited(x)
      <3>1. PICK u \in Tabs : \E y \in {access[u], call[u]} :
              x.version = y.version /\ x.epoch = y.epoch
        BY <2>1 DEF Inherited
      <3>2. PICK y \in {access[u], call[u]} :
              x.version = y.version /\ x.epoch = y.epoch
        BY <3>1
      <3>3. y.version \in Nat /\ account.version \in Nat
        BY <1>4, <3>2, Numbers
      <3>4. CASE y.epoch = account.epoch
        BY <1>1, <1>4, <3>2, <3>3, <3>4 DEF NothingAhead
      <3>5. CASE y.epoch # account.epoch
        BY <1>1, <1>4, <3>2, <3>3, <3>5 DEF Current, Outdated
      <3>6. QED
        BY <3>4, <3>5
    <2>2. CASE Blank(x)
      BY <1>4, <2>2 DEF Blank
    <2>3. CASE Granted(x)
      BY <1>4, <2>3 DEF Granted, Current
    <2>4. QED
      BY <1>4, <2>1, <2>2, <2>3, SourcesStep DEF Sources
  <1>5. QED
    BY <1>2, <1>3, <1>4 DEF Current, Outdated

\* A change or reset of the password (routes/users.ts, routes/email.ts) signs
\* out everybody for good, unless a sign-in is under way when it is applied.
THEOREM PasswordChangeRevokes == Spec => SessionsStayCurrent
  <1>1. TypeOK /\ NothingAhead /\ [Next]_vars =>
          ( /\ Current /\ account.status # "gone"
            /\ account'.epoch # account.epoch => NewSessions = {}
            => Current' )
    BY CurrentStep
  <1>2. QED
    BY <1>1, TypeCorrect, AlwaysNothingAhead, PTL DEF Spec, SessionsStayCurrent

-----------------------------------------------------------------------------
(* The cookie that the tabs share *)

\* A row is spent by a refresh or a sign-out that presents its token, and that
\* the client has an answer to come for.
Spends(token) ==
  \E tab \in Tabs :
    /\ call[tab].phase \in {"refresh", "logout"} /\ call[tab].token = token
    /\ call'[tab].phase = "answer"

SpentBefore(x) ==
  \E r \in rows : x.token = r.token /\ (r.since # None \/ Spends(r.token))

LEMMA SpendStep ==
  ASSUME TypeOK, [Next]_vars, NEW x \in rows', x.since # None
  PROVE  SpentBefore(x)
  <1>1. ASSUME x \in rows PROVE SpentBefore(x)
    BY <1>1 DEF SpentBefore
  <1>2. ASSUME NEW r \in rows, x \in AfterConsume(r), Spends(r.token)
        PROVE  SpentBefore(x)
    <2>1. x.token = r.token \/ x \in rows
      BY <1>2 DEF AfterConsume, TypeOK, Rows
    <2>2. QED
      BY <1>1, <1>2, <2>1 DEF SpentBefore
  <1>3. ASSUME NEW t, x \in AfterConsumeToken(t), Spends(t)
        PROVE  SpentBefore(x)
    BY <1>1, <1>2, <1>3 DEF AfterConsumeToken
  <1>4. ASSUME NEW tab \in Tabs, Admit(tab) PROVE SpentBefore(x)
    BY <1>1, <1>4 DEF Admit, NewRow
  <1>5. ASSUME NEW tab \in Tabs, RefreshContinue(tab) PROVE SpentBefore(x)
    <2>1. PICK r \in rows, t \in Tokens :
            /\ Continues(r, call[tab].token)
            /\ rows' = AfterConsume(r) \cup {NewRow(t, r.family, r.proved)}
            /\ call' = [call EXCEPT
                 ![tab] = Answer(NewCookie(tab, t), account.version, r.proved)]
      BY <1>5 DEF RefreshContinue
    <2>2. /\ call[tab].phase = "refresh" /\ call'[tab].phase = "answer"
          /\ call[tab].token = r.token
      BY <1>5, <2>1 DEF RefreshContinue, Continues, Answer, TypeOK
    <2>3. x \in AfterConsume(r)
      BY <2>1 DEF NewRow
    <2>4. QED
      BY <1>2, <2>2, <2>3 DEF Spends
  <1>6. ASSUME NEW tab \in Tabs, RefreshRefuse(tab) \/ LogoutServe(tab)
        PROVE  SpentBefore(x)
    <2>1. CASE UNCHANGED rows
      BY <1>1, <2>1
    <2>2. CASE /\ call[tab].phase \in {"refresh", "logout"}
               /\ rows' = AfterConsumeToken(call[tab].token)
               /\ call' = [call EXCEPT ![tab] = Refusal]
      BY <1>3, <2>2, RefusalType DEF Spends, TypeOK
    <2>3. QED
      BY <1>6, <2>1, <2>2 DEF RefreshRefuse, LogoutServe
  <1>7. ASSUME Tick PROVE SpentBefore(x)
    <2>1. PICK r \in rows : x = Older(r)
      BY <1>7 DEF Tick
    <2>2. x.token = r.token /\ r.since # None
      BY <2>1, OlderFields DEF TypeOK
    <2>3. QED
      BY <2>2 DEF SpentBefore
  <1>8. ASSUME NEW tab \in Tabs, PasswordApply(tab) PROVE SpentBefore(x)
    BY <1>1, <1>8 DEF PasswordApply, SetPassword, Drop
  <1>9. ASSUME NEW tab \in Tabs,
               \/ Login(tab) \/ Register(tab) \/ RegisterCreate(tab)
               \/ RefreshSend(tab) \/ LogoutSend(tab) \/ LogoutAll(tab)
               \/ Receive(tab) \/ Lose(tab) \/ ChangeCompare(tab)
               \/ ResetHash(tab) \/ DeleteCompare(tab) \/ DeleteApply(tab)
        PROVE  SpentBefore(x)
    BY <1>1, <1>9
    DEF Login, Register, RegisterCreate, RefreshSend, LogoutSend, LogoutAll,
        Receive, Lose, ChangeCompare, ResetHash, DeleteCompare, DeleteApply,
        Erase, Drop
  <1>10. ASSUME \/ VerifyEmailChange \/ AdminDelete \/ Ban \/ Unban
                \/ PurgeExpired \/ UNCHANGED vars
         PROVE  SpentBefore(x)
    BY <1>1, <1>10
    DEF VerifyEmailChange, AdminDelete, Erase, Ban, Unban, PurgeExpired, vars,
        Drop
  <1>11. QED
    BY <1>4, <1>5, <1>6, <1>7, <1>8, <1>9, <1>10
    DEF Next, LoginCompared, RegisterAnswer

\* The steps of the calls as the cookie sees them: a tab sends the cookie or
\* is answered without one, is issued one, or its response arrives or is lost.
Serves(tab) ==
  /\ call[tab].phase # "answer" /\ UNCHANGED jar
  /\ \E c \in Calls :
       /\ call' = [call EXCEPT ![tab] = c] /\ c.token \in {None, jar}
       /\ c.phase = "answer" => c.token = None

LEMMA CookieSteps ==
  ASSUME TypeOK, [Next]_vars
  PROVE  \/ UNCHANGED <<call, jar>>
         \/ \E tab \in Tabs :
              Serves(tab) \/ Issues(tab) \/ Receive(tab) \/ Lose(tab)
  <1>1. ASSUME NEW tab \in Tabs, Ends(tab, Idle) \/ Ends(tab, Refusal),
               call[tab].phase # "answer", UNCHANGED jar
        PROVE  Serves(tab)
    <2>1. PICK c \in {Idle, Refusal} : Ends(tab, c)
      BY <1>1
    <2>2. QED
      BY <1>1, <2>1, EndTypes DEF Ends, Serves
  <1>2. ASSUME NEW tab \in Tabs, Quietly(tab) PROVE Serves(tab)
    BY <1>2 DEF Quietly, Serves
  <1>3. ASSUME NEW tab \in Tabs, LoginCompared(tab) \/ RegisterAnswer(tab)
        PROVE  Issues(tab) \/ Serves(tab)
    <2>1. CASE Exists
      BY <1>3, <2>1, AdmitIssues DEF LoginCompared, RegisterAnswer
    <2>2. CASE ~Exists
      BY <1>1, <1>3, <2>2
      DEF LoginCompared, RegisterAnswer, Admit, Insertable, Ends
    <2>3. QED
      BY <2>1, <2>2
  <1>4. ASSUME NEW tab \in Tabs,
               \/ RefreshRefuse(tab) \/ LogoutServe(tab) \/ LogoutAll(tab)
               \/ PasswordApply(tab) \/ DeleteApply(tab)
        PROVE  Serves(tab)
    BY <1>1, <1>4
    DEF RefreshRefuse, LogoutServe, LogoutAll, PasswordApply, DeleteApply, Ends
  <1>5. ASSUME NEW tab \in Tabs, RegisterCreate(tab) PROVE Serves(tab)
    <2>1. call[tab].phase # "answer" /\ UNCHANGED jar
      BY <1>5 DEF RegisterCreate
    <2>2. ASSUME account'.epoch \in Epochs,
                 call' = [call EXCEPT
                   ![tab] = Waiting("registered", account'.epoch)]
          PROVE  Serves(tab)
      <3> DEFINE c == Waiting("registered", account'.epoch)
      <3>1. c \in Calls /\ c.phase = "registered" /\ c.token = None
        BY <2>2, CallTypes DEF Phases, Suspended
      <3>2. call' = [call EXCEPT ![tab] = c]
        BY <2>2
      <3> HIDE DEF c
      <3>3. QED
        BY <2>1, <3>1, <3>2 DEF Serves
    <2>3. QED
      BY <1>1, <1>5, <2>1, <2>2, RegisterEffect DEF Ends
  <1>6. ASSUME \/ VerifyEmailChange \/ AdminDelete \/ Ban \/ Unban \/ Tick
               \/ PurgeExpired \/ UNCHANGED vars
        PROVE  UNCHANGED <<call, jar>>
    BY <1>6
    DEF VerifyEmailChange, AdminDelete, Ban, Unban, Tick, PurgeExpired, vars
  <1>7. QED
    BY <1>2, <1>3, <1>4, <1>5, <1>6, QuietSteps, RefreshIssues DEF Next

\* A row goes because it is dropped, or because one came too late.
LEMMA ConsumeKeeps ==
  ASSUME TypeOK, NEW c \in rows, Consumable(c), NEW r \in rows
  PROVE  \E x \in AfterConsume(c) : x.token = r.token
  <1>1. CASE c.since # None \/ r # c
    BY <1>1 DEF AfterConsume
  <1>2. CASE c.since = None /\ r = c
    <2>1. [r EXCEPT !.since = 0].token = r.token
      BY DEF TypeOK, Rows
    <2>2. [r EXCEPT !.since = 0] \in AfterConsume(c)
      BY <1>2 DEF AfterConsume
    <2>3. QED
      BY <2>1, <2>2
  <1>3. QED
    BY <1>1, <1>2

LEMMA RowsGo ==
  ASSUME TypeOK, [Next]_vars, NEW r \in rows
  PROVE  (\E x \in rows' : x.token = r.token) \/ r.token \in ended' \/ late'
  <1> DEFINE Kept == (\E x \in rows' : x.token = r.token) \/ r.token \in ended'
                     \/ late'
  <1>1. ASSUME rows \subseteq rows' PROVE Kept
    BY <1>1
  <1>2. ASSUME NEW R, Drop(R) PROVE Kept
    BY <1>2 DEF Drop
  <1>3. ASSUME NEW tab \in Tabs, LoginCompared(tab) \/ RegisterAnswer(tab)
        PROVE  Kept
    BY <1>1, <1>3 DEF LoginCompared, RegisterAnswer, Admit
  <1>4. ASSUME NEW tab \in Tabs, RefreshContinue(tab) PROVE Kept
    <2>1. PICK c \in rows : Consumable(c) /\ AfterConsume(c) \subseteq rows'
      BY <1>4 DEF RefreshContinue, Continues
    <2>2. QED
      BY <2>1, ConsumeKeeps
  <1>5. ASSUME NEW t, rows' = AfterConsumeToken(t), late' = (late \/ TooLate(t))
        PROVE  Kept
    <2>1. CASE ~\E c \in rows : c.token = t
      BY <1>5, <2>1 DEF AfterConsumeToken
    <2>2. CASE \E c \in rows : c.token = t
      <3>1. PICK c \in rows : c.token = t /\ rows' = AfterConsume(c)
        BY <1>5, <2>2 DEF AfterConsumeToken
      <3>2. CASE Consumable(c)
        BY <3>1, <3>2, ConsumeKeeps
      <3>3. CASE ~Consumable(c)
        BY <1>5, <3>1, <3>3 DEF TooLate
      <3>4. QED
        BY <3>2, <3>3
    <2>3. QED
      BY <2>1, <2>2
  <1>6. ASSUME NEW tab \in Tabs, RefreshRefuse(tab) \/ LogoutServe(tab)
        PROVE  Kept
    BY <1>1, <1>5, <1>6 DEF RefreshRefuse, LogoutServe
  <1>7. ASSUME NEW tab \in Tabs,
               LogoutAll(tab) \/ PasswordApply(tab) \/ DeleteApply(tab)
        PROVE  Kept
    BY <1>1, <1>2, <1>7
    DEF LogoutAll, PasswordApply, SetPassword, DeleteApply, Erase
  <1>8. ASSUME NEW tab \in Tabs,
               \/ Login(tab) \/ Register(tab) \/ RegisterCreate(tab)
               \/ RefreshSend(tab) \/ LogoutSend(tab) \/ Receive(tab)
               \/ Lose(tab) \/ ChangeCompare(tab) \/ ResetHash(tab)
               \/ DeleteCompare(tab)
        PROVE  Kept
    BY <1>1, <1>8
    DEF Login, Register, RegisterCreate, RefreshSend, LogoutSend, Receive, Lose,
        ChangeCompare, ResetHash, DeleteCompare
  <1>9. ASSUME VerifyEmailChange \/ AdminDelete \/ Ban \/ PurgeExpired PROVE Kept
    BY <1>2, <1>9 DEF VerifyEmailChange, AdminDelete, Ban, Erase, PurgeExpired
  <1>10. ASSUME Tick PROVE Kept
    BY <1>10, OlderFields DEF Tick, TypeOK
  <1>11. ASSUME Unban \/ UNCHANGED vars PROVE Kept
    BY <1>1, <1>11 DEF Unban, vars
  <1>12. QED
    BY <1>3, <1>4, <1>6, <1>7, <1>8, <1>9, <1>10, <1>11 DEF Next

\* A cookie that a tab or the jar holds has a row, or had one that was ended.
Known(t) == t \in ended \/ \E r \in rows : r.token = t

LEMMA KnownStep ==
  ASSUME TypeOK, [Next]_vars, ~late', NEW t, Known(t),
         t = jar \/ \E tab \in Tabs : call[tab].token = t
  PROVE  Known(t)'
  <1>1. CASE \E r \in rows : r.token = t
    BY <1>1, RowsGo DEF Known
  <1>2. CASE t \in ended
    BY <1>2, ObserversStep DEF Known, FreshToken
  <1>3. QED
    BY <1>1, <1>2 DEF Known

\* A cookie on its way to a tab is that tab's alone and not spent; and when the
\* cookie in the jar is spent, an answer that replaces it is on its way.
CookieReserved ==
  \A tab \in Tabs :
    call[tab].phase = "answer" /\ call[tab].token # None =>
      /\ jar # call[tab].token
      /\ \A u \in Tabs \ {tab} : call[u].token # call[tab].token
      /\ \A r \in rows : r.token = call[tab].token => r.since = None

CookieReplaced ==
  ~late => \A r \in rows : r.token = jar /\ r.since # None =>
    \E tab \in Tabs : call[tab].phase = "answer"

CookieKnown ==
  ~late =>
    /\ jar # None => Known(jar)
    /\ \A tab \in Tabs :
         call[tab].phase = "answer" /\ call[tab].token # None =>
           Known(call[tab].token)

CookieInv == CookieReserved /\ CookieReplaced /\ CookieKnown

\* The row of a cookie on its way stays unspent.
LEMMA ReservedUnspent ==
  ASSUME TypeOK, [Next]_vars, CookieReserved, NEW tab \in Tabs,
         call[tab].phase = "answer", call[tab].token # None, NEW x \in rows',
         x.token = call[tab].token
  PROVE  x.since = None
  <1> SUFFICES ASSUME x.since # None PROVE FALSE
    OBVIOUS
  <1>1. PICK r \in rows : /\ x.token = r.token
                          /\ r.since # None \/ Spends(r.token)
    BY SpendStep DEF SpentBefore
  <1>2. ASSUME NEW u \in Tabs, call[u].phase \in {"refresh", "logout"}
        PROVE  call[u].token # r.token
    BY <1>1, <1>2 DEF CookieReserved
  <1>3. QED
    BY <1>1, <1>2 DEF CookieReserved, Spends

LEMMA ReservedStep ==
  ASSUME TypeOK, [Next]_vars, CookieReserved PROVE CookieReserved'
  <1> SUFFICES ASSUME NEW tab \in Tabs, call'[tab].phase = "answer",
                      call'[tab].token # None
               PROVE  /\ jar' # call'[tab].token
                      /\ \A u \in Tabs \ {tab} : call'[u].token # call'[tab].token
                      /\ \A r \in rows' : r.token = call'[tab].token =>
                           r.since = None
    BY DEF CookieReserved
  <1>1. CASE UNCHANGED <<call, jar>>
    BY <1>1, ReservedUnspent DEF CookieReserved
  <1>2. ASSUME NEW t \in Tabs, Serves(t) \/ Receive(t) \/ Lose(t)
        PROVE  /\ t # tab /\ call'[tab] = call[tab]
               /\ call'[t].token \in {None, jar}
               /\ \A u \in Tabs \ {t} : call'[u] = call[u]
               /\ jar' = jar \/ jar' = call[t].token
    <2>1. PICK c \in Calls :
            /\ call' = [call EXCEPT ![t] = c] /\ c.token \in {None, jar}
            /\ c.phase = "answer" => c.token = None
            /\ jar' = jar \/ jar' = call[t].token
      BY <1>2, CallTypes DEF Serves, Receive, Lose
    <2>2. QED
      BY <2>1, CallStep
  <1>3. ASSUME NEW t \in Tabs, Serves(t) \/ Receive(t) \/ Lose(t)
        PROVE  /\ jar' # call'[tab].token
               /\ \A u \in Tabs \ {tab} : call'[u].token # call'[tab].token
               /\ \A r \in rows' : r.token = call'[tab].token => r.since = None
    BY <1>2, <1>3, ReservedUnspent DEF CookieReserved
  <1>4. ASSUME NEW t \in Tabs, Issues(t)
        PROVE  /\ jar' # call'[tab].token
               /\ \A u \in Tabs \ {tab} : call'[u].token # call'[tab].token
               /\ \A r \in rows' : r.token = call'[tab].token => r.since = None
    <2>1. PICK K \in SUBSET Rows, new \in Tokens, f \in Families, e \in Epochs :
            /\ Remnant(K) /\ FreshToken(new)
            /\ rows' = K \cup {NewRow(new, f, e)} /\ UNCHANGED jar
            /\ call' = [call EXCEPT ![t] = Answer(new, account.version, e)]
      BY <1>4 DEF Issues
    <2> DEFINE c == Answer(new, account.version, e)
    <2>2. c \in Calls /\ c.token = new
      BY AnswerType DEF TypeOK, Accounts
    <2>3. call' = [call EXCEPT ![t] = c]
      BY <2>1
    <2> HIDE DEF c
    <2>4. call'[t].token = new /\ \A u \in Tabs \ {t} : call'[u] = call[u]
      BY <2>2, <2>3, CallStep
    <2>5. CASE tab = t
      <3>1. \A x \in K : x.token # new
        BY <2>1 DEF Remnant, Descends, FreshToken
      <3>2. NewRow(new, f, e).since = None
        BY DEF NewRow
      <3>3. QED
        BY <2>1, <2>4, <2>5, <3>1, <3>2 DEF FreshToken
    <2>6. CASE tab # t
      BY <2>1, <2>4, <2>6, ReservedUnspent DEF CookieReserved, FreshToken
    <2>7. QED
      BY <2>5, <2>6
  <1>5. QED
    BY <1>1, <1>3, <1>4, CookieSteps

LEMMA ReplacedStep ==
  ASSUME TypeOK, [Next]_vars, CookieInv PROVE CookieReplaced'
  <1> SUFFICES ASSUME ~late', NEW x \in rows', x.token = jar', x.since # None
               PROVE  \E tab \in Tabs : call'[tab].phase = "answer"
    BY DEF CookieReplaced
  <1>1. PICK r \in rows : x.token = r.token /\ (r.since # None \/ Spends(r.token))
    BY SpendStep DEF SpentBefore
  <1>2. CASE Spends(r.token)
    BY <1>2 DEF Spends
  <1>3. CASE r.since # None
    <2>1. ASSUME UNCHANGED jar
          PROVE  \E tab \in Tabs : call[tab].phase = "answer"
      BY <1>1, <1>3, <2>1, ObserversStep DEF CookieInv, CookieReplaced
    <2>2. ASSUME NEW tab \in Tabs, Serves(tab) \/ Issues(tab)
          PROVE  /\ UNCHANGED jar /\ call[tab].phase # "answer"
                 /\ \A u \in Tabs \ {tab} : call'[u] = call[u]
      BY <2>2 DEF Serves, Issues, Begins, Rotates, TypeOK
    <2>3. ASSUME NEW tab \in Tabs, Receive(tab) PROVE FALSE
      <3>1. jar' = call[tab].token /\ call[tab].phase = "answer"
        BY <2>3 DEF Receive
      <3>2. r.token \in Tokens
        BY DEF TypeOK, Rows
      <3>3. QED
        BY <1>1, <1>3, <3>1, <3>2 DEF CookieInv, CookieReserved
    <2>4. ASSUME NEW tab \in Tabs, Lose(tab) PROVE FALSE
      BY <2>4 DEF Lose
    <2>5. QED
      BY <2>1, <2>2, <2>3, <2>4, CookieSteps
  <1>4. QED
    BY <1>1, <1>2, <1>3

LEMMA CookieKnownStep ==
  ASSUME TypeOK, [Next]_vars, CookieKnown PROVE CookieKnown'
  <1> SUFFICES ASSUME ~late' PROVE CookieKnown'
    BY DEF CookieKnown
  <1> USE DEF CookieKnown
  <1>1. ~late
    BY ObserversStep
  <1>2. CASE UNCHANGED <<call, jar>>
    BY <1>1, <1>2, KnownStep
  <1>3. ASSUME NEW tab \in Tabs, Serves(tab) PROVE CookieKnown'
    <2>1. PICK c \in Calls :
            /\ call' = [call EXCEPT ![tab] = c] /\ UNCHANGED jar
            /\ c.phase = "answer" => c.token = None
      BY <1>3 DEF Serves
    <2>2. QED
      BY <1>1, <2>1, CallStep, KnownStep
  <1>4. ASSUME NEW tab \in Tabs, Issues(tab) PROVE CookieKnown'
    <2>1. PICK K \in SUBSET Rows, t \in Tokens, f \in Families, e \in Epochs :
            /\ rows' = K \cup {NewRow(t, f, e)} /\ UNCHANGED jar
            /\ call' = [call EXCEPT ![tab] = Answer(t, account.version, e)]
      BY <1>4 DEF Issues
    <2> DEFINE c == Answer(t, account.version, e)
    <2>2. c \in Calls /\ c.token = t
      BY AnswerType DEF TypeOK, Accounts
    <2>3. call' = [call EXCEPT ![tab] = c]
      BY <2>1
    <2>4. Known(t)'
      <3>1. NewRow(t, f, e) \in rows' /\ NewRow(t, f, e).token = t
        BY <2>1 DEF NewRow
      <3>2. QED
        BY <3>1 DEF Known
    <2> HIDE DEF c
    <2>5. QED
      BY <1>1, <2>1, <2>2, <2>3, <2>4, CallStep, KnownStep
  <1>5. ASSUME NEW tab \in Tabs, Receive(tab) PROVE CookieKnown'
    <2>1. /\ jar' = call[tab].token /\ call[tab].phase = "answer"
          /\ call' = [call EXCEPT ![tab] = Idle]
      BY <1>5 DEF Receive
    <2>2. QED
      BY <1>1, <2>1, CallTypes, CallStep, KnownStep
  <1>6. ASSUME NEW tab \in Tabs, Lose(tab) PROVE FALSE
    BY <1>6 DEF Lose
  <1>7. QED
    BY <1>2, <1>3, <1>4, <1>5, <1>6, CookieSteps

\* Tabs that race each other with one cookie (store/api.ts, tryRefresh and
\* lib/auth.ts, the rotation grace) do not sign each other out: once all have
\* their answers, the cookie in the jar names a session that the next refresh
\* continues or one that was ended, unless a response was lost or a cookie came
\* to the server when its row had expired or its grace window had passed.
THEOREM CookieStaysUsable == Spec => []CookieUnspent
  <1>1. Init => CookieInv
    BY CallTypes DEF Init, CookieInv, CookieReserved, CookieReplaced, CookieKnown
  <1>2. TypeOK /\ CookieInv /\ [Next]_vars => CookieInv'
    BY ReservedStep, ReplacedStep, CookieKnownStep DEF CookieInv
  <1>3. CookieInv => CookieUnspent
    BY DEF CookieInv, CookieReplaced, CookieKnown, Known, CookieUnspent
  <1>4. QED
    BY <1>1, <1>2, <1>3, TypeCorrect, PTL DEF Spec
=============================================================================
