---------------------------- MODULE UserIdentity ----------------------------
(***************************************************************************)
(* The identity use cases of the User Service, at the grain of the         *)
(* database transactions they run in: WeChat login, session verification,  *)
(* logout, and the profile and watchlist operations a session authorizes.  *)
(*                                                                         *)
(* Tables hold committed rows only.  A transaction keeps what it has read  *)
(* in its request record, its writes appear at commit, and the row locks   *)
(* it holds follow from the step it has reached: nothing else is needed    *)
(* because every write is to a row the transaction has locked (SELECT ...  *)
(* FOR UPDATE) or inserted.                                                *)
(*                                                                         *)
(* A request is served once, and its name doubles as the values it         *)
(* generates at random: the token of a login, and the ids of the user and  *)
(* identity rows a first login inserts.  users and wechat_identities rows  *)
(* are created in pairs and never re-linked, so one "account" row stands   *)
(* for the pair.                                                           *)
(***************************************************************************)
EXTENDS Integers, FiniteSets

CONSTANTS
    Requests,    \* calls of the service; bounds how many there are
    OpenIDs,     \* WeChat openids of the configured mini program
    UnionIDs,    \* WeChat unionids
    Stocks,      \* stock ids a watchlist can hold
    AuthorizedOps, \* operations inside a transaction that authorizes a token
    TTL,         \* session lifetime
    MaxClock,    \* bound on the clock
    None         \* an empty column: NULL, or '' in the Go structs

ASSUME ConstantsAssumption ==
    /\ None \notin Requests \cup UnionIDs \cup OpenIDs \cup Stocks
    /\ AuthorizedOps \subseteq {"read", "nickname", "nickname+avatar",
                                "add", "remove"}
    /\ TTL \in Nat \ {0}
    /\ MaxClock \in Nat

VARIABLES
    clock,       \* what now() returns
    accounts,    \* committed users + wechat_identities rows, by id
    sessions,    \* committed user_sessions rows, by token
    req          \* the calls, each with its transaction's local state

vars == <<clock, accounts, sessions, req>>

-----------------------------------------------------------------------------
(* Rows and requests *)

MaxAttempts == 3

Times == 0..MaxClock

Account == [status  : {"absent", "active", "disabled"},
            openid  : OpenIDs \cup {None},
            unionid : UnionIDs \cup {None},
            phone   : Requests \cup {None},     \* the login that supplied it
            nickname: Requests \cup {None},     \* the call that wrote it
            avatar  : Requests \cup {None},
            stocks  : SUBSET Stocks]

NoAccount == [status |-> "absent", openid |-> None, unionid |-> None,
              phone |-> None, nickname |-> None, avatar |-> None,
              stocks |-> {}]

Session == [state     : {"absent", "live", "revoked"},
            account   : Requests \cup {None},
            createdAt : Times,
            expiresAt : Nat,
            revokedAt : Times,
            consent   : BOOLEAN]

NoSession == [state |-> "absent", account |-> None, createdAt |-> 0,
              expiresAt |-> 0, revokedAt |-> 0, consent |-> FALSE]

Answers == {"OK", "UNAUTHENTICATED", "DISABLED", "REJECTED", "PROVIDER",
            "UNAVAILABLE"}

ASSUME NoneAssumption == None \notin Answers

Request == [op      : {"none", "login", "verify", "revoke"} \cup AuthorizedOps,
            pc      : {"idle", "exchange", "find", "create", "save", "commit",
                       "lookup", "judge", "revoke", "authorize", "done"},
            token   : Requests \cup {None},  \* presented; a login's previous one
            openid  : OpenIDs \cup {None},
            unionid : UnionIDs \cup {None},
            phone   : BOOLEAN,               \* a phone code was presented
            consent : BOOLEAN,               \* a valid privacy version was
            stock   : Stocks \cup {None},
            attempt : 1..MaxAttempts,
            account : Requests \cup {None},  \* row locked or inserted
            now     : Times,
            answer  : Answers \cup {None}]

NoRequest == [op |-> "none", pc |-> "idle", token |-> None, openid |-> None,
              unionid |-> None, phone |-> FALSE, consent |-> FALSE,
              stock |-> None, attempt |-> 1, account |-> None, now |-> 0,
              answer |-> None]

\* A watchlist addition in progress has its stock.
StockKnown ==
    \A r \in Requests :
      req[r].op = "add" /\ req[r].pc # "done" => req[r].stock \in Stocks

TypeOK ==
    /\ clock \in Times
    /\ accounts \in [Requests -> Account]
    /\ sessions \in [Requests -> Session]
    /\ req \in [Requests -> Request]
    /\ StockKnown

Init ==
    /\ clock = 0
    /\ accounts = [a \in Requests |-> NoAccount]
    /\ sessions = [t \in Requests |-> NoSession]
    /\ req = [r \in Requests |-> NoRequest]

-----------------------------------------------------------------------------
(* Locks and lookups *)

\* Transactions that hold the row lock of account a: a login from Find on, an
\* authorized operation from LookupSession on, until they commit or roll back.
Holders(a) == {r \in Requests : /\ req[r].pc \in {"save", "commit"}
                                /\ req[r].account = a}

\* Mistake: FOR UPDATE names the user row only.
SessionHolders_Unlocked(t) == {}

\* Transactions that hold the row lock of session t: the one it authorizes,
\* and the login that has marked it revoked.
SessionHolders(t) == {r \in Requests : /\ req[r].pc = "commit"
                                       /\ req[r].token = t
                                       /\ req[r].account = sessions[t].account}

Committed(a) == accounts[a].status # "absent"

\* Rows the unique key (appid, openid) allows one of.
AccountsOf(openid) == {a \in Requests : /\ Committed(a)
                                        /\ accounts[a].openid = openid}

\* Logins that have inserted, and not yet committed, a row with this key.
Inserting(openid) == {r \in Requests : /\ req[r].pc \in {"save", "commit"}
                                       /\ req[r].account = r
                                       /\ req[r].openid = openid}

\* Tokens some client has received: the login answered, and answered OK.
\* None stands for a well-formed token the service never issued.
Presentable == {t \in Requests : /\ req[t].op = "login"
                                 /\ req[t].answer = "OK"} \cup {None}

\* The scan finds a row that is neither revoked nor expired at the clock.
LiveNow(t) == /\ t # None
              /\ sessions[t].state = "live"
              /\ sessions[t].expiresAt > clock

\* Request r goes on as q says.
Proceed(r, q) == req' = [req EXCEPT ![r] = q]

\* The call returns: its locals and its transaction are gone.
Answer(r, a) ==
    Proceed(r, [req[r] EXCEPT !.pc = "done", !.answer = a, !.phone = FALSE,
                              !.consent = FALSE, !.stock = None, !.attempt = 1,
                              !.account = None, !.now = 0])

-----------------------------------------------------------------------------
(* Login *)

\* A phone code without an accepted privacy version is refused before WeChat
\* is called; the previous token, when there is one, is one a client holds.
StartLogin(r) ==
    /\ req[r].pc = "idle"
    /\ \E previous \in Presentable, phone, consent \in BOOLEAN :
         IF phone /\ ~consent
         THEN Answer(r, "REJECTED")
         ELSE Proceed(r, [req[r] EXCEPT !.op = "login", !.pc = "exchange",
                                        !.token = previous,
                                        !.phone = phone, !.consent = consent])
    /\ UNCHANGED <<clock, accounts, sessions>>

\* WeChat answers with the identity of the code's owner, or with an error.
\* The code is spent either way: the exchange is never repeated.
Exchange(r) ==
    /\ req[r].pc = "exchange"
    /\ \/ \E openid \in OpenIDs, unionid \in UnionIDs \cup {None} :
            Proceed(r, [req[r] EXCEPT !.pc = "find", !.openid = openid,
                                      !.unionid = unionid])
       \/ Answer(r, "PROVIDER")
    /\ UNCHANGED <<clock, accounts, sessions>>

\* Mistake: unionids are not compared.
UnionConflict_Ignored(a, unionid) == FALSE

UnionConflict(a, unionid) == /\ accounts[a].unionid # None
                             /\ unionid # None
                             /\ accounts[a].unionid # unionid

\* Mistake: a disabled user may log in.
FindAccount_AnyStatus(r) ==
    /\ req[r].pc = "find"
    /\ \E a \in AccountsOf(req[r].openid) :
         /\ Holders(a) = {}
         /\ IF UnionConflict(a, req[r].unionid)
            THEN Answer(r, "REJECTED")
            ELSE Proceed(r, [req[r] EXCEPT !.pc = "save", !.account = a,
                                           !.now = clock])
    /\ UNCHANGED <<clock, accounts, sessions>>

\* SELECT ... FOR UPDATE OF u,i finds the account: wait for its lock, then
\* decide on the row as it is under the lock.
FindAccount(r) ==
    /\ req[r].pc = "find"
    /\ \E a \in AccountsOf(req[r].openid) :
         /\ Holders(a) = {}
         /\ CASE accounts[a].status # "active" -> Answer(r, "DISABLED")
              [] accounts[a].status = "active" /\ UnionConflict(a, req[r].unionid)
                   -> Answer(r, "REJECTED")
              [] OTHER -> Proceed(r, [req[r] EXCEPT !.pc = "save",
                                                    !.account = a,
                                                    !.now = clock])
    /\ UNCHANGED <<clock, accounts, sessions>>

\* No row to lock: a missing row takes no lock, so another first login of the
\* same openid may be at the same point.
FindNothing(r) ==
    /\ req[r].pc = "find"
    /\ AccountsOf(req[r].openid) = {}
    /\ Proceed(r, [req[r] EXCEPT !.pc = "create", !.now = clock])
    /\ UNCHANGED <<clock, accounts, sessions>>

\* Mistake: the rows are inserted outside the login's transaction.
Create_OwnTransaction(r) ==
    /\ req[r].pc = "create"
    /\ AccountsOf(req[r].openid) = {}
    /\ accounts' = [accounts EXCEPT ![r].status = "active",
                                    ![r].openid = req[r].openid]
    /\ Proceed(r, [req[r] EXCEPT !.pc = "save", !.account = r])
    /\ UNCHANGED <<clock, sessions>>

\* Mistake: a rival insert in flight counts as a conflict at once.
Create_NoWait(r) ==
    /\ req[r].pc = "create"
    /\ CASE AccountsOf(req[r].openid) \cup Inserting(req[r].openid) = {} ->
              Proceed(r, [req[r] EXCEPT !.pc = "save", !.account = r])
         [] AccountsOf(req[r].openid) \cup Inserting(req[r].openid) # {}
            /\ req[r].attempt < MaxAttempts ->
              Proceed(r, [req[r] EXCEPT !.pc = "find", !.attempt = @ + 1])
         [] OTHER -> Answer(r, "UNAVAILABLE")
    /\ UNCHANGED <<clock, accounts, sessions>>

\* INSERT of both rows.  The unique index makes it wait for a rival insert to
\* end, and fails with 23505 if the rival committed: the transaction rolls
\* back and the login starts over, at most MaxAttempts times.
Create(r) ==
    /\ req[r].pc = "create"
    /\ Inserting(req[r].openid) = {}
    /\ CASE AccountsOf(req[r].openid) = {} ->
              Proceed(r, [req[r] EXCEPT !.pc = "save", !.account = r])
         [] AccountsOf(req[r].openid) # {} /\ req[r].attempt < MaxAttempts ->
              Proceed(r, [req[r] EXCEPT !.pc = "find", !.attempt = @ + 1])
         [] OTHER -> Answer(r, "UNAVAILABLE")
    /\ UNCHANGED <<clock, accounts, sessions>>

\* UPDATE of both rows and of the previous session, INSERT of the new one.
\* The account's lock covers the previous session too: nothing to wait for.
Save(r) ==
    /\ req[r].pc = "save"
    /\ Proceed(r, [req[r] EXCEPT !.pc = "commit"])
    /\ UNCHANGED <<clock, accounts, sessions>>

\* The account row as this login leaves it.
LoggedIn(r) ==
    LET old == IF req[r].account = r
               THEN [NoAccount EXCEPT !.status = "active",
                                      !.openid = req[r].openid]
               ELSE accounts[req[r].account]
    IN  [old EXCEPT !.unionid = IF old.unionid = None THEN req[r].unionid ELSE @,
                    !.phone = IF req[r].phone THEN r ELSE @]

\* Mistake: the identity comparison is inverted.
Replaces_OthersOnly(r, t) == /\ req[r].token = t
                             /\ sessions[t].state = "live"
                             /\ sessions[t].account # req[r].account

\* The previous session is revoked only if it belongs to the same identity.
Replaces(r, t) == /\ req[r].token = t
                  /\ sessions[t].state = "live"
                  /\ sessions[t].account = req[r].account

Later(s, t) == IF s >= t THEN s ELSE t

RevokedRow(t, now) == [sessions[t] EXCEPT
                         !.state = "revoked",
                         !.revokedAt = Later(now, sessions[t].createdAt)]

NewSession(r) == [state |-> "live", account |-> req[r].account,
                  createdAt |-> req[r].now, expiresAt |-> req[r].now + TTL,
                  revokedAt |-> 0, consent |-> req[r].consent]

\* The commit may succeed while its acknowledgement, or the answer, is lost.
CommitLogin(r) ==
    /\ req[r].pc = "commit"
    /\ req[r].op = "login"
    /\ accounts' = [accounts EXCEPT ![req[r].account] = LoggedIn(r)]
    /\ sessions' = [t \in Requests |->
                      IF t = r THEN NewSession(r)
                      ELSE IF Replaces(r, t) THEN RevokedRow(t, req[r].now)
                      ELSE sessions[t]]
    /\ \E acknowledged \in BOOLEAN :
         Answer(r, IF acknowledged THEN "OK" ELSE "UNAVAILABLE")
    /\ UNCHANGED clock

-----------------------------------------------------------------------------
(* Verification and logout *)

StartVerify(r) ==
    /\ req[r].pc = "idle"
    /\ \E t \in Presentable :
         Proceed(r, [req[r] EXCEPT !.op = "verify", !.pc = "lookup",
                                   !.token = t])
    /\ UNCHANGED <<clock, accounts, sessions>>

StatusAnswer(a) == IF accounts[a].status = "active" THEN "OK" ELSE "DISABLED"

\* An unlocked read; "account" and "answer" keep what the row said.
Lookup(r) ==
    /\ req[r].pc = "lookup"
    /\ LET t == req[r].token IN
       IF t = None \/ sessions[t].state # "live"
       THEN Answer(r, "UNAUTHENTICATED")
       ELSE Proceed(r, [req[r] EXCEPT
                          !.pc = "judge", !.account = sessions[t].account,
                          !.answer = StatusAnswer(sessions[t].account)])
    /\ UNCHANGED <<clock, accounts, sessions>>

\* The expiry is judged afterwards, against a later clock.
Judge(r) ==
    /\ req[r].pc = "judge"
    /\ Answer(r, IF sessions[req[r].token].expiresAt > clock
                 THEN req[r].answer ELSE "UNAUTHENTICATED")
    /\ UNCHANGED <<clock, accounts, sessions>>

StartRevoke(r) ==
    /\ req[r].pc = "idle"
    /\ \E t \in Presentable :
         Proceed(r, [req[r] EXCEPT !.op = "revoke", !.pc = "revoke",
                                   !.token = t, !.now = clock])
    /\ UNCHANGED <<clock, accounts, sessions>>

\* One UPDATE ... WHERE revoked_at IS NULL: waits for the session's row lock,
\* then re-reads the row.  An unknown token is a success with no effect.
Revoke(r) ==
    /\ req[r].pc = "revoke"
    /\ LET t == req[r].token IN
       IF t = None \/ sessions[t].state # "live"
       THEN UNCHANGED sessions
       ELSE /\ SessionHolders(t) = {}
            /\ sessions' = [sessions EXCEPT ![t] = RevokedRow(t, req[r].now)]
    /\ \E acknowledged \in BOOLEAN :
         Answer(r, IF acknowledged THEN "OK" ELSE "UNAVAILABLE")
    /\ UNCHANGED <<clock, accounts>>

-----------------------------------------------------------------------------
(* Operations a session authorizes: nickname, avatar, watchlist *)

StartAuthorized(r) ==
    /\ req[r].pc = "idle"
    /\ \E t \in Presentable, op \in AuthorizedOps, stock \in Stocks :
         Proceed(r, [req[r] EXCEPT !.op = op, !.pc = "authorize",
                                   !.token = t, !.stock = stock])
    /\ UNCHANGED <<clock, accounts, sessions>>

\* SELECT ... FOR UPDATE OF u,s: wait for the locks, then judge the row.
Authorize(r) ==
    /\ req[r].pc = "authorize"
    /\ LET t == req[r].token
           a == sessions[t].account
       IN  IF t = None
           THEN Answer(r, "UNAUTHENTICATED")
           ELSE /\ Holders(a) = {}
                /\ SessionHolders(t) = {}
                /\ CASE ~LiveNow(t) -> Answer(r, "UNAUTHENTICATED")
                     [] LiveNow(t) /\ accounts[a].status # "active" ->
                          Answer(r, "DISABLED")
                     [] OTHER -> Proceed(r, [req[r] EXCEPT !.pc = "commit",
                                                           !.account = a])
    /\ UNCHANGED <<clock, accounts, sessions>>

\* The account row and its dependent rows as operation r leaves them.
Written(r) ==
    LET old == accounts[req[r].account] IN
    CASE req[r].op = "nickname" -> [old EXCEPT !.nickname = r]
      [] req[r].op = "nickname+avatar" -> [old EXCEPT !.nickname = r,
                                                      !.avatar = r]
      [] req[r].op = "add" -> [old EXCEPT !.stocks = @ \cup {req[r].stock}]
      [] req[r].op = "remove" -> [old EXCEPT !.stocks = @ \ {req[r].stock}]
      [] OTHER -> old

CommitAuthorized(r) ==
    /\ req[r].pc = "commit"
    /\ req[r].op \in AuthorizedOps
    /\ accounts' = [accounts EXCEPT ![req[r].account] = Written(r)]
    /\ \E acknowledged \in BOOLEAN :
         Answer(r, IF acknowledged THEN "OK" ELSE "UNAVAILABLE")
    /\ UNCHANGED <<clock, sessions>>

-----------------------------------------------------------------------------
(* The environment *)

InFlight(r) == req[r].pc \notin {"idle", "done"}

\* A database error, the request deadline or the end of the process: the
\* transaction rolls back, which releases its locks.
Fail(r) ==
    /\ InFlight(r)
    /\ Answer(r, "UNAVAILABLE")
    /\ UNCHANGED <<clock, accounts, sessions>>

\* An operator disables a user: one UPDATE, which waits for the row lock.
Disable(a) ==
    /\ accounts[a].status = "active"
    /\ Holders(a) = {}
    /\ accounts' = [accounts EXCEPT ![a].status = "disabled"]
    /\ UNCHANGED <<clock, sessions, req>>

Tick ==
    /\ clock < MaxClock
    /\ clock' = clock + 1
    /\ UNCHANGED <<accounts, sessions, req>>

-----------------------------------------------------------------------------

Start(r) == StartLogin(r) \/ StartVerify(r) \/ StartRevoke(r)
            \/ StartAuthorized(r)

\* What the service does of its own once a call has started.
Serve(r) == \/ Exchange(r) \/ FindAccount(r) \/ FindNothing(r) \/ Create(r)
            \/ Save(r) \/ CommitLogin(r)
            \/ Lookup(r) \/ Judge(r) \/ Revoke(r)
            \/ Authorize(r) \/ CommitAuthorized(r)

Next == \/ \E r \in Requests : Start(r) \/ Serve(r) \/ Fail(r) \/ Disable(r)
        \/ Tick

Spec == Init /\ [][Next]_vars

\* Every handler goroutine keeps running, and PostgreSQL hands a released row
\* lock to a waiter: a step that stays enabled is taken.
FairSpec == Spec /\ \A r \in Requests : WF_vars(Serve(r))

-----------------------------------------------------------------------------
(* The promise it keeps *)

\* The profile of an openid is its account's row, and a session's owner the
\* openid of its account.
ProfileOf(openid) ==
    LET a == CHOOSE a \in Requests : a \in AccountsOf(openid)
        row == IF AccountsOf(openid) = {} THEN NoAccount ELSE accounts[a]
    IN  [status |-> row.status, unionid |-> row.unionid, phone |-> row.phone,
         nickname |-> row.nickname, avatar |-> row.avatar,
         stocks |-> row.stocks]

OwnedSession(t) ==
    [state |-> sessions[t].state,
     owner |-> IF sessions[t].state = "absent" THEN None
               ELSE accounts[sessions[t].account].openid,
     createdAt |-> sessions[t].createdAt, expiresAt |-> sessions[t].expiresAt,
     revokedAt |-> sessions[t].revokedAt, consent |-> sessions[t].consent]

Registry == INSTANCE SessionRegistry WITH
    Names <- Requests,
    profiles <- [o \in OpenIDs |-> ProfileOf(o)],
    sessions <- [t \in Requests |-> OwnedSession(t)]

-----------------------------------------------------------------------------
(* Properties *)

\* Every transaction takes effect at its commit as one step of the registry,
\* whatever other transactions, logouts and disablements it overlapped.
ImplementsRegistry == Registry!Spec

\* Two racing first logins of one openid never leave two accounts behind.
OneAccountPerOpenID ==
    \A a, b \in Requests :
      Committed(a) /\ Committed(b) /\ accounts[a].openid = accounts[b].openid
        => a = b

\* Creating the account and opening its first session is one commit: there is
\* no account without the session of the login that created it.
AccountBornWithSession ==
    \A a \in Requests : Committed(a) => /\ sessions[a].state # "absent"
                                        /\ sessions[a].account = a

\* First logins that race leave whole accounts, one of each openid: none twice
\* and none that the login that inserted it did not also open a session for.
AccountsAreWhole == OneAccountPerOpenID /\ AccountBornWithSession

\* A session gives access to the account of the openid that WeChat returned to
\* the login that opened it, and that login's unionid did not contradict the
\* account's, whatever conflicts and retries lay between.
SessionMatchesExchange ==
    TypeOK /\ \A t \in Requests : sessions[t].state # "absent" =>
      LET a == sessions[t].account IN
      /\ Committed(a)
      /\ accounts[a].openid = req[t].openid
      /\ req[t].unionid \in {None, accounts[a].unionid}

\* Once a login that named a previous session of the same identity has
\* committed, that session is revoked, also when its logout, a profile write
\* through it, or another login that replaces it ran at the same time.
ReplacedSessionRevoked ==
    \A r, t \in Requests :
      /\ req[r].op = "login"
      /\ req[r].token = t
      /\ sessions[r].state # "absent"
      /\ sessions[t].account = sessions[r].account
      => sessions[t].state = "revoked"

\* One retry is always enough: a login that lost the race to insert finds the
\* winner's committed row, so the third attempt of the loop is never reached.
RetryFindsWinner ==
    \A r \in Requests :
      /\ req[r].attempt < MaxAttempts
      /\ req[r].attempt > 1 /\ req[r].pc # "done" => AccountsOf(req[r].openid) # {}

\* The inductive invariant behind the three properties above.  A call has left
\* no row of its own before it is done; a transaction that holds locks knows
\* what they protect; and a repeated attempt means a committed winner.
RequestInv(r) ==
    /\ req[r].pc # "done" => sessions[r].state = "absent" /\ ~Committed(r)
    /\ req[r].pc \in {"exchange", "find", "create", "save"} => req[r].op = "login"
    /\ req[r].pc = "authorize" => req[r].op # "login"
    /\ req[r].pc \in {"save", "commit"} =>
         \/ /\ req[r].account = r
            /\ req[r].op = "login"
            /\ AccountsOf(req[r].openid) = {}
         \/ /\ req[r].account \in Requests
            /\ Committed(req[r].account)
            /\ req[r].op = "login" =>
                 accounts[req[r].account].openid = req[r].openid
    /\ req[r].attempt > 1 => /\ req[r].attempt < MaxAttempts
                             /\ req[r].pc \in {"find", "save", "commit"}
                             /\ AccountsOf(req[r].openid) # {}

InsertsExclude ==
    \A r, s \in Requests :
      r \in Inserting(req[s].openid) /\ s \in Inserting(req[s].openid) => r = s

AccountsInv ==
    /\ OneAccountPerOpenID
    /\ AccountBornWithSession
    /\ InsertsExclude
    /\ \A t \in Requests : sessions[t].state # "absent" =>
         sessions[t].account \in Requests /\ Committed(sessions[t].account)
    /\ \A r \in Requests : RequestInv(r)

\* A profile or watchlist row changes only while the session that authorized
\* the change is unrevoked and its user active, at the moment of the commit:
\* no logout or disablement slips in between the check and the write.
WritesAreAuthorized ==
    [][\A a \in Requests :
         Committed(a) /\ ( \/ accounts'[a].nickname # accounts[a].nickname
                           \/ accounts'[a].avatar # accounts[a].avatar
                           \/ accounts'[a].stocks # accounts[a].stocks )
         => /\ accounts[a].status = "active"
            /\ \E r \in Requests :
                 /\ req[r].pc = "commit" /\ req'[r].pc = "done"
                 /\ sessions[req[r].token].state = "live"
                 /\ sessions[req[r].token].account = a]_vars

=============================================================================
