------------------------- MODULE UserIdentityProofs -------------------------
(***************************************************************************)
(* Theorems about UserIdentity, for any number of calls, openids and       *)
(* unionids and any clock bound.  First accounts: one for each openid,     *)
(* born with its session.  Then sessions: whom one belongs to, that a      *)
(* replaced one is revoked, that a write is authorized when it commits,    *)
(* and that the service implements SessionRegistry.                        *)
(***************************************************************************)
EXTENDS UserIdentity, TLAPS

(* Type correctness *)

\* One well-formed request record is replaced by another.
LEMMA ProceedType ==
    ASSUME TypeOK, NEW r \in Requests, NEW q \in Request, Proceed(r, q)
    PROVE  /\ req' \in [Requests -> Request]
           /\ req'[r] = q
           /\ \A s \in Requests \ {r} : req'[s] = req[s]
BY DEF TypeOK, Proceed

\* Returning from a call leaves a well-formed request record, which differs
\* from the old one in its progress, its answer and its locals only.
LEMMA AnswerType ==
    ASSUME TypeOK, NEW r \in Requests, NEW a \in Answers \cup {None},
           Answer(r, a)
    PROVE  /\ req' \in [Requests -> Request]
           /\ req'[r].pc = "done"
           /\ req'[r].answer = a
           /\ req'[r].op = req[r].op
           /\ req'[r].token = req[r].token
           /\ req'[r].openid = req[r].openid
           /\ req'[r].unionid = req[r].unionid
           /\ req'[r].attempt = 1
           /\ \A s \in Requests \ {r} : req'[s] = req[s]
<1> DEFINE q == [req[r] EXCEPT !.pc = "done", !.answer = a, !.phone = FALSE,
                     !.consent = FALSE, !.stock = None, !.attempt = 1,
                     !.account = None, !.now = 0]
<1>1. req[r] \in Request
  BY DEF TypeOK
<1>2. 1 \in 1..MaxAttempts /\ 0 \in Times
  BY ConstantsAssumption DEF MaxAttempts, Times
<1>3. q \in Request
  BY <1>1, <1>2 DEF Request
<1>4. /\ q.pc = "done" /\ q.answer = a /\ q.op = req[r].op
      /\ q.token = req[r].token /\ q.openid = req[r].openid
      /\ q.unionid = req[r].unionid /\ q.attempt = 1
  BY <1>1 DEF Request
<1>5. Proceed(r, q)
  BY DEF Answer
<1> HIDE DEF q
<1> QED
  BY <1>3, <1>4, <1>5, ProceedType

\* The row a revocation writes is well formed.
LEMMA RevokedRowType ==
    ASSUME TypeOK, NEW t \in Requests, NEW now \in Times
    PROVE  RevokedRow(t, now) \in Session
<1>1. sessions[t] \in Session
  BY DEF TypeOK
<1>2. Later(now, sessions[t].createdAt) \in Times
  BY <1>1 DEF Session, Later
<1> QED
  BY <1>1, <1>2 DEF RevokedRow, Session

\* The rows a login writes are well formed.
LEMMA LoginRowsType ==
    ASSUME TypeOK, NEW r \in Requests
    PROVE  /\ req[r].account \in Requests => LoggedIn(r) \in Account
           /\ req[r].account = r => /\ LoggedIn(r).status = "active"
                                    /\ LoggedIn(r).openid = req[r].openid
           /\ NewSession(r) \in Session
<1>1. req[r] \in Request
  BY DEF TypeOK
<1>2. req[r].account \in Requests => accounts[req[r].account] \in Account
  BY DEF TypeOK
<1>3. [NoAccount EXCEPT !.status = "active", !.openid = req[r].openid] \in Account
  BY <1>1 DEF NoAccount, Account, Request
<1> DEFINE old == IF req[r].account = r
                  THEN [NoAccount EXCEPT !.status = "active",
                                         !.openid = req[r].openid]
                  ELSE accounts[req[r].account]
           unionid == IF old.unionid = None THEN req[r].unionid ELSE old.unionid
           phone == IF req[r].phone THEN r ELSE old.phone
<1>4. ASSUME req[r].account \in Requests
      PROVE  /\ LoggedIn(r) \in Account
             /\ req[r].account = r => /\ LoggedIn(r).status = "active"
                                      /\ LoggedIn(r).openid = req[r].openid
  <2>1. old \in Account
    BY <1>2, <1>3, <1>4
  <2>2. unionid \in UnionIDs \cup {None} /\ phone \in Requests \cup {None}
    BY <1>1, <2>1 DEF Account, Request
  <2>3. LoggedIn(r) = [old EXCEPT !.unionid = unionid, !.phone = phone]
    BY DEF LoggedIn
  <2>5. req[r].account = r => old.status = "active" /\ old.openid = req[r].openid
    BY DEF NoAccount
  <2> HIDE DEF old, unionid, phone
  <2>4. LoggedIn(r) = [status |-> old.status, openid |-> old.openid,
                       unionid |-> unionid, phone |-> phone,
                       nickname |-> old.nickname, avatar |-> old.avatar,
                       stocks |-> old.stocks]
    BY <2>1, <2>3 DEF Account
  <2> QED
    BY <2>1, <2>2, <2>4, <2>5 DEF Account
<1>5. req[r].now + TTL \in Nat
  BY <1>1, ConstantsAssumption DEF Request, Times
<1>6. NewSession(r) \in Session
  BY <1>1, <1>5, ConstantsAssumption, SMTT(40) DEF NewSession, Session, Request, Times
<1> QED
  BY <1>4, <1>6

\* The row an authorized operation leaves is well formed.
LEMMA WrittenType ==
    ASSUME TypeOK, NEW r \in Requests, req[r].account \in Requests,
           req[r].pc = "commit"
    PROVE  Written(r) \in Account
<1> DEFINE old == accounts[req[r].account]
<1>1. /\ old \in Account
      /\ req[r].op = "add" => old.stocks \cup {req[r].stock} \in SUBSET Stocks
  BY DEF TypeOK, StockKnown, Account
<1> QED
  BY <1>1 DEF Written, Account

\* Every step of the service keeps the request records well formed.
LEMMA ServeRequestType ==
    ASSUME TypeOK, NEW r \in Requests, Serve(r)
    PROVE  /\ req' \in [Requests -> Request]
           /\ req'[r].op = req[r].op
           /\ req'[r].pc # "done" => req'[r].stock = req[r].stock
           /\ \A s \in Requests \ {r} : req'[s] = req[s]
<1> DEFINE Kept == /\ req' \in [Requests -> Request]
                   /\ req'[r].op = req[r].op
                   /\ req'[r].pc # "done" => req'[r].stock = req[r].stock
                   /\ \A s \in Requests \ {r} : req'[s] = req[s]
<1> SUFFICES Kept
  OBVIOUS
<1>1. req[r] \in Request /\ clock \in Times
  BY DEF TypeOK
<1>2. /\ \A a \in Answers \cup {None} : Answer(r, a) => Kept
      /\ Answers = {"OK", "UNAVAILABLE", "UNAUTHENTICATED", "DISABLED",
                    "REJECTED", "PROVIDER"}
  BY AnswerType DEF Answers
<1> DEFINE Sound(q) == q \in Request /\ q.op = req[r].op /\ q.stock = req[r].stock
<1>proceed. ASSUME NEW q, Sound(q), Proceed(r, q)
      PROVE  Kept
  BY <1>proceed, ProceedType
<1> HIDE DEF Kept
<1>3. CASE Exchange(r)
  <2>1. CASE \E openid \in OpenIDs, unionid \in UnionIDs \cup {None} :
               Proceed(r, [req[r] EXCEPT !.pc = "find", !.openid = openid,
                                  !.unionid = unionid])
    <3>1. PICK openid \in OpenIDs, unionid \in UnionIDs \cup {None} :
               Proceed(r, [req[r] EXCEPT !.pc = "find", !.openid = openid,
                                  !.unionid = unionid])
      BY <2>1
    <3>2. Sound([req[r] EXCEPT !.pc = "find", !.openid = openid,
                         !.unionid = unionid])
      BY <1>1, ZenonT(60) DEF Request
    <3> QED
      BY <3>1, <3>2, <1>proceed
  <2> QED
    BY <1>2, <1>3, <2>1 DEF Exchange
<1>4. CASE FindAccount(r)
  <2>1. PICK a \in Requests :
          \/ Answer(r, "DISABLED")
          \/ Answer(r, "REJECTED")
          \/ Proceed(r, [req[r] EXCEPT !.pc = "save", !.account = a,
                                !.now = clock])
    BY <1>4 DEF FindAccount, AccountsOf
  <2>2. Sound([req[r] EXCEPT !.pc = "save", !.account = a, !.now = clock])
    BY <1>1 DEF Request
  <2> QED
    BY <1>2, <2>1, <2>2, <1>proceed
<1>5. CASE FindNothing(r)
  <2>1. Sound([req[r] EXCEPT !.pc = "create", !.now = clock])
    BY <1>1 DEF Request
  <2>2. Proceed(r, [req[r] EXCEPT !.pc = "create", !.now = clock])
    BY <1>5 DEF FindNothing
  <2> QED
    BY <2>1, <2>2, <1>proceed
<1>6. CASE Create(r)
  <2>1. \/ Proceed(r, [req[r] EXCEPT !.pc = "save", !.account = r])
        \/ /\ req[r].attempt < MaxAttempts
           /\ Proceed(r, [req[r] EXCEPT !.pc = "find", !.attempt = @ + 1])
        \/ Answer(r, "UNAVAILABLE")
    BY <1>6 DEF Create
  <2>2. Sound([req[r] EXCEPT !.pc = "save", !.account = r])
    BY <1>1 DEF Request
  <2>3. req[r].attempt < MaxAttempts =>
          Sound([req[r] EXCEPT !.pc = "find", !.attempt = @ + 1])
    <3>1. req[r].attempt < MaxAttempts => req[r].attempt + 1 \in 1..MaxAttempts
      BY <1>1 DEF Request, MaxAttempts
    <3> QED
      BY <1>1, <3>1 DEF Request
  <2> QED
    BY <1>2, <2>1, <2>2, <2>3, <1>proceed
<1>7. CASE Save(r)
  <2>1. Sound([req[r] EXCEPT !.pc = "commit"])
    BY <1>1 DEF Request
  <2> QED
    BY <1>7, <2>1, <1>proceed DEF Save
<1>8. CASE CommitLogin(r)
  BY <1>2, <1>8 DEF CommitLogin
<1>9. CASE Lookup(r)
  <2>1. CASE req[r].token = None \/ sessions[req[r].token].state # "live"
    BY <1>2, <1>9, <2>1 DEF Lookup
  <2>2. CASE ~(req[r].token = None \/ sessions[req[r].token].state # "live")
    <3> DEFINE seen == sessions[req[r].token].account
    <3>1. seen \in Requests \cup {None} /\ StatusAnswer(seen) \in Answers
      BY <1>1, <2>2 DEF TypeOK, Request, Session, Answers, StatusAnswer
    <3>2. Proceed(r, [req[r] EXCEPT !.pc = "judge", !.account = seen,
                                    !.answer = StatusAnswer(seen)])
      BY <1>9, <2>2 DEF Lookup
    <3> HIDE DEF seen
    <3>3. Sound([req[r] EXCEPT !.pc = "judge", !.account = seen,
                         !.answer = StatusAnswer(seen)])
      BY <1>1, <3>1, ZenonT(60) DEF Request
    <3> QED
      BY <3>2, <3>3, <1>proceed
  <2> QED
    BY <2>1, <2>2
<1>10. CASE Judge(r)
  <2>1. /\ req[r].answer \in Answers \cup {None}
        /\ "UNAUTHENTICATED" \in Answers
    BY <1>1 DEF Request, Answers
  <2> QED
    BY <1>2, <1>10, <2>1 DEF Judge
<1>11. CASE Revoke(r)
  BY <1>2, <1>11 DEF Revoke
<1>12. CASE Authorize(r)
  <2> DEFINE a == sessions[req[r].token].account
  <2>1. \/ Answer(r, "UNAUTHENTICATED")
        \/ Answer(r, "DISABLED")
        \/ /\ req[r].token # None
           /\ Proceed(r, [req[r] EXCEPT !.pc = "commit", !.account = a])
    BY <1>12 DEF Authorize
  <2>2. req[r].token # None => a \in Requests \cup {None}
    BY <1>1 DEF TypeOK, Request, Session
  <2> HIDE DEF a
  <2>3. req[r].token # None =>
          Sound([req[r] EXCEPT !.pc = "commit", !.account = a])
    BY <1>1, <2>2 DEF Request
  <2> QED
    BY <1>2, <2>1, <2>3, <1>proceed
<1>13. CASE CommitAuthorized(r)
  BY <1>2, <1>13 DEF CommitAuthorized
<1> QED
  BY <1>3, <1>4, <1>5, <1>6, <1>7, <1>8, <1>9, <1>10, <1>11, <1>12, <1>13
     DEF Serve

\* So does starting a call.
LEMMA StartRequestType ==
    ASSUME TypeOK, NEW r \in Requests, Start(r)
    PROVE  /\ req' \in [Requests -> Request]
           /\ StockKnown'
<1>1. req[r] \in Request /\ clock \in Times
  BY DEF TypeOK
<1> DEFINE Kept == /\ req' \in [Requests -> Request]
                   /\ StockKnown'
           Sound(q) == /\ q \in Request
                       /\ \/ q.op # "add"
                          \/ q.stock \in Stocks
<1> SUFFICES Kept
  OBVIOUS
<1>proceed. ASSUME NEW q, Sound(q), Proceed(r, q)
            PROVE  Kept
  BY <1>proceed, ProceedType DEF TypeOK, StockKnown
<1>refused. ASSUME Answer(r, "REJECTED")
            PROVE  Kept
  BY <1>refused, AnswerType DEF TypeOK, StockKnown, Answers
<1> HIDE DEF Kept, Sound
<1>2. Presentable \subseteq Requests \cup {None}
  BY DEF Presentable
<1>3. CASE StartLogin(r)
  <2>1. PICK previous \in Presentable, phone \in BOOLEAN, consent \in BOOLEAN :
          \/ Answer(r, "REJECTED")
          \/ Proceed(r, [req[r] EXCEPT !.op = "login", !.pc = "exchange",
                                       !.token = previous, !.phone = phone,
                                       !.consent = consent])
    BY <1>3 DEF StartLogin
  <2>2. previous \in Requests \cup {None}
    BY <1>2
  <2> DEFINE q == [req[r] EXCEPT !.op = "login", !.pc = "exchange",
                                 !.token = previous, !.phone = phone,
                                 !.consent = consent]
  <2>3. q \in Request /\ q.op = "login"
    <3> DEFINE started == [req[r] EXCEPT !.op = "login", !.pc = "exchange",
                                         !.token = previous]
               phoned == [started EXCEPT !.phone = phone]
               consented == [phoned EXCEPT !.consent = consent]
    <3>1. started \in Request /\ started.op = "login"
      BY <1>1, <2>2 DEF Request
    <3> HIDE DEF started
    <3>2. phoned \in Request /\ phoned.op = "login"
      BY <3>1 DEF Request
    <3> HIDE DEF phoned
    <3>3. consented \in Request /\ consented.op = "login"
      BY <3>2 DEF Request
    <3>4. q = consented
      BY DEF started, phoned
    <3> QED
      BY <3>3, <3>4
  <2>4. Sound(q)
    BY <2>3 DEF Sound
  <2> HIDE DEF q
  <2>5. Answer(r, "REJECTED") \/ Proceed(r, q)
    BY <2>1 DEF q
  <2> QED
    BY <2>4, <2>5, <1>proceed, <1>refused
<1>4. CASE StartVerify(r)
  <2>1. PICK t \in Presentable :
          Proceed(r, [req[r] EXCEPT !.op = "verify", !.pc = "lookup",
                                    !.token = t])
    BY <1>4 DEF StartVerify
  <2>2. t \in Requests \cup {None}
    BY <1>2
  <2> DEFINE q == [req[r] EXCEPT !.op = "verify", !.pc = "lookup", !.token = t]
  <2>3. q \in Request /\ q.op = "verify" /\ q.stock = req[r].stock
    BY <1>1, <2>2 DEF Request
  <2>4. Sound(q)
    BY <2>3 DEF Sound
  <2> HIDE DEF q
  <2>5. Proceed(r, q)
    BY <2>1 DEF q
  <2> QED
    BY <2>4, <2>5, <1>proceed
<1>5. CASE StartRevoke(r)
  <2>1. PICK t \in Presentable :
          Proceed(r, [req[r] EXCEPT !.op = "revoke", !.pc = "revoke",
                                    !.token = t, !.now = clock])
    BY <1>5 DEF StartRevoke
  <2>2. t \in Requests \cup {None}
    BY <1>2
  <2> DEFINE q == [req[r] EXCEPT !.op = "revoke", !.pc = "revoke", !.token = t,
                       !.now = clock]
  <2>3. q \in Request /\ q.op = "revoke" /\ q.stock = req[r].stock
    BY <1>1, <2>2 DEF Request
  <2>4. Sound(q)
    BY <2>3 DEF Sound
  <2> HIDE DEF q
  <2>5. Proceed(r, q)
    BY <2>1 DEF q
  <2> QED
    BY <2>4, <2>5, <1>proceed
<1>6. CASE StartAuthorized(r)
  <2>1. PICK t \in Presentable, op \in AuthorizedOps, stock \in Stocks :
          Proceed(r, [req[r] EXCEPT !.op = op, !.pc = "authorize",
                                    !.token = t, !.stock = stock])
    BY <1>6 DEF StartAuthorized
  <2>2. t \in Requests \cup {None}
    BY <1>2
  <2> DEFINE q == [req[r] EXCEPT !.op = op, !.pc = "authorize", !.token = t,
                       !.stock = stock]
  <2>3. q \in Request /\ q.op = op /\ q.stock = stock
    BY <1>1, <2>2, ZenonT(60) DEF Request
  <2>4. Sound(q)
    BY <2>3 DEF Sound
  <2> HIDE DEF q
  <2>5. Proceed(r, q)
    BY <2>1 DEF q
  <2> QED
    BY <2>4, <2>5, <1>proceed
<1> QED
  BY <1>3, <1>4, <1>5, <1>6 DEF Start

\* Every step keeps the type invariant.
LEMMA TypeStep == TypeOK /\ [Next]_vars => TypeOK'
<1> SUFFICES ASSUME TypeOK, [Next]_vars
             PROVE  TypeOK'
  OBVIOUS
<1>1. ASSUME NEW r \in Requests, Start(r)
      PROVE  TypeOK'
  <2>1. UNCHANGED <<clock, accounts, sessions>>
    BY <1>1 DEF Start, StartLogin, StartVerify, StartRevoke, StartAuthorized
  <2> QED
    BY <1>1, <2>1, StartRequestType DEF TypeOK
<1>2. ASSUME NEW r \in Requests, Serve(r)
      PROVE  TypeOK'
  <2>1. req' \in [Requests -> Request] /\ StockKnown'
    <3>1. req[r].pc # "done"
      BY <1>2 DEF Serve, Exchange, FindAccount, FindNothing, Create, Save,
                  CommitLogin, Lookup, Judge, Revoke, Authorize,
                  CommitAuthorized
    <3> QED
      BY <1>2, <3>1, ServeRequestType, SMTT(40) DEF TypeOK, StockKnown
  <2>2. req[r].account \in Requests \cup {None} /\ req[r].now \in Times
    BY DEF TypeOK, Request
  <2>3. CASE CommitLogin(r)
    <3>1. accounts' \in [Requests -> Account]
      BY <2>3, LoginRowsType DEF CommitLogin, TypeOK
    <3>2. sessions' \in [Requests -> Session]
      BY <2>2, <2>3, LoginRowsType, RevokedRowType DEF CommitLogin, TypeOK
    <3> QED
      BY <2>1, <2>3, <3>1, <3>2 DEF CommitLogin, TypeOK
  <2>4. CASE Revoke(r)
    <3>1. req[r].token \in Requests \cup {None}
      BY DEF TypeOK, Request
    <3>2. sessions' \in [Requests -> Session]
      BY <2>2, <2>4, <3>1, RevokedRowType DEF Revoke, TypeOK
    <3> QED
      BY <2>1, <2>4, <3>2 DEF Revoke, TypeOK
  <2>5. CASE CommitAuthorized(r)
    <3>1. req[r].account \in Requests => Written(r) \in Account
      BY <2>5, WrittenType DEF CommitAuthorized
    <3>2. accounts' \in [Requests -> Account]
      BY <2>5, <3>1 DEF CommitAuthorized, TypeOK
    <3> QED
      BY <2>1, <2>5, <3>2 DEF CommitAuthorized, TypeOK
  <2>6. CASE UNCHANGED <<clock, accounts, sessions>>
    BY <2>1, <2>6 DEF TypeOK
  <2> QED
    BY <1>2, <2>3, <2>4, <2>5, <2>6
       DEF Serve, Exchange, FindAccount, FindNothing, Create, Save, Lookup,
           Judge, Authorize
<1>3. ASSUME NEW r \in Requests, Fail(r)
      PROVE  TypeOK'
  <2>1. "UNAVAILABLE" \in Answers
    BY DEF Answers
  <2> QED
    BY <1>3, <2>1, AnswerType DEF Fail, TypeOK, StockKnown
<1>4. ASSUME NEW a \in Requests, Disable(a)
      PROVE  TypeOK'
  <2>1. [accounts[a] EXCEPT !.status = "disabled"] \in Account
    BY DEF TypeOK, Account
  <2>2. accounts' \in [Requests -> Account]
    BY <1>4, <2>1 DEF Disable, TypeOK
  <2> QED
    BY <1>4, <2>2 DEF Disable, TypeOK, StockKnown
<1>5. CASE Tick
  BY <1>5, ConstantsAssumption DEF Tick, TypeOK, StockKnown, Times
<1>6. CASE UNCHANGED vars
  BY <1>6 DEF TypeOK, StockKnown, vars
<1> QED
  BY <1>1, <1>2, <1>3, <1>4, <1>5, <1>6 DEF Next

\* The initial tables are empty and no call has started.
LEMMA TypeInit == Init => TypeOK
<1> SUFFICES ASSUME Init PROVE TypeOK
  OBVIOUS
<1>1. NoAccount \in Account
  BY DEF NoAccount, Account
<1>2. NoSession \in Session
  BY ConstantsAssumption DEF NoSession, Session, Times
<1>3. NoRequest \in Request
  BY ConstantsAssumption DEF NoRequest, Request, Times, MaxAttempts
<1>4. StockKnown
  BY DEF Init, NoRequest, StockKnown
<1> QED
  BY <1>1, <1>2, <1>3, <1>4, ConstantsAssumption DEF Init, TypeOK, Times

\* The tables and the requests are well formed in every reachable state.
THEOREM TypeCorrect == Spec => []TypeOK
<1> QED
  BY TypeInit, TypeStep, PTL DEF Spec

-----------------------------------------------------------------------------
(* One account per openid, born with its first session, found by a retry *)

\* A request goes on: its record is the new one, the others are as before.
LEMMA ProceedRecord ==
    ASSUME TypeOK, NEW r \in Requests, NEW q, Proceed(r, q)
    PROVE  /\ req'[r] = q
           /\ \A s \in Requests \ {r} : req'[s] = req[s]
BY DEF TypeOK, Proceed

\* A step that touches no table keeps the invariant if the request that takes
\* it does, and if that request does not enter an insert another one is in.
LEMMA QuietStep ==
    ASSUME AccountsInv, NEW r \in Requests, UNCHANGED <<accounts, sessions>>,
           \A s \in Requests \ {r} : req'[s] = req[s],
           RequestInv(r)',
           \A s \in Requests \ {r} :
             ~ /\ req'[r].pc \in {"save", "commit"} /\ req'[r].account = r
               /\ req[s].pc \in {"save", "commit"} /\ req[s].account = s
               /\ req[s].openid = req'[r].openid
    PROVE  AccountsInv'
<1>1. OneAccountPerOpenID' /\ AccountBornWithSession'
  BY DEF AccountsInv, OneAccountPerOpenID, AccountBornWithSession, Committed
<1>2. InsertsExclude'
  BY DEF AccountsInv, InsertsExclude, Inserting
<1>3. \A s \in Requests : RequestInv(s)'
  BY DEF AccountsInv, RequestInv, AccountsOf, Committed
<1>4. \A t \in Requests : sessions'[t].state # "absent" =>
        sessions'[t].account \in Requests /\ Committed(sessions[t].account)'
  BY DEF AccountsInv, Committed
<1> QED
  BY <1>1, <1>2, <1>3, <1>4 DEF AccountsInv

\* An answer without effect keeps it.
LEMMA AnswerStep ==
    ASSUME TypeOK, AccountsInv, NEW r \in Requests,
           NEW a \in Answers \cup {None}, Answer(r, a),
           UNCHANGED <<accounts, sessions>>
    PROVE  AccountsInv'
<1>1. /\ req'[r].pc = "done" /\ req'[r].attempt = 1
      /\ \A s \in Requests \ {r} : req'[s] = req[s]
  BY AnswerType
<1>2. RequestInv(r)'
  BY <1>1 DEF RequestInv
<1> QED
  BY <1>1, <1>2, QuietStep

\* Starting a call keeps it.
LEMMA StartStep ==
    ASSUME TypeOK, AccountsInv, NEW r \in Requests, Start(r)
    PROVE  AccountsInv'
<1>1. /\ req[r].pc = "idle" /\ UNCHANGED <<accounts, sessions>>
      /\ req[r] \in Request /\ RequestInv(r)
  BY DEF Start, StartLogin, StartVerify, StartRevoke, StartAuthorized, TypeOK,
         AccountsInv
<1>2. req[r].attempt = 1
  BY <1>1 DEF RequestInv, Request
<1>3. ASSUME NEW q, Proceed(r, q), q.attempt = 1,
             \/ q.pc = "exchange" /\ q.op = "login"
             \/ q.pc \in {"lookup", "revoke"}
             \/ q.pc = "authorize" /\ q.op # "login"
      PROVE  AccountsInv'
  <2>1. req'[r] = q /\ \A s \in Requests \ {r} : req'[s] = req[s]
    BY <1>3, ProceedRecord
  <2>2. RequestInv(r)'
    BY <1>1, <1>3, <2>1 DEF RequestInv, Committed
  <2> QED
    BY <1>1, <1>3, <2>1, <2>2, QuietStep
<1>4. CASE StartLogin(r)
  <2>1. PICK previous \in Presentable, phone \in BOOLEAN, consent \in BOOLEAN :
          \/ Answer(r, "REJECTED")
          \/ Proceed(r, [req[r] EXCEPT !.op = "login", !.pc = "exchange",
                                       !.token = previous, !.phone = phone,
                                       !.consent = consent])
    BY <1>4 DEF StartLogin
  <2> DEFINE q == [req[r] EXCEPT !.op = "login", !.pc = "exchange",
                                 !.token = previous, !.phone = phone,
                                 !.consent = consent]
  <2>2. q.attempt = 1 /\ q.pc = "exchange" /\ q.op = "login"
    BY <1>1, <1>2 DEF Request
  <2>3. "REJECTED" \in Answers
    BY DEF Answers
  <2> HIDE DEF q
  <2>4. Answer(r, "REJECTED") \/ Proceed(r, q)
    BY <2>1 DEF q
  <2> QED
    BY <1>1, <1>3, <2>2, <2>3, <2>4, AnswerStep
<1>5. CASE StartVerify(r)
  <2>1. PICK t \in Presentable :
          Proceed(r, [req[r] EXCEPT !.op = "verify", !.pc = "lookup",
                                    !.token = t])
    BY <1>5 DEF StartVerify
  <2> DEFINE q == [req[r] EXCEPT !.op = "verify", !.pc = "lookup", !.token = t]
  <2>2. q.attempt = 1 /\ q.pc = "lookup"
    BY <1>1, <1>2 DEF Request
  <2> HIDE DEF q
  <2>3. Proceed(r, q)
    BY <2>1 DEF q
  <2> QED
    BY <1>3, <2>2, <2>3
<1>6. CASE StartRevoke(r)
  <2>1. PICK t \in Presentable :
          Proceed(r, [req[r] EXCEPT !.op = "revoke", !.pc = "revoke",
                                    !.token = t, !.now = clock])
    BY <1>6 DEF StartRevoke
  <2> DEFINE q == [req[r] EXCEPT !.op = "revoke", !.pc = "revoke", !.token = t,
                                 !.now = clock]
  <2>2. q.attempt = 1 /\ q.pc = "revoke"
    BY <1>1, <1>2 DEF Request
  <2> HIDE DEF q
  <2>3. Proceed(r, q)
    BY <2>1 DEF q
  <2> QED
    BY <1>3, <2>2, <2>3
<1>7. CASE StartAuthorized(r)
  <2>1. PICK t \in Presentable, op \in AuthorizedOps, stock \in Stocks :
          Proceed(r, [req[r] EXCEPT !.op = op, !.pc = "authorize",
                                    !.token = t, !.stock = stock])
    BY <1>7 DEF StartAuthorized
  <2> DEFINE q == [req[r] EXCEPT !.op = op, !.pc = "authorize", !.token = t,
                                 !.stock = stock]
  <2>2. q.attempt = 1 /\ q.pc = "authorize" /\ q.op = op
    BY <1>1, <1>2 DEF Request
  <2>4. op # "login"
    BY ConstantsAssumption
  <2> HIDE DEF q
  <2>3. Proceed(r, q)
    BY <2>1 DEF q
  <2> QED
    BY <1>3, <2>2, <2>3, <2>4
<1> QED
  BY <1>4, <1>5, <1>6, <1>7 DEF Start

\* The steps of a login before its commit keep it.
LEMMA LoginStep ==
    ASSUME TypeOK, AccountsInv, NEW r \in Requests,
           Exchange(r) \/ FindAccount(r) \/ FindNothing(r) \/ Create(r) \/ Save(r)
    PROVE  AccountsInv'
<1>1. /\ UNCHANGED <<accounts, sessions>>
      /\ req[r].pc \in {"exchange", "find", "create", "save"}
      /\ req[r] \in Request /\ RequestInv(r)
  BY DEF Exchange, FindAccount, FindNothing, Create, Save, TypeOK, AccountsInv
<1>2. \A a \in {"PROVIDER", "DISABLED", "REJECTED", "UNAVAILABLE"} :
        Answer(r, a) => AccountsInv'
  BY <1>1, AnswerStep DEF Answers
\* What is left to show of a step to record q.
<1>3. ASSUME NEW q, Proceed(r, q), q.op = req[r].op,
             (RequestInv(r))',
             \/ q.pc \notin {"save", "commit"}
             \/ q.account # r
             \/ req[r].pc \in {"save", "commit"} /\ req[r].account = r
                /\ req[r].openid = q.openid
             \/ Inserting(q.openid) = {}
      PROVE  AccountsInv'
  <2>1. req'[r] = q /\ \A s \in Requests \ {r} : req'[s] = req[s]
    BY <1>3, ProceedRecord
  <2>2. \A s \in Requests \ {r} :
             ~ /\ req'[r].pc \in {"save", "commit"} /\ req'[r].account = r
               /\ req[s].pc \in {"save", "commit"} /\ req[s].account = s
               /\ req[s].openid = req'[r].openid
    BY <1>3, <2>1 DEF AccountsInv, InsertsExclude, Inserting
  <2> QED
    BY <1>1, <1>3, <2>1, <2>2, QuietStep
<1>4. CASE Exchange(r)
  <2>1. CASE \E openid \in OpenIDs, unionid \in UnionIDs \cup {None} :
               Proceed(r, [req[r] EXCEPT !.pc = "find", !.openid = openid,
                                         !.unionid = unionid])
    <3>1. PICK openid \in OpenIDs, unionid \in UnionIDs \cup {None} :
               Proceed(r, [req[r] EXCEPT !.pc = "find", !.openid = openid,
                                         !.unionid = unionid])
      BY <2>1
    <3> DEFINE q == [req[r] EXCEPT !.pc = "find", !.openid = openid,
                                   !.unionid = unionid]
    <3>2. q.op = req[r].op /\ q.pc = "find" /\ q.attempt = req[r].attempt
      BY <1>1 DEF Request
    <3>3. Proceed(r, q)
      BY <3>1
    <3> HIDE DEF q
    <3>4. req'[r] = q
      BY <3>3, ProceedRecord
    <3>5. RequestInv(r)'
      BY <1>1, <1>4, <3>2, <3>4 DEF RequestInv, Committed, Exchange
    <3> QED
      BY <1>3, <3>2, <3>3, <3>5
  <2> QED
    BY <1>2, <1>4, <2>1 DEF Exchange
<1>5. CASE FindAccount(r)
  <2>1. PICK a \in AccountsOf(req[r].openid) :
          \/ Answer(r, "DISABLED")
          \/ Answer(r, "REJECTED")
          \/ Proceed(r, [req[r] EXCEPT !.pc = "save", !.account = a,
                                       !.now = clock])
    BY <1>5 DEF FindAccount
  <2> DEFINE q == [req[r] EXCEPT !.pc = "save", !.account = a, !.now = clock]
  <2>2. q.op = req[r].op /\ q.pc = "save" /\ q.attempt = req[r].attempt
        /\ q.account = a /\ q.openid = req[r].openid
    BY <1>1 DEF Request
  <2>3. /\ a \in Requests /\ Committed(a) /\ accounts[a].openid = req[r].openid
        /\ a # r
    BY <1>1, <1>5 DEF AccountsOf, RequestInv, FindAccount
  <2> HIDE DEF q
  <2>4. CASE Proceed(r, q)
    <3>1. req'[r] = q
      BY <2>4, ProceedRecord, SMTT(40)
    <3>2. RequestInv(r)'
      BY <1>1, <1>5, <2>2, <2>3, <3>1
         DEF RequestInv, Committed, AccountsOf, FindAccount
    <3> QED
      BY <1>3, <2>2, <2>3, <2>4, <3>2
  <2> QED
    BY <1>2, <2>1, <2>4 DEF q
<1>6. CASE FindNothing(r)
  <2> DEFINE q == [req[r] EXCEPT !.pc = "create", !.now = clock]
  <2>1. q.op = req[r].op /\ q.pc = "create" /\ q.attempt = req[r].attempt
    BY <1>1 DEF Request
  <2>2. req[r].attempt = 1
    BY <1>1, <1>6 DEF FindNothing, RequestInv, Request
  <2>3. Proceed(r, q)
    BY <1>6 DEF FindNothing
  <2> HIDE DEF q
  <2>4. req'[r] = q
    BY <2>3, ProceedRecord
  <2>5. RequestInv(r)'
    BY <1>1, <1>6, <2>1, <2>2, <2>4 DEF RequestInv, Committed, FindNothing
  <2> QED
    BY <1>3, <2>1, <2>3, <2>5
<1>7. CASE Create(r)
  <2>1. req[r].attempt = 1 /\ req[r].op = "login"
    BY <1>1, <1>7 DEF Create, RequestInv, Request
  <2>2. CASE /\ AccountsOf(req[r].openid) = {}
             /\ Proceed(r, [req[r] EXCEPT !.pc = "save", !.account = r])
    <3> DEFINE q == [req[r] EXCEPT !.pc = "save", !.account = r]
    <3>1. q.op = req[r].op /\ q.pc = "save" /\ q.attempt = 1
          /\ q.account = r /\ q.openid = req[r].openid
      BY <1>1, <2>1 DEF Request
    <3>2. Proceed(r, q)
      BY <2>2
    <3> HIDE DEF q
    <3>3. req'[r] = q
      BY <3>2, ProceedRecord
    <3>4. RequestInv(r)'
      BY <1>1, <1>7, <2>1, <2>2, <3>1, <3>3
         DEF RequestInv, Committed, AccountsOf, Create
    <3>5. Inserting(q.openid) = {}
      BY <1>7, <3>1 DEF Create
    <3> QED
      BY <1>3, <3>1, <3>2, <3>4, <3>5
  <2>3. CASE /\ AccountsOf(req[r].openid) # {}
             /\ Proceed(r, [req[r] EXCEPT !.pc = "find", !.attempt = @ + 1])
    <3> DEFINE q == [req[r] EXCEPT !.pc = "find", !.attempt = @ + 1]
    <3>1. q.op = req[r].op /\ q.pc = "find" /\ q.attempt = 2
          /\ q.openid = req[r].openid
      BY <1>1, <2>1 DEF Request
    <3>2. Proceed(r, q)
      BY <2>3
    <3> HIDE DEF q
    <3>3. req'[r] = q
      BY <3>2, ProceedRecord
    <3>4. RequestInv(r)'
      BY <1>1, <1>7, <2>1, <2>3, <3>1, <3>3
         DEF RequestInv, Committed, AccountsOf, Create, MaxAttempts
    <3> QED
      BY <1>3, <3>1, <3>2, <3>4
  <2> QED
    BY <1>2, <1>7, <2>2, <2>3 DEF Create
<1>8. CASE Save(r)
  <2> DEFINE q == [req[r] EXCEPT !.pc = "commit"]
  <2>1. q.op = req[r].op /\ q.pc = "commit" /\ q.attempt = req[r].attempt
        /\ q.account = req[r].account /\ q.openid = req[r].openid
    BY <1>1 DEF Request
  <2>2. Proceed(r, q) /\ req[r].pc = "save"
    BY <1>8 DEF Save
  <2> HIDE DEF q
  <2>3. req'[r] = q
    BY <2>2, ProceedRecord
  <2>4. RequestInv(r)'
    BY <1>1, <2>1, <2>2, <2>3 DEF RequestInv, Committed, AccountsOf
  <2> QED
    BY <1>3, <2>1, <2>2, <2>4
<1> QED
  BY <1>4, <1>5, <1>6, <1>7, <1>8

\* Verification and authorization touch no table: they keep it.
LEMMA ReadStep ==
    ASSUME TypeOK, AccountsInv, NEW r \in Requests,
           Lookup(r) \/ Judge(r) \/ Authorize(r)
    PROVE  AccountsInv'
<1>1. /\ UNCHANGED <<accounts, sessions>>
      /\ req[r].pc \in {"lookup", "judge", "authorize"}
      /\ req[r] \in Request /\ RequestInv(r)
  BY DEF Lookup, Judge, Authorize, TypeOK, AccountsInv
<1>2. \A a \in Answers \cup {None} : Answer(r, a) => AccountsInv'
  BY <1>1, AnswerStep
<1>3. CASE Lookup(r)
  <2> DEFINE t == req[r].token
             q == [req[r] EXCEPT !.pc = "judge", !.account = sessions[t].account,
                                 !.answer = StatusAnswer(sessions[t].account)]
  <2>1. q.pc = "judge" /\ q.attempt = req[r].attempt
    BY <1>1 DEF Request
  <2>2. Answer(r, "UNAUTHENTICATED") \/ Proceed(r, q)
    BY <1>3 DEF Lookup
  <2>3. "UNAUTHENTICATED" \in Answers
    BY DEF Answers
  <2> HIDE DEF q
  <2>4. CASE Proceed(r, q)
    <3>1. req'[r] = q /\ \A s \in Requests \ {r} : req'[s] = req[s]
      BY <2>4, ProceedRecord
    <3>2. RequestInv(r)'
      BY <1>1, <2>1, <3>1 DEF RequestInv, Committed
    <3> QED
      BY <1>1, <2>1, <3>1, <3>2, QuietStep
  <2> QED
    BY <1>2, <2>2, <2>3, <2>4
<1>4. CASE Judge(r)
  <2>1. req[r].answer \in Answers \cup {None} /\ "UNAUTHENTICATED" \in Answers
    BY <1>1 DEF Request, Answers
  <2> QED
    BY <1>2, <1>4, <2>1 DEF Judge
<1>5. CASE Authorize(r)
  <2> DEFINE t == req[r].token
             a == sessions[t].account
             q == [req[r] EXCEPT !.pc = "commit", !.account = a]
  <2>1. q.pc = "commit" /\ q.attempt = req[r].attempt /\ q.account = a
        /\ q.op = req[r].op
    BY <1>1 DEF Request
  <2>2. \/ Answer(r, "UNAUTHENTICATED")
        \/ Answer(r, "DISABLED")
        \/ Proceed(r, q) /\ t # None /\ LiveNow(t)
    BY <1>5 DEF Authorize
  <2>3. "UNAUTHENTICATED" \in Answers /\ "DISABLED" \in Answers
    BY DEF Answers
  <2>4. t \in Requests \cup {None}
    BY <1>1 DEF Request
  <2> HIDE DEF q
  <2>5. CASE Proceed(r, q) /\ t # None /\ LiveNow(t)
    <3>1. req'[r] = q /\ \A s \in Requests \ {r} : req'[s] = req[s]
      BY <2>5, ProceedRecord
    <3>2. a \in Requests /\ Committed(a) /\ a # r
      BY <1>1, <2>4, <2>5 DEF AccountsInv, LiveNow, RequestInv
    <3>3. req[r].op # "login"
      BY <1>1, <1>5 DEF Authorize, RequestInv
    <3>4. RequestInv(r)'
      BY <1>1, <2>1, <3>1, <3>2, <3>3 DEF RequestInv, Committed
    <3> QED
      BY <1>1, <2>1, <3>1, <3>2, <3>4, QuietStep
  <2> QED
    BY <1>2, <2>2, <2>3, <2>5
<1> QED
  BY <1>3, <1>4, <1>5

\* A commit keeps it, if every committed account keeps its openid, a new one
\* is the committing login's own, and a session is new or of the same account.
LEMMA CommitStep ==
    ASSUME TypeOK, AccountsInv, NEW r \in Requests,
           req[r].pc \in {"commit", "revoke"},
           req'[r].pc = "done" /\ req'[r].attempt = 1,
           \A s \in Requests \ {r} : req'[s] = req[s],
           \A a \in Requests \ {r} : /\ Committed(a)' <=> Committed(a)
                                    /\ accounts'[a].openid = accounts[a].openid,
           \/ ~Committed(r)'
           \/ /\ req[r].pc = "commit" /\ req[r].account = r
              /\ accounts'[r].openid = req[r].openid
              /\ sessions'[r].state # "absent" /\ sessions'[r].account = r,
           \A t \in Requests \ {r} :
             /\ sessions'[t].state = "absent" <=> sessions[t].state = "absent"
             /\ sessions'[t].account = sessions[t].account,
           sessions'[r].state # "absent" =>
             sessions'[r].account \in Requests /\ accounts'[sessions'[r].account].status # "absent"
    PROVE  AccountsInv'
<1>1. /\ RequestInv(r) /\ ~Committed(r) /\ sessions[r].state = "absent"
  BY DEF AccountsInv, RequestInv
<1>2. OneAccountPerOpenID'
  <2> SUFFICES ASSUME NEW a \in Requests, NEW b \in Requests,
                      Committed(a)', Committed(b)',
                      accounts'[a].openid = accounts'[b].openid
               PROVE  a = b
    BY DEF OneAccountPerOpenID, Committed
  <2>1. CASE a # r /\ b # r
    BY <2>1 DEF AccountsInv, OneAccountPerOpenID
  <2>2. ASSUME NEW c \in Requests, c # r, Committed(c)', Committed(r)',
               accounts'[c].openid = accounts'[r].openid
        PROVE  FALSE
    <3>1. c \in AccountsOf(req[r].openid)
      BY <2>2 DEF AccountsOf
    <3> QED
      BY <1>1, <2>2, <3>1 DEF RequestInv
  <2> QED
    BY <2>1, <2>2
<1>3. AccountBornWithSession'
  BY <1>1 DEF AccountsInv, AccountBornWithSession, Committed
<1>4. InsertsExclude'
  BY DEF AccountsInv, InsertsExclude, Inserting
<1>5. \A t \in Requests : sessions'[t].state # "absent" =>
        /\ sessions'[t].account \in Requests
        /\ accounts'[sessions'[t].account].status # "absent"
  <2>1. \A a \in Requests : Committed(a) => Committed(a)'
    BY <1>1
  <2> QED
    BY <2>1 DEF AccountsInv, Committed
<1>7. \A o : AccountsOf(o) \subseteq AccountsOf(o)'
  BY <1>1 DEF AccountsOf
<1>6. ASSUME NEW s \in Requests
      PROVE  RequestInv(s)'
  <2>1. CASE s = r
    BY <2>1 DEF RequestInv
  <2>2. CASE s # r
    <3>1. RequestInv(s) /\ req'[s] = req[s]
      BY <2>2 DEF AccountsInv
    <3>2. \A o : AccountsOf(o) \subseteq AccountsOf(o)'
      BY <1>7
    <3>3. (req[s].pc \in {"save", "commit"} /\ req[s].account = s) =>
             AccountsOf(req[s].openid)' = AccountsOf(req[s].openid)
      BY <1>1, <2>2 DEF AccountsOf, AccountsInv, InsertsExclude, Inserting
    <3>4. sessions'[s].state = sessions[s].state \/ sessions[s].state # "absent"
      BY <2>2 
    <3> QED
      BY <1>1, <2>2, <3>1, <3>2, <3>3, <3>4 DEF RequestInv
  <2> QED
    BY <2>1, <2>2
<1> QED
  BY <1>2, <1>3, <1>4, <1>5, <1>6 DEF AccountsInv, Committed

\* The commits and the logout are such steps.
LEMMA TableStep ==
    ASSUME TypeOK, AccountsInv, NEW r \in Requests,
           CommitLogin(r) \/ CommitAuthorized(r) \/ Revoke(r)
    PROVE  AccountsInv'
<1>1. /\ RequestInv(r) /\ req[r] \in Request
      /\ accounts \in [Requests -> Account] /\ sessions \in [Requests -> Session]
      /\ req[r].pc \in {"commit", "revoke"}
      /\ ~Committed(r) /\ sessions[r].state = "absent"
  BY DEF AccountsInv, TypeOK, CommitLogin, CommitAuthorized, Revoke, RequestInv
<1>2. /\ req'[r].pc = "done" /\ req'[r].attempt = 1
      /\ \A s \in Requests \ {r} : req'[s] = req[s]
  <2>1. \E a \in Answers : Answer(r, a)
    BY DEF CommitLogin, CommitAuthorized, Revoke, Answers
  <2> QED
    BY <2>1, AnswerType
<1>3. \A t \in Requests, now \in Times :
        /\ RevokedRow(t, now).state = "revoked"
        /\ RevokedRow(t, now).account = sessions[t].account
  BY <1>1 DEF RevokedRow, Session
<1>4. CASE CommitLogin(r)
  <2> DEFINE a == req[r].account
  <2>1. a \in Requests /\ req[r].op = "login" /\ req[r].now \in Times
    BY <1>1, <1>4 DEF RequestInv, CommitLogin, Request
  <2>2. /\ accounts'[a] = LoggedIn(r)
        /\ \A b \in Requests \ {a} : accounts'[b] = accounts[b]
    BY <1>1, <1>4, <2>1 DEF CommitLogin
  <2>3. /\ sessions'[r].state = "live" /\ sessions'[r].account = a
        /\ \A t \in Requests \ {r} :
             \/ sessions'[t] = sessions[t]
             \/ /\ sessions'[t] = RevokedRow(t, req[r].now)
                /\ sessions[t].state = "live"
    <3>1. \A t \in Requests :
            sessions'[t] = IF t = r THEN NewSession(r)
                           ELSE IF Replaces(r, t) THEN RevokedRow(t, req[r].now)
                           ELSE sessions[t]
      BY <1>4 DEF CommitLogin
    <3>2. NewSession(r).state = "live" /\ NewSession(r).account = a
      BY DEF NewSession
    <3>3. \A t \in Requests : Replaces(r, t) => sessions[t].state = "live"
      BY DEF Replaces
    <3> QED
      BY <3>1, <3>2, <3>3
  <2>4. CASE a = r
    <3>1. accounts'[r].status = "active" /\ accounts'[r].openid = req[r].openid
      BY <2>1, <2>2, <2>4, LoginRowsType
    <3>2. \A b \in Requests \ {r} : /\ Committed(b)' <=> Committed(b)
                                   /\ accounts'[b].openid = accounts[b].openid
      BY <2>2, <2>4 DEF Committed
    <3>3. \A t \in Requests \ {r} :
             /\ sessions'[t].state = "absent" <=> sessions[t].state = "absent"
             /\ sessions'[t].account = sessions[t].account
      BY <1>3, <2>1, <2>3
    <3> QED
      BY <1>1, <1>2, <1>4, <2>3, <2>4, <3>1, <3>2, <3>3, CommitStep
         DEF CommitLogin
  <2>5. CASE a # r
    <3>1. accounts[a] \in Account /\ Committed(a)
      BY <1>1, <1>4, <2>1, <2>5 DEF RequestInv, CommitLogin
    <3>2. LoggedIn(r).status = accounts[a].status
          /\ LoggedIn(r).openid = accounts[a].openid
      BY <2>5, <3>1 DEF LoggedIn, Account
    <3>3. \A b \in Requests : /\ Committed(b)' <=> Committed(b)
                             /\ accounts'[b].openid = accounts[b].openid
      BY <2>2, <3>2 DEF Committed
    <3>4. \A t \in Requests \ {r} :
             /\ sessions'[t].state = "absent" <=> sessions[t].state = "absent"
             /\ sessions'[t].account = sessions[t].account
      BY <1>3, <2>1, <2>3
    <3>5. accounts'[sessions'[r].account].status # "absent"
      BY <2>1, <2>3, <3>1, <3>3 DEF Committed
    <3> QED
      BY <1>1, <1>2, <2>1, <2>3, <3>3, <3>4, <3>5, CommitStep
  <2> QED
    BY <2>4, <2>5
<1>5. CASE CommitAuthorized(r)
  <2> DEFINE a == req[r].account
  <2>1. a \in Requests /\ Committed(a)
    BY <1>1, <1>5, ConstantsAssumption DEF RequestInv, CommitAuthorized
  <2>2. Written(r).status = accounts[a].status
        /\ Written(r).openid = accounts[a].openid
    BY <1>1, <2>1 DEF Written, Account
  <2>3. \A b \in Requests : /\ Committed(b)' <=> Committed(b)
                           /\ accounts'[b].openid = accounts[b].openid
    BY <1>1, <1>5, <2>1, <2>2 DEF CommitAuthorized, Committed
  <2> QED
    BY <1>1, <1>2, <1>5, <2>3, CommitStep DEF CommitAuthorized
<1>6. CASE Revoke(r)
  <2>1. req[r].now \in Times /\ req[r].token \in Requests \cup {None}
    BY <1>1 DEF Request
  <2>2. \A t \in Requests :
             /\ sessions'[t].state = "absent" <=> sessions[t].state = "absent"
             /\ sessions'[t].account = sessions[t].account
    BY <1>1, <1>3, <1>6, <2>1 DEF Revoke
  <2> QED
    BY <1>1, <1>2, <1>6, <2>2, CommitStep DEF Revoke, Committed
<1> QED
  BY <1>4, <1>5, <1>6

\* Disabling a user changes neither which accounts exist nor their openids.
LEMMA DisableStep ==
    ASSUME TypeOK, AccountsInv, NEW a \in Requests, Disable(a)
    PROVE  AccountsInv'
<1>1. /\ UNCHANGED <<sessions, req>>
      /\ \A b \in Requests : /\ Committed(b)' <=> Committed(b)
                            /\ accounts'[b].openid = accounts[b].openid
  <2>1. accounts[a] \in Account
    BY DEF TypeOK
  <2> QED
    BY <2>1 DEF Disable, TypeOK, Committed, Account
<1>2. \A o : AccountsOf(o)' = AccountsOf(o)
  BY <1>1 DEF AccountsOf
<1>3. OneAccountPerOpenID' /\ AccountBornWithSession' /\ InsertsExclude'
  BY <1>1 DEF AccountsInv, OneAccountPerOpenID, AccountBornWithSession,
              InsertsExclude, Inserting
<1>4. \A r \in Requests : RequestInv(r)'
  BY <1>1, <1>2 DEF AccountsInv, RequestInv
<1>5. (\A t \in Requests : sessions[t].state # "absent" =>
         sessions[t].account \in Requests /\ Committed(sessions[t].account))'
  BY <1>1 DEF AccountsInv
<1> QED
  BY <1>3, <1>4, <1>5 DEF AccountsInv

\* The invariant is inductive.
LEMMA AccountsInvStep == TypeOK /\ AccountsInv /\ [Next]_vars => AccountsInv'
<1> SUFFICES ASSUME TypeOK, AccountsInv, [Next]_vars
             PROVE  AccountsInv'
  OBVIOUS
<1>1. ASSUME NEW r \in Requests, Fail(r)
      PROVE  AccountsInv'
  BY <1>1, AnswerStep DEF Fail, Answers
<1>2. CASE UNCHANGED <<accounts, sessions, req>>
  BY <1>2 DEF AccountsInv, OneAccountPerOpenID, AccountBornWithSession,
              InsertsExclude, Inserting, RequestInv, AccountsOf, Committed
<1> QED
  BY <1>1, <1>2, StartStep, LoginStep, ReadStep, TableStep, DisableStep
     DEF Next, Serve, Tick, vars

LEMMA AccountsInvInit == Init => AccountsInv
BY DEF Init, AccountsInv, OneAccountPerOpenID, AccountBornWithSession,
       InsertsExclude, Inserting, RequestInv, AccountsOf, Committed, NoAccount,
       NoSession, NoRequest

\* In every reachable state the accounts and the calls are in order.
THEOREM AccountsInvariant == Spec => []AccountsInv
<1> QED
  BY AccountsInvInit, AccountsInvStep, TypeCorrect, PTL DEF Spec

\* However many first logins race, an openid never gets a second account.
THEOREM UniqueAccounts == Spec => []OneAccountPerOpenID
<1>1. AccountsInv => OneAccountPerOpenID
  BY DEF AccountsInv
<1> QED
  BY <1>1, AccountsInvariant, PTL

\* No account exists without the session it was created with.
THEOREM AtomicFirstLogin == Spec => []AccountBornWithSession
<1>1. AccountsInv => AccountBornWithSession
  BY DEF AccountsInv
<1> QED
  BY <1>1, AccountsInvariant, PTL

\* First logins that race leave whole accounts, one of each openid.
THEOREM WholeAccounts == Spec => []AccountsAreWhole
<1>1. OneAccountPerOpenID /\ AccountBornWithSession => AccountsAreWhole
  BY DEF AccountsAreWhole
<1> QED
  BY <1>1, UniqueAccounts, AtomicFirstLogin, PTL

\* The third attempt of the login loop is never reached.
THEOREM OneRetryIsEnough == Spec => []RetryFindsWinner
<1>1. TypeOK /\ AccountsInv => RetryFindsWinner
  BY DEF TypeOK, Request, MaxAttempts, AccountsInv, RequestInv, RetryFindsWinner
<1> QED
  BY <1>1, TypeCorrect, AccountsInvariant, PTL

-----------------------------------------------------------------------------
(* Sessions: the invariant *)

\* A call presents a session that exists, its own is only known once it was
\* answered, and a call that waits knows nothing yet.
CallKnows(r) ==
    /\ req[r].now <= clock
    /\ req[r].phone => req[r].consent
    /\ req[r].pc = "idle" => req[r].token = None /\ req[r].answer = None
    /\ req[r].token # None => /\ sessions[req[r].token].state # "absent"
                              /\ req[r].token # r
    /\ req[r].op = "login" /\ req[r].answer = "OK" => sessions[r].state # "absent"
    /\ req[r].pc \in {"lookup", "judge", "revoke"} => req[r].op # "login"
    /\ req[r].pc = "authorize" => req[r].op \in AuthorizedOps
    /\ req[r].pc \in {"find", "create", "save", "commit"} /\ req[r].op = "login" =>
         req[r].openid \in OpenIDs

\* What a transaction has read of the rows it has locked is still so.
LockedRowsStand(r) ==
    req[r].pc \in {"save", "commit"} /\ req[r].account # r =>
      /\ accounts[req[r].account].status = "active"
      /\ req[r].op = "login" => ~UnionConflict(req[r].account, req[r].unionid)
      /\ req[r].op # "login" => /\ req[r].op \in AuthorizedOps
                                /\ req[r].token # None
                                /\ sessions[req[r].token].state = "live"
                                /\ sessions[req[r].token].account = req[r].account

\* The row lock of an account has one holder.
OneHolder ==
    \A r, s \in Requests :
      /\ req[r].pc \in {"save", "commit"} /\ req[s].pc \in {"save", "commit"}
      /\ req[r].account = req[s].account
      => r = s

\* A session belongs to the account of the openid WeChat returned for it.
SessionKnows(t) ==
    /\ sessions[t].state = "absent" => sessions[t].account = None
    /\ sessions[t].state # "absent" =>
         /\ accounts[sessions[t].account].openid = req[t].openid
         /\ req[t].unionid \in {None, accounts[sessions[t].account].unionid}

SessionsInv ==
    /\ \A r \in Requests : CallKnows(r) /\ LockedRowsStand(r)
    /\ OneHolder
    /\ \A t \in Requests : SessionKnows(t)
    /\ \A a \in Requests : Committed(a) => accounts[a].openid \in OpenIDs
    /\ ReplacedSessionRevoked

\* All that holds in every reachable state.
ServiceInv == TypeOK /\ AccountsInv /\ SessionsInv

-----------------------------------------------------------------------------
(* Steps that touch no table *)

\* Such a step keeps the invariant if the call that takes it knows what it
\* should, and takes no lock that another holds.
LEMMA QuietSessionStep ==
    ASSUME ServiceInv, NEW r \in Requests, req[r].pc # "done",
           UNCHANGED <<clock, accounts, sessions>>,
           \A s \in Requests \ {r} : req'[s] = req[s],
           CallKnows(r)', LockedRowsStand(r)',
           req'[r].pc \in {"save", "commit"} =>
             \A s \in Requests \ {r} :
               req[s].pc \in {"save", "commit"} => req[s].account # req'[r].account
    PROVE  SessionsInv'
<1>1. sessions[r].state = "absent"
  BY DEF ServiceInv, AccountsInv, RequestInv
<1>2. ASSUME NEW s \in Requests PROVE CallKnows(s)' /\ LockedRowsStand(s)'
  <2>1. CASE s = r
    BY <2>1
  <2>2. CASE s # r
    BY <2>2 DEF ServiceInv, SessionsInv, CallKnows, LockedRowsStand, UnionConflict
  <2> QED
    BY <2>1, <2>2
<1>3. OneHolder'
  BY DEF ServiceInv, SessionsInv, OneHolder
<1>4. ASSUME NEW t \in Requests PROVE SessionKnows(t)'
  BY <1>1 DEF ServiceInv, SessionsInv, SessionKnows
<1>5. ReplacedSessionRevoked'
  BY <1>1 DEF ServiceInv, SessionsInv, ReplacedSessionRevoked
<1> QED
  BY <1>2, <1>3, <1>4, <1>5 DEF ServiceInv, SessionsInv, Committed

\* A call returns; its locals and its locks are gone.
LEMMA AnswerRecord ==
    ASSUME TypeOK, NEW r \in Requests, NEW a \in Answers \cup {None}, Answer(r, a)
    PROVE  /\ req'[r].pc = "done" /\ req'[r].answer = a /\ req'[r].op = req[r].op
           /\ req'[r].token = req[r].token /\ req'[r].now = 0 /\ ~req'[r].phone
           /\ req'[r].openid = req[r].openid /\ req'[r].unionid = req[r].unionid
           /\ \A s \in Requests \ {r} : req'[s] = req[s]
<1> DEFINE q == [req[r] EXCEPT !.pc = "done", !.answer = a, !.phone = FALSE,
                     !.consent = FALSE, !.stock = None, !.attempt = 1,
                     !.account = None, !.now = 0]
<1>1. req[r] \in Request
  BY DEF TypeOK
<1>2. q.now = 0 /\ ~q.phone
  BY <1>1 DEF Request
<1>3. Proceed(r, q)
  BY DEF Answer
<1> HIDE DEF q
<1>4. req'[r] = q
  BY <1>3, ProceedRecord
<1> QED
  BY <1>2, <1>4, AnswerType

\* An answer without effect is not the success of a login.
LEMMA AnswerSessionStep ==
    ASSUME ServiceInv, NEW r \in Requests, NEW a \in Answers \cup {None}, Answer(r, a),
           a # "OK" \/ req[r].op # "login", req[r].pc # "done",
           UNCHANGED <<clock, accounts, sessions>>
    PROVE  SessionsInv'
<1>1. /\ req'[r].pc = "done" /\ req'[r].answer = a /\ req'[r].op = req[r].op
      /\ req'[r].token = req[r].token /\ req'[r].now = 0 /\ ~req'[r].phone
      /\ \A s \in Requests \ {r} : req'[s] = req[s]
  BY AnswerRecord DEF ServiceInv
<1>2. clock \in Nat
  BY ConstantsAssumption DEF ServiceInv, TypeOK, Times
<1>3. CallKnows(r)
  BY DEF ServiceInv, SessionsInv
<1>4. CallKnows(r)'
  BY <1>1, <1>2, <1>3 DEF CallKnows
<1>5. LockedRowsStand(r)'
  BY <1>1 DEF LockedRowsStand
<1> QED
  BY <1>1, <1>4, <1>5, QuietSessionStep

\* What a client presents is the token of a session, and not of this call.
LEMMA PresentedExists ==
    ASSUME ServiceInv, NEW r \in Requests, req[r].pc = "idle", NEW t \in Presentable
    PROVE  t # None => t \in Requests /\ t # r /\ sessions[t].state # "absent"
BY NoneAssumption DEF ServiceInv, SessionsInv, CallKnows, Presentable, Answers

LEMMA StartSessionStep ==
    ASSUME ServiceInv, NEW r \in Requests, Start(r)
    PROVE  SessionsInv'
<1>1. /\ req[r].pc = "idle" /\ UNCHANGED <<clock, accounts, sessions>>
      /\ req[r] \in Request /\ CallKnows(r) /\ clock \in Nat
  <2>1. req[r].pc = "idle" /\ UNCHANGED <<clock, accounts, sessions>>
    BY DEF Start, StartLogin, StartVerify, StartRevoke, StartAuthorized
  <2>2. req[r] \in Request /\ clock \in Nat
    BY ConstantsAssumption DEF ServiceInv, TypeOK, Times
  <2> QED
    BY <2>1, <2>2 DEF ServiceInv, SessionsInv
<1>2. req[r].answer = None /\ req[r].now <= clock
  BY <1>1 DEF CallKnows
<1>3. None # "OK"
  BY NoneAssumption DEF Answers
\* What is left to show of a step to record q.
<1>4. ASSUME NEW q, Proceed(r, q), NEW t \in Presentable,
             q.token = t, q.answer = None, q.now <= clock, q.phone => q.consent,
             \/ q.pc = "exchange" /\ q.op = "login"
             \/ q.pc \in {"lookup", "revoke"} /\ q.op \in {"verify", "revoke"}
             \/ q.pc = "authorize" /\ q.op \in AuthorizedOps
      PROVE  SessionsInv'
  <2>1. req'[r] = q /\ \A s \in Requests \ {r} : req'[s] = req[s]
    BY <1>4, ProceedRecord DEF ServiceInv
  <2>2. t # None => t # r /\ sessions[t].state # "absent"
    BY <1>1, PresentedExists
  <2>3. q.op = "login" => q.pc = "exchange"
    BY <1>4, ConstantsAssumption
  <2>5. CallKnows(r)'
    BY <1>1, <1>3, <1>4, <2>1, <2>2, <2>3 DEF CallKnows
  <2>6. LockedRowsStand(r)'
    BY <1>4, <2>1 DEF LockedRowsStand
  <2> QED
    BY <1>1, <1>4, <2>1, <2>5, <2>6, QuietSessionStep
<1>5. CASE StartLogin(r)
  <2>1. PICK previous \in Presentable, phone \in BOOLEAN, consent \in BOOLEAN :
          IF phone /\ ~consent
          THEN Answer(r, "REJECTED")
          ELSE Proceed(r, [req[r] EXCEPT !.op = "login", !.pc = "exchange",
                                         !.token = previous, !.phone = phone,
                                         !.consent = consent])
    BY <1>5 DEF StartLogin
  <2> DEFINE q == [req[r] EXCEPT !.op = "login", !.pc = "exchange", !.token = previous,
                                 !.phone = phone, !.consent = consent]
  <2>2. /\ q.token = previous /\ q.answer = req[r].answer /\ q.now = req[r].now
        /\ q.pc = "exchange" /\ q.op = "login" /\ (q.phone <=> phone) /\ (q.consent <=> consent)
    BY <1>1 DEF Request
  <2>3. \/ phone /\ ~consent /\ Answer(r, "REJECTED")
        \/ ~(phone /\ ~consent) /\ Proceed(r, q)
    BY <2>1
  <2> HIDE DEF q
  <2>4. CASE Answer(r, "REJECTED")
    BY <1>1, <2>4, AnswerSessionStep DEF Answers
  <2>5. CASE ~(phone /\ ~consent) /\ Proceed(r, q)
    BY <1>2, <1>4, <2>2, <2>5
  <2> QED
    BY <2>3, <2>4, <2>5
<1>6. CASE StartVerify(r)
  <2>1. PICK t \in Presentable :
          Proceed(r, [req[r] EXCEPT !.op = "verify", !.pc = "lookup", !.token = t])
    BY <1>6 DEF StartVerify
  <2> DEFINE q == [req[r] EXCEPT !.op = "verify", !.pc = "lookup", !.token = t]
  <2>2. /\ q.token = t /\ q.answer = req[r].answer /\ q.now = req[r].now
        /\ q.pc = "lookup" /\ q.op = "verify" /\ q.phone = req[r].phone
        /\ q.consent = req[r].consent
    BY <1>1 DEF Request
  <2>3. Proceed(r, q)
    BY <2>1
  <2> HIDE DEF q
  <2> QED
    BY <1>1, <1>2, <1>4, <2>2, <2>3 DEF CallKnows
<1>7. CASE StartRevoke(r)
  <2>1. PICK t \in Presentable :
          Proceed(r, [req[r] EXCEPT !.op = "revoke", !.pc = "revoke", !.token = t,
                                    !.now = clock])
    BY <1>7 DEF StartRevoke
  <2> DEFINE q == [req[r] EXCEPT !.op = "revoke", !.pc = "revoke", !.token = t, !.now = clock]
  <2>2. /\ q.token = t /\ q.answer = req[r].answer /\ q.now = clock
        /\ q.pc = "revoke" /\ q.op = "revoke" /\ q.phone = req[r].phone
        /\ q.consent = req[r].consent
    BY <1>1 DEF Request
  <2>3. Proceed(r, q)
    BY <2>1
  <2> HIDE DEF q
  <2>4. q.now <= clock
    BY <1>1, <2>2
  <2> QED
    BY <1>1, <1>2, <1>4, <2>2, <2>3, <2>4 DEF CallKnows
<1>8. CASE StartAuthorized(r)
  <2>1. PICK t \in Presentable, op \in AuthorizedOps, stock \in Stocks :
          Proceed(r, [req[r] EXCEPT !.op = op, !.pc = "authorize", !.token = t,
                                    !.stock = stock])
    BY <1>8 DEF StartAuthorized
  <2> DEFINE q == [req[r] EXCEPT !.op = op, !.pc = "authorize", !.token = t, !.stock = stock]
  <2>2. /\ q.token = t /\ q.answer = req[r].answer /\ q.now = req[r].now
        /\ q.pc = "authorize" /\ q.op = op /\ q.phone = req[r].phone
        /\ q.consent = req[r].consent
    BY <1>1 DEF Request
  <2>3. Proceed(r, q)
    BY <2>1
  <2> HIDE DEF q
  <2> QED
    BY <1>1, <1>2, <1>4, <2>2, <2>3 DEF CallKnows
<1> QED
  BY <1>5, <1>6, <1>7, <1>8 DEF Start

\* The steps of a login before its commit.
LEMMA LoginSessionStep ==
    ASSUME ServiceInv, NEW r \in Requests,
           Exchange(r) \/ FindAccount(r) \/ FindNothing(r) \/ Create(r) \/ Save(r)
    PROVE  SessionsInv'
<1>1. /\ UNCHANGED <<clock, accounts, sessions>>
      /\ req[r].pc \in {"exchange", "find", "create", "save"} /\ req[r].op = "login"
      /\ req[r] \in Request /\ CallKnows(r) /\ LockedRowsStand(r) /\ RequestInv(r)
      /\ clock \in Nat /\ clock >= 0
  <2>1. /\ UNCHANGED <<clock, accounts, sessions>>
        /\ req[r].pc \in {"exchange", "find", "create", "save"}
    BY DEF Exchange, FindAccount, FindNothing, Create, Save
  <2>2. req[r] \in Request /\ clock \in Nat /\ clock >= 0
    BY ConstantsAssumption DEF ServiceInv, TypeOK, Times
  <2>3. CallKnows(r) /\ LockedRowsStand(r) /\ RequestInv(r)
    BY DEF ServiceInv, SessionsInv, AccountsInv
  <2>4. req[r].op = "login"
    BY <2>1, <2>3 DEF RequestInv
  <2> QED
    BY <2>1, <2>2, <2>3, <2>4, SMTT(40)
<1>2. ASSUME NEW a \in {"PROVIDER", "DISABLED", "REJECTED", "UNAVAILABLE"}, Answer(r, a)
      PROVE  SessionsInv'
  BY <1>1, <1>2, AnswerSessionStep DEF Answers
\* What is left to show of a step to record q.
<1>3. ASSUME NEW q, Proceed(r, q),
             q.op = req[r].op, q.token = req[r].token, q.answer = req[r].answer,
             q.phone = req[r].phone, q.consent = req[r].consent, q.now <= clock,
             q.pc \in {"find", "create", "save", "commit"}, q.openid \in OpenIDs,
             q.pc \in {"save", "commit"} =>
               /\ q.account # r =>
                    /\ accounts[q.account].status = "active"
                    /\ ~UnionConflict(q.account, q.unionid)
               /\ \A s \in Requests \ {r} :
                    req[s].pc \in {"save", "commit"} => req[s].account # q.account
      PROVE  SessionsInv'
  <2>1. req'[r] = q /\ \A s \in Requests \ {r} : req'[s] = req[s]
    BY <1>3, ProceedRecord DEF ServiceInv
  <2>2. CallKnows(r)'
    BY <1>1, <1>3, <2>1 DEF CallKnows
  <2>3. LockedRowsStand(r)'
    BY <1>1, <1>3, <2>1 DEF LockedRowsStand, UnionConflict
  <2> QED
    BY <1>1, <1>3, <2>1, <2>2, <2>3, QuietSessionStep
<1>4. CASE Exchange(r)
  <2>1. CASE \E openid \in OpenIDs, unionid \in UnionIDs \cup {None} :
               Proceed(r, [req[r] EXCEPT !.pc = "find", !.openid = openid,
                                         !.unionid = unionid])
    <3>1. PICK openid \in OpenIDs, unionid \in UnionIDs \cup {None} :
               Proceed(r, [req[r] EXCEPT !.pc = "find", !.openid = openid,
                                         !.unionid = unionid])
      BY <2>1
    <3> DEFINE q == [req[r] EXCEPT !.pc = "find", !.openid = openid, !.unionid = unionid]
    <3>2. /\ q.op = req[r].op /\ q.token = req[r].token /\ q.answer = req[r].answer
          /\ q.phone = req[r].phone /\ q.consent = req[r].consent /\ q.now = req[r].now
          /\ q.pc = "find" /\ q.openid = openid
      BY <1>1 DEF Request
    <3>3. Proceed(r, q)
      BY <3>1
    <3> HIDE DEF q
    <3> QED
      BY <1>1, <1>3, <3>2, <3>3 DEF CallKnows
  <2> QED
    BY <1>2, <1>4, <2>1 DEF Exchange
<1>5. CASE FindAccount(r)
  <2>1. PICK a \in AccountsOf(req[r].openid) :
          /\ Holders(a) = {}
          /\ \/ Answer(r, "DISABLED")
             \/ Answer(r, "REJECTED")
             \/ /\ accounts[a].status = "active" /\ ~UnionConflict(a, req[r].unionid)
                /\ Proceed(r, [req[r] EXCEPT !.pc = "save", !.account = a, !.now = clock])
    BY <1>5 DEF FindAccount
  <2> DEFINE q == [req[r] EXCEPT !.pc = "save", !.account = a, !.now = clock]
  <2>2. /\ q.op = req[r].op /\ q.token = req[r].token /\ q.answer = req[r].answer
        /\ q.phone = req[r].phone /\ q.consent = req[r].consent /\ q.now = clock
        /\ q.pc = "save" /\ q.openid = req[r].openid /\ q.account = a
        /\ q.unionid = req[r].unionid
    BY <1>1 DEF Request
  <2>3. \/ Answer(r, "DISABLED") \/ Answer(r, "REJECTED")
        \/ /\ accounts[a].status = "active" /\ ~UnionConflict(a, req[r].unionid)
           /\ Proceed(r, q)
    BY <2>1
  <2> HIDE DEF q
  <2>4. CASE /\ accounts[a].status = "active" /\ ~UnionConflict(a, req[r].unionid)
             /\ Proceed(r, q)
    <3>1. req[r].openid \in OpenIDs
      BY <1>1, <1>5 DEF CallKnows, FindAccount
    <3>2. \A s \in Requests : req[s].pc \in {"save", "commit"} => req[s].account # a
      BY <2>1 DEF Holders
    <3>3. clock <= clock
      BY <1>1
    <3> QED
      BY <1>3, <2>2, <2>4, <3>1, <3>2, <3>3
  <2> QED
    BY <1>2, <2>3, <2>4
<1>6. CASE FindNothing(r)
  <2> DEFINE q == [req[r] EXCEPT !.pc = "create", !.now = clock]
  <2>1. /\ q.op = req[r].op /\ q.token = req[r].token /\ q.answer = req[r].answer
        /\ q.phone = req[r].phone /\ q.consent = req[r].consent /\ q.now = clock
        /\ q.pc = "create" /\ q.openid = req[r].openid
    BY <1>1 DEF Request
  <2>2. Proceed(r, q) /\ req[r].pc = "find"
    BY <1>6 DEF FindNothing
  <2> HIDE DEF q
  <2>3. req[r].openid \in OpenIDs /\ clock <= clock
    BY <1>1, <2>2 DEF CallKnows
  <2> QED
    BY <1>3, <2>1, <2>2, <2>3
<1>7. CASE Create(r)
  <2>1. req[r].openid \in OpenIDs /\ req[r].now <= clock
    BY <1>1, <1>7 DEF CallKnows, Create
  <2>2. CASE Proceed(r, [req[r] EXCEPT !.pc = "save", !.account = r])
    <3> DEFINE q == [req[r] EXCEPT !.pc = "save", !.account = r]
    <3>1. /\ q.op = req[r].op /\ q.token = req[r].token /\ q.answer = req[r].answer
          /\ q.phone = req[r].phone /\ q.consent = req[r].consent /\ q.now = req[r].now
          /\ q.pc = "save" /\ q.openid = req[r].openid /\ q.account = r
      BY <1>1 DEF Request
    <3>2. Proceed(r, q)
      BY <2>2
    <3> HIDE DEF q
    <3>3. \A s \in Requests \ {r} : req[s].pc \in {"save", "commit"} => req[s].account # r
      BY <1>1, <1>7 DEF ServiceInv, AccountsInv, RequestInv, Create
    <3> QED
      BY <1>3, <2>1, <3>1, <3>2, <3>3
  <2>3. CASE Proceed(r, [req[r] EXCEPT !.pc = "find", !.attempt = @ + 1])
    <3> DEFINE q == [req[r] EXCEPT !.pc = "find", !.attempt = @ + 1]
    <3>1. /\ q.op = req[r].op /\ q.token = req[r].token /\ q.answer = req[r].answer
          /\ q.phone = req[r].phone /\ q.consent = req[r].consent /\ q.now = req[r].now
          /\ q.pc = "find" /\ q.openid = req[r].openid
      BY <1>1 DEF Request
    <3>2. Proceed(r, q)
      BY <2>3
    <3> HIDE DEF q
    <3> QED
      BY <1>3, <2>1, <3>1, <3>2
  <2> QED
    BY <1>2, <1>7, <2>2, <2>3 DEF Create
<1>8. CASE Save(r)
  <2> DEFINE q == [req[r] EXCEPT !.pc = "commit"]
  <2>1. /\ q.op = req[r].op /\ q.token = req[r].token /\ q.answer = req[r].answer
        /\ q.phone = req[r].phone /\ q.consent = req[r].consent /\ q.now = req[r].now
        /\ q.pc = "commit" /\ q.openid = req[r].openid /\ q.account = req[r].account
        /\ q.unionid = req[r].unionid
    BY <1>1 DEF Request
  <2>2. Proceed(r, q) /\ req[r].pc = "save"
    BY <1>8 DEF Save
  <2> HIDE DEF q
  <2>3. req[r].openid \in OpenIDs /\ req[r].now <= clock
    BY <1>1, <2>2 DEF CallKnows
  <2>4. req[r].account # r => /\ accounts[req[r].account].status = "active"
                              /\ ~UnionConflict(req[r].account, req[r].unionid)
    BY <1>1, <2>2 DEF LockedRowsStand
  <2>5. \A s \in Requests \ {r} :
          req[s].pc \in {"save", "commit"} => req[s].account # req[r].account
    BY <2>2 DEF ServiceInv, SessionsInv, OneHolder
  <2> QED
    BY <1>3, <2>1, <2>2, <2>3, <2>4, <2>5
<1> QED
  BY <1>4, <1>5, <1>6, <1>7, <1>8

\* Verification, and the check of an authorized operation.
LEMMA ReadSessionStep ==
    ASSUME ServiceInv, NEW r \in Requests, Lookup(r) \/ Judge(r) \/ Authorize(r)
    PROVE  SessionsInv'
<1>1. /\ UNCHANGED <<clock, accounts, sessions>>
      /\ req[r].pc \in {"lookup", "judge", "authorize"} /\ req[r].op # "login"
      /\ req[r] \in Request /\ CallKnows(r)
  <2>1. /\ UNCHANGED <<clock, accounts, sessions>>
        /\ req[r].pc \in {"lookup", "judge", "authorize"}
    BY DEF Lookup, Judge, Authorize
  <2>2. req[r] \in Request /\ CallKnows(r)
    BY DEF ServiceInv, SessionsInv, TypeOK
  <2>3. req[r].op # "login"
    BY <2>1, <2>2, ConstantsAssumption DEF CallKnows
  <2> QED
    BY <2>1, <2>2, <2>3
<1>2. ASSUME NEW a \in Answers \cup {None}, Answer(r, a) PROVE SessionsInv'
  BY <1>1, <1>2, AnswerSessionStep
<1>3. CASE Lookup(r)
  <2> DEFINE t == req[r].token
             q == [req[r] EXCEPT !.pc = "judge", !.account = sessions[t].account,
                                 !.answer = StatusAnswer(sessions[t].account)]
  <2>1. /\ q.pc = "judge" /\ q.op = req[r].op /\ q.token = req[r].token
        /\ q.now = req[r].now /\ q.phone = req[r].phone /\ q.consent = req[r].consent
    BY <1>1 DEF Request
  <2>2. Answer(r, "UNAUTHENTICATED") \/ Proceed(r, q)
    BY <1>3 DEF Lookup
  <2> HIDE DEF q
  <2>3. CASE Proceed(r, q)
    <3>1. req'[r] = q /\ \A s \in Requests \ {r} : req'[s] = req[s]
      BY <2>3, ProceedRecord DEF ServiceInv
    <3>2. CallKnows(r)'
      BY <1>1, <2>1, <3>1 DEF CallKnows
    <3>3. LockedRowsStand(r)'
      BY <2>1, <3>1 DEF LockedRowsStand
    <3> QED
      BY <1>1, <2>1, <3>1, <3>2, <3>3, QuietSessionStep
  <2> QED
    BY <1>2, <2>2, <2>3 DEF Answers
<1>4. CASE Judge(r)
  <2>1. req[r].answer \in Answers \cup {None}
    BY <1>1 DEF Request
  <2> QED
    BY <1>2, <1>4, <2>1 DEF Judge, Answers
<1>5. CASE Authorize(r)
  <2> DEFINE t == req[r].token
             a == sessions[t].account
             q == [req[r] EXCEPT !.pc = "commit", !.account = a]
  <2>1. /\ q.pc = "commit" /\ q.op = req[r].op /\ q.token = req[r].token
        /\ q.now = req[r].now /\ q.phone = req[r].phone /\ q.consent = req[r].consent
        /\ q.account = a /\ q.answer = req[r].answer
    BY <1>1, SMTT(40) DEF Request
  <2>2. \/ Answer(r, "UNAUTHENTICATED")
        \/ Answer(r, "DISABLED")
        \/ /\ Proceed(r, q) /\ t # None /\ LiveNow(t) /\ accounts[a].status = "active"
           /\ Holders(a) = {}
    BY <1>5 DEF Authorize
  <2>3. req[r].op \in AuthorizedOps
    BY <1>1, <1>5 DEF Authorize, CallKnows
  <2> HIDE DEF q
  <2>4. CASE /\ Proceed(r, q) /\ t # None /\ LiveNow(t) /\ accounts[a].status = "active"
             /\ Holders(a) = {}
    <3>1. req'[r] = q /\ \A s \in Requests \ {r} : req'[s] = req[s]
      BY <2>4, ProceedRecord DEF ServiceInv
    <3>2. CallKnows(r)'
      BY <1>1, <2>1, <3>1 DEF CallKnows
    <3>3. LockedRowsStand(r)'
      BY <1>1, <2>1, <2>3, <2>4, <3>1 DEF LockedRowsStand, LiveNow
    <3>4. \A s \in Requests : req[s].pc \in {"save", "commit"} => req[s].account # a
      BY <2>4 DEF Holders
    <3> QED
      BY <1>1, <2>1, <3>1, <3>2, <3>3, <3>4, QuietSessionStep
  <2> QED
    BY <1>2, <2>2, <2>4 DEF Answers
<1> QED
  BY <1>3, <1>4, <1>5

-----------------------------------------------------------------------------
(* Steps that write the tables *)

\* A commit or a logout keeps the invariant if it leaves alone what other
\* transactions have locked, sessions only end, and the session it opens, if
\* any, belongs where it should and has replaced the one it named.
LEMMA TableSessionStep ==
    ASSUME ServiceInv, NEW r \in Requests, req[r].pc \in {"commit", "revoke"},
           NEW answer \in Answers, Answer(r, answer), clock' = clock,
           \A a \in Requests : Committed(a) =>
             /\ accounts'[a].openid = accounts[a].openid
             /\ accounts[a].unionid \in {None, accounts'[a].unionid},
           \A a \in Requests : Committed(a)' => accounts'[a].openid \in OpenIDs,
           \A s \in Requests \ {r} : req[s].pc \in {"save", "commit"} =>
             /\ req[s].account # s => accounts'[req[s].account] = accounts[req[s].account]
             /\ req[s].op # "login" => sessions'[req[s].token] = sessions[req[s].token],
           \A t \in Requests \ {r} :
             \/ sessions'[t] = sessions[t]
             \/ /\ sessions[t].state = "live" /\ sessions'[t].state = "revoked"
                /\ sessions'[t].account = sessions[t].account,
           \/ sessions'[r] = sessions[r] /\ (answer = "OK" => req[r].op # "login")
           \/ /\ sessions'[r].state = "live" /\ SessionKnows(r)'
              /\ req[r].token # None
                   /\ sessions[req[r].token].account = sessions'[r].account
                   => sessions'[req[r].token].state = "revoked"
    PROVE  SessionsInv'
<1>1. /\ req'[r].pc = "done" /\ req'[r].answer = answer /\ req'[r].op = req[r].op
      /\ req'[r].token = req[r].token /\ req'[r].now = 0 /\ ~req'[r].phone
      /\ req'[r].openid = req[r].openid /\ req'[r].unionid = req[r].unionid
      /\ \A s \in Requests \ {r} : req'[s] = req[s]
  BY AnswerRecord DEF ServiceInv
<1>2. sessions[r].state = "absent" /\ clock >= 0
  BY ConstantsAssumption DEF ServiceInv, AccountsInv, RequestInv, TypeOK, Times
<1>3. \A s \in Requests : CallKnows(s) /\ LockedRowsStand(s) /\ req[s].token \in Requests \cup {None}
  BY DEF ServiceInv, SessionsInv, TypeOK, Request
<1>4. \A t \in Requests : sessions[t].state # "absent" =>
        /\ t # r /\ sessions'[t].state # "absent" /\ sessions'[t].account = sessions[t].account
  BY <1>2
<1>5. ASSUME NEW s \in Requests PROVE CallKnows(s)'
  <2>1. CASE s = r
    <3>1. answer = "OK" /\ req[r].op = "login" => sessions'[r].state # "absent"
      BY <1>2
    <3> QED
      BY <1>1, <1>2, <1>3, <1>4, <2>1, <3>1 DEF CallKnows
  <2>2. CASE s # r
    <3>1. req'[s] = req[s] /\ CallKnows(s)
      BY <1>1, <1>3, <2>2
    <3>2. \A t \in Requests : sessions[t].state # "absent" => sessions'[t].state # "absent"
      BY <1>4
    <3> QED
      BY <1>3, <3>1, <3>2 DEF CallKnows
  <2> QED
    BY <2>1, <2>2
<1>6. ASSUME NEW s \in Requests PROVE LockedRowsStand(s)'
  <2>1. CASE s = r
    BY <1>1, <2>1 DEF LockedRowsStand
  <2>2. CASE s # r
    <3>1. req'[s] = req[s] /\ LockedRowsStand(s)
      BY <1>1, <1>3, <2>2
    <3> QED
      BY <2>2, <3>1 DEF LockedRowsStand, UnionConflict
  <2> QED
    BY <2>1, <2>2
<1>7. OneHolder'
  BY <1>1 DEF ServiceInv, SessionsInv, OneHolder
<1>8. ASSUME NEW t \in Requests PROVE SessionKnows(t)'
  <2>1. SessionKnows(t) /\ req'[t].openid = req[t].openid /\ req'[t].unionid = req[t].unionid
    BY <1>1 DEF ServiceInv, SessionsInv
  <2>2. CASE sessions[t].state = "absent"
    <3>1. CASE t = r /\ sessions'[r] # sessions[r]
      BY <3>1
    <3>2. CASE sessions'[t] = sessions[t]
      BY <2>1, <2>2, <3>2 DEF SessionKnows
    <3> QED
      BY <2>2, <3>1, <3>2
  <2>3. CASE sessions[t].state # "absent"
    <3>1. sessions[t].account \in Requests /\ Committed(sessions[t].account)
      BY <2>3 DEF ServiceInv, AccountsInv
    <3>2. sessions'[t].account = sessions[t].account /\ sessions'[t].state # "absent"
      BY <1>4, <2>3
    <3> QED
      BY <2>1, <2>3, <3>1, <3>2 DEF SessionKnows
  <2> QED
    BY <2>2, <2>3
<1>9. ASSUME NEW x \in Requests, NEW t \in Requests, req'[x].op = "login", req'[x].token = t,
             sessions'[x].state # "absent", sessions'[t].account = sessions'[x].account
      PROVE  sessions'[t].state = "revoked"
  <2>0. t # None /\ req[x].op = "login" /\ req[x].token = t
    BY <1>1, <1>9, ConstantsAssumption
  <2>1. sessions[t].state # "absent" /\ t # r
    BY <1>2, <1>3, <2>0 DEF CallKnows
  <2>2. sessions'[t].account = sessions[t].account
    BY <1>4, <2>1
  <2>3. CASE x = r
    BY <1>2, <1>9, <2>0, <2>2, <2>3
  <2>4. CASE x # r
    <3>1. sessions[x].state # "absent" /\ sessions'[x].account = sessions[x].account
      BY <1>9, <2>4
    <3>2. ReplacedSessionRevoked
      BY DEF ServiceInv, SessionsInv
    <3>3. sessions[t].account = sessions[x].account
      BY <1>9, <2>2, <3>1
    <3>4. sessions[t].state = "revoked"
      BY <2>0, <3>1, <3>2, <3>3 DEF ReplacedSessionRevoked
    <3> QED
      BY <2>1, <3>4
  <2> QED
    BY <2>3, <2>4
<1>10. ReplacedSessionRevoked'
  BY <1>9 DEF ReplacedSessionRevoked
<1> QED
  BY <1>5, <1>6, <1>7, <1>8, <1>10 DEF SessionsInv, Committed

\* The account row a login leaves.
LEMMA LoggedInRow ==
    ASSUME TypeOK, NEW r \in Requests, req[r].account \in Requests
    PROVE  LET a == req[r].account
               row == LoggedIn(r)
           IN  /\ a # r =>
                    /\ row.status = accounts[a].status
                    /\ row.openid = accounts[a].openid
                    /\ row.unionid = IF accounts[a].unionid = None THEN req[r].unionid
                                     ELSE accounts[a].unionid
                    /\ row.phone = IF req[r].phone THEN r ELSE accounts[a].phone
                    /\ row.nickname = accounts[a].nickname
                    /\ row.avatar = accounts[a].avatar
                    /\ row.stocks = accounts[a].stocks
               /\ a = r =>
                    /\ row.status = "active"
                    /\ row.openid = req[r].openid
                    /\ row.unionid = req[r].unionid
                    /\ row.phone = IF req[r].phone THEN r ELSE None
                    /\ row.nickname = None /\ row.avatar = None /\ row.stocks = {}
<1> DEFINE old == IF req[r].account = r
                  THEN [NoAccount EXCEPT !.status = "active",
                                         !.openid = req[r].openid]
                  ELSE accounts[req[r].account]
           unionid == IF old.unionid = None THEN req[r].unionid ELSE old.unionid
           phone == IF req[r].phone THEN r ELSE old.phone
<1>1. req[r] \in Request
  BY DEF TypeOK
<1>2. accounts[req[r].account] \in Account
  BY DEF TypeOK
<1>3. [NoAccount EXCEPT !.status = "active", !.openid = req[r].openid] \in Account
  BY <1>1 DEF NoAccount, Account, Request
<1>4. old \in Account
  BY <1>2, <1>3
<1>5. LoggedIn(r) = [old EXCEPT !.unionid = unionid, !.phone = phone]
  BY DEF LoggedIn
<1>6. req[r].account = r =>
        /\ old.status = "active" /\ old.openid = req[r].openid /\ old.unionid = None
        /\ old.phone = None /\ old.nickname = None /\ old.avatar = None
        /\ old.stocks = {}
  BY DEF NoAccount
<1>7. req[r].account # r => old = accounts[req[r].account]
  OBVIOUS
<1>8. /\ LoggedIn(r).status = old.status /\ LoggedIn(r).openid = old.openid
      /\ LoggedIn(r).unionid = IF old.unionid = None THEN req[r].unionid ELSE old.unionid
      /\ LoggedIn(r).phone = IF req[r].phone THEN r ELSE old.phone
      /\ LoggedIn(r).nickname = old.nickname /\ LoggedIn(r).avatar = old.avatar
      /\ LoggedIn(r).stocks = old.stocks
  <2> HIDE DEF old
  <2> QED
    BY <1>4, <1>5 DEF Account
<1> HIDE DEF old
<1> QED
  BY <1>6, <1>7, <1>8

\* What the commit of a login does to the tables.
LEMMA LoginEffect ==
    ASSUME ServiceInv, NEW r \in Requests, CommitLogin(r)
    PROVE  LET a == req[r].account IN
           /\ a \in Requests /\ req[r].op = "login" /\ req[r].pc = "commit"
           /\ req[r].openid \in OpenIDs /\ req[r].now \in Times
           /\ accounts'[a] = LoggedIn(r)
           /\ \A b \in Requests \ {a} : accounts'[b] = accounts[b]
           /\ sessions[r].state = "absent" /\ ~Committed(r)
           /\ sessions'[r] = NewSession(r)
           /\ \A t \in Requests \ {r} :
                sessions'[t] = IF Replaces(r, t) THEN RevokedRow(t, req[r].now)
                               ELSE sessions[t]
           /\ a # r => /\ accounts[a].status = "active"
                       /\ accounts[a].openid = req[r].openid
                       /\ ~UnionConflict(a, req[r].unionid)
           /\ a = r => AccountsOf(req[r].openid) = {}
<1>1. /\ RequestInv(r) /\ req[r] \in Request /\ CallKnows(r) /\ LockedRowsStand(r)
      /\ accounts \in [Requests -> Account]
  BY DEF ServiceInv, AccountsInv, SessionsInv, TypeOK
<1>2. req[r].pc = "commit" /\ req[r].op = "login"
  BY DEF CommitLogin
<1>3. /\ req[r].account \in Requests /\ req[r].openid \in OpenIDs /\ req[r].now \in Times
      /\ sessions[r].state = "absent" /\ ~Committed(r)
  BY <1>1, <1>2 DEF RequestInv, CallKnows, Request
<1>4. /\ accounts'[req[r].account] = LoggedIn(r)
      /\ \A b \in Requests \ {req[r].account} : accounts'[b] = accounts[b]
  BY <1>1, <1>3 DEF CommitLogin
<1>5. /\ sessions'[r] = NewSession(r)
      /\ \A t \in Requests \ {r} :
            sessions'[t] = IF Replaces(r, t) THEN RevokedRow(t, req[r].now)
                           ELSE sessions[t]
  BY DEF CommitLogin
<1>6. req[r].account # r => /\ accounts[req[r].account].status = "active"
                            /\ accounts[req[r].account].openid = req[r].openid
                            /\ ~UnionConflict(req[r].account, req[r].unionid)
  BY <1>1, <1>2 DEF RequestInv, LockedRowsStand
<1>7. req[r].account = r => AccountsOf(req[r].openid) = {}
  BY <1>1, <1>2, <1>3 DEF RequestInv
<1> QED
  BY <1>2, <1>3, <1>4, <1>5, <1>6, <1>7

\* A revocation ends the session and changes neither its owner nor its term.
LEMMA RevokedRowFields ==
    ASSUME TypeOK, NEW t \in Requests, NEW now
    PROVE  /\ RevokedRow(t, now).state = "revoked"
           /\ RevokedRow(t, now).account = sessions[t].account
           /\ RevokedRow(t, now).createdAt = sessions[t].createdAt
           /\ RevokedRow(t, now).expiresAt = sessions[t].expiresAt
           /\ RevokedRow(t, now).revokedAt = Later(now, sessions[t].createdAt)
           /\ RevokedRow(t, now).consent = sessions[t].consent
<1>1. sessions[t] \in Session
  BY DEF TypeOK
<1> QED
  BY <1>1 DEF RevokedRow, Session

\* An operation a session authorizes commits on a row it has locked, while the
\* session that authorized it is live and the user active.
LEMMA AuthorizedEffect ==
    ASSUME ServiceInv, NEW r \in Requests, CommitAuthorized(r)
    PROVE  LET a == req[r].account IN
           /\ req[r].op \in AuthorizedOps /\ req[r].op # "login" /\ req[r].pc = "commit"
           /\ a \in Requests /\ a # r /\ accounts[a].status = "active"
           /\ req[r].token \in Requests
           /\ sessions[req[r].token].state = "live"
           /\ sessions[req[r].token].account = a
           /\ accounts'[a] = Written(r)
           /\ \A b \in Requests \ {a} : accounts'[b] = accounts[b]
           /\ Written(r).status = accounts[a].status
           /\ Written(r).openid = accounts[a].openid
           /\ Written(r).unionid = accounts[a].unionid
           /\ Written(r).phone = accounts[a].phone
<1>1. /\ RequestInv(r) /\ req[r] \in Request /\ LockedRowsStand(r)
      /\ accounts \in [Requests -> Account]
  BY DEF ServiceInv, AccountsInv, SessionsInv, TypeOK
<1>2. req[r].pc = "commit" /\ req[r].op \in AuthorizedOps /\ req[r].op # "login"
  BY ConstantsAssumption DEF CommitAuthorized
<1>3. req[r].account \in Requests /\ req[r].account # r
  BY <1>1, <1>2 DEF RequestInv
<1>4. /\ accounts[req[r].account].status = "active" /\ req[r].token # None
      /\ sessions[req[r].token].state = "live"
      /\ sessions[req[r].token].account = req[r].account
  BY <1>1, <1>2, <1>3 DEF LockedRowsStand
<1>5. req[r].token \in Requests
  BY <1>1, <1>4 DEF Request
<1>6. /\ accounts'[req[r].account] = Written(r)
      /\ \A b \in Requests \ {req[r].account} : accounts'[b] = accounts[b]
  BY <1>1, <1>3 DEF CommitAuthorized
<1>7. accounts[req[r].account] \in Account
  BY <1>1, <1>3
<1>8. /\ Written(r).status = accounts[req[r].account].status
      /\ Written(r).openid = accounts[req[r].account].openid
      /\ Written(r).unionid = accounts[req[r].account].unionid
      /\ Written(r).phone = accounts[req[r].account].phone
  BY <1>7 DEF Written, Account
<1> QED
  BY <1>2, <1>3, <1>4, <1>5, <1>6, <1>8

\* A transaction that holds locks holds them on rows it has read: no two hold
\* the same account, and one that is not a login holds its session too.
LEMMA OthersHold ==
    ASSUME ServiceInv, NEW s \in Requests, req[s].pc \in {"save", "commit"}
    PROVE  /\ req[s].account \in Requests
           /\ \A r \in Requests \ {s} :
                req[r].pc \in {"save", "commit"} => req[r].account # req[s].account
           /\ req[s].op # "login" =>
                /\ req[s].account # s /\ req[s].token \in Requests
                /\ sessions[req[s].token].state = "live"
                /\ sessions[req[s].token].account = req[s].account
                /\ req[s].pc = "commit"
<1>1. RequestInv(s) /\ req[s] \in Request /\ LockedRowsStand(s)
  BY DEF ServiceInv, AccountsInv, SessionsInv, TypeOK
<1>2. req[s].account \in Requests
  BY <1>1 DEF RequestInv
<1>3. \A r \in Requests \ {s} :
        req[r].pc \in {"save", "commit"} => req[r].account # req[s].account
  BY DEF ServiceInv, SessionsInv, OneHolder
<1>4. ASSUME req[s].op # "login"
      PROVE  /\ req[s].account # s /\ req[s].token \in Requests
             /\ sessions[req[s].token].state = "live"
             /\ sessions[req[s].token].account = req[s].account
             /\ req[s].pc = "commit"
  <2>1. req[s].account # s /\ req[s].pc = "commit"
    BY <1>1, <1>4 DEF RequestInv
  <2> QED
    BY <1>1, <1>4, <2>1 DEF LockedRowsStand, Request
<1> QED
  BY <1>2, <1>3, <1>4

LEMMA LoginSessions ==
    ASSUME ServiceInv, NEW r \in Requests, CommitLogin(r)
    PROVE  SessionsInv'
<1> DEFINE a == req[r].account
<1>1. /\ a \in Requests /\ req[r].op = "login" /\ req[r].pc = "commit"
      /\ req[r].openid \in OpenIDs /\ req[r].now \in Times
      /\ accounts'[a] = LoggedIn(r)
      /\ \A b \in Requests \ {a} : accounts'[b] = accounts[b]
      /\ sessions[r].state = "absent" /\ ~Committed(r)
      /\ sessions'[r] = NewSession(r)
      /\ \A t \in Requests \ {r} :
           sessions'[t] = IF Replaces(r, t) THEN RevokedRow(t, req[r].now)
                          ELSE sessions[t]
      /\ a # r => /\ accounts[a].status = "active"
                  /\ accounts[a].openid = req[r].openid
                  /\ ~UnionConflict(a, req[r].unionid)
  BY LoginEffect
<1>2. /\ a # r => /\ LoggedIn(r).openid = accounts[a].openid
                  /\ LoggedIn(r).unionid = IF accounts[a].unionid = None THEN req[r].unionid
                                           ELSE accounts[a].unionid
      /\ a = r => LoggedIn(r).openid = req[r].openid /\ LoggedIn(r).unionid = req[r].unionid
  BY <1>1, LoggedInRow DEF ServiceInv
<1>3. PICK answer \in Answers : Answer(r, answer) /\ clock' = clock
  BY DEF CommitLogin, Answers
<1>4. /\ NewSession(r).state = "live" /\ NewSession(r).account = a
      /\ CallKnows(r) /\ req[r].token \in Requests \cup {None}
  BY DEF NewSession, ServiceInv, SessionsInv, TypeOK, Request
<1>5. /\ req'[r].openid = req[r].openid /\ req'[r].unionid = req[r].unionid
  BY <1>3, AnswerRecord DEF ServiceInv
<1>6. \A b \in Requests : Committed(b) =>
        /\ accounts'[b].openid = accounts[b].openid
        /\ accounts[b].unionid \in {None, accounts'[b].unionid}
  BY <1>1, <1>2
<1>7. \A b \in Requests : Committed(b)' => accounts'[b].openid \in OpenIDs
  BY <1>1, <1>2 DEF ServiceInv, SessionsInv, Committed
<1>8. ASSUME NEW s \in Requests \ {r}, req[s].pc \in {"save", "commit"}
      PROVE  /\ req[s].account # s => accounts'[req[s].account] = accounts[req[s].account]
             /\ req[s].op # "login" => sessions'[req[s].token] = sessions[req[s].token]
  <2>1. req[s].account \in Requests /\ req[s].account # a
    BY <1>1, <1>8, OthersHold
  <2>2. ASSUME req[s].op # "login"
        PROVE  sessions'[req[s].token] = sessions[req[s].token]
    <3>1. /\ req[s].token \in Requests /\ sessions[req[s].token].state = "live"
          /\ sessions[req[s].token].account = req[s].account
      BY <1>8, <2>2, OthersHold
    <3>2. req[s].token # r /\ ~Replaces(r, req[s].token)
      BY <1>1, <2>1, <3>1 DEF Replaces
    <3> QED
      BY <1>1, <3>1, <3>2
  <2> QED
    BY <1>1, <2>1, <2>2
<1>9. \A t \in Requests \ {r} :
        \/ sessions'[t] = sessions[t]
        \/ /\ sessions[t].state = "live" /\ sessions'[t].state = "revoked"
           /\ sessions'[t].account = sessions[t].account
  BY <1>1, RevokedRowFields DEF Replaces, ServiceInv
<1>10. SessionKnows(r)'
  BY <1>1, <1>2, <1>4, <1>5 DEF SessionKnows, UnionConflict
<1>11. ASSUME req[r].token # None, sessions[req[r].token].account = a
       PROVE  sessions'[req[r].token].state = "revoked"
  <2>1. /\ req[r].token \in Requests \ {r}
        /\ sessions[req[r].token].state \in {"live", "revoked"}
    BY <1>4, <1>11 DEF CallKnows, ServiceInv, TypeOK, Session
  <2>2. CASE Replaces(r, req[r].token)
    BY <1>1, <2>1, <2>2, RevokedRowFields DEF ServiceInv
  <2>3. CASE ~Replaces(r, req[r].token)
    BY <1>1, <1>11, <2>1, <2>3 DEF Replaces
  <2> QED
    BY <2>2, <2>3
<1>12. sessions'[r].state = "live" /\ sessions'[r].account = a
  BY <1>1, <1>4
<1> HIDE DEF a
<1> QED
  BY <1>1, <1>3, <1>6, <1>7, <1>8, <1>9, <1>10, <1>11, <1>12, TableSessionStep

LEMMA AuthorizedSessions ==
    ASSUME ServiceInv, NEW r \in Requests, CommitAuthorized(r)
    PROVE  SessionsInv'
<1> DEFINE a == req[r].account
<1>1. /\ req[r].op # "login" /\ req[r].pc = "commit" /\ a \in Requests
      /\ accounts'[a] = Written(r)
      /\ \A b \in Requests \ {a} : accounts'[b] = accounts[b]
      /\ Written(r).status = accounts[a].status
      /\ Written(r).openid = accounts[a].openid
      /\ Written(r).unionid = accounts[a].unionid
  BY AuthorizedEffect
<1>2. PICK answer \in Answers : Answer(r, answer) /\ clock' = clock
  BY DEF CommitAuthorized, Answers
<1>3. sessions' = sessions
  BY DEF CommitAuthorized
<1>4. \A b \in Requests : /\ accounts'[b].openid = accounts[b].openid
                         /\ accounts'[b].unionid = accounts[b].unionid
                         /\ accounts'[b].status = accounts[b].status
  BY <1>1
<1>5. \A s \in Requests \ {r} : req[s].pc \in {"save", "commit"} =>
        accounts'[req[s].account] = accounts[req[s].account]
  BY <1>1, OthersHold
<1>6. \A b \in Requests : Committed(b)' => accounts'[b].openid \in OpenIDs
  BY <1>4 DEF ServiceInv, SessionsInv, Committed
<1> QED
  BY <1>1, <1>2, <1>3, <1>4, <1>5, <1>6, TableSessionStep

LEMMA RevokeSessions ==
    ASSUME ServiceInv, NEW r \in Requests, Revoke(r)
    PROVE  SessionsInv'
<1>1. req[r].pc = "revoke" /\ clock' = clock /\ accounts' = accounts
  BY DEF Revoke
<1>2. PICK answer \in Answers : Answer(r, answer)
  BY DEF Revoke, Answers
<1>3. req[r].op # "login" /\ sessions[r].state = "absent"
      /\ req[r].token \in Requests \cup {None} /\ sessions \in [Requests -> Session]
  BY <1>1 DEF ServiceInv, SessionsInv, CallKnows, AccountsInv, RequestInv, TypeOK, Request
<1>4. \A b \in Requests : Committed(b)' => accounts'[b].openid \in OpenIDs
  BY <1>1 DEF ServiceInv, SessionsInv, Committed
<1>5. \/ sessions' = sessions
      \/ /\ req[r].token \in Requests \ {r}
         /\ sessions[req[r].token].state = "live"
         /\ SessionHolders(req[r].token) = {}
         /\ sessions'[req[r].token] = RevokedRow(req[r].token, req[r].now)
         /\ \A t \in Requests \ {req[r].token} : sessions'[t] = sessions[t]
  BY <1>3 DEF Revoke
<1>6. \A t \in Requests :
        \/ sessions'[t] = sessions[t]
        \/ /\ sessions[t].state = "live" /\ sessions'[t].state = "revoked"
           /\ sessions'[t].account = sessions[t].account
  BY <1>5, RevokedRowFields DEF ServiceInv
<1>7. ASSUME NEW s \in Requests \ {r}, req[s].pc \in {"save", "commit"}, req[s].op # "login"
      PROVE  sessions'[req[s].token] = sessions[req[s].token]
  <2>1. /\ req[s].token \in Requests /\ req[s].pc = "commit"
        /\ sessions[req[s].token].account = req[s].account
    BY <1>7, OthersHold
  <2>2. s \in SessionHolders(req[s].token)
    BY <2>1 DEF SessionHolders
  <2> QED
    BY <1>5, <2>1, <2>2
<1>8. sessions'[r] = sessions[r]
  BY <1>3, <1>6
<1> QED
  BY <1>1, <1>2, <1>3, <1>4, <1>6, <1>7, <1>8, TableSessionStep

\* Disabling a user waits for the row lock: nobody who has read the row still
\* counts on it.
LEMMA DisableSessions ==
    ASSUME ServiceInv, NEW a \in Requests, Disable(a)
    PROVE  SessionsInv'
<1>1. /\ clock' = clock /\ sessions' = sessions /\ req' = req /\ Holders(a) = {}
  BY DEF Disable
<1>8. /\ accounts'[a].openid = accounts[a].openid
      /\ accounts'[a].unionid = accounts[a].unionid
      /\ accounts[a].status # "absent"
      /\ \A b \in Requests \ {a} : accounts'[b] = accounts[b]
  <2>1. accounts[a] \in Account /\ accounts \in [Requests -> Account]
    BY DEF ServiceInv, TypeOK
  <2> QED
    BY <2>1 DEF Disable, Account
<1>9. \A b \in Requests : /\ accounts'[b].openid = accounts[b].openid
                         /\ accounts'[b].unionid = accounts[b].unionid
  BY <1>8
<1>2. ASSUME NEW r \in Requests PROVE LockedRowsStand(r)'
  <2>1. CASE req[r].pc \in {"save", "commit"}
    <3>1. req[r].account # a /\ req[r].account \in Requests
      BY <1>1, <2>1, OthersHold DEF Holders
    <3>2. LockedRowsStand(r)
      BY DEF ServiceInv, SessionsInv
    <3>3. accounts'[req[r].account] = accounts[req[r].account]
      BY <1>8, <3>1
    <3> QED
      BY <1>1, <3>2, <3>3 DEF LockedRowsStand, UnionConflict
  <2>2. CASE req[r].pc \notin {"save", "commit"}
    BY <1>1, <2>2 DEF LockedRowsStand
  <2> QED
    BY <2>1, <2>2
<1>3. ASSUME NEW r \in Requests PROVE CallKnows(r)'
  BY <1>1 DEF ServiceInv, SessionsInv, CallKnows
<1>4. OneHolder'
  BY <1>1 DEF ServiceInv, SessionsInv, OneHolder
<1>5. ASSUME NEW t \in Requests PROVE SessionKnows(t)'
  <2>1. sessions[t].state # "absent" => sessions[t].account \in Requests
    BY DEF ServiceInv, AccountsInv
  <2>2. SessionKnows(t)
    BY DEF ServiceInv, SessionsInv
  <2> QED
    BY <1>1, <1>9, <2>1, <2>2 DEF SessionKnows
<1>6. ReplacedSessionRevoked'
  BY <1>1 DEF ServiceInv, SessionsInv, ReplacedSessionRevoked
<1>7. \A b \in Requests : Committed(b)' => accounts'[b].openid \in OpenIDs
  BY <1>8 DEF ServiceInv, SessionsInv, Committed
<1> QED
  BY <1>2, <1>3, <1>4, <1>5, <1>6, <1>7 DEF SessionsInv, Committed

LEMMA SessionsInvStep == ServiceInv /\ [Next]_vars => SessionsInv'
<1> SUFFICES ASSUME ServiceInv, [Next]_vars
             PROVE  SessionsInv'
  OBVIOUS
<1>1. ASSUME NEW r \in Requests, Fail(r)
      PROVE  SessionsInv'
  <2>1. /\ Answer(r, "UNAVAILABLE") /\ req[r].pc # "done"
        /\ UNCHANGED <<clock, accounts, sessions>>
    BY <1>1 DEF Fail, InFlight
  <2> QED
    BY <2>1, AnswerSessionStep DEF Answers
<1>2. CASE UNCHANGED <<accounts, sessions, req>> /\ (Tick \/ UNCHANGED vars)
  <2>1. accounts' = accounts /\ sessions' = sessions /\ req' = req
    BY <1>2
  <2>2. clock \in Nat /\ (clock' = clock \/ clock' = clock + 1)
    BY <1>2, ConstantsAssumption DEF Tick, vars, ServiceInv, TypeOK, Times
  <2>3. ASSUME NEW r \in Requests PROVE CallKnows(r)'
    <3>1. CallKnows(r) /\ req[r].now \in Nat
      BY ConstantsAssumption DEF ServiceInv, SessionsInv, TypeOK, Request, Times
    <3>2. req[r].now <= clock'
      BY <2>2, <3>1 DEF CallKnows
    <3> QED
      BY <2>1, <3>1, <3>2 DEF CallKnows
  <2>4. ASSUME NEW r \in Requests PROVE LockedRowsStand(r)' /\ SessionKnows(r)'
    BY <2>1 DEF ServiceInv, SessionsInv, LockedRowsStand, UnionConflict, SessionKnows
  <2>5. OneHolder' /\ ReplacedSessionRevoked'
    BY <2>1 DEF ServiceInv, SessionsInv, OneHolder, ReplacedSessionRevoked
  <2>6. \A a \in Requests : Committed(a)' => accounts'[a].openid \in OpenIDs
    BY <2>1 DEF ServiceInv, SessionsInv, Committed
  <2> QED
    BY <2>3, <2>4, <2>5, <2>6 DEF SessionsInv, Committed
<1> QED
  BY <1>1, <1>2, StartSessionStep, LoginSessionStep, ReadSessionStep, LoginSessions,
     AuthorizedSessions, RevokeSessions, DisableSessions
     DEF Next, Serve, Tick, vars

LEMMA SessionsInvInit == Init => SessionsInv
BY ConstantsAssumption DEF Init, SessionsInv, CallKnows, LockedRowsStand, OneHolder,
   SessionKnows, ReplacedSessionRevoked, Committed, NoAccount, NoSession, NoRequest

\* In every reachable state the accounts, the sessions and the calls are in
\* order: what a transaction read under a lock is still so while it holds it,
\* and a session belongs to the openid WeChat returned for its login.
THEOREM ServiceInvariant == Spec => []ServiceInv
<1>1. Init => ServiceInv
  BY TypeInit, AccountsInvInit, SessionsInvInit DEF ServiceInv
<1>2. ServiceInv /\ [Next]_vars => ServiceInv'
  BY TypeStep, AccountsInvStep, SessionsInvStep DEF ServiceInv
<1> QED
  BY <1>1, <1>2, PTL DEF Spec

\* A session gives access to the account of the openid that WeChat returned to
\* the login that opened it, whatever conflicts and retries lay between.
THEOREM SessionsMatch == Spec => []SessionMatchesExchange
<1>1. ServiceInv => SessionMatchesExchange
  BY DEF ServiceInv, AccountsInv, SessionsInv, SessionKnows, SessionMatchesExchange
<1> QED
  BY <1>1, ServiceInvariant, PTL

\* A session that a later login of the same identity named is revoked for good,
\* also when its logout or another login ran at the same time.
THEOREM ReplacedSessionsEnd == Spec => []ReplacedSessionRevoked
<1>1. ServiceInv => ReplacedSessionRevoked
  BY DEF ServiceInv, SessionsInv
<1> QED
  BY <1>1, ServiceInvariant, PTL

\* No logout or disablement slips in between the check of a session and the
\* commit of the write it authorizes.
THEOREM AuthorizedWrites == Spec => WritesAreAuthorized
<1> DEFINE Changed(a) == \/ accounts'[a].nickname # accounts[a].nickname
                         \/ accounts'[a].avatar # accounts[a].avatar
                         \/ accounts'[a].stocks # accounts[a].stocks
           Authorized(a) ==
             /\ accounts[a].status = "active"
             /\ \E r \in Requests :
                  /\ req[r].pc = "commit" /\ req'[r].pc = "done"
                  /\ sessions[req[r].token].state = "live"
                  /\ sessions[req[r].token].account = a
<1>1. ASSUME ServiceInv, [Next]_vars, NEW a \in Requests, Committed(a), Changed(a)
      PROVE  Authorized(a)
  <2>1. accounts' # accounts
    BY <1>1
  <2>2. CASE \E r \in Requests : CommitAuthorized(r)
    <3>1. PICK r \in Requests : CommitAuthorized(r)
      BY <2>2
    <3>2. /\ req[r].pc = "commit" /\ accounts[req[r].account].status = "active"
          /\ sessions[req[r].token].state = "live"
          /\ sessions[req[r].token].account = req[r].account
          /\ \A b \in Requests \ {req[r].account} : accounts'[b] = accounts[b]
      BY <1>1, <3>1, AuthorizedEffect
    <3>3. req'[r].pc = "done"
      <4>1. PICK answer \in Answers : Answer(r, answer)
        BY <3>1 DEF CommitAuthorized, Answers
      <4> QED
        BY <1>1, <4>1, AnswerRecord DEF ServiceInv
    <3>4. a = req[r].account
      BY <1>1, <3>2
    <3> QED
      BY <3>2, <3>3, <3>4
  <2>3. CASE \E r \in Requests : CommitLogin(r)
    <3>1. PICK r \in Requests : CommitLogin(r)
      BY <2>3
    <3>2. /\ req[r].account \in Requests /\ ~Committed(r)
          /\ accounts'[req[r].account] = LoggedIn(r)
          /\ \A b \in Requests \ {req[r].account} : accounts'[b] = accounts[b]
      BY <1>1, <3>1, LoginEffect
    <3>3. a # r /\ a = req[r].account
      BY <1>1, <3>2
    <3>4. /\ LoggedIn(r).nickname = accounts[a].nickname
          /\ LoggedIn(r).avatar = accounts[a].avatar
          /\ LoggedIn(r).stocks = accounts[a].stocks
      BY <1>1, <3>3, LoggedInRow DEF ServiceInv
    <3> QED
      BY <1>1, <3>2, <3>3, <3>4
  <2>4. CASE \E b \in Requests : Disable(b)
    <3>1. accounts \in [Requests -> Account]
      BY <1>1 DEF ServiceInv, TypeOK
    <3>2. PICK b \in Requests : accounts' = [accounts EXCEPT ![b].status = "disabled"]
      BY <2>4 DEF Disable
    <3>3. /\ accounts'[a].nickname = accounts[a].nickname
          /\ accounts'[a].avatar = accounts[a].avatar
          /\ accounts'[a].stocks = accounts[a].stocks
      BY <3>1, <3>2 DEF Account
    <3> QED
      BY <1>1, <3>3
  <2>5. \/ \E r \in Requests : CommitAuthorized(r) \/ CommitLogin(r) \/ Disable(r)
        \/ accounts' = accounts
    BY <1>1 DEF Next, vars, Start, StartLogin, StartVerify, StartRevoke, StartAuthorized,
       Serve, Exchange, FindAccount, FindNothing, Create, Save, Lookup, Judge, Revoke,
       Authorize, Fail, Tick
  <2> QED
    BY <2>1, <2>2, <2>3, <2>4, <2>5
<1>2. ServiceInv /\ [Next]_vars =>
        [\A a \in Requests : Committed(a) /\ Changed(a) => Authorized(a)]_vars
  BY <1>1
<1> QED
  BY <1>2, ServiceInvariant, PTL DEF Spec, WritesAreAuthorized

-----------------------------------------------------------------------------
(* The service implements its registry *)

\* The profile of an openid is the row of its only account.
LEMMA ProfileOfAccount ==
    ASSUME ServiceInv, NEW a \in Requests, Committed(a), NEW o, accounts[a].openid = o
    PROVE  ProfileOf(o) =
             [status |-> accounts[a].status, unionid |-> accounts[a].unionid,
              phone |-> accounts[a].phone, nickname |-> accounts[a].nickname,
              avatar |-> accounts[a].avatar, stocks |-> accounts[a].stocks]
<1> DEFINE c == CHOOSE b \in Requests : b \in AccountsOf(o)
<1>1. a \in AccountsOf(o)
  BY DEF AccountsOf
<1>2. c \in Requests /\ c \in AccountsOf(o)
  BY <1>1
<1>3. c = a
  BY <1>2 DEF AccountsOf, ServiceInv, AccountsInv, OneAccountPerOpenID
<1>4. AccountsOf(o) # {}
  BY <1>1
<1> QED
  BY <1>3, <1>4 DEF ProfileOf

LEMMA ProfileOfNobody ==
    ASSUME NEW o, AccountsOf(o) = {}
    PROVE  ProfileOf(o) = [status |-> "absent", unionid |-> None, phone |-> None,
                           nickname |-> None, avatar |-> None, stocks |-> {}]
BY DEF ProfileOf, NoAccount

\* The same, of the state a step leads to.
LEMMA NextProfileOfAccount ==
    ASSUME ServiceInv', NEW a \in Requests, accounts'[a].status # "absent",
           NEW o, accounts'[a].openid = o
    PROVE  ProfileOf(o)' =
             [status |-> accounts'[a].status, unionid |-> accounts'[a].unionid,
              phone |-> accounts'[a].phone, nickname |-> accounts'[a].nickname,
              avatar |-> accounts'[a].avatar, stocks |-> accounts'[a].stocks]
<1> DEFINE c == CHOOSE b \in Requests : b \in AccountsOf(o)'
<1>1. a \in AccountsOf(o)'
  BY DEF AccountsOf, Committed
<1>2. c \in Requests /\ c \in AccountsOf(o)'
  BY <1>1
<1>3. c = a
  BY <1>2 DEF AccountsOf, ServiceInv, AccountsInv, OneAccountPerOpenID, Committed
<1>4. AccountsOf(o)' # {}
  BY <1>1
<1> QED
  BY <1>3, <1>4 DEF ProfileOf

\* A profile depends on the accounts of its openid only.
LEMMA ProfileStays ==
    ASSUME NEW o, \A a \in Requests :
             accounts'[a] = accounts[a]
             \/ /\ accounts'[a].openid # o
                /\ accounts[a].status # "absent" => accounts[a].openid # o
    PROVE  ProfileOf(o)' = ProfileOf(o)
<1> DEFINE c == CHOOSE a \in Requests : a \in AccountsOf(o)
<1>1. AccountsOf(o)' = AccountsOf(o)
  BY DEF AccountsOf, Committed
<1>2. CASE AccountsOf(o) = {}
  BY <1>1, <1>2 DEF ProfileOf
<1>3. CASE AccountsOf(o) # {}
  <2>1. PICK b \in Requests : b \in AccountsOf(o)
    BY <1>3 DEF AccountsOf
  <2>2. c \in Requests /\ c \in AccountsOf(o)
    BY <2>1
  <2>3. accounts'[c] = accounts[c]
    BY <2>2 DEF AccountsOf, Committed
  <2> HIDE DEF c
  <2>4. (CHOOSE a \in Requests : a \in AccountsOf(o)') = c
    BY <1>1 DEF c
  <2> QED
    BY <1>1, <1>3, <2>3, <2>4 DEF ProfileOf, c
<1> QED
  BY <1>2, <1>3

Profile == [status  : {"absent", "active", "disabled"},
            unionid : UnionIDs \cup {None}, phone : Requests \cup {None},
            nickname : Requests \cup {None}, avatar : Requests \cup {None},
            stocks : SUBSET Stocks]

LEMMA ProfileType ==
    ASSUME ServiceInv, NEW o PROVE ProfileOf(o) \in Profile
<1>1. CASE AccountsOf(o) = {}
  BY <1>1, ProfileOfNobody DEF Profile
<1>2. CASE AccountsOf(o) # {}
  <2>1. PICK a \in Requests : Committed(a) /\ accounts[a].openid = o
    BY <1>2 DEF AccountsOf
  <2>2. accounts[a] \in Account
    BY DEF ServiceInv, TypeOK
  <2> QED
    BY <2>1, <2>2, ProfileOfAccount DEF Profile, Account
<1> QED
  BY <1>1, <1>2

LEMMA NextProfileType ==
    ASSUME ServiceInv', NEW o PROVE ProfileOf(o)' \in Profile
<1>1. CASE AccountsOf(o)' = {}
  BY <1>1 DEF ProfileOf, NoAccount, Profile
<1>2. CASE AccountsOf(o)' # {}
  <2>1. PICK a \in Requests : accounts'[a].status # "absent" /\ accounts'[a].openid = o
    BY <1>2 DEF AccountsOf, Committed
  <2>2. accounts'[a] \in Account
    BY DEF ServiceInv, TypeOK
  <2> QED
    BY <2>1, <2>2, NextProfileOfAccount DEF Profile, Account
<1> QED
  BY <1>1, <1>2

\* The profile a login commits.
LEMMA LoginProfile ==
    ASSUME ServiceInv, ServiceInv', NEW r \in Requests, CommitLogin(r),
           NEW o \in OpenIDs, req[r].openid = o
    PROVE
           /\ ProfileOf(o).status # "disabled"
           /\ \/ req[r].unionid \in {None, ProfileOf(o).unionid}
              \/ ProfileOf(o).unionid = None
           /\ ProfileOf(o)'.status = "active"
           /\ ProfileOf(o)'.unionid = IF ProfileOf(o).unionid = None THEN req[r].unionid
                                      ELSE ProfileOf(o).unionid
           /\ ProfileOf(o)'.phone = IF req[r].phone THEN r ELSE ProfileOf(o).phone
           /\ ProfileOf(o)'.nickname = ProfileOf(o).nickname
           /\ ProfileOf(o)'.avatar = ProfileOf(o).avatar
           /\ ProfileOf(o)'.stocks = ProfileOf(o).stocks
           /\ \A x \in OpenIDs \ {o} : ProfileOf(x)' = ProfileOf(x)
<1> DEFINE a == req[r].account
<1>1. /\ a \in Requests
      /\ accounts'[a] = LoggedIn(r)
      /\ \A b \in Requests \ {a} : accounts'[b] = accounts[b]
      /\ ~Committed(r)
      /\ a # r => /\ accounts[a].status = "active"
                  /\ accounts[a].openid = o
                  /\ ~UnionConflict(a, req[r].unionid)
      /\ a = r => AccountsOf(o) = {}
  BY LoginEffect
<1>2. /\ a # r => /\ LoggedIn(r).status = accounts[a].status
                  /\ LoggedIn(r).openid = accounts[a].openid
                  /\ LoggedIn(r).unionid = IF accounts[a].unionid = None THEN req[r].unionid
                                           ELSE accounts[a].unionid
                  /\ LoggedIn(r).phone = IF req[r].phone THEN r ELSE accounts[a].phone
                  /\ LoggedIn(r).nickname = accounts[a].nickname
                  /\ LoggedIn(r).avatar = accounts[a].avatar
                  /\ LoggedIn(r).stocks = accounts[a].stocks
      /\ a = r => /\ LoggedIn(r).status = "active"
                  /\ LoggedIn(r).openid = o
                  /\ LoggedIn(r).unionid = req[r].unionid
                  /\ LoggedIn(r).phone = IF req[r].phone THEN r ELSE None
                  /\ LoggedIn(r).nickname = None /\ LoggedIn(r).avatar = None
                  /\ LoggedIn(r).stocks = {}
  BY <1>1, LoggedInRow DEF ServiceInv
<1>3. accounts'[a].status = "active" /\ accounts'[a].openid = o
  BY <1>1, <1>2
<1>4. ProfileOf(o)' =
        [status |-> accounts'[a].status, unionid |-> accounts'[a].unionid,
         phone |-> accounts'[a].phone, nickname |-> accounts'[a].nickname,
         avatar |-> accounts'[a].avatar, stocks |-> accounts'[a].stocks]
  <2>1. PICK b \in Requests : b = a
    BY <1>1
  <2> QED
    BY <1>3, <2>1, NextProfileOfAccount
<1>5. ASSUME NEW x \in OpenIDs \ {o} PROVE ProfileOf(x)' = ProfileOf(x)
  <2>1. \A b \in Requests :
             \/ accounts'[b] = accounts[b]
             \/ /\ accounts'[b].openid # x
                /\ accounts[b].status # "absent" => accounts[b].openid # x
    BY <1>1, <1>3 DEF Committed
  <2> QED
    BY <2>1, ProfileStays
<1>8. /\ ProfileOf(o)'.status = "active" /\ ProfileOf(o)'.unionid = LoggedIn(r).unionid
      /\ ProfileOf(o)'.phone = LoggedIn(r).phone
      /\ ProfileOf(o)'.nickname = LoggedIn(r).nickname
      /\ ProfileOf(o)'.avatar = LoggedIn(r).avatar
      /\ ProfileOf(o)'.stocks = LoggedIn(r).stocks
  BY <1>1, <1>3, <1>4
<1> DEFINE Added ==
             /\ ProfileOf(o).status # "disabled"
             /\ \/ req[r].unionid \in {None, ProfileOf(o).unionid}
                \/ ProfileOf(o).unionid = None
             /\ ProfileOf(o)'.status = "active"
             /\ ProfileOf(o)'.unionid = IF ProfileOf(o).unionid = None THEN req[r].unionid
                                        ELSE ProfileOf(o).unionid
             /\ ProfileOf(o)'.phone = IF req[r].phone THEN r ELSE ProfileOf(o).phone
             /\ ProfileOf(o)'.nickname = ProfileOf(o).nickname
             /\ ProfileOf(o)'.avatar = ProfileOf(o).avatar
             /\ ProfileOf(o)'.stocks = ProfileOf(o).stocks
<1>6. ASSUME a = r PROVE Added
  <2>1. ProfileOf(o) = [status |-> "absent", unionid |-> None, phone |-> None,
                        nickname |-> None, avatar |-> None, stocks |-> {}]
    BY <1>1, <1>6, ProfileOfNobody
  <2>2. /\ ProfileOf(o).status = "absent" /\ ProfileOf(o).unionid = None
        /\ ProfileOf(o).phone = None /\ ProfileOf(o).nickname = None
        /\ ProfileOf(o).avatar = None /\ ProfileOf(o).stocks = {}
    BY <2>1
  <2> QED
    BY <1>1, <1>2, <1>6, <1>8, <2>2
<1>7. ASSUME a # r PROVE Added
  <2>1. ProfileOf(o) =
          [status |-> accounts[a].status, unionid |-> accounts[a].unionid,
           phone |-> accounts[a].phone, nickname |-> accounts[a].nickname,
           avatar |-> accounts[a].avatar, stocks |-> accounts[a].stocks]
    <3>1. Committed(a)
      BY <1>1, <1>7 DEF Committed
    <3> HIDE DEF a
    <3> QED
      BY <1>1, <1>7, <3>1, ProfileOfAccount
  <2>2. /\ ProfileOf(o).status = accounts[a].status
        /\ ProfileOf(o).unionid = accounts[a].unionid
        /\ ProfileOf(o).phone = accounts[a].phone
        /\ ProfileOf(o).nickname = accounts[a].nickname
        /\ ProfileOf(o).avatar = accounts[a].avatar
        /\ ProfileOf(o).stocks = accounts[a].stocks
    BY <2>1
  <2> QED
    BY <1>1, <1>2, <1>7, <1>8, <2>2 DEF UnionConflict
<1> QED
  BY <1>1, <1>5, <1>6, <1>7

\* A revocation of a session is one of the registry's.
LEMMA RevocationMaps ==
    ASSUME ServiceInv, ServiceInv', NEW t \in Requests, NEW now,
           sessions[t].state = "live", sessions'[t] = RevokedRow(t, now),
           req'[t].openid = req[t].openid
    PROVE  OwnedSession(t)' = [OwnedSession(t) EXCEPT
             !.state = "revoked", !.revokedAt = Later(now, OwnedSession(t).createdAt)]
<1>1. /\ accounts[sessions[t].account].openid = req[t].openid
      /\ sessions'[t].state = "revoked"
      /\ sessions'[t].createdAt = sessions[t].createdAt
      /\ sessions'[t].expiresAt = sessions[t].expiresAt
      /\ sessions'[t].revokedAt = Later(now, sessions[t].createdAt)
      /\ sessions'[t].consent = sessions[t].consent
  BY RevokedRowFields DEF ServiceInv, SessionsInv, SessionKnows
<1>2. accounts'[sessions'[t].account].openid = req[t].openid
  BY <1>1 DEF ServiceInv, SessionsInv, SessionKnows
<1>3. OwnedSession(t)' =
        [state |-> "revoked", owner |-> req[t].openid,
         createdAt |-> sessions[t].createdAt, expiresAt |-> sessions[t].expiresAt,
         revokedAt |-> Later(now, sessions[t].createdAt), consent |-> sessions[t].consent]
  BY <1>1, <1>2 DEF OwnedSession
<1>4. OwnedSession(t) =
        [state |-> "live", owner |-> req[t].openid,
         createdAt |-> sessions[t].createdAt, expiresAt |-> sessions[t].expiresAt,
         revokedAt |-> sessions[t].revokedAt, consent |-> sessions[t].consent]
  BY <1>1 DEF OwnedSession
<1>5. OwnedSession(t)' = [OwnedSession(t) EXCEPT
         !.state = "revoked", !.revokedAt = Later(now, sessions[t].createdAt)]
  <2> DEFINE at == Later(now, sessions[t].createdAt)
             Row == [state : {"live", "revoked"}, owner : {req[t].openid},
                     createdAt : {sessions[t].createdAt},
                     expiresAt : {sessions[t].expiresAt},
                     revokedAt : {sessions[t].revokedAt, at},
                     consent : {sessions[t].consent}]
  <2>1. OwnedSession(t) \in Row /\ OwnedSession(t)' \in Row
    BY <1>3, <1>4
  <2>2. /\ OwnedSession(t)'.state = "revoked"
        /\ OwnedSession(t)'.owner = OwnedSession(t).owner
        /\ OwnedSession(t)'.createdAt = OwnedSession(t).createdAt
        /\ OwnedSession(t)'.expiresAt = OwnedSession(t).expiresAt
        /\ OwnedSession(t)'.revokedAt = at
        /\ OwnedSession(t)'.consent = OwnedSession(t).consent
    BY <1>3, <1>4
  <2> HIDE DEF at
  <2> QED
    BY <2>1, <2>2 DEF at
<1>6. OwnedSession(t).createdAt = sessions[t].createdAt
  BY <1>4
<1> QED
  BY <1>5, <1>6

\* A session that no step wrote is the registry's as before.
LEMMA SessionStays ==
    ASSUME ServiceInv, ServiceInv', NEW t \in Requests, sessions'[t] = sessions[t],
           req[t].pc = "done" => req'[t].openid = req[t].openid
    PROVE  OwnedSession(t)' = OwnedSession(t)
<1>1. CASE sessions[t].state = "absent"
  BY <1>1 DEF OwnedSession
<1>2. CASE sessions[t].state # "absent"
  <2>1. req[t].pc = "done"
    BY <1>2 DEF ServiceInv, AccountsInv, RequestInv
  <2>2. /\ accounts[sessions[t].account].openid = req[t].openid
        /\ accounts'[sessions'[t].account].openid = req[t].openid
    BY <1>2, <2>1 DEF ServiceInv, SessionsInv, SessionKnows
  <2> QED
    BY <1>2, <2>2 DEF OwnedSession
<1> QED
  BY <1>1, <1>2

\* A call keeps the openid of its login.
LEMMA OpenIDStays ==
    ASSUME ServiceInv, NEW r \in Requests, NEW a \in Answers, Answer(r, a)
    PROVE  \A t \in Requests : req'[t].openid = req[t].openid
BY AnswerRecord DEF ServiceInv

\* The commit of a login is one login of the registry.
LEMMA LoginMaps ==
    ASSUME ServiceInv, ServiceInv', NEW r \in Requests, CommitLogin(r)
    PROVE  Registry!Next
<1> DEFINE P == [o \in OpenIDs |-> ProfileOf(o)]
           S == [t \in Requests |-> OwnedSession(t)]
           Q == [o \in OpenIDs |-> ProfileOf(o)']
           T == [t \in Requests |-> OwnedSession(t)']
<1>1. /\ req[r].account \in Requests /\ req[r].openid \in OpenIDs /\ req[r].now \in Times
      /\ sessions[r].state = "absent" /\ ~Committed(r)
      /\ sessions'[r] = NewSession(r)
      /\ \A t \in Requests \ {r} :
           sessions'[t] = IF Replaces(r, t) THEN RevokedRow(t, req[r].now)
                          ELSE sessions[t]
      /\ accounts'[req[r].account] = LoggedIn(r)
      /\ req[r].account # r => accounts[req[r].account].openid = req[r].openid
  BY LoginEffect
<1>2. PICK answer \in Answers : Answer(r, answer)
  BY DEF CommitLogin, Answers
<1>3. \A t \in Requests : req'[t].openid = req[t].openid
  BY <1>2, OpenIDStays
<1>4. PICK o \in OpenIDs : req[r].openid = o
  BY <1>1
<1>5. PICK now \in 0..clock, consent \in BOOLEAN, phone \in BOOLEAN,
            unionid \in UnionIDs \cup {None} :
        /\ req[r].now = now /\ req[r].consent = consent
        /\ req[r].phone = phone /\ req[r].unionid = unionid
        /\ phone => consent
  <2>1. CallKnows(r) /\ req[r] \in Request
    BY DEF ServiceInv, SessionsInv, TypeOK
  <2>2. req[r].now \in 0..clock
    BY <2>1, ConstantsAssumption DEF CallKnows, Request, Times, ServiceInv, TypeOK
  <2> QED
    BY <2>1, <2>2 DEF CallKnows, Request
<1>6. S[r].state = "absent"
  BY <1>1 DEF OwnedSession
<1>7. /\ P[o].status # "disabled"
      /\ unionid \in {None, P[o].unionid} \/ P[o].unionid = None
      /\ Q = [P EXCEPT ![o].status = "active",
                       ![o].unionid = IF @ = None THEN unionid ELSE @,
                       ![o].phone = IF phone THEN r ELSE @]
  <2>1. P \in [OpenIDs -> Profile] /\ Q \in [OpenIDs -> Profile]
    <3>1. \A x : ProfileOf(x) \in Profile
      BY ProfileType
    <3>2. \A x : ProfileOf(x)' \in Profile
      BY NextProfileType
    <3> QED
      BY <3>1, <3>2
  <2>2. /\ P[o].status # "disabled"
        /\ unionid \in {None, P[o].unionid} \/ P[o].unionid = None
        /\ Q[o].status = "active"
        /\ Q[o].unionid = IF P[o].unionid = None THEN unionid ELSE P[o].unionid
        /\ Q[o].phone = IF phone THEN r ELSE P[o].phone
        /\ Q[o].nickname = P[o].nickname /\ Q[o].avatar = P[o].avatar
        /\ Q[o].stocks = P[o].stocks
        /\ \A x \in OpenIDs \ {o} : Q[x] = P[x]
    BY <1>4, <1>5, LoginProfile
  <2> HIDE DEF P, Q
  <2>3. Q = [P EXCEPT ![o].status = "active",
                      ![o].unionid = IF @ = None THEN unionid ELSE @,
                      ![o].phone = IF phone THEN r ELSE @]
    <3> DEFINE row == [P[o] EXCEPT !.status = "active",
                         !.unionid = IF P[o].unionid = None THEN unionid ELSE P[o].unionid,
                         !.phone = IF phone THEN r ELSE P[o].phone]
    <3>1. P[o] \in Profile /\ Q[o] \in Profile
      BY <2>1
    <3>2. row = Q[o]
      BY <2>2, <3>1 DEF Profile
    <3>3. [P EXCEPT ![o].status = "active",
                    ![o].unionid = IF @ = None THEN unionid ELSE @,
                    ![o].phone = IF phone THEN r ELSE @] = [P EXCEPT ![o] = row]
      BY <2>1, <3>1 DEF Profile
    <3>4. Q = [P EXCEPT ![o] = row]
      BY <2>1, <2>2, <3>2
    <3> QED
      BY <3>3, <3>4
  <2> QED
    BY <2>2, <2>3
<1>8. T[r] = [state |-> "live", owner |-> o, createdAt |-> now,
              expiresAt |-> now + TTL, revokedAt |-> 0, consent |-> consent]
  <2>1. /\ sessions'[r].state = "live" /\ sessions'[r].createdAt = now
        /\ sessions'[r].expiresAt = now + TTL /\ sessions'[r].revokedAt = 0
        /\ sessions'[r].consent = consent
    BY <1>1, <1>5 DEF NewSession
  <2>2. accounts'[sessions'[r].account].openid = o
    BY <1>3, <1>4, <2>1 DEF ServiceInv, SessionsInv, SessionKnows
  <2> QED
    BY <2>1, <2>2 DEF OwnedSession
<1> DEFINE replaced == {t \in Requests : Replaces(r, t)}
<1>9. replaced \in SUBSET {s \in Requests : S[s].state = "live" /\ S[s].owner = o}
  <2> SUFFICES ASSUME NEW s \in Requests, Replaces(r, s)
               PROVE  OwnedSession(s).state = "live" /\ OwnedSession(s).owner = o
    OBVIOUS
  <2>1. sessions[s].state = "live" /\ sessions[s].account = req[r].account
    BY DEF Replaces
  <2>2. Committed(req[r].account)
    BY <2>1 DEF ServiceInv, AccountsInv
  <2>3. accounts[req[r].account].openid = o
    BY <1>1, <1>4, <2>2
  <2> QED
    BY <2>1, <2>3 DEF OwnedSession
<1>10. \A s, u \in replaced : s = u
  BY DEF Replaces
<1>11. \A s \in Requests \ {r} :
         T[s] = IF s \in replaced
                THEN [S[s] EXCEPT !.state = "revoked",
                                  !.revokedAt = Later(now, S[s].createdAt)]
                ELSE S[s]
  <2> SUFFICES ASSUME NEW s \in Requests \ {r}
               PROVE  OwnedSession(s)' = IF Replaces(r, s)
                        THEN [OwnedSession(s) EXCEPT !.state = "revoked",
                                !.revokedAt = Later(now, OwnedSession(s).createdAt)]
                        ELSE OwnedSession(s)
    OBVIOUS
  <2>1. CASE Replaces(r, s)
    <3>1. sessions[s].state = "live" /\ sessions'[s] = RevokedRow(s, now)
      BY <1>1, <1>5, <2>1 DEF Replaces
    <3> QED
      BY <1>3, <2>1, <3>1, RevocationMaps
  <2>2. CASE ~Replaces(r, s)
    BY <1>1, <1>3, <2>2, SessionStays
  <2> QED
    BY <2>1, <2>2
<1>12. clock' = clock
  BY DEF CommitLogin
<1>13. Registry!Login(r, o, now, consent)
  <2> HIDE DEF P, Q
  <2> QED
    BY <1>5, <1>6, <1>7, <1>8, <1>9, <1>10, <1>11, <1>12
       DEF Registry!Login, Registry!RevokedRow, Registry!Later, Later, P, Q
<1> QED
  BY <1>13 DEF Registry!Next

\* A logout is one of the registry's, or changes nothing there.
LEMMA RevokeMaps ==
    ASSUME ServiceInv, ServiceInv', NEW r \in Requests, Revoke(r)
    PROVE  Registry!Next \/ UNCHANGED Registry!vars
<1>1. PICK answer \in Answers : Answer(r, answer)
  BY DEF Revoke, Answers
<1>2. \A t \in Requests : req'[t].openid = req[t].openid
  BY <1>1, OpenIDStays
<1>3. /\ req[r].token \in Requests \cup {None} /\ sessions \in [Requests -> Session]
      /\ clock' = clock /\ accounts' = accounts
  BY DEF ServiceInv, TypeOK, Request, Revoke
<1>4. req[r].now \in 0..clock
  <2>1. CallKnows(r) /\ req[r] \in Request
    BY DEF ServiceInv, SessionsInv, TypeOK
  <2> QED
    BY <2>1, ConstantsAssumption DEF CallKnows, Request, Times, ServiceInv, TypeOK
<1>5. [o \in OpenIDs |-> ProfileOf(o)'] = [o \in OpenIDs |-> ProfileOf(o)]
  BY <1>3, ProfileStays
<1>6. CASE sessions' = sessions
  <2>1. \A t \in Requests : OwnedSession(t)' = OwnedSession(t)
    BY <1>2, <1>6, SessionStays
  <2> QED
    BY <1>3, <1>5, <2>1 DEF Registry!vars
<1>7. CASE sessions' # sessions
  <2>1. PICK t \in Requests : /\ sessions[t].state = "live"
                              /\ sessions' = [sessions EXCEPT ![t] = RevokedRow(t, req[r].now)]
    BY <1>3, <1>7 DEF Revoke
  <2>2. PICK now \in 0..clock : req[r].now = now
    BY <1>4
  <2>3. /\ sessions'[t] = RevokedRow(t, now)
        /\ \A s \in Requests \ {t} : sessions'[s] = sessions[s]
    BY <1>3, <2>1, <2>2
  <2>4. OwnedSession(t)' = [OwnedSession(t) EXCEPT
           !.state = "revoked", !.revokedAt = Later(now, OwnedSession(t).createdAt)]
    BY <1>2, <2>1, <2>3, RevocationMaps
  <2>5. \A s \in Requests \ {t} : OwnedSession(s)' = OwnedSession(s)
    BY <1>2, <2>3, SessionStays
  <2>6. OwnedSession(t).state = "live"
    BY <2>1 DEF OwnedSession
  <2> DEFINE S == [s \in Requests |-> OwnedSession(s)]
             T == [s \in Requests |-> OwnedSession(s)']
  <2>7. T = [S EXCEPT ![t] = [S[t] EXCEPT
               !.state = "revoked", !.revokedAt = Later(now, S[t].createdAt)]]
    BY <2>4, <2>5
  <2>8. S[t].state = "live"
    BY <2>6
  <2>9. Registry!Logout(t, now)
    BY <1>3, <1>5, <2>7, <2>8
       DEF Registry!Logout, Registry!RevokedRow, Registry!Later, Later
  <2> QED
    BY <2>9 DEF Registry!Next
<1> QED
  BY <1>6, <1>7

\* A write a session authorizes is a write to its owner's own profile.
LEMMA AuthorizedMaps ==
    ASSUME ServiceInv, ServiceInv', NEW r \in Requests, CommitAuthorized(r)
    PROVE  Registry!Next
<1> DEFINE P == [o \in OpenIDs |-> ProfileOf(o)]
           Q == [o \in OpenIDs |-> ProfileOf(o)']
<1>1. PICK a \in Requests, t \in Requests :
        /\ a = req[r].account /\ t = req[r].token
        /\ accounts[a].status = "active"
        /\ sessions[t].state = "live" /\ sessions[t].account = a
        /\ accounts'[a] = Written(r)
        /\ \A b \in Requests \ {a} : accounts'[b] = accounts[b]
        /\ Written(r).status = accounts[a].status
        /\ Written(r).openid = accounts[a].openid
        /\ Written(r).unionid = accounts[a].unionid
        /\ Written(r).phone = accounts[a].phone
  BY AuthorizedEffect
<1>2. PICK answer \in Answers : Answer(r, answer)
  BY DEF CommitAuthorized, Answers
<1>3. \A s \in Requests : OwnedSession(s)' = OwnedSession(s)
  <2>1. \A s \in Requests : req'[s].openid = req[s].openid
    BY <1>2, OpenIDStays
  <2>2. sessions' = sessions
    BY DEF CommitAuthorized
  <2> QED
    BY <2>1, <2>2, SessionStays
<1>4. PICK o \in OpenIDs : accounts[a].openid = o
  BY <1>1 DEF ServiceInv, SessionsInv, Committed
<1>5. /\ OwnedSession(t).state = "live" /\ OwnedSession(t).owner = o
  BY <1>1, <1>4 DEF OwnedSession
<1>6. ProfileOf(o) =
        [status |-> accounts[a].status, unionid |-> accounts[a].unionid,
         phone |-> accounts[a].phone, nickname |-> accounts[a].nickname,
         avatar |-> accounts[a].avatar, stocks |-> accounts[a].stocks]
  BY <1>1, <1>4, ProfileOfAccount DEF Committed
<1>7. ProfileOf(o)' =
        [status |-> accounts'[a].status, unionid |-> accounts'[a].unionid,
         phone |-> accounts'[a].phone, nickname |-> accounts'[a].nickname,
         avatar |-> accounts'[a].avatar, stocks |-> accounts'[a].stocks]
  BY <1>1, <1>4, NextProfileOfAccount
<1>8. /\ P \in [OpenIDs -> Profile] /\ Q \in [OpenIDs -> Profile]
      /\ P[o].status = "active"
      /\ Q[o].status = P[o].status /\ Q[o].unionid = P[o].unionid
      /\ Q[o].phone = P[o].phone
      /\ \A x \in OpenIDs \ {o} : Q[x] = P[x]
  <2>1. (\A x : ProfileOf(x) \in Profile) /\ (\A x : ProfileOf(x)' \in Profile)
    BY ProfileType, NextProfileType
  <2>2. ASSUME NEW x \in OpenIDs \ {o} PROVE ProfileOf(x)' = ProfileOf(x)
    <3>1. \A b \in Requests :
             \/ accounts'[b] = accounts[b]
             \/ /\ accounts'[b].openid # x
                /\ accounts[b].status # "absent" => accounts[b].openid # x
      BY <1>1, <1>4
    <3> QED
      BY <3>1, ProfileStays
  <2>3. /\ ProfileOf(o).status = "active"
        /\ ProfileOf(o)'.status = ProfileOf(o).status
        /\ ProfileOf(o)'.unionid = ProfileOf(o).unionid
        /\ ProfileOf(o)'.phone = ProfileOf(o).phone
    BY <1>1, <1>6, <1>7
  <2> QED
    BY <2>1, <2>2, <2>3
<1> HIDE DEF P, Q
<1>9. Q = [P EXCEPT ![o].nickname = Q[o].nickname, ![o].avatar = Q[o].avatar,
                    ![o].stocks = Q[o].stocks]
  <2> DEFINE row == [P[o] EXCEPT !.nickname = Q[o].nickname, !.avatar = Q[o].avatar,
                                 !.stocks = Q[o].stocks]
  <2>1. P[o] \in Profile /\ Q[o] \in Profile
    BY <1>8
  <2>2. row = Q[o]
    BY <1>8, <2>1 DEF Profile
  <2>3. [P EXCEPT ![o].nickname = Q[o].nickname, ![o].avatar = Q[o].avatar,
                  ![o].stocks = Q[o].stocks] = [P EXCEPT ![o] = row]
    BY <1>8, <2>1 DEF Profile
  <2>4. Q = [P EXCEPT ![o] = row]
    BY <1>8, <2>2
  <2> QED
    BY <2>3, <2>4
<1>10. clock' = clock
  BY DEF CommitAuthorized
<1> DEFINE S == [s \in Requests |-> OwnedSession(s)]
           T == [s \in Requests |-> OwnedSession(s)']
<1>11. T = S /\ S[t].state = "live" /\ S[t].owner = o
  BY <1>3, <1>5
<1>12. Registry!Write(t)
  <2>1. /\ S[t].state = "live" /\ P[S[t].owner].status = "active"
        /\ Q = [P EXCEPT ![S[t].owner].nickname = Q[S[t].owner].nickname,
                         ![S[t].owner].avatar = Q[S[t].owner].avatar,
                         ![S[t].owner].stocks = Q[S[t].owner].stocks]
        /\ clock' = clock /\ T = S
    BY <1>8, <1>9, <1>10, <1>11
  <2> QED
    BY <2>1 DEF Registry!Write, P, Q
<1> QED
  BY <1>12 DEF Registry!Next

\* An operator's UPDATE disables one profile.
LEMMA DisableMaps ==
    ASSUME ServiceInv, ServiceInv', NEW a \in Requests, Disable(a)
    PROVE  Registry!Next
<1> DEFINE P == [o \in OpenIDs |-> ProfileOf(o)]
           Q == [o \in OpenIDs |-> ProfileOf(o)']
<1>1. /\ clock' = clock /\ sessions' = sessions /\ req' = req
      /\ accounts[a].status = "active"
  BY DEF Disable
<1>2. /\ accounts'[a].status = "disabled"
      /\ accounts'[a].openid = accounts[a].openid
      /\ accounts'[a].unionid = accounts[a].unionid
      /\ accounts'[a].phone = accounts[a].phone
      /\ accounts'[a].nickname = accounts[a].nickname
      /\ accounts'[a].avatar = accounts[a].avatar
      /\ accounts'[a].stocks = accounts[a].stocks
      /\ \A b \in Requests \ {a} : accounts'[b] = accounts[b]
  <2>1. accounts[a] \in Account /\ accounts \in [Requests -> Account]
    BY DEF ServiceInv, TypeOK
  <2> QED
    BY <2>1 DEF Disable, Account
<1>3. PICK o \in OpenIDs : accounts[a].openid = o
  BY <1>1 DEF ServiceInv, SessionsInv, Committed
<1>4. ProfileOf(o) =
        [status |-> accounts[a].status, unionid |-> accounts[a].unionid,
         phone |-> accounts[a].phone, nickname |-> accounts[a].nickname,
         avatar |-> accounts[a].avatar, stocks |-> accounts[a].stocks]
  BY <1>1, <1>3, ProfileOfAccount DEF Committed
<1>5. ProfileOf(o)' =
        [status |-> accounts'[a].status, unionid |-> accounts'[a].unionid,
         phone |-> accounts'[a].phone, nickname |-> accounts'[a].nickname,
         avatar |-> accounts'[a].avatar, stocks |-> accounts'[a].stocks]
  BY <1>2, <1>3, NextProfileOfAccount
<1>6. /\ ProfileOf(o).status = "active" /\ ProfileOf(o)'.status = "disabled"
      /\ ProfileOf(o)'.unionid = ProfileOf(o).unionid
      /\ ProfileOf(o)'.phone = ProfileOf(o).phone
      /\ ProfileOf(o)'.nickname = ProfileOf(o).nickname
      /\ ProfileOf(o)'.avatar = ProfileOf(o).avatar
      /\ ProfileOf(o)'.stocks = ProfileOf(o).stocks
  BY <1>1, <1>2, <1>4, <1>5
<1>7. ASSUME NEW x \in OpenIDs \ {o} PROVE ProfileOf(x)' = ProfileOf(x)
  <2>1. \A b \in Requests :
           \/ accounts'[b] = accounts[b]
           \/ /\ accounts'[b].openid # x
              /\ accounts[b].status # "absent" => accounts[b].openid # x
    BY <1>2, <1>3
  <2> QED
    BY <2>1, ProfileStays
<1>8. /\ P \in [OpenIDs -> Profile] /\ Q \in [OpenIDs -> Profile]
      /\ P[o].status = "active" /\ Q[o] = [P[o] EXCEPT !.status = "disabled"]
      /\ \A x \in OpenIDs \ {o} : Q[x] = P[x]
  <2>1. (\A x : ProfileOf(x) \in Profile) /\ (\A x : ProfileOf(x)' \in Profile)
    BY ProfileType, NextProfileType
  <2>2. ProfileOf(o)' = [ProfileOf(o) EXCEPT !.status = "disabled"]
    BY <1>6, <2>1 DEF Profile
  <2> QED
    BY <1>6, <1>7, <2>1, <2>2
<1> HIDE DEF P, Q
<1>9. Q = [P EXCEPT ![o].status = "disabled"]
  BY <1>8
<1>10. \A s \in Requests : OwnedSession(s)' = OwnedSession(s)
  BY <1>1, SessionStays
<1>11. Registry!Disable(o)
  BY <1>1, <1>8, <1>9, <1>10 DEF Registry!Disable, P, Q
<1> QED
  BY <1>11 DEF Registry!Next

\* Every other step is the registry's clock, or changes nothing there.
LEMMA OtherMaps ==
    ASSUME ServiceInv, ServiceInv', accounts' = accounts, sessions' = sessions,
           \A t \in Requests : req[t].pc = "done" => req'[t].openid = req[t].openid,
           Tick \/ clock' = clock
    PROVE  Registry!Next \/ UNCHANGED Registry!vars
<1>1. [o \in OpenIDs |-> ProfileOf(o)'] = [o \in OpenIDs |-> ProfileOf(o)]
  BY ProfileStays
<1>2. \A s \in Requests : OwnedSession(s)' = OwnedSession(s)
  BY SessionStays
<1>3. CASE clock' = clock
  BY <1>1, <1>2, <1>3 DEF Registry!vars
<1>4. CASE Tick
  BY <1>1, <1>2, <1>4 DEF Registry!Next, Registry!Tick, Tick
<1> QED
  BY <1>3, <1>4

\* The steps that write no table leave the calls that have returned alone.
LEMMA QuietKeepsDone ==
    ASSUME ServiceInv, NEW r \in Requests,
           \/ Start(r) \/ Exchange(r) \/ FindAccount(r) \/ FindNothing(r) \/ Create(r)
           \/ Save(r) \/ Lookup(r) \/ Judge(r) \/ Authorize(r) \/ Fail(r)
    PROVE  /\ accounts' = accounts /\ sessions' = sessions /\ clock' = clock
           /\ \A t \in Requests : req[t].pc = "done" => req'[t] = req[t]
<1>1. accounts' = accounts /\ sessions' = sessions /\ clock' = clock /\ req[r].pc # "done"
  BY DEF Start, StartLogin, StartVerify, StartRevoke, StartAuthorized, Exchange,
     FindAccount, FindNothing, Create, Save, Lookup, Judge, Authorize, Fail, InFlight
<1>2. \A t \in Requests \ {r} : req'[t] = req[t]
  <2>1. \E q : Proceed(r, q)
    BY DEF Start, StartLogin, StartVerify, StartRevoke, StartAuthorized, Exchange,
       FindAccount, FindNothing, Create, Save, Lookup, Judge, Authorize, Fail, Answer
  <2> QED
    BY <2>1, ProceedRecord, SMTT(40) DEF ServiceInv
<1> QED
  BY <1>1, <1>2, SMTT(40)

\* Whatever transactions overlap, each takes effect at its commit as one step
\* of the registry, so callers see one profile per openid, sessions that belong
\* to an openid, and operations that happen all at once or not at all.
THEOREM ServiceImplementsRegistry == Spec => ImplementsRegistry
<1>1. Init => Registry!Init
  <2> SUFFICES ASSUME Init PROVE Registry!Init
    OBVIOUS
  <2>1. \A o : ProfileOf(o) = [status |-> "absent", unionid |-> None, phone |-> None,
                               nickname |-> None, avatar |-> None, stocks |-> {}]
    BY ProfileOfNobody DEF Init, AccountsOf, Committed, NoAccount
  <2>2. \A t \in Requests : OwnedSession(t) =
          [state |-> "absent", owner |-> None, createdAt |-> 0,
           expiresAt |-> 0, revokedAt |-> 0, consent |-> FALSE]
    BY DEF Init, OwnedSession, NoSession
  <2> QED
    BY <2>1, <2>2 DEF Init, Registry!Init, Registry!Unknown, Registry!NoSession
<1>2. ServiceInv /\ ServiceInv' /\ [Next]_vars => [Registry!Next]_Registry!vars
  <2> SUFFICES ASSUME ServiceInv, ServiceInv', [Next]_vars
               PROVE  Registry!Next \/ UNCHANGED Registry!vars
    OBVIOUS
  <2>1. CASE \E r \in Requests :
               \/ Start(r) \/ Exchange(r) \/ FindAccount(r) \/ FindNothing(r)
               \/ Create(r) \/ Save(r) \/ Lookup(r) \/ Judge(r) \/ Authorize(r)
               \/ Fail(r)
    BY <2>1, QuietKeepsDone, OtherMaps
  <2>2. CASE Tick \/ UNCHANGED vars
    BY <2>2, OtherMaps DEF Tick, vars
  <2> QED
    BY <2>1, <2>2, LoginMaps, AuthorizedMaps, RevokeMaps, DisableMaps
       DEF Next, Serve
<1> QED
  BY <1>1, <1>2, ServiceInvariant, PTL DEF Spec, Registry!Spec, ImplementsRegistry
=============================================================================
