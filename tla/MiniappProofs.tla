---------------------------- MODULE MiniappProofs ----------------------------
(***************************************************************************)
(* Theorems about the Mini Program and the companies its users follow.     *)
(*                                                                         *)
(* The session of the Mini Program (MiniappSession), for any pages,        *)
(* buttons and sessions.                                                   *)
(*                                                                         *)
(* What users follow can be listed, whole and without repetition, at any   *)
(* time (TrackedCompanies), for any stocks, sessions, users, calls in      *)
(* progress, page sizes, lookups and industries.  The inductive invariant  *)
(* TrackInv says of each call what the services it has still to call will  *)
(* rely on, CallOK: which of them it waits for, and for a walk how the     *)
(* page under way continues the pages shown.  CallOK is an operator of     *)
(* values, so that most of the proof is about one call and the tables,     *)
(* without steps.                                                          *)
(***************************************************************************)
EXTENDS MiniappSession, TrackedCompanies, FiniteSetTheorems, TLAPS

-----------------------------------------------------------------------------
(* The session: the inductive invariant *)

HookState == [mounted : BOOLEAN, profile : MaybeToken, token : MaybeToken,
              error : BOOLEAN]

ActionState ==
    [kind : {"none", "refresh", "login", "logout", "nickname"},
     at : {"none", "me", "avatar", "code", "login", "undo", "logout", "nickname"},
     token : MaybeToken, answer : {"none", "ok", "expired", "failed"},
     result : MaybeToken]

IssuedState == [SessionTokens -> {"unissued", "live", "revoked"}]

\* A session on the device, on a page or in a request was issued.
Known(t, i) == t \in SessionTokens => i[t] # "unissued"

\* The request of an action: it uses the session of the page, and is only
\* turned down for good.
RequestOK(h, a, i, d) ==
    /\ a.kind = "none" <=> a.at = "none"
    /\ a.at \in {"me", "avatar", "nickname", "logout"} =>
         a.token = h.token /\ a.token \in SessionTokens
    /\ a.at \in {"login", "code", "undo"} => a.kind = "login"
    /\ a.at = "logout" => a.kind = "logout"
    /\ a.at \in {"none", "code"} => a.answer = "none"
    /\ a.at = "login" /\ a.answer = "ok" => a.result \in SessionTokens
    /\ a.answer = "expired" =>
         /\ a.at \in {"me", "avatar", "nickname", "login"}
         /\ a.at = "login" => d
         /\ a.at # "login" => d \/ i[a.token] = "revoked"
    /\ Known(a.token, i) /\ Known(a.result, i)

\* A page that is not busy and reports no error shows the profile of its session.
PageOK(h, a, i) ==
    /\ Known(h.token, i)
    /\ h.profile # NoToken => h.token # NoToken
    /\ h.profile # NoToken /\ h.profile # h.token => a.kind # "none" \/ h.error

SessionInv ==
    /\ storedToken \in MaybeToken /\ Known(storedToken, issued)
    /\ front \in Pages \cup {NoToken} /\ disabled \in BOOLEAN
    /\ issued \in IssuedState
    /\ hook \in [Pages -> HookState] /\ action \in [Pages -> ActionState]
    /\ \A p \in Pages : /\ RequestOK(hook[p], action[p], issued, disabled)
                        /\ PageOK(hook[p], action[p], issued)

-----------------------------------------------------------------------------
(* Steps of one page *)

LEMMA TokenFacts ==
    /\ NoToken \in MaybeToken /\ SessionTokens \subseteq MaybeToken
    /\ NoToken \notin SessionTokens
    /\ \A t \in MaybeToken : t # NoToken => t \in SessionTokens
    /\ \A i : Known(NoToken, i)
BY SessionConstants DEF MaybeToken, Known

LEMMA StateFacts ==
    /\ NoAction \in ActionState /\ Unmounted \in HookState
    /\ NoAction.kind = "none" /\ NoAction.at = "none" /\ NoAction.answer = "none"
    /\ NoAction.token = NoToken /\ NoAction.result = NoToken
    /\ Unmounted.token = NoToken /\ Unmounted.profile = NoToken
BY TokenFacts DEF NoAction, Unmounted, ActionState, HookState

\* Sessions never become unissued again, nor live again, nor the user enabled.
Onward ==
    /\ issued' \in IssuedState
    /\ \A t \in SessionTokens : /\ issued[t] # "unissued" => issued'[t] # "unissued"
                                /\ issued[t] = "revoked" => issued'[t] = "revoked"
    /\ disabled' \in BOOLEAN /\ (disabled => disabled')

LEMMA OthersStay ==
    ASSUME SessionInv, Onward, NEW q \in Pages
    PROVE  /\ RequestOK(hook[q], action[q], issued', disabled')
           /\ PageOK(hook[q], action[q], issued')
<1>1. action[q] \in ActionState /\ hook[q] \in HookState
  BY DEF SessionInv
<1>2. \A t : Known(t, issued) => Known(t, issued')
  BY DEF Known, Onward
<1>3. /\ RequestOK(hook[q], action[q], issued, disabled)
      /\ PageOK(hook[q], action[q], issued)
  BY DEF SessionInv
<1>4. PageOK(hook[q], action[q], issued')
  BY <1>2, <1>3 DEF PageOK
<1>5. RequestOK(hook[q], action[q], issued', disabled')
  BY <1>2, <1>3 DEF RequestOK, Onward
<1> QED
  BY <1>4, <1>5

\* Page p goes on as h, running a.
PageStep(p, h, a) ==
    /\ hook' = [hook EXCEPT ![p] = h] /\ action' = [action EXCEPT ![p] = a]
    /\ h \in HookState /\ a \in ActionState
    /\ RequestOK(h, a, issued', disabled') /\ PageOK(h, a, issued')
    /\ storedToken' \in MaybeToken /\ Known(storedToken', issued')
    /\ front' \in Pages \cup {NoToken}

LEMMA OnePageStep ==
    ASSUME SessionInv, Onward, NEW p \in Pages, NEW h, NEW a, PageStep(p, h, a)
    PROVE  SessionInv'
<1>1. hook' \in [Pages -> HookState] /\ action' \in [Pages -> ActionState]
  BY DEF SessionInv, PageStep
<1>2. ASSUME NEW q \in Pages
      PROVE  /\ RequestOK(hook'[q], action'[q], issued', disabled')
             /\ PageOK(hook'[q], action'[q], issued')
  <2>1. CASE q = p
    BY <2>1 DEF SessionInv, PageStep
  <2>2. CASE q # p
    <3>1. hook'[q] = hook[q] /\ action'[q] = action[q]
      BY <2>2 DEF SessionInv, PageStep
    <3> QED
      BY <3>1, OthersStay
  <2> QED
    BY <2>1, <2>2
<1>3. /\ storedToken' \in MaybeToken /\ Known(storedToken', issued')
      /\ front' \in Pages \cup {NoToken} /\ disabled' \in BOOLEAN
      /\ issued' \in IssuedState
  BY DEF PageStep, Onward
<1> QED
  BY <1>1, <1>2, <1>3 DEF SessionInv

LEMMA PageFacts ==
    ASSUME SessionInv, NEW p \in Pages
    PROVE  /\ hook[p] \in HookState /\ action[p] \in ActionState
           /\ RequestOK(hook[p], action[p], issued, disabled)
           /\ PageOK(hook[p], action[p], issued)
           /\ hook = [hook EXCEPT ![p] = hook[p]]
           /\ action = [action EXCEPT ![p] = action[p]]
BY DEF SessionInv

\* Nothing happens at the User Service.
LEMMA ServiceStays ==
    ASSUME SessionInv, issued' = issued, disabled' = disabled
    PROVE  Onward
BY DEF SessionInv, Onward

LEMMA EndStep ==
    ASSUME SessionInv, NEW p \in Pages,
           NEW token \in MaybeToken, NEW profile \in MaybeToken,
           NEW stored \in MaybeToken, NEW error \in BOOLEAN,
           EndAction(p, token, profile, stored, error),
           Known(token, issued), Known(stored, issued),
           profile # NoToken => token # NoToken /\ (profile = token \/ error),
           issued' = issued, disabled' = disabled, front' = front
    PROVE  SessionInv'
<1> DEFINE h == IF ~hook[p].mounted THEN Unmounted
                ELSE [hook[p] EXCEPT !.token = token, !.profile = profile,
                                     !.error = error]
<1>1. hook[p] \in HookState
  BY PageFacts
<1>2. h \in HookState
  BY <1>1, StateFacts DEF HookState
<1>3. hook' = [hook EXCEPT ![p] = h] /\ action' = [action EXCEPT ![p] = NoAction]
  BY DEF EndAction
<1>4. \/ h.token = NoToken /\ h.profile = NoToken
      \/ h.token = token /\ h.profile = profile /\ h.error = error
  BY <1>1, StateFacts DEF HookState
<1> HIDE DEF h
<1>5. PageOK(h, NoAction, issued')
  BY <1>4, TokenFacts DEF PageOK
<1>6. RequestOK(h, NoAction, issued', disabled')
  BY StateFacts, TokenFacts DEF RequestOK
<1>7. front' \in Pages \cup {NoToken} /\ storedToken' = stored
  BY DEF SessionInv, EndAction
<1>8. PageStep(p, h, NoAction)
  BY <1>2, <1>3, <1>5, <1>6, <1>7, StateFacts DEF PageStep
<1>9. Onward
  BY ServiceStays
<1> QED
  BY <1>8, <1>9, OnePageStep

LEMMA SuccessStep ==
    ASSUME SessionInv, NEW p \in Pages, Succeed(p), action[p].token = hook[p].token,
           issued' = issued, disabled' = disabled, front' = front
    PROVE  SessionInv'
<1>1. /\ hook[p].token \in MaybeToken /\ storedToken \in MaybeToken
      /\ Known(hook[p].token, issued) /\ Known(storedToken, issued)
  BY PageFacts DEF HookState, PageOK, SessionInv
<1>2. EndAction(p, hook[p].token, hook[p].token, storedToken, FALSE)
  BY DEF Succeed
<1> QED
  BY <1>1, <1>2, EndStep

LEMMA ExpiredStep ==
    ASSUME SessionInv, NEW p \in Pages, Expired(p),
           issued' = issued, disabled' = disabled, front' = front
    PROVE  SessionInv'
<1>1. PICK stored \in {storedToken, NoToken} :
        EndAction(p, NoToken, NoToken, stored, TRUE)
  BY DEF Expired
<1>2. stored \in MaybeToken /\ Known(stored, issued)
  BY TokenFacts DEF SessionInv
<1> QED
  BY <1>1, <1>2, TokenFacts, EndStep

LEMMA FailureStep ==
    ASSUME SessionInv, NEW p \in Pages, FailAction(p),
           issued' = issued, disabled' = disabled, front' = front
    PROVE  SessionInv'
<1>1. /\ hook[p].token \in MaybeToken /\ hook[p].profile \in MaybeToken
      /\ storedToken \in MaybeToken
      /\ Known(hook[p].token, issued) /\ Known(storedToken, issued)
      /\ hook[p].profile # NoToken => hook[p].token # NoToken
  BY PageFacts DEF HookState, PageOK, SessionInv
<1>2. EndAction(p, hook[p].token, hook[p].profile, storedToken, TRUE)
  BY DEF FailAction
<1> QED
  BY <1>1, <1>2, EndStep

-----------------------------------------------------------------------------
(* What the user does *)

LEMMA AskingFacts ==
    ASSUME NEW kind \in {"refresh", "login", "logout", "nickname"},
           NEW at \in {"me", "avatar", "code", "login", "undo", "logout", "nickname"},
           NEW token \in MaybeToken
    PROVE  /\ Asking(kind, at, token) \in ActionState
           /\ Asking(kind, at, token).kind = kind /\ Asking(kind, at, token).at = at
           /\ Asking(kind, at, token).token = token
           /\ Asking(kind, at, token).answer = "none"
           /\ Asking(kind, at, token).result = NoToken
BY TokenFacts DEF Asking, NoAction, ActionState

\* Page p, as h, asks for something.
LEMMA AskStep ==
    ASSUME SessionInv, NEW p \in Pages, NEW h \in HookState,
           NEW kind \in {"refresh", "login", "logout", "nickname"},
           NEW at \in {"me", "avatar", "code", "undo", "logout", "nickname"},
           NEW token \in MaybeToken,
           hook' = [hook EXCEPT ![p] = h],
           action' = [action EXCEPT ![p] = Asking(kind, at, token)],
           Known(token, issued), Known(h.token, issued),
           at \in {"me", "avatar", "logout", "nickname"} =>
             token = h.token /\ token # NoToken,
           at \in {"code", "undo"} => kind = "login",
           at = "logout" => kind = "logout",
           h.profile # NoToken => h.token # NoToken,
           storedToken' = storedToken, issued' = issued, disabled' = disabled,
           front' \in Pages \cup {NoToken}
    PROVE  SessionInv'
<1> DEFINE a == Asking(kind, at, token)
<1>1. /\ a \in ActionState /\ a.kind = kind /\ a.at = at /\ a.token = token
      /\ a.answer = "none" /\ a.result = NoToken
  BY AskingFacts
<1>2. action' = [action EXCEPT ![p] = a]
  OBVIOUS
<1> HIDE DEF a
<1>3. PageOK(h, a, issued')
  BY <1>1 DEF PageOK
<1>4. RequestOK(h, a, issued', disabled')
  BY <1>1, TokenFacts DEF RequestOK
<1>5. storedToken' \in MaybeToken /\ Known(storedToken', issued')
  BY DEF SessionInv
<1>6. PageStep(p, h, a)
  BY <1>1, <1>2, <1>3, <1>4, <1>5 DEF PageStep
<1> QED
  BY <1>6, ServiceStays, OnePageStep

\* The page stays as it is but for what h says, and runs what it ran.
LEMMA HookStep ==
    ASSUME SessionInv, NEW p \in Pages, NEW h \in HookState,
           hook' = [hook EXCEPT ![p] = h], action' = action,
           RequestOK(h, action[p], issued, disabled), PageOK(h, action[p], issued),
           storedToken' = storedToken, issued' = issued, disabled' = disabled,
           front' \in Pages \cup {NoToken}
    PROVE  SessionInv'
<1>1. action' = [action EXCEPT ![p] = action[p]] /\ action[p] \in ActionState
  BY PageFacts
<1>2. storedToken' \in MaybeToken /\ Known(storedToken', issued')
  BY DEF SessionInv
<1>3. PageStep(p, h, action[p])
  BY <1>1, <1>2 DEF PageStep
<1> QED
  BY <1>3, ServiceStays, OnePageStep

LEMMA RefreshStep ==
    ASSUME SessionInv, NEW p \in Pages, NEW shown \in HookState,
           RefreshHook(p, shown),
           action[p].kind # "none" => shown = hook[p],
           storedToken' = storedToken, issued' = issued, disabled' = disabled,
           front' \in Pages \cup {NoToken}
    PROVE  SessionInv'
<1>1. CASE action[p].kind # "none"
  <2>1. hook' = [hook EXCEPT ![p] = hook[p]] /\ action' = action
    BY <1>1 DEF RefreshHook
  <2> QED
    BY <2>1, PageFacts, HookStep
<1>2. CASE action[p].kind = "none"
  <2> DEFINE profile == IF storedToken = NoToken THEN NoToken ELSE shown.profile
             h == [shown EXCEPT !.token = storedToken, !.error = FALSE,
                                !.profile = profile]
  <2>1. hook' = [hook EXCEPT ![p] = h]
    BY <1>2 DEF RefreshHook, HookState
  <2>2. storedToken \in MaybeToken /\ Known(storedToken, issued)
    BY DEF SessionInv
  <2>3. profile \in MaybeToken /\ (storedToken = NoToken => profile = NoToken)
    BY TokenFacts DEF HookState
  <2> HIDE DEF profile
  <2>4. h \in HookState
    BY <2>2, <2>3 DEF HookState
  <2>5. h.token = storedToken /\ h.profile = profile
    BY DEF HookState
  <2> HIDE DEF h
  <2>6. CASE storedToken = NoToken
    <3>1. action' = action
      BY <1>2, <2>6 DEF RefreshHook
    <3>2. action[p].at = "none"
      BY <1>2, PageFacts DEF RequestOK
    <3>3. RequestOK(h, action[p], issued, disabled)
      BY <1>2, <3>2, PageFacts DEF RequestOK
    <3>4. PageOK(h, action[p], issued)
      BY <2>2, <2>3, <2>5, <2>6 DEF PageOK
    <3> QED
      BY <2>1, <2>4, <3>1, <3>3, <3>4, HookStep
  <2>7. CASE storedToken # NoToken
    <3>1. action' = [action EXCEPT ![p] = Asking("refresh", "me", storedToken)]
      BY <1>2, <2>7 DEF RefreshHook
    <3> QED
      BY <2>1, <2>2, <2>4, <2>5, <2>7, <3>1, AskStep
  <2> QED
    BY <2>6, <2>7
<1> QED
  BY <1>1, <1>2

LEMMA ShowStep ==
    ASSUME SessionInv, NEW p \in Pages, ShowPage(p)
    PROVE  SessionInv'
<1>1. PICK shown : /\ shown = (IF hook[p].mounted THEN hook[p] ELSE NewHook)
                   /\ RefreshHook(p, shown)
  BY DEF ShowPage
<1>2. NewHook \in HookState
  BY StateFacts DEF NewHook, HookState
<1>3. shown \in HookState
  BY <1>1, <1>2, PageFacts
<1>4. action[p].kind # "none" => shown = hook[p]
  BY <1>1 DEF ShowPage
<1>5. /\ storedToken' = storedToken /\ issued' = issued /\ disabled' = disabled
      /\ front' \in Pages \cup {NoToken}
  BY DEF ShowPage
<1> QED
  BY <1>1, <1>3, <1>4, <1>5, RefreshStep

LEMMA CloseStep ==
    ASSUME SessionInv, NEW p \in Pages, ClosePage(p)
    PROVE  SessionInv'
<1> DEFINE h == IF action[p].kind = "none" THEN Unmounted
                ELSE [hook[p] EXCEPT !.mounted = FALSE]
<1>1. hook' = [hook EXCEPT ![p] = h]
  BY DEF ClosePage
<1>2. /\ hook[p] \in HookState /\ RequestOK(hook[p], action[p], issued, disabled)
      /\ PageOK(hook[p], action[p], issued)
  BY PageFacts
<1>3. h \in HookState
  BY <1>2, StateFacts DEF HookState
<1>4. \/ action[p].kind = "none" /\ h.token = NoToken /\ h.profile = NoToken
      \/ h.token = hook[p].token /\ h.profile = hook[p].profile /\ h.error = hook[p].error
  BY <1>2, StateFacts DEF HookState
<1> HIDE DEF h
<1>5. RequestOK(h, action[p], issued, disabled)
  BY <1>2, <1>4 DEF RequestOK
<1>6. PageOK(h, action[p], issued)
  BY <1>2, <1>4, TokenFacts DEF PageOK
<1>7. /\ storedToken' = storedToken /\ issued' = issued /\ disabled' = disabled
      /\ front' \in Pages \cup {NoToken} /\ action' = action
  BY DEF ClosePage
<1> QED
  BY <1>1, <1>3, <1>5, <1>6, <1>7, HookStep

LEMMA LoginStep ==
    ASSUME SessionInv, NEW p \in Pages, Login(p)
    PROVE  SessionInv'
<1> DEFINE h == [hook[p] EXCEPT !.error = FALSE]
<1>1. hook[p] \in HookState /\ PageOK(hook[p], action[p], issued)
  BY PageFacts
<1>2. h \in HookState
  BY <1>1 DEF HookState
<1>3. h.token = hook[p].token /\ h.profile = hook[p].profile
  BY <1>1 DEF HookState
<1>4. hook' = [hook EXCEPT ![p] = h]
  BY <1>1 DEF Login, HookState, SessionInv
<1> HIDE DEF h
<1>5. /\ action' = [action EXCEPT ![p] = Asking("login", "code", hook[p].token)]
      /\ storedToken' = storedToken /\ issued' = issued /\ disabled' = disabled
      /\ front' \in Pages \cup {NoToken} /\ hook[p].token \in MaybeToken
  BY <1>1 DEF Login, Begin, SessionInv, HookState
<1> QED
  BY <1>1, <1>2, <1>3, <1>4, <1>5, AskStep DEF PageOK

LEMMA AskWithStep ==
    ASSUME SessionInv, NEW p \in Pages, NEW kind \in {"logout", "nickname"},
           AskWith(p, kind)
    PROVE  SessionInv'
<1>1. /\ hook[p] \in HookState /\ PageOK(hook[p], action[p], issued)
      /\ issued' = issued /\ disabled' = disabled /\ front' = front
  BY PageFacts DEF AskWith
<1>2. CASE hook[p].token = NoToken
  BY <1>1, <1>2, ExpiredStep DEF AskWith
<1>3. CASE hook[p].token # NoToken
  <2> DEFINE h == [hook[p] EXCEPT !.error = FALSE]
  <2>1. h \in HookState
    BY <1>1 DEF HookState
  <2>2. h.token = hook[p].token /\ h.profile = hook[p].profile
    BY <1>1 DEF HookState
  <2>3. hook' = [hook EXCEPT ![p] = h]
    BY <1>1, <1>3 DEF AskWith, HookState, SessionInv
  <2> HIDE DEF h
  <2>4. /\ action' = [action EXCEPT ![p] = Asking(kind, kind, hook[p].token)]
        /\ storedToken' = storedToken /\ front' \in Pages \cup {NoToken}
        /\ hook[p].token \in MaybeToken
    BY <1>1, <1>3 DEF AskWith, SessionInv, HookState
  <2> QED
    BY <1>1, <1>3, <2>1, <2>2, <2>3, <2>4, AskStep DEF PageOK
<1> QED
  BY <1>2, <1>3

-----------------------------------------------------------------------------
(* The User Service *)

LEMMA AnswerStep ==
    ASSUME SessionInv, Onward, NEW p \in Pages, NEW a, Answered(p, a),
           a \in ActionState, RequestOK(hook[p], a, issued', disabled'),
           a.kind = action[p].kind
    PROVE  SessionInv'
<1>1. /\ hook' = [hook EXCEPT ![p] = hook[p]] /\ hook[p] \in HookState
      /\ action' = [action EXCEPT ![p] = a]
  BY PageFacts DEF Answered
<1>2. PageOK(hook[p], action[p], issued')
  BY OthersStay
<1>3. PageOK(hook[p], a, issued')
  BY <1>2 DEF PageOK
<1>4. /\ storedToken' \in MaybeToken /\ Known(storedToken', issued')
      /\ front' \in Pages \cup {NoToken}
  BY DEF Answered, SessionInv, Known, Onward
<1>5. PageStep(p, hook[p], a)
  BY <1>1, <1>3, <1>4 DEF PageStep
<1> QED
  BY <1>5, OnePageStep

LEMMA ServeRequestStep ==
    ASSUME SessionInv, NEW p \in Pages, ServeRequest(p)
    PROVE  SessionInv'
<1>1. action[p] \in ActionState /\ RequestOK(hook[p], action[p], issued, disabled)
  BY PageFacts
<1>2. issued' = issued /\ disabled' = disabled /\ issued \in IssuedState
  BY DEF ServeRequest, Answered, SessionInv
<1>3. PICK answer \in {"ok", "expired"} :
        /\ Answered(p, [action[p] EXCEPT !.answer = answer])
        /\ answer = "expired" => ~Accepted(action[p].token)
  BY DEF ServeRequest
<1> DEFINE a == [action[p] EXCEPT !.answer = answer]
<1>4. /\ a \in ActionState /\ a.kind = action[p].kind /\ a.at = action[p].at
      /\ a.token = action[p].token /\ a.result = action[p].result /\ a.answer = answer
  BY <1>1 DEF ActionState
<1>5. Answered(p, a)
  BY <1>3
<1> HIDE DEF a
<1>6. action[p].at \in {"me", "avatar", "nickname"}
  BY DEF ServeRequest
<1>7. answer = "expired" => disabled \/ issued[action[p].token] = "revoked"
  BY <1>1, <1>2, <1>3, <1>6 DEF RequestOK, Accepted, Known, IssuedState
<1>8. RequestOK(hook[p], a, issued', disabled')
  BY <1>1, <1>2, <1>4, <1>6, <1>7 DEF RequestOK
<1>9. Onward
  BY <1>2, ServiceStays
<1> QED
  BY <1>4, <1>5, <1>8, <1>9, AnswerStep

LEMMA ServeLoginStep ==
    ASSUME SessionInv, NEW p \in Pages, ServeLogin(p)
    PROVE  SessionInv'
<1>1. /\ action[p] \in ActionState /\ RequestOK(hook[p], action[p], issued, disabled)
      /\ action[p].at = "login" /\ disabled' = disabled
      /\ issued \in IssuedState /\ disabled \in BOOLEAN
  BY PageFacts DEF ServeLogin, Answered, SessionInv
<1>2. CASE disabled /\ issued' = issued
           /\ Answered(p, [action[p] EXCEPT !.answer = "expired"])
  <2> DEFINE a == [action[p] EXCEPT !.answer = "expired"]
  <2>1. /\ a \in ActionState /\ a.kind = action[p].kind /\ a.at = "login"
        /\ a.token = action[p].token /\ a.result = action[p].result
        /\ a.answer = "expired"
    BY <1>1 DEF ActionState
  <2>2. Answered(p, a)
    BY <1>2
  <2> HIDE DEF a
  <2>3. RequestOK(hook[p], a, issued', disabled')
    BY <1>1, <1>2, <2>1 DEF RequestOK
  <2>4. Onward
    BY <1>1, <1>2, ServiceStays
  <2> QED
    BY <2>1, <2>2, <2>3, <2>4, AnswerStep
<1>3. CASE ~disabled
  <2>1. PICK t \in SessionTokens :
          /\ issued[t] = "unissued"
          /\ issued' = [u \in SessionTokens |->
                          IF u = t THEN "live"
                          ELSE IF u = action[p].token THEN "revoked" ELSE issued[u]]
          /\ Answered(p, [action[p] EXCEPT !.answer = "ok", !.result = t])
    BY <1>3 DEF ServeLogin
  <2> DEFINE a == [action[p] EXCEPT !.answer = "ok", !.result = t]
  <2>2. /\ a \in ActionState /\ a.kind = action[p].kind /\ a.at = "login"
        /\ a.token = action[p].token /\ a.result = t /\ a.answer = "ok"
    BY <1>1, <2>1, TokenFacts DEF ActionState
  <2>3. Answered(p, a)
    BY <2>1
  <2> HIDE DEF a
  <2>4. issued' \in IssuedState
    BY <1>1, <2>1 DEF IssuedState
  <2>5. \A u \in SessionTokens : /\ issued[u] # "unissued" => issued'[u] # "unissued"
                                 /\ issued[u] = "revoked" => issued'[u] = "revoked"
    BY <1>1, <2>1 DEF IssuedState
  <2>6. Onward
    BY <1>1, <2>4, <2>5 DEF Onward
  <2>7. Known(action[p].token, issued') /\ Known(t, issued')
    BY <1>1, <2>1, <2>5 DEF RequestOK, Known
  <2>8. RequestOK(hook[p], a, issued', disabled')
    BY <1>1, <2>1, <2>2, <2>7 DEF RequestOK
  <2> QED
    BY <2>2, <2>3, <2>6, <2>8, AnswerStep
<1> QED
  BY <1>2, <1>3 DEF ServeLogin

LEMMA ServeLogoutStep ==
    ASSUME SessionInv, NEW p \in Pages, ServeLogout(p)
    PROVE  SessionInv'
<1>1. /\ action[p] \in ActionState /\ action[p].at \in {"logout", "undo"}
      /\ disabled' = disabled /\ issued \in IssuedState /\ disabled \in BOOLEAN
      /\ issued' = [issued EXCEPT ![action[p].token] = "revoked"]
      /\ Answered(p, [action[p] EXCEPT !.answer = "ok"])
  BY PageFacts DEF ServeLogout, Answered, SessionInv
<1>2. issued' \in IssuedState
  BY <1>1 DEF IssuedState
<1>3. \A u \in SessionTokens : /\ issued[u] # "unissued" => issued'[u] # "unissued"
                               /\ issued[u] = "revoked" => issued'[u] = "revoked"
  BY <1>1 DEF IssuedState
<1>4. Onward
  BY <1>1, <1>2, <1>3 DEF Onward
<1>5. RequestOK(hook[p], action[p], issued', disabled')
  BY <1>4, OthersStay
<1> DEFINE a == [action[p] EXCEPT !.answer = "ok"]
<1>6. /\ a \in ActionState /\ a.kind = action[p].kind /\ a.at = action[p].at
      /\ a.token = action[p].token /\ a.result = action[p].result /\ a.answer = "ok"
  BY <1>1 DEF ActionState
<1>7. Answered(p, a)
  BY <1>1
<1> HIDE DEF a
<1>8. RequestOK(hook[p], a, issued', disabled')
  BY <1>1, <1>5, <1>6 DEF RequestOK
<1> QED
  BY <1>4, <1>6, <1>7, <1>8, AnswerStep

LEMMA LoseStep ==
    ASSUME SessionInv, NEW p \in Pages, LoseRequest(p)
    PROVE  SessionInv'
<1>1. /\ action[p] \in ActionState /\ RequestOK(hook[p], action[p], issued, disabled)
      /\ issued' = issued /\ disabled' = disabled
      /\ Answered(p, [action[p] EXCEPT !.answer = "failed"])
      /\ action[p].at \notin {"none", "code"}
  BY PageFacts DEF LoseRequest, Answered
<1> DEFINE a == [action[p] EXCEPT !.answer = "failed"]
<1>2. /\ a \in ActionState /\ a.kind = action[p].kind /\ a.at = action[p].at
      /\ a.token = action[p].token /\ a.result = action[p].result
      /\ a.answer = "failed"
  BY <1>1 DEF ActionState
<1>3. Answered(p, a)
  BY <1>1
<1> HIDE DEF a
<1>4. RequestOK(hook[p], a, issued', disabled')
  BY <1>1, <1>2 DEF RequestOK
<1> QED
  BY <1>1, <1>2, <1>3, <1>4, ServiceStays, AnswerStep

LEMMA RevokeStep ==
    ASSUME SessionInv, RevokeElsewhere
    PROVE  SessionInv'
<1>1. /\ storedToken' = storedToken /\ front' = front /\ hook' = hook
      /\ action' = action
  BY DEF RevokeElsewhere
<1>2. Onward
  <2>1. CASE \E t \in SessionTokens : /\ issued[t] = "live" /\ UNCHANGED disabled
                                      /\ issued' = [issued EXCEPT ![t] = "revoked"]
    BY <2>1 DEF Onward, SessionInv, IssuedState
  <2>2. CASE disabled' = TRUE /\ UNCHANGED issued
    BY <2>2 DEF Onward, SessionInv
  <2> QED
    BY <2>1, <2>2 DEF RevokeElsewhere
<1>3. Known(storedToken, issued')
  BY <1>2 DEF SessionInv, Known, Onward
<1>4. \A p \in Pages : /\ RequestOK(hook[p], action[p], issued', disabled')
                       /\ PageOK(hook[p], action[p], issued')
  BY <1>2, OthersStay
<1>5. issued' \in IssuedState /\ disabled' \in BOOLEAN
  BY <1>2 DEF Onward
<1> QED
  BY <1>1, <1>3, <1>4, <1>5 DEF SessionInv

-----------------------------------------------------------------------------
(* Answers *)

LEMMA ReceiveCodeStep ==
    ASSUME SessionInv, NEW p \in Pages, ReceiveCode(p)
    PROVE  SessionInv'
<1>1. /\ action[p] \in ActionState /\ RequestOK(hook[p], action[p], issued, disabled)
      /\ issued' = issued /\ disabled' = disabled /\ front' = front
      /\ action[p].at = "code"
  BY PageFacts DEF ReceiveCode
<1>2. CASE FailAction(p)
  BY <1>1, <1>2, FailureStep
<1>3. CASE Begin(p, [action[p] EXCEPT !.at = "login"]) /\ UNCHANGED hook
  <2> DEFINE a == [action[p] EXCEPT !.at = "login"]
  <2>1. /\ a \in ActionState /\ a.kind = action[p].kind /\ a.at = "login"
        /\ a.token = action[p].token /\ a.result = action[p].result
        /\ a.answer = action[p].answer
    BY <1>1 DEF ActionState
  <2>2. Answered(p, a)
    BY <1>1, <1>3 DEF Begin, Answered
  <2> HIDE DEF a
  <2>3. RequestOK(hook[p], a, issued', disabled')
    BY <1>1, <2>1 DEF RequestOK
  <2> QED
    BY <1>1, <2>1, <2>2, <2>3, ServiceStays, AnswerStep
<1> QED
  BY <1>2, <1>3 DEF ReceiveCode

LEMMA ReceiveProfileStep ==
    ASSUME SessionInv, NEW p \in Pages, ReceiveProfile(p)
    PROVE  SessionInv'
<1>1. /\ hook[p] \in HookState /\ action[p] \in ActionState
      /\ RequestOK(hook[p], action[p], issued, disabled)
      /\ action[p].at = "me"
      /\ storedToken' = storedToken /\ issued' = issued /\ disabled' = disabled
      /\ front' \in Pages \cup {NoToken}
  BY PageFacts DEF ReceiveProfile, Begin, SessionInv
<1>2. action[p].token = hook[p].token /\ action[p].token \in SessionTokens
  BY <1>1 DEF RequestOK
<1> DEFINE token == action[p].token
           h == [hook[p] EXCEPT !.profile = token]
<1>3. h \in HookState
  BY <1>1, <1>2, TokenFacts DEF HookState
<1>4. h.token = token /\ h.profile = token
  BY <1>1, <1>2 DEF HookState
<1>5. hook' = [hook EXCEPT ![p] = h]
  BY <1>1 DEF ReceiveProfile, SessionInv, HookState
<1>6. action' = [action EXCEPT ![p] = Asking("refresh", "avatar", token)]
  BY <1>2 DEF ReceiveProfile, Begin
<1>7. token \in MaybeToken /\ token # NoToken /\ Known(token, issued)
  BY <1>1, <1>2, TokenFacts DEF RequestOK
<1> HIDE DEF h, token
<1> QED
  BY <1>1, <1>3, <1>4, <1>5, <1>6, <1>7, AskStep

LEMMA ReceiveLastStep ==
    ASSUME SessionInv, NEW p \in Pages, ReceiveLast(p)
    PROVE  SessionInv'
<1>1. action[p].token = hook[p].token
  BY PageFacts DEF ReceiveLast, RequestOK
<1> QED
  BY <1>1, SuccessStep DEF ReceiveLast

LEMMA ReceiveLoginStep ==
    ASSUME SessionInv, NEW p \in Pages, ReceiveLogin(p)
    PROVE  SessionInv'
<1> DEFINE next == action[p].result
<1>1. /\ hook[p] \in HookState /\ PageOK(hook[p], action[p], issued)
      /\ issued' = issued /\ disabled' = disabled /\ front' = front
  BY PageFacts DEF ReceiveLogin
<1>2. /\ next \in MaybeToken /\ next # NoToken /\ Known(next, issued)
  BY PageFacts, TokenFacts DEF ReceiveLogin, RequestOK
<1>3. \/ EndAction(p, next, next, next, FALSE)
      \/ Begin(p, Asking("login", "undo", next)) /\ UNCHANGED hook
  BY DEF ReceiveLogin
<1> HIDE DEF next
<1>4. CASE EndAction(p, next, next, next, FALSE)
  BY <1>1, <1>2, <1>4, EndStep
<1>5. CASE Begin(p, Asking("login", "undo", next)) /\ UNCHANGED hook
  <2>1. /\ hook' = [hook EXCEPT ![p] = hook[p]]
        /\ action' = [action EXCEPT ![p] = Asking("login", "undo", next)]
        /\ storedToken' = storedToken /\ front' \in Pages \cup {NoToken}
    BY <1>1, <1>5, PageFacts DEF Begin, SessionInv
  <2> QED
    BY <1>1, <1>2, <2>1, AskStep DEF PageOK
<1> QED
  BY <1>3, <1>4, <1>5

LEMMA ReceiveLogoutStep ==
    ASSUME SessionInv, NEW p \in Pages, ReceiveLogout(p)
    PROVE  SessionInv'
<1>1. PICK stored \in {storedToken, NoToken}, error \in BOOLEAN :
        EndAction(p, NoToken, NoToken, stored, error)
  BY DEF ReceiveLogout
<1>2. stored \in MaybeToken /\ Known(stored, issued)
  BY TokenFacts DEF SessionInv
<1>3. issued' = issued /\ disabled' = disabled /\ front' = front
  BY DEF ReceiveLogout
<1> QED
  BY <1>1, <1>2, <1>3, TokenFacts, EndStep

LEMMA ReceiveRestStep ==
    ASSUME SessionInv, NEW p \in Pages, ReceiveFailure(p) \/ ReceiveExpired(p)
    PROVE  SessionInv'
BY FailureStep, ExpiredStep DEF ReceiveFailure, ReceiveExpired

-----------------------------------------------------------------------------
(* The theorems *)

LEMMA SessionInitInv ==
    ASSUME SessionInit
    PROVE  SessionInv
<1>1. /\ hook \in [Pages -> HookState] /\ action \in [Pages -> ActionState]
      /\ issued \in IssuedState /\ disabled \in BOOLEAN
      /\ storedToken = NoToken /\ front = NoToken
  BY StateFacts DEF SessionInit, IssuedState
<1>2. ASSUME NEW p \in Pages
      PROVE  /\ RequestOK(hook[p], action[p], issued, disabled)
             /\ PageOK(hook[p], action[p], issued)
  <2>1. hook[p] = Unmounted /\ action[p] = NoAction
    BY DEF SessionInit
  <2> QED
    BY <2>1, StateFacts, TokenFacts DEF RequestOK, PageOK
<1> QED
  BY <1>1, <1>2, TokenFacts DEF SessionInv

LEMMA SessionNextInv ==
    ASSUME SessionInv, [SessionNext]_sessionVars
    PROVE  SessionInv'
<1>1. CASE RevokeElsewhere
  BY <1>1, RevokeStep
<1>2. ASSUME NEW p \in Pages,
             \/ ShowPage(p) \/ ClosePage(p) \/ Login(p)
             \/ AskWith(p, "logout") \/ AskWith(p, "nickname")
      PROVE  SessionInv'
  BY <1>2, ShowStep, CloseStep, LoginStep, AskWithStep
<1>3. ASSUME NEW p \in Pages,
             \/ ServeRequest(p) \/ ServeLogin(p) \/ ServeLogout(p) \/ LoseRequest(p)
      PROVE  SessionInv'
  BY <1>3, ServeRequestStep, ServeLoginStep, ServeLogoutStep, LoseStep
<1>4. ASSUME NEW p \in Pages,
             \/ ReceiveCode(p) \/ ReceiveProfile(p) \/ ReceiveLast(p)
             \/ ReceiveLogin(p) \/ ReceiveLogout(p) \/ ReceiveFailure(p)
             \/ ReceiveExpired(p)
      PROVE  SessionInv'
  BY <1>4, ReceiveCodeStep, ReceiveProfileStep, ReceiveLastStep, ReceiveLoginStep,
     ReceiveLogoutStep, ReceiveRestStep
<1>5. CASE UNCHANGED sessionVars
  <2>1. /\ storedToken' = storedToken /\ issued' = issued /\ disabled' = disabled
        /\ front' = front /\ hook' = hook /\ action' = action
    BY <1>5 DEF sessionVars
  <2> QED
    BY <2>1 DEF SessionInv
<1> QED
  BY <1>1, <1>2, <1>3, <1>4, <1>5 DEF SessionNext

LEMMA SessionInvariant == SessionSpec => []SessionInv
<1>1. SessionInit => SessionInv
  BY SessionInitInv
<1>2. SessionInv /\ [SessionNext]_sessionVars => SessionInv'
  BY SessionNextInv
<1> QED
  BY <1>1, <1>2, PTL DEF SessionSpec

\* use-identity.ts: a page that is neither busy nor showing an error shows the
\* profile of the very session it would log out or edit, although every page
\* keeps its own copy of the session and answers may be late or lost.
THEOREM ShownProfileIsOfSession == SessionSpec => []ProfileIsOfSession
<1>1. SessionInv => ProfileIsOfSession
  <2>1. ASSUME SessionInv, NEW p \in Pages
        PROVE  /\ {hook[p].profile, hook[p].token, action[p].token, action[p].result}
                    \subseteq MaybeToken
               /\ action[p].kind = "none" <=> action[p].at = "none"
               /\ hook[p].mounted /\ hook[p].profile # NoToken
                    /\ hook[p].profile # hook[p].token
                  => action[p].kind # "none" \/ hook[p].error
    BY <2>1, PageFacts DEF HookState, ActionState, RequestOK, PageOK
  <2> QED
    BY <2>1 DEF SessionInv, IssuedState, ProfileIsOfSession, SessionTypeOK
<1> QED
  BY <1>1, SessionInvariant, PTL

\* What may replace the session on the device.
Replaced ==
    \E p \in Pages :
       /\ action[p].kind # "none" /\ action'[p].kind = "none"
       /\ \/ action[p].kind = "login" /\ storedToken' = action[p].result
          \/ storedToken' = NoToken /\ action[p].kind = "logout"
          \/ storedToken' = NoToken /\ hook[p].token # storedToken

LEMMA KeptStep ==
    ASSUME SessionInv, [SessionNext]_sessionVars, Accepted(storedToken),
           storedToken' # storedToken
    PROVE  Replaced
<1>1. PICK p \in Pages :
        \/ AskWith(p, "logout") \/ AskWith(p, "nickname")
        \/ ReceiveCode(p) \/ ReceiveLast(p) \/ ReceiveLogin(p)
        \/ ReceiveLogout(p) \/ ReceiveFailure(p) \/ ReceiveExpired(p)
  BY DEF SessionNext, sessionVars, RevokeElsewhere, ShowPage, ClosePage, Login, Begin,
         ServeRequest, ServeLogin, ServeLogout, LoseRequest, Answered, ReceiveProfile
<1>2. /\ hook[p] \in HookState /\ action[p] \in ActionState
      /\ RequestOK(hook[p], action[p], issued, disabled)
      /\ PageOK(hook[p], action[p], issued)
  BY PageFacts
<1>3. ASSUME NEW token, NEW profile, NEW stored, NEW error,
             EndAction(p, token, profile, stored, error)
      PROVE  storedToken' = stored /\ action'[p].kind = "none"
  BY <1>3, StateFacts DEF EndAction, SessionInv
<1>4. ~Succeed(p) /\ ~FailAction(p)
  BY <1>3 DEF Succeed, FailAction
<1>5. Expired(p) => storedToken' = NoToken /\ action'[p].kind = "none"
  BY <1>3 DEF Expired
<1>6. ~AskWith(p, "logout") /\ ~AskWith(p, "nickname")
  <2>1. hook[p].profile # NoToken => hook[p].token # NoToken
    BY <1>2 DEF PageOK
  <2> QED
    BY <2>1 DEF AskWith
<1>7. ~ReceiveCode(p) /\ ~ReceiveLast(p) /\ ~ReceiveFailure(p)
  BY <1>4 DEF ReceiveCode, ReceiveLast, ReceiveFailure, Begin
<1>8. CASE ReceiveLogin(p)
  <2>1. action[p].kind = "login"
    BY <1>2, <1>8 DEF ReceiveLogin, RequestOK
  <2>2. storedToken' = action[p].result /\ action'[p].kind = "none"
    BY <1>3, <1>8 DEF ReceiveLogin, Begin
  <2> QED
    BY <2>1, <2>2 DEF Replaced
<1>9. CASE ReceiveLogout(p)
  <2>1. action[p].kind = "logout"
    BY <1>2, <1>9 DEF ReceiveLogout, RequestOK
  <2>2. storedToken' = NoToken /\ action'[p].kind = "none"
    BY <1>3, <1>9 DEF ReceiveLogout
  <2> QED
    BY <2>1, <2>2 DEF Replaced
<1>10. CASE ReceiveExpired(p)
  <2>1. storedToken' = NoToken /\ action'[p].kind = "none"
    BY <1>5, <1>10 DEF ReceiveExpired
  <2>2. action[p].answer = "expired" /\ storedToken \in SessionTokens
        /\ issued[storedToken] = "live" /\ ~disabled
    BY <1>10 DEF ReceiveExpired, Accepted
  <2>3. /\ action[p].at \in {"me", "avatar", "nickname"}
        /\ issued[action[p].token] = "revoked"
    BY <1>2, <2>2 DEF RequestOK
  <2>4. hook[p].token # storedToken /\ action[p].kind # "none"
    BY <1>2, <2>2, <2>3 DEF RequestOK
  <2> QED
    BY <2>1, <2>4 DEF Replaced
<1> QED
  BY <1>1, <1>6, <1>7, <1>8, <1>9, <1>10, SMTT(40)

\* features/identity/use-identity.ts, run and logout: the device loses a session
\* the User Service still accepts only to a login or logout, or to a page that
\* was itself working with another session.
THEOREM AcceptedSessionIsKept == SessionSpec => LoginIsKept
<1>1. SessionInv /\ [SessionNext]_sessionVars
        => [Accepted(storedToken) /\ storedToken' # storedToken => Replaced]_sessionVars
  BY KeptStep
<1> QED
  BY <1>1, SessionInvariant, PTL DEF LoginIsKept, Replaced, SessionSpec


-----------------------------------------------------------------------------
(* The companies that users follow: the inductive invariant *)

\* The variables of the module, given as values: at is addedAt, fs fits, cat catalogue.
FollowedIn(at, u) == {s \in TrackedStocks : at[u][s] # 0}
KeyIn(at, u, s) == [at |-> at[u][s], stock |-> s]

PassedIn(k, s, at) ==
    \/ ~k.more
    \/ k.cursor # Nothing /\ ~Newer(k.cursor, KeyIn(at, OwnerOf[k.token], s))

\* What a call is, by the service it waits for.
StageOK(k) ==
    /\ k.pc \in {"list", "rows", "stocks"} => k.op = "list"
    /\ k.pc = "search" => k.op = "search"
    /\ k.pc = "check" => k.op \in {"search", "add"} /\ k.token # Nothing
    /\ k.pc = "resolve" => k.op = "add"
    /\ k.pc = "write" => k.op \in {"add", "remove"}
    /\ k.pc = "filters" => k.op = "filters"
    /\ k.op \in {"list", "add", "remove"} => k.token # Nothing
    /\ k.op \in {"add", "remove"} => k.stock # Nothing
    /\ k.op = "search" => k.lookup \in Lookups
    /\ k.op \in Walks => k.size # 0
    /\ k.op \in Walks /\ k.pc # "done" => k.more

\* The page under way has the kept stocks from the cursor to the next one.
ListPageOK(k, at) ==
    /\ k.last <=> k.next = Nothing
    /\ k.next # Nothing /\ k.cursor # Nothing => Newer(k.cursor, k.next)
    /\ \A s \in k.kept :
         s \in k.items <=> s \notin k.shown
                           /\ (k.last \/ ~Newer(k.next, KeyIn(at, OwnerOf[k.token], s)))

ListOK(k, at) ==
    /\ k.cursor = Nothing /\ k.more => k.shown = {} /\ k.again = {}
    /\ \A s \in k.kept : /\ at[OwnerOf[k.token]][s] # 0
                         /\ s \in k.shown <=> PassedIn(k, s, at)
                         /\ s \notin k.again
    /\ k.pc = "stocks" => ListPageOK(k, at)

\* Nothing that has to be shown lies before or among what is shown.
SearchPageOK(k, fs) ==
    /\ k.kept # {} => k.items \subseteq fs[k.lookup]
    /\ \A s \in k.kept : \/ s \in k.shown \cup k.items
                         \/ ~k.last /\ \A r \in k.items : r < s

SearchOK(k, fs) ==
    /\ k.kept \subseteq fs[k.lookup]
    /\ k.kept # {} => k.shown \subseteq fs[k.lookup]
    /\ \A s \in k.kept : s \in k.shown \/ (k.more /\ \A r \in k.shown : r < s)
    /\ k.pc = "check" => SearchPageOK(k, fs)

CallOK(k, cat, fs, at) ==
    /\ StageOK(k)
    /\ k.pc = "write" /\ k.op = "add" => k.stock \in cat
    /\ k.pc = "rows" => k.total = Cardinality(FollowedIn(at, OwnerOf[k.token]))
    /\ k.pc = "stocks" => k.items \subseteq cat
    /\ k.op = "list" => ListOK(k, at)
    /\ k.op = "search" => SearchOK(k, fs)

TrackInv ==
    /\ TrackTypeOK
    /\ \A u \in Followers : FollowedIn(addedAt, u) \subseteq catalogue
    /\ FiltersAreServable
    /\ \A c \in TrackCalls : CallOK(trackCall[c], catalogue, fits, addedAt)

-----------------------------------------------------------------------------
(* Sets and orders *)

LEMMA SubsetIsFinite ==
    ASSUME NEW S \in SUBSET TrackedStocks
    PROVE  IsFiniteSet(S) /\ Cardinality(S) \in Nat
BY FS_Subset, FS_CardinalityType, TrackConstants

LEMMA SubsetIsSmaller ==
    ASSUME NEW S \in SUBSET TrackedStocks, NEW T \in SUBSET S
    PROVE  /\ Cardinality(T) <= Cardinality(S)
           /\ T # S => Cardinality(T) < Cardinality(S)
<1>1. IsFiniteSet(S) /\ Cardinality(S) \in Nat /\ Cardinality(T) \in Nat
  BY SubsetIsFinite
<1>2. Cardinality(T) <= Cardinality(S) /\ (Cardinality(S) = Cardinality(T) => S = T)
  BY <1>1, FS_Subset
<1> QED
  BY <1>1, <1>2

LEMMA KeysAreOrdered ==
    /\ \A k, l \in Key : k = l \/ Newer(k, l) \/ Newer(l, k)
    /\ \A k, l \in Key : ~(Newer(k, l) /\ Newer(l, k)) /\ ~Newer(k, k)
    /\ \A k, l, m \in Key : Newer(k, l) /\ Newer(l, m) => Newer(k, m)
<1>1. \A k \in Key : k.at \in Nat /\ k.stock \in Nat
  <2>1. \A k \in Key : k.at \in Instants /\ k.stock \in TrackedStocks
    BY DEF Key
  <2>2. TrackedStocks \subseteq Nat /\ Instants \subseteq Nat
    BY TrackConstants DEF Instants
  <2> QED
    BY <2>1, <2>2
<1>2. ASSUME NEW k \in Key, NEW l \in Key, k.at = l.at, k.stock = l.stock
      PROVE  k = l
  <2>1. k = [at |-> k.at, stock |-> k.stock] /\ l = [at |-> l.at, stock |-> l.stock]
    BY DEF Key
  <2> QED
    BY <2>1, <1>2
<1>3. \A k, l \in Key : k = l \/ Newer(k, l) \/ Newer(l, k)
  BY <1>1, <1>2 DEF Newer
<1>4. \A k, l \in Key : ~(Newer(k, l) /\ Newer(l, k)) /\ ~Newer(k, k)
  BY <1>1 DEF Newer
<1>5. ASSUME NEW k \in Key, NEW l \in Key, NEW m \in Key, Newer(k, l), Newer(l, m)
      PROVE  Newer(k, m)
  <2>1. /\ k.at \in Nat /\ l.at \in Nat /\ m.at \in Nat
        /\ k.stock \in Nat /\ l.stock \in Nat /\ m.stock \in Nat
    BY <1>1
  <2> QED
    BY <2>1, <1>5 DEF Newer
<1> QED
  BY <1>3, <1>4, <1>5

\* A followed stock has a key.
LEMMA KeyOfRow ==
    ASSUME TrackTypeOK, NEW u \in Followers, NEW s \in FollowedBy(u)
    PROVE  KeyOf(u, s) \in Key /\ KeyOf(u, s).stock = s /\ KeyOf(u, s) = KeyIn(addedAt, u, s)
BY DEF TrackTypeOK, FollowedBy, KeyOf, KeyIn, Key

\* The first n rows are those up to the last of them, which the cursor names if there
\* are more.
LEMMA PageIsFirst ==
    ASSUME TrackTypeOK, NEW u \in Followers, NEW rows \in SUBSET FollowedBy(u),
           NEW n \in Nat \ {0}, NEW p \in FirstOf(u, rows, n), NEW s \in rows,
           \A r \in FirstOf(u, rows, n) : KeyOf(u, r) = KeyOf(u, p) \/ Newer(KeyOf(u, r), KeyOf(u, p))
    PROVE  s \in FirstOf(u, rows, n) <=> ~Newer(KeyOf(u, p), KeyOf(u, s))
<1> DEFINE Above(x) == {r \in rows : Newer(KeyOf(u, r), KeyOf(u, x))}
<1>1. p \in rows /\ Cardinality(Above(p)) < n
  BY DEF FirstOf
<1>2. \A r \in rows : KeyOf(u, r) \in Key /\ KeyOf(u, r).stock = r
  BY KeyOfRow
<1>3. ASSUME s \in FirstOf(u, rows, n)
      PROVE  ~Newer(KeyOf(u, p), KeyOf(u, s))
  BY <1>1, <1>2, <1>3, KeysAreOrdered
<1>4. ASSUME ~Newer(KeyOf(u, p), KeyOf(u, s))
      PROVE  s \in FirstOf(u, rows, n)
  <2>1. CASE KeyOf(u, s) = KeyOf(u, p)
    BY <2>1, <1>1, <1>2
  <2>2. CASE Newer(KeyOf(u, s), KeyOf(u, p))
    <3>1. Above(s) \subseteq Above(p)
      BY <2>2, <1>1, <1>2, KeysAreOrdered
    <3>2. Above(p) \in SUBSET TrackedStocks /\ Above(s) \in SUBSET Above(p)
      BY <3>1 DEF FollowedBy
    <3>3. Cardinality(Above(s)) <= Cardinality(Above(p))
      BY <3>2, SubsetIsSmaller
    <3>4. Cardinality(Above(s)) \in Nat /\ Cardinality(Above(p)) \in Nat
      BY <3>2, SubsetIsFinite
    <3> QED
      BY <3>3, <3>4, <1>1 DEF FirstOf
  <2> QED
    BY <1>4, <2>1, <2>2, <1>1, <1>2, KeysAreOrdered
<1> QED
  BY <1>3, <1>4

\* There is no other row than the first n if there are no more than n.
LEMMA PageIsAll ==
    ASSUME TrackTypeOK, NEW u \in Followers, NEW rows \in SUBSET FollowedBy(u),
           NEW n \in Nat, Cardinality(rows) <= n
    PROVE  FirstOf(u, rows, n) = rows
<1> SUFFICES ASSUME NEW s \in rows
             PROVE  Cardinality({r \in rows : Newer(KeyOf(u, r), KeyOf(u, s))}) < n
  BY DEF FirstOf
<1> DEFINE above == {r \in rows : Newer(KeyOf(u, r), KeyOf(u, s))}
<1>1. s \notin above
  BY KeyOfRow, KeysAreOrdered
<1>2. rows \in SUBSET TrackedStocks /\ above \in SUBSET rows /\ above # rows
  BY <1>1 DEF FollowedBy
<1>3. Cardinality(above) < Cardinality(rows)
  BY <1>2, SubsetIsSmaller
<1>4. Cardinality(above) \in Nat /\ Cardinality(rows) \in Nat
  BY <1>2, SubsetIsFinite
<1> QED
  BY <1>3, <1>4

\* Places in the order of a search.
LEMMA PlacesAreOrdered ==
    ASSUME NEW rows \in SUBSET TrackedStocks, NEW r \in rows, NEW s \in rows
    PROVE  /\ Place(r, rows) \in Nat /\ Place(r, rows) < Cardinality(rows)
           /\ Place(r, rows) < Place(s, rows) => r < s
<1>1. r \in Nat /\ s \in Nat /\ \A x \in rows : x \in Nat
  BY TrackConstants
<1> DEFINE Below(x) == {y \in rows : y < x}
<1>2. Below(r) \in SUBSET rows /\ Below(r) # rows
  BY <1>1
<1>3. Cardinality(Below(r)) < Cardinality(rows)
  BY <1>2, SubsetIsSmaller
<1>4. Cardinality(Below(r)) \in Nat /\ Cardinality(Below(s)) \in Nat
  <2>1. Below(r) \in SUBSET TrackedStocks /\ Below(s) \in SUBSET TrackedStocks
    OBVIOUS
  <2> QED
    BY <2>1, SubsetIsFinite
<1>5. ASSUME ~(r < s)
      PROVE  Cardinality(Below(s)) <= Cardinality(Below(r))
  <2>1. s <= r
    BY <1>1, <1>5
  <2>2. \A y \in rows : y < s => y < r
    BY <1>1, <2>1
  <2>3. Below(r) \in SUBSET TrackedStocks /\ Below(s) \in SUBSET Below(r)
    BY <2>2
  <2> QED
    BY <2>3, SubsetIsSmaller
<1> QED
  BY <1>3, <1>4, <1>5 DEF Place

-----------------------------------------------------------------------------
(* A page is shown *)

AddedAt == [Followers -> [TrackedStocks -> Instants \cup {0}]]

LEMMA KeyInTable ==
    ASSUME NEW at \in AddedAt, NEW u \in Followers, NEW s \in TrackedStocks, at[u][s] # 0
    PROVE  KeyIn(at, u, s) \in Key
BY DEF AddedAt, KeyIn, Key

LEMMA PageShownFields ==
    ASSUME NEW k \in TrackCall, NEW q, q = PageShown(k)
    PROVE  /\ q \in TrackCall
           /\ q.op = k.op /\ q.pc = "done" /\ q.token = k.token /\ q.stock = k.stock
           /\ q.size = k.size /\ q.lookup = k.lookup /\ q.kept = k.kept
           /\ q.cursor = k.next /\ q.more = ~k.last /\ q.items = {}
           /\ q.shown = k.shown \cup k.items
           /\ q.again = k.again \cup (k.shown \cap k.items)
BY ZenonT(60) DEF TrackCall, PageShown, Cursor, Outcomes, Walks

LEMMA ListPageShown ==
    ASSUME NEW k \in TrackCall, NEW cat, NEW fs, NEW at \in AddedAt,
           k.op = "list", k.more, StageOK(k), ListOK(k, at), ListPageOK(k, at)
    PROVE  CallOK(PageShown(k), cat, fs, at)
<1> DEFINE q == PageShown(k)
           u == OwnerOf[k.token]
<1>1. /\ q \in TrackCall /\ q.op = "list" /\ q.pc = "done" /\ q.token = k.token
      /\ q.size = k.size /\ q.kept = k.kept
      /\ q.cursor = k.next /\ q.more = ~k.last
      /\ q.shown = k.shown \cup k.items
      /\ q.again = k.again \cup (k.shown \cap k.items)
  BY PageShownFields
<1>2. k.token \in Logins /\ u \in Followers /\ k.kept \subseteq TrackedStocks
  <2>1. k.token \in Logins \cup {Nothing} /\ k.kept \subseteq TrackedStocks
    BY DEF TrackCall
  <2> QED
    BY <2>1, TrackConstants DEF StageOK
<1> HIDE DEF q
<1>3. StageOK(q)
  BY <1>1 DEF StageOK, Walks
<1>4. ASSUME NEW s \in q.kept
      PROVE  /\ at[OwnerOf[q.token]][s] # 0
             /\ s \in q.shown <=> PassedIn(q, s, at)
             /\ s \notin q.again
  <2>1. /\ s \in TrackedStocks /\ at[u][s] # 0 /\ (s \in k.shown <=> PassedIn(k, s, at))
        /\ s \notin k.again
        /\ s \in k.items <=> s \notin k.shown /\ (k.last \/ ~Newer(k.next, KeyIn(at, u, s)))
    BY <1>1, <1>2, <1>4 DEF ListOK, ListPageOK
  <2>2. KeyIn(at, u, s) \in Key
    BY <1>2, <2>1, KeyInTable
  <2>3. CASE k.last
    BY <2>1, <2>3, <1>1 DEF PassedIn
  <2>4. CASE ~k.last
    <3>1. k.next \in Key
      BY <2>4 DEF ListPageOK, TrackCall, Cursor
    <3>2. PassedIn(q, s, at) <=> ~Newer(k.next, KeyIn(at, u, s))
      BY <2>4, <3>1, <1>1, CursorConstants DEF PassedIn
    <3>3. ASSUME s \in k.shown
          PROVE  ~Newer(k.next, KeyIn(at, u, s))
      <4>1. k.cursor # Nothing /\ ~Newer(k.cursor, KeyIn(at, u, s))
        BY <3>3, <2>1 DEF PassedIn
      <4>2. k.cursor \in Key /\ Newer(k.cursor, k.next)
        BY <4>1, <3>1, CursorConstants DEF ListPageOK, TrackCall, Cursor
      <4> QED
        BY <4>1, <4>2, <3>1, <2>2, KeysAreOrdered
    <3>4. s \in k.items <=> s \notin k.shown /\ ~Newer(k.next, KeyIn(at, u, s))
      BY <2>1, <2>4
    <3>5. s \in q.shown <=> s \in k.shown \/ s \in k.items
      BY <1>1
    <3>6. s \in q.shown <=> PassedIn(q, s, at)
      BY <3>2, <3>3, <3>4, <3>5
    <3>7. s \notin q.again
      BY <2>1, <3>4, <1>1
    <3> QED
      BY <3>6, <3>7, <2>1, <1>1
  <2> QED
    BY <2>3, <2>4
<1>5. q.cursor = Nothing /\ q.more => q.shown = {} /\ q.again = {}
  BY <1>1 DEF ListPageOK
<1>6. ListOK(q, at)
  BY <1>1, <1>4, <1>5 DEF ListOK
<1> QED
  BY <1>1, <1>3, <1>6 DEF CallOK, q

LEMMA SearchPageShown ==
    ASSUME NEW k \in TrackCall, NEW cat, NEW fs, NEW at,
           k.op = "search", k.more, k.lookup \in Lookups, k.size # 0,
           SearchOK(k, fs), SearchPageOK(k, fs)
    PROVE  CallOK(PageShown(k), cat, fs, at)
<1> DEFINE q == PageShown(k)
<1>1. /\ q \in TrackCall /\ q.op = "search" /\ q.pc = "done"
      /\ q.lookup = k.lookup /\ q.size = k.size /\ q.kept = k.kept
      /\ q.more = ~k.last /\ q.shown = k.shown \cup k.items
  BY PageShownFields
<1> HIDE DEF q
<1>2. StageOK(q)
  BY <1>1 DEF StageOK, Walks
<1>3. ASSUME NEW s \in q.kept
      PROVE  s \in q.shown \/ (q.more /\ \A r \in q.shown : r < s)
  BY <1>1, <1>3 DEF SearchOK, SearchPageOK
<1>4. SearchOK(q, fs)
  BY <1>1, <1>3 DEF SearchOK, SearchPageOK
<1> QED
  BY <1>1, <1>2, <1>4 DEF CallOK, q

-----------------------------------------------------------------------------
(* A call starts, waits or ends *)

LEMMA NewCallFields ==
    /\ NewCall \in TrackCall
    /\ NewCall.op = "none" /\ NewCall.pc = "done" /\ NewCall.more
    /\ NewCall.items = {} /\ NewCall.shown = {} /\ NewCall.again = {} /\ NewCall.kept = {}
    /\ NewCall.cursor = Nothing
BY DEF NewCall, TrackCall, Cursor, Outcomes, Walks

LEMMA NewCallEnds ==
    ASSUME NEW outcome \in Outcomes, NEW cat, NEW fs, NEW at
    PROVE  /\ [NewCall EXCEPT !.outcome = outcome] \in TrackCall
           /\ CallOK([NewCall EXCEPT !.outcome = outcome], cat, fs, at)
<1> DEFINE q == [NewCall EXCEPT !.outcome = outcome]
<1>1. q \in TrackCall /\ q.op = "none" /\ q.pc = "done"
  BY NewCallFields DEF TrackCall
<1> HIDE DEF q
<1>2. CallOK(q, cat, fs, at)
  BY <1>1 DEF CallOK, StageOK, Walks
<1> QED
  BY <1>1, <1>2 DEF q

LEMMA EndedOK ==
    ASSUME NEW k \in TrackCall, NEW outcome \in Outcomes, NEW cat, NEW fs, NEW at,
           CallOK(k, cat, fs, at)
    PROVE  Ended(k, outcome) \in TrackCall /\ CallOK(Ended(k, outcome), cat, fs, at)
<1>1. CASE k.op \in Walks /\ outcome = "TRACKING_UNAVAILABLE"
  <2> DEFINE q == [k EXCEPT !.pc = "done", !.outcome = outcome, !.attempt = 1,
                     !.total = 0, !.items = {}, !.next = Nothing, !.last = FALSE]
  <2>1. Ended(k, outcome) = q
    BY <1>1 DEF Ended
  <2>2. /\ q \in TrackCall /\ q.op = k.op /\ q.pc = "done" /\ q.token = k.token
        /\ q.size = k.size /\ q.lookup = k.lookup /\ q.kept = k.kept /\ q.stock = k.stock
        /\ q.cursor = k.cursor /\ q.more = k.more /\ q.shown = k.shown /\ q.again = k.again
    <3>1. q \in TrackCall
      BY DEF TrackCall, Cursor
    <3>2. /\ q.op = k.op /\ q.pc = "done" /\ q.token = k.token
          /\ q.size = k.size /\ q.lookup = k.lookup /\ q.kept = k.kept /\ q.stock = k.stock
      BY DEF TrackCall
    <3>3. q.cursor = k.cursor /\ q.more = k.more /\ q.shown = k.shown /\ q.again = k.again
      BY DEF TrackCall
    <3> QED
      BY <3>1, <3>2, <3>3
  <2> HIDE DEF q
  <2>3. StageOK(q)
    BY <1>1, <2>2 DEF CallOK, StageOK, Walks
  <2>4. k.op = "list" => ListOK(q, at)
    BY <2>2 DEF CallOK, ListOK, PassedIn
  <2>5. k.op = "search" => SearchOK(q, fs)
    BY <2>2 DEF CallOK, SearchOK
  <2> QED
    BY <2>1, <2>2, <2>3, <2>4, <2>5 DEF CallOK
<1>2. CASE ~(k.op \in Walks /\ outcome = "TRACKING_UNAVAILABLE")
  <2>1. Ended(k, outcome) = [NewCall EXCEPT !.outcome = outcome]
    BY <1>2 DEF Ended
  <2> QED
    BY <2>1, NewCallEnds
<1> QED
  BY <1>1, <1>2

\* Only one call goes on.
LEMMA OneCallGoes ==
    ASSUME TrackInv, NEW c \in TrackCalls, NEW k \in TrackCall,
           CallOK(k, catalogue, fits, addedAt), Goes(c, k), UNCHANGED Tables
    PROVE  TrackInv'
<1>1. /\ catalogue' = catalogue /\ fits' = fits /\ industries' = industries
      /\ addedAt' = addedAt /\ login' = login /\ trackCall' = [trackCall EXCEPT ![c] = k]
  BY DEF Tables, Goes
<1>2. trackCall \in [TrackCalls -> TrackCall]
  BY DEF TrackInv, TrackTypeOK
<1>3. trackCall' \in [TrackCalls -> TrackCall]
  BY <1>1, <1>2
<1>4. TrackTypeOK'
  BY <1>1, <1>3 DEF TrackInv, TrackTypeOK
<1>5. ASSUME NEW d \in TrackCalls
      PROVE  CallOK(trackCall'[d], catalogue', fits', addedAt')
  BY <1>1, <1>2 DEF TrackInv
<1>6. /\ \A u \in Followers : FollowedIn(addedAt', u) \subseteq catalogue'
      /\ FiltersAreServable'
  BY <1>1 DEF TrackInv, FiltersAreServable
<1> QED
  BY <1>4, <1>5, <1>6 DEF TrackInv

\* What the invariant says of one call.
LEMMA CallHolds ==
    ASSUME TrackInv, NEW c \in TrackCalls
    PROVE  trackCall[c] \in TrackCall /\ CallOK(trackCall[c], catalogue, fits, addedAt)
BY DEF TrackInv, TrackTypeOK

LEMMA EndsKeeps ==
    ASSUME TrackInv, NEW c \in TrackCalls, NEW outcome \in Outcomes, Ends(c, outcome),
           UNCHANGED Tables
    PROVE  TrackInv'
<1> DEFINE k == Ended(trackCall[c], outcome)
<1>1. k \in TrackCall /\ CallOK(k, catalogue, fits, addedAt)
  BY CallHolds, EndedOK
<1>2. Goes(c, k)
  BY DEF Ends
<1> QED
  BY <1>1, <1>2, OneCallGoes
-----------------------------------------------------------------------------
(* The client asks *)

\* A call that has shown nothing and waits for its first service.
LEMMA FreshCallOK ==
    ASSUME NEW q \in TrackCall, NEW cat, NEW fs, NEW at, StageOK(q),
           q.shown = {}, q.again = {}, q.kept = {}, q.pc \notin {"rows", "stocks"},
           q.op = "search" => q.pc # "check", q.op = "add" => q.pc # "write"
    PROVE  CallOK(q, cat, fs, at)
<1>1. q.op = "list" => ListOK(q, at)
  BY DEF ListOK
<1>2. q.op = "search" => SearchOK(q, fs)
  BY DEF SearchOK
<1> QED
  BY <1>1, <1>2 DEF CallOK

LEMMA StartsKeeps ==
    ASSUME TrackInv, NEW c \in TrackCalls, NEW q \in TrackCall, Starts(c, q),
           q.token = Nothing => q.op \in {"list", "add", "remove"} \/ StageOK(q),
           q.token # Nothing => StageOK(q),
           q.shown = {}, q.again = {}, q.kept = {}, q.pc \notin {"rows", "stocks"},
           q.op = "search" => q.pc # "check", q.op = "add" => q.pc # "write"
    PROVE  TrackInv'
<1>1. CASE q.token = Nothing /\ q.op \in {"list", "add", "remove"}
  <2> DEFINE k == [NewCall EXCEPT !.outcome = "UNAUTHENTICATED"]
  <2>1. "UNAUTHENTICATED" \in Outcomes
    BY DEF Outcomes
  <2>2. k \in TrackCall /\ CallOK(k, catalogue, fits, addedAt)
    BY <2>1, NewCallEnds
  <2>3. Goes(c, k) /\ UNCHANGED Tables
    BY <1>1 DEF Starts
  <2> QED
    BY <2>2, <2>3, OneCallGoes
<1>2. CASE ~(q.token = Nothing /\ q.op \in {"list", "add", "remove"})
  <2>1. CallOK(q, catalogue, fits, addedAt)
    BY <1>2, FreshCallOK
  <2>2. Goes(c, q) /\ UNCHANGED Tables
    BY <1>2 DEF Starts
  <2> QED
    BY <2>1, <2>2, OneCallGoes
<1> QED
  BY <1>1, <1>2

LEMMA StartFiltersKeeps ==
    ASSUME TrackInv, NEW c \in TrackCalls, StartFilters(c)
    PROVE  TrackInv'
<1> DEFINE q == [NewCall EXCEPT !.op = "filters", !.pc = "filters"]
<1>1. /\ q \in TrackCall /\ q.op = "filters" /\ q.pc = "filters"
      /\ q.shown = {} /\ q.again = {} /\ q.kept = {}
  BY NewCallFields, ZenonT(60) DEF TrackCall
<1>2. Starts(c, q)
  BY DEF StartFilters
<1> HIDE DEF q
<1>3. StageOK(q)
  BY <1>1 DEF StageOK, Walks
<1> QED
  BY <1>1, <1>2, <1>3, StartsKeeps

LEMMA StartListKeeps ==
    ASSUME TrackInv, NEW c \in TrackCalls, StartList(c)
    PROVE  TrackInv'
<1>1. PICK t \in Logins \cup {Nothing}, n \in PageSizes :
        Starts(c, [NewCall EXCEPT !.op = "list", !.pc = "list", !.token = t, !.size = n])
  BY DEF StartList
<1> DEFINE q == [NewCall EXCEPT !.op = "list", !.pc = "list", !.token = t, !.size = n]
<1>2. /\ q \in TrackCall /\ q.op = "list" /\ q.pc = "list" /\ q.token = t /\ q.size = n
      /\ q.shown = {} /\ q.again = {} /\ q.kept = {} /\ q.more
  BY NewCallFields, ZenonT(60) DEF TrackCall, Walks
<1>3. Starts(c, q)
  BY <1>1
<1>4. n # 0
  BY TrackConstants
<1> HIDE DEF q
<1>5. q.token # Nothing => StageOK(q)
  BY <1>2, <1>4 DEF StageOK, Walks
<1> QED
  BY <1>2, <1>3, <1>5, StartsKeeps

LEMMA StartSearchKeeps ==
    ASSUME TrackInv, NEW c \in TrackCalls, StartSearch(c)
    PROVE  TrackInv'
<1>1. PICK t \in Logins \cup {Nothing}, n \in PageSizes, l \in Lookups :
        Starts(c, [NewCall EXCEPT !.op = "search", !.pc = "search", !.token = t,
                                  !.size = n, !.lookup = l])
  BY DEF StartSearch
<1> DEFINE q == [NewCall EXCEPT !.op = "search", !.pc = "search", !.token = t,
                                !.size = n, !.lookup = l]
<1>2. /\ q \in TrackCall /\ q.op = "search" /\ q.pc = "search" /\ q.token = t /\ q.size = n
      /\ q.lookup = l /\ q.shown = {} /\ q.again = {} /\ q.kept = {} /\ q.more
  <2>1. q \in TrackCall
    BY NewCallFields, ZenonT(60) DEF TrackCall, Walks
  <2>2. /\ q.op = "search" /\ q.pc = "search" /\ q.token = t /\ q.size = n
        /\ q.lookup = l
    BY NewCallFields DEF TrackCall
  <2>3. q.shown = {} /\ q.again = {} /\ q.kept = {} /\ q.more
    BY NewCallFields DEF TrackCall
  <2> QED
    BY <2>1, <2>2, <2>3
<1>3. Starts(c, q)
  BY <1>1
<1>4. n # 0
  BY TrackConstants
<1> HIDE DEF q
<1>5. StageOK(q)
  BY <1>2, <1>4 DEF StageOK, Walks
<1> QED
  BY <1>2, <1>3, <1>5, StartsKeeps

LEMMA StartChangeKeeps ==
    ASSUME TrackInv, NEW c \in TrackCalls, StartChange(c)
    PROVE  TrackInv'
<1>1. PICK t \in Logins \cup {Nothing}, s \in TrackedStocks :
        \/ Starts(c, [NewCall EXCEPT !.op = "add", !.pc = "check", !.token = t, !.stock = s])
        \/ Starts(c, [NewCall EXCEPT !.op = "remove", !.pc = "write", !.token = t, !.stock = s])
  BY DEF StartChange
<1>2. s # Nothing
  BY TrackConstants
<1>3. ASSUME NEW q \in TrackCall, q.token = t, q.stock = s,
             q.shown = {}, q.again = {}, q.kept = {}, Starts(c, q),
             \/ q.op = "add" /\ q.pc = "check"
             \/ q.op = "remove" /\ q.pc = "write"
      PROVE  TrackInv'
  <2>1. q.token # Nothing => StageOK(q)
    BY <1>2, <1>3 DEF StageOK, Walks
  <2> QED
    BY <1>3, <2>1, StartsKeeps
<1>4. CASE Starts(c, [NewCall EXCEPT !.op = "add", !.pc = "check", !.token = t, !.stock = s])
  <2> DEFINE q == [NewCall EXCEPT !.op = "add", !.pc = "check", !.token = t, !.stock = s]
  <2>1. /\ q \in TrackCall /\ q.op = "add" /\ q.pc = "check" /\ q.token = t /\ q.stock = s
        /\ q.shown = {} /\ q.again = {} /\ q.kept = {}
    BY NewCallFields, ZenonT(60) DEF TrackCall
  <2>2. Starts(c, q)
    BY <1>4
  <2> HIDE DEF q
  <2> QED
    BY <2>1, <2>2, <1>3
<1>5. CASE Starts(c, [NewCall EXCEPT !.op = "remove", !.pc = "write", !.token = t, !.stock = s])
  <2> DEFINE q == [NewCall EXCEPT !.op = "remove", !.pc = "write", !.token = t, !.stock = s]
  <2>1. /\ q \in TrackCall /\ q.op = "remove" /\ q.pc = "write" /\ q.token = t /\ q.stock = s
        /\ q.shown = {} /\ q.again = {} /\ q.kept = {}
    BY NewCallFields, ZenonT(60) DEF TrackCall
  <2>2. Starts(c, q)
    BY <1>5
  <2> HIDE DEF q
  <2> QED
    BY <2>1, <2>2, <1>3
<1> QED
  BY <1>1, <1>4, <1>5

LEMMA NextPageKeeps ==
    ASSUME TrackInv, NEW c \in TrackCalls, NextPage(c)
    PROVE  TrackInv'
<1> DEFINE k == trackCall[c]
           q == [k EXCEPT !.pc = k.op, !.outcome = "none"]
<1>1. k \in TrackCall /\ CallOK(k, catalogue, fits, addedAt)
  BY CallHolds
<1>2. k.op \in Walks /\ k.more /\ Goes(c, q) /\ UNCHANGED Tables
  BY DEF NextPage
<1>3. "none" \in Outcomes
  BY DEF Outcomes
<1> HIDE DEF k
<1>4. q \in TrackCall
  BY <1>1, <1>2, <1>3 DEF TrackCall, Walks
<1>5. /\ q.op = k.op /\ q.pc = k.op /\ q.token = k.token /\ q.stock = k.stock
      /\ q.size = k.size /\ q.lookup = k.lookup /\ q.kept = k.kept
      /\ q.cursor = k.cursor /\ q.more = k.more /\ q.shown = k.shown /\ q.again = k.again
  BY <1>1 DEF TrackCall
<1> HIDE DEF q
<1>6. StageOK(q)
  BY <1>1, <1>2, <1>5 DEF CallOK, StageOK, Walks
<1>7. k.op = "list" => ListOK(q, addedAt)
  BY <1>1, <1>5 DEF CallOK, ListOK, PassedIn
<1>8. k.op = "search" => SearchOK(q, fits)
  BY <1>1, <1>5 DEF CallOK, SearchOK
<1>9. CallOK(q, catalogue, fits, addedAt)
  BY <1>2, <1>5, <1>6, <1>7, <1>8 DEF CallOK, Walks
<1> QED
  BY <1>2, <1>4, <1>9, OneCallGoes
-----------------------------------------------------------------------------
(* A service answers one call *)

LEMMA RefusedKeeps ==
    ASSUME TrackInv, NEW c \in TrackCalls, Refused(c)
    PROVE  TrackInv'
<1>1. Authorization(trackCall[c].token) \in Outcomes
  BY DEF Authorization, Outcomes
<1> QED
  BY <1>1, EndsKeeps DEF Refused

LEMMA UserFailsKeeps ==
    ASSUME TrackInv, NEW c \in TrackCalls, UserFails(c)
    PROVE  TrackInv'
<1>1. "TRACKING_UNAVAILABLE" \in Outcomes
  BY DEF Outcomes
<1> QED
  BY <1>1, EndsKeeps DEF UserFails

\* Where a call is of its own accord: nothing of it changes but the service it waits for.
LEMMA CallMoves ==
    ASSUME TrackInv, NEW c \in TrackCalls, NEW q \in TrackCall, NEW k, k = trackCall[c],
           q.op = k.op, q.token = k.token, q.stock = k.stock, q.size = k.size,
           q.lookup = k.lookup, q.more = k.more, q.cursor = k.cursor, q.kept = k.kept,
           q.shown = k.shown, q.again = k.again, StageOK(q),
           q.pc = "write" /\ q.op = "add" => q.stock \in catalogue,
           q.pc = "rows" => q.total = Cardinality(FollowedIn(addedAt, OwnerOf[q.token])),
           q.pc # "stocks", q.op = "search" => q.pc # "check",
           Goes(c, q), UNCHANGED Tables
    PROVE  TrackInv'
<1>1. k \in TrackCall /\ CallOK(k, catalogue, fits, addedAt)
  BY CallHolds
<1>2. q.op = "list" => ListOK(q, addedAt)
  BY <1>1 DEF CallOK, ListOK, PassedIn
<1>3. q.op = "search" => SearchOK(q, fits)
  BY <1>1 DEF CallOK, SearchOK
<1>4. CallOK(q, catalogue, fits, addedAt)
  BY <1>2, <1>3 DEF CallOK
<1> QED
  BY <1>4, OneCallGoes

LEMMA CountRowsKeeps ==
    ASSUME TrackInv, NEW c \in TrackCalls, CountRows(c)
    PROVE  TrackInv'
<1> DEFINE k == trackCall[c]
           n == Cardinality(FollowedBy(Owner(c)))
           q == [k EXCEPT !.pc = "rows", !.total = n]
<1>1. k \in TrackCall /\ StageOK(k) /\ k.pc = "list" /\ Goes(c, q) /\ UNCHANGED Tables
  BY CallHolds DEF CallOK, CountRows, Admitted
<1>2. /\ FollowedBy(Owner(c)) \in SUBSET TrackedStocks
      /\ FollowedBy(Owner(c)) = FollowedIn(addedAt, OwnerOf[k.token])
  BY DEF FollowedBy, FollowedIn, Owner
<1>3. n \in Nat /\ n = Cardinality(FollowedIn(addedAt, OwnerOf[k.token]))
  BY <1>2, SubsetIsFinite
<1> HIDE DEF k, n
<1>4. q \in TrackCall
  BY <1>1, <1>3 DEF TrackCall
<1>5. /\ q.op = k.op /\ q.token = k.token /\ q.stock = k.stock /\ q.size = k.size
      /\ q.lookup = k.lookup /\ q.more = k.more
  BY <1>1 DEF TrackCall
<1>6. /\ q.cursor = k.cursor /\ q.kept = k.kept /\ q.shown = k.shown /\ q.again = k.again
      /\ q.pc = "rows" /\ q.total = n
  BY <1>1 DEF TrackCall
<1> HIDE DEF q
<1>7. StageOK(q)
  BY <1>1, <1>5, <1>6 DEF StageOK, Walks
<1> QED
  BY <1>1, <1>3, <1>4, <1>5, <1>6, <1>7, CallMoves DEF k

LEMMA AwaitsKeeps ==
    ASSUME TrackInv, NEW c \in TrackCalls, NEW pc, Awaits(c, pc), UNCHANGED Tables,
           trackCall[c].op = "add", pc \in {"resolve", "write"},
           pc = "write" => trackCall[c].stock \in catalogue
    PROVE  TrackInv'
<1> DEFINE k == trackCall[c]
           q == [k EXCEPT !.pc = pc, !.attempt = 1]
<1>1. k \in TrackCall /\ StageOK(k) /\ k.op = "add" /\ Goes(c, q)
  BY CallHolds DEF CallOK, Awaits
<1> HIDE DEF k
<1>2. q \in TrackCall
  BY <1>1 DEF TrackCall
<1>3. /\ q.op = k.op /\ q.token = k.token /\ q.stock = k.stock /\ q.size = k.size
      /\ q.lookup = k.lookup /\ q.more = k.more
  BY <1>1 DEF TrackCall
<1>4. /\ q.cursor = k.cursor /\ q.kept = k.kept /\ q.shown = k.shown /\ q.again = k.again
      /\ q.pc = pc
  BY <1>1 DEF TrackCall
<1> HIDE DEF q
<1>5. StageOK(q)
  BY <1>1, <1>3, <1>4 DEF StageOK, Walks
<1>6. k = trackCall[c]
  BY DEF k
<1> QED
  BY <1>1, <1>2, <1>3, <1>4, <1>5, <1>6, CallMoves

LEMMA CheckFollowedKeeps ==
    ASSUME TrackInv, NEW c \in TrackCalls, CheckFollowed(c)
    PROVE  TrackInv'
<1> DEFINE k == trackCall[c]
<1>1. k \in TrackCall /\ CallOK(k, catalogue, fits, addedAt) /\ k.pc = "check"
  BY CallHolds DEF CheckFollowed, Admitted
<1>2. k.op \in {"search", "add"} /\ UNCHANGED Tables
  BY <1>1 DEF CallOK, StageOK, CheckFollowed
<1>3. CASE k.op = "add"
  <2>1. Awaits(c, "resolve")
    BY <1>3 DEF CheckFollowed
  <2> QED
    BY <1>2, <1>3, <2>1, AwaitsKeeps
<1>4. CASE k.op = "search"
  <2>1. Goes(c, PageShown(k))
    BY <1>4 DEF CheckFollowed
  <2> HIDE DEF k
  <2>2. PageShown(k) \in TrackCall
    BY <1>1, PageShownFields
  <2>3. /\ k.more /\ k.lookup \in Lookups /\ k.size # 0
        /\ SearchOK(k, fits) /\ SearchPageOK(k, fits)
    BY <1>1, <1>4 DEF CallOK, StageOK, SearchOK, Walks
  <2>4. CallOK(PageShown(k), catalogue, fits, addedAt)
    BY <1>1, <1>4, <2>3, SearchPageShown
  <2> QED
    BY <1>2, <2>1, <2>2, <2>4, OneCallGoes
<1> QED
  BY <1>2, <1>3, <1>4

LEMMA ResolveStockKeeps ==
    ASSUME TrackInv, NEW c \in TrackCalls, ResolveStock(c)
    PROVE  TrackInv'
<1> DEFINE k == trackCall[c]
<1>1. k.pc = "resolve" /\ k.op = "add" /\ UNCHANGED Tables
  BY CallHolds DEF CallOK, StageOK, ResolveStock
<1>2. CASE StocksOf({k.stock}) = {k.stock}
  <2>1. k.stock \in catalogue
    BY <1>2 DEF StocksOf
  <2>2. Awaits(c, "write")
    BY <1>2 DEF ResolveStock
  <2> QED
    BY <1>1, <2>1, <2>2, AwaitsKeeps
<1>3. CASE StocksOf({k.stock}) # {k.stock}
  <2>1. "STOCK_NOT_FOUND" \in Outcomes
    BY DEF Outcomes
  <2>2. Ends(c, "STOCK_NOT_FOUND")
    BY <1>3 DEF ResolveStock
  <2> QED
    BY <1>1, <2>1, <2>2, EndsKeeps
<1> QED
  BY <1>2, <1>3

LEMMA ResolvePageKeeps ==
    ASSUME TrackInv, NEW c \in TrackCalls, ResolvePage(c)
    PROVE  TrackInv'
<1> DEFINE k == trackCall[c]
<1>1. k \in TrackCall /\ CallOK(k, catalogue, fits, addedAt) /\ k.pc = "stocks"
  BY CallHolds DEF ResolvePage
<1>2. UNCHANGED Tables
  BY DEF ResolvePage
<1>3. Goes(c, PageShown(k))
  <2>1. k.items \subseteq StocksOf(k.items)
    BY <1>1 DEF CallOK, StocksOf
  <2> QED
    BY <2>1 DEF ResolvePage
<1> HIDE DEF k
<1>4. k.op = "list" /\ k.more /\ StageOK(k) /\ ListOK(k, addedAt) /\ ListPageOK(k, addedAt)
  BY <1>1 DEF CallOK, StageOK, ListOK, Walks
<1>5. addedAt \in AddedAt
  BY DEF TrackInv, TrackTypeOK, AddedAt
<1>6. PageShown(k) \in TrackCall /\ CallOK(PageShown(k), catalogue, fits, addedAt)
  BY <1>1, <1>4, <1>5, PageShownFields, ListPageShown
<1> QED
  BY <1>2, <1>3, <1>6, OneCallGoes

LEMMA FilterOptionsKeeps ==
    ASSUME TrackInv, NEW c \in TrackCalls, FilterOptions(c)
    PROVE  TrackInv'
<1>1. "OK" \in Outcomes /\ "TRACKING_UNAVAILABLE" \in Outcomes
  BY DEF Outcomes
<1>2. UNCHANGED Tables /\ (Ends(c, "OK") \/ Ends(c, "TRACKING_UNAVAILABLE"))
  BY DEF FilterOptions
<1> QED
  BY <1>1, <1>2, EndsKeeps

LEMMA DataFailsKeeps ==
    ASSUME TrackInv, NEW c \in TrackCalls, DataFails(c)
    PROVE  TrackInv'
<1> DEFINE k == trackCall[c]
           q == [k EXCEPT !.attempt = @ + 1]
<1>1. UNCHANGED Tables /\ (Goes(c, q) \/ Ends(c, "TRACKING_UNAVAILABLE"))
  BY DEF DataFails
<1>2. CASE Ends(c, "TRACKING_UNAVAILABLE")
  <2>1. "TRACKING_UNAVAILABLE" \in Outcomes
    BY DEF Outcomes
  <2> QED
    BY <1>1, <1>2, <2>1, EndsKeeps
<1>3. CASE Goes(c, q)
  <2>1. k \in TrackCall /\ CallOK(k, catalogue, fits, addedAt)
    BY CallHolds
  <2> HIDE DEF k
  <2>2. q \in TrackCall
    BY <2>1 DEF TrackCall
  <2>3. /\ q.op = k.op /\ q.pc = k.pc /\ q.token = k.token /\ q.stock = k.stock
        /\ q.size = k.size /\ q.lookup = k.lookup /\ q.total = k.total
    BY <2>1 DEF TrackCall
  <2>4. /\ q.cursor = k.cursor /\ q.more = k.more /\ q.items = k.items /\ q.next = k.next
        /\ q.last = k.last /\ q.shown = k.shown /\ q.again = k.again /\ q.kept = k.kept
    BY <2>1 DEF TrackCall
  <2> HIDE DEF q
  <2>5. StageOK(q)
    BY <2>1, <2>3, <2>4 DEF CallOK, StageOK
  <2>6. k.op = "list" => ListOK(q, addedAt)
    BY <2>1, <2>3, <2>4 DEF CallOK, ListOK, ListPageOK, PassedIn
  <2>7. k.op = "search" => SearchOK(q, fits)
    BY <2>1, <2>3, <2>4 DEF CallOK, SearchOK, SearchPageOK
  <2>8. CallOK(q, catalogue, fits, addedAt)
    BY <2>1, <2>3, <2>4, <2>5, <2>6, <2>7 DEF CallOK
  <2> QED
    BY <1>1, <1>3, <2>2, <2>8, OneCallGoes
<1> QED
  BY <1>1, <1>2, <1>3

LEMMA SearchStocksKeeps ==
    ASSUME TrackInv, NEW c \in TrackCalls, SearchStocks(c)
    PROVE  TrackInv'
<1> DEFINE k == trackCall[c]
           rows == fits[k.lookup]
           off == Cardinality(k.shown)
           page == {s \in rows : Place(s, rows) \in off .. (off + k.size - 1)}
           last == IsLast(rows, off, k.size)
           kept == IF k.shown = {} THEN rows ELSE k.kept
           q == [k EXCEPT !.pc = "check", !.attempt = 1, !.items = page, !.last = last,
                          !.kept = kept]
<1>1. /\ k.pc = "search" /\ UNCHANGED Tables
      /\ Goes(c, IF k.token = Nothing THEN PageShown(q) ELSE q)
  BY DEF SearchStocks, Offset
<1>2. k \in TrackCall /\ CallOK(k, catalogue, fits, addedAt)
  BY CallHolds
<1>3. /\ k.op = "search" /\ k.more /\ k.lookup \in Lookups /\ k.size # 0
      /\ SearchOK(k, fits)
  BY <1>1, <1>2 DEF CallOK, StageOK, Walks
<1>4. rows \in SUBSET TrackedStocks
  BY <1>3 DEF TrackInv, TrackTypeOK
<1>5. k.size \in Nat \ {0} /\ k.shown \in SUBSET TrackedStocks /\ k.kept \in SUBSET TrackedStocks
  BY <1>2, <1>3, TrackConstants DEF TrackCall
<1>6. off \in Nat /\ Cardinality(rows) \in Nat
  BY <1>4, <1>5, SubsetIsFinite
<1> HIDE DEF k
<1>7. q \in TrackCall
  <2>1. last \in BOOLEAN /\ page \in SUBSET TrackedStocks /\ kept \in SUBSET TrackedStocks
    BY <1>4, <1>5 DEF IsLast
  <2> HIDE DEF last, page, kept
  <2> QED
    BY <1>2, <2>1 DEF TrackCall
<1>8. /\ q.op = "search" /\ q.pc = "check" /\ q.token = k.token /\ q.size = k.size
      /\ q.lookup = k.lookup /\ q.more /\ q.shown = k.shown
      /\ q.items = page /\ q.last = last /\ q.kept = kept
  <2> HIDE DEF last, page, kept
  <2>1. /\ q.op = "search" /\ q.pc = "check" /\ q.token = k.token /\ q.size = k.size
        /\ q.lookup = k.lookup
    BY <1>2, <1>3 DEF TrackCall
  <2>2. /\ q.more /\ q.shown = k.shown
        /\ q.items = page /\ q.last = last /\ q.kept = kept
    BY <1>2, <1>3 DEF TrackCall
  <2> QED
    BY <2>1, <2>2
<1> HIDE DEF q
<1>9. ASSUME NEW s \in kept, s \notin k.shown
      PROVE  s \in rows /\ (\A r \in k.shown : r < s) /\ Place(s, rows) >= off
  <2>1. s \in rows /\ \A r \in k.shown : r < s
    BY <1>3, <1>9 DEF SearchOK
  <2>2. k.shown \subseteq {r \in rows : r < s}
    BY <1>3, <1>9, <2>1 DEF SearchOK
  <2>3. {r \in rows : r < s} \in SUBSET TrackedStocks
    BY <1>4
  <2>4. off <= Place(s, rows)
    BY <2>2, <2>3, SubsetIsSmaller DEF Place
  <2>5. Place(s, rows) \in Nat
    BY <2>1, <1>4, PlacesAreOrdered
  <2> QED
    BY <2>1, <2>4, <2>5, <1>6
<1>10. SearchPageOK(q, fits)
  <2>1. ASSUME NEW s \in kept, s \notin k.shown, s \notin page
        PROVE  ~last /\ \A r \in page : r < s
    <3>1. s \in rows /\ Place(s, rows) >= off /\ Place(s, rows) \in Nat
          /\ Place(s, rows) < Cardinality(rows)
      BY <2>1, <1>9, <1>4, PlacesAreOrdered
    <3>2. Place(s, rows) >= off + k.size
      BY <2>1, <3>1, <1>5, <1>6
    <3>3. ~last
      BY <3>1, <3>2, <1>5, <1>6 DEF IsLast
    <3>4. ASSUME NEW r \in page
          PROVE  r < s
      <4>1. r \in rows /\ Place(r, rows) \in off .. (off + k.size - 1)
        OBVIOUS
      <4>2. Place(r, rows) < Place(s, rows)
        BY <4>1, <3>1, <3>2, <1>5, <1>6
      <4> QED
        BY <4>1, <4>2, <3>1, <1>4, PlacesAreOrdered
    <3> QED
      BY <3>3, <3>4
  <2>2. page \subseteq fits[k.lookup]
    OBVIOUS
  <2> HIDE DEF page, last, kept
  <2> QED
    BY <2>1, <2>2, <1>8 DEF SearchPageOK
<1>11. SearchOK(q, fits)
  <2>1. kept \subseteq rows /\ (kept # {} => k.shown \subseteq rows)
    BY <1>3 DEF SearchOK
  <2>2. \A s \in kept : s \in k.shown \/ \A r \in k.shown : r < s
    BY <1>9
  <2> HIDE DEF kept
  <2> QED
    BY <2>1, <2>2, <1>8, <1>10 DEF SearchOK
<1>12. CASE k.token = Nothing
  <2>1. PageShown(q) \in TrackCall /\ CallOK(PageShown(q), catalogue, fits, addedAt)
    BY <1>3, <1>7, <1>8, <1>10, <1>11, SearchPageShown, PageShownFields
  <2> QED
    BY <1>1, <1>12, <2>1, OneCallGoes
<1>13. CASE k.token # Nothing
  <2>1. StageOK(q)
    BY <1>3, <1>8, <1>13 DEF StageOK, Walks
  <2>2. CallOK(q, catalogue, fits, addedAt)
    BY <1>8, <1>11, <2>1 DEF CallOK
  <2> QED
    BY <1>1, <1>7, <1>13, <2>2, OneCallGoes
<1> QED
  BY <1>12, <1>13

\* The rows of a page are those of the list from the cursor to the next one.
LEMMA PageRows ==
    ASSUME TrackTypeOK, NEW u \in Followers, NEW cursor \in Cursor, NEW n \in Nat \ {0},
           NEW rows, rows = RowsAfter(u, cursor), NEW page, page = FirstOf(u, rows, n),
           NEW next \in {KeyOf(u, s) : s \in page} \cup {Nothing},
           next = Nothing <=> Cardinality(rows) <= n,
           next # Nothing => \A s \in page : KeyOf(u, s) = next \/ Newer(KeyOf(u, s), next)
    PROVE  /\ page \subseteq rows /\ rows \subseteq FollowedBy(u)
           /\ next \in Cursor
           /\ next # Nothing /\ cursor # Nothing => Newer(cursor, next)
           /\ \A s \in rows : s \in page <=> next = Nothing \/ ~Newer(next, KeyOf(u, s))
<1>1. page \subseteq rows /\ rows \subseteq FollowedBy(u)
  BY DEF FirstOf, RowsAfter
<1>2. ASSUME NEW p \in page, next = KeyOf(u, p), next # Nothing
      PROVE  /\ next \in Key
             /\ cursor # Nothing => Newer(cursor, next)
             /\ \A s \in rows : s \in page <=> ~Newer(next, KeyOf(u, s))
  <2>1. p \in rows /\ next \in Key
    BY <1>1, <1>2, KeyOfRow
  <2>2. cursor # Nothing => Newer(cursor, next)
    BY <2>1, <1>2 DEF RowsAfter
  <2>3. ASSUME NEW s \in rows
        PROVE  s \in page <=> ~Newer(next, KeyOf(u, s))
    BY <1>1, <1>2, PageIsFirst
  <2> QED
    BY <2>1, <2>2, <2>3
<1>3. CASE next = Nothing
  <2>1. Cardinality(rows) <= n
    BY <1>3
  <2>2. page = rows
    BY <1>1, <2>1, PageIsAll
  <2> QED
    BY <1>1, <1>3, <2>2 DEF Cursor
<1>4. CASE next # Nothing
  <2>1. PICK p \in page : next = KeyOf(u, p)
    BY <1>4
  <2> QED
    BY <1>1, <1>2, <1>4, <2>1 DEF Cursor
<1> QED
  BY <1>3, <1>4

\* A call that has read a page is a call.
LEMMA RowsAsked ==
    ASSUME NEW call \in TrackCall, NEW items \in SUBSET TrackedStocks, NEW after \in Cursor,
           NEW end \in BOOLEAN, NEW keep \in SUBSET TrackedStocks
    PROVE  [call EXCEPT !.pc = "stocks", !.total = 0, !.items = items,
                        !.next = after, !.last = end, !.kept = keep] \in TrackCall
BY DEF TrackCall

\* A page that is read continues the walk.
LEMMA PageReadOK ==
    ASSUME TrackInv, NEW k \in TrackCall, CallOK(k, catalogue, fits, addedAt),
           k.pc = "rows", NEW q \in TrackCall, NEW u, u = OwnerOf[k.token],
           NEW rows, rows = RowsAfter(u, k.cursor),
           q.op = k.op, q.pc = "stocks", q.token = k.token, q.size = k.size,
           q.cursor = k.cursor, q.more = k.more, q.shown = k.shown, q.again = k.again,
           q.items = FirstOf(u, rows, k.size),
           q.next \in {KeyOf(u, s) : s \in q.items} \cup {Nothing},
           q.next = Nothing <=> Cardinality(rows) <= k.size,
           q.next # Nothing =>
             \A s \in q.items : KeyOf(u, s) = q.next \/ Newer(KeyOf(u, s), q.next),
           q.last <=> q.next = Nothing,
           q.kept = IF k.cursor = Nothing THEN FollowedBy(u) ELSE k.kept
    PROVE  /\ CallOK(q, catalogue, fits, addedAt) /\ ListPageOK(q, addedAt)
           /\ q.op = "list" /\ q.more
<1>1. /\ TrackTypeOK /\ k.op = "list" /\ k.more /\ k.token # Nothing /\ k.size # 0
      /\ ListOK(k, addedAt)
  BY DEF TrackInv, CallOK, StageOK, Walks
<1>2. u \in Followers /\ k.cursor \in Cursor /\ k.size \in Nat \ {0}
  <2>1. /\ k.token \in Logins \cup {Nothing} /\ k.cursor \in Cursor
        /\ k.size \in PageSizes \cup {0}
    BY DEF TrackCall
  <2> QED
    BY <1>1, <2>1, TrackConstants
<1>3. /\ q.items \subseteq rows /\ rows \subseteq FollowedBy(u)
      /\ q.next # Nothing /\ k.cursor # Nothing => Newer(k.cursor, q.next)
      /\ \A s \in rows : s \in q.items <=> q.next = Nothing \/ ~Newer(q.next, KeyOf(u, s))
  BY <1>1, <1>2, PageRows
<1>4. ASSUME NEW s \in q.kept
      PROVE  /\ s \in FollowedBy(u)
             /\ s \in q.shown <=> PassedIn(q, s, addedAt)
             /\ s \notin q.again
             /\ s \in rows <=> s \notin q.shown
  <2>1. CASE k.cursor = Nothing
    <3>1. k.shown = {} /\ k.again = {}
      BY <1>1, <2>1 DEF ListOK
    <3>2. s \in FollowedBy(u) /\ s \in rows
      BY <1>4, <2>1 DEF RowsAfter
    <3>3. ~PassedIn(q, s, addedAt)
      BY <1>1, <2>1 DEF PassedIn
    <3> QED
      BY <3>1, <3>2, <3>3
  <2>2. CASE k.cursor # Nothing
    <3>1. /\ s \in k.kept /\ addedAt[u][s] # 0 /\ (s \in k.shown <=> PassedIn(k, s, addedAt))
          /\ s \notin k.again
      BY <1>1, <1>4, <2>2 DEF ListOK
    <3>2. s \in TrackedStocks
      BY <3>1 DEF TrackCall
    <3>3. s \in FollowedBy(u)
      BY <3>1, <3>2 DEF FollowedBy
    <3>4. PassedIn(q, s, addedAt) <=> PassedIn(k, s, addedAt)
      BY DEF PassedIn
    <3>5. PassedIn(k, s, addedAt) <=> ~Newer(k.cursor, KeyOf(u, s))
      BY <1>1, <2>2 DEF PassedIn, KeyIn, KeyOf
    <3>6. s \in rows <=> Newer(k.cursor, KeyOf(u, s))
      BY <2>2, <3>3 DEF RowsAfter
    <3> QED
      BY <3>1, <3>3, <3>4, <3>5, <3>6
  <2> QED
    BY <2>1, <2>2
<1>5. ASSUME NEW s \in q.kept
      PROVE  s \in q.items <=> s \notin q.shown
                               /\ (q.last \/ ~Newer(q.next, KeyIn(addedAt, u, s)))
  <2>1. s \in q.items => s \in rows
    BY <1>3
  <2>2. s \in rows => (s \in q.items <=> q.last \/ ~Newer(q.next, KeyIn(addedAt, u, s)))
    BY <1>3 DEF KeyIn, KeyOf
  <2> QED
    BY <1>4, <2>1, <2>2
<1>6. ListPageOK(q, addedAt)
  BY <1>3, <1>5 DEF ListPageOK
<1>7. ListOK(q, addedAt)
  <2>1. q.cursor = Nothing /\ q.more => q.shown = {} /\ q.again = {}
    BY <1>1 DEF ListOK
  <2>2. \A s \in q.kept : addedAt[OwnerOf[q.token]][s] # 0
    BY <1>4 DEF FollowedBy
  <2> QED
    BY <1>4, <1>6, <2>1, <2>2 DEF ListOK
<1>8. StageOK(q)
  BY <1>1 DEF StageOK, Walks
<1>9. q.items \subseteq catalogue
  BY <1>2, <1>3 DEF TrackInv, FollowedBy, FollowedIn
<1> QED
  BY <1>1, <1>6, <1>7, <1>8, <1>9 DEF CallOK

LEMMA ReadRowsKeeps ==
    ASSUME TrackInv, NEW c \in TrackCalls, ReadRows(c)
    PROVE  TrackInv'
<1> DEFINE k == trackCall[c]
           u == Owner(c)
           rows == RowsAfter(u, k.cursor)
           page == FirstOf(u, rows, k.size)
           kept == IF k.cursor = Nothing THEN FollowedBy(u) ELSE k.kept
           read(next) == [k EXCEPT !.pc = "stocks", !.total = 0, !.items = page,
                            !.next = next, !.last = (next = Nothing), !.kept = kept]
<1>1. PICK next \in {KeyOf(u, s) : s \in page} \cup {Nothing} :
        /\ next = Nothing <=> Cardinality(rows) <= k.size
        /\ next # Nothing => \A s \in page : KeyOf(u, s) = next \/ Newer(KeyOf(u, s), next)
        /\ \/ Ends(c, "TRACKING_UNAVAILABLE")
           \/ Goes(c, IF page = {} THEN PageShown(read(next)) ELSE read(next))
  BY DEF ReadRows
<1>2. k.pc = "rows" /\ UNCHANGED Tables
  BY DEF ReadRows
<1>3. CASE Ends(c, "TRACKING_UNAVAILABLE")
  <2>1. "TRACKING_UNAVAILABLE" \in Outcomes
    BY DEF Outcomes
  <2> QED
    BY <1>2, <1>3, <2>1, EndsKeeps
<1>4. CASE Goes(c, IF page = {} THEN PageShown(read(next)) ELSE read(next))
  <2> DEFINE q == read(next)
  <2>1. k \in TrackCall /\ CallOK(k, catalogue, fits, addedAt) /\ u = OwnerOf[k.token]
    BY CallHolds, SMTT(40) DEF Owner
  <2>2. page \in SUBSET TrackedStocks /\ page \subseteq FollowedBy(u) /\ kept \in SUBSET TrackedStocks
    BY <2>1 DEF FirstOf, RowsAfter, FollowedBy, TrackCall
  <2>3. u \in Followers
    <3>1. k.token # Nothing
      BY <1>2, <2>1 DEF CallOK, StageOK
    <3> QED
      BY <2>1, <3>1, TrackConstants DEF TrackCall
  <2>4. next \in Cursor
    BY <2>2, <2>3, KeyOfRow DEF TrackInv, Cursor
  <2> HIDE DEF k, kept, page, rows, u
  <2>5. q \in TrackCall
    <3>1. k \in TrackCall /\ (next = Nothing) \in BOOLEAN
      BY <2>1
    <3> HIDE DEF q
    <3>2. q = [k EXCEPT !.pc = "stocks", !.total = 0, !.items = page,
                        !.next = next, !.last = (next = Nothing), !.kept = kept]
      BY DEF q
    <3> QED
      BY <2>2, <2>4, <3>1, <3>2, RowsAsked
  <2>6. /\ q.op = k.op /\ q.pc = "stocks" /\ q.token = k.token /\ q.size = k.size
        /\ q.cursor = k.cursor /\ q.more = k.more
    BY <2>1 DEF TrackCall
  <2>7. /\ q.shown = k.shown /\ q.again = k.again
        /\ q.items = page /\ q.next = next /\ q.last = (next = Nothing) /\ q.kept = kept
    <3>1. q.shown = k.shown /\ q.again = k.again /\ q.items = page
      BY <2>1 DEF TrackCall
    <3>2. q.next = next /\ q.last = (next = Nothing) /\ q.kept = kept
      BY <2>1 DEF TrackCall
    <3> QED
      BY <3>1, <3>2
  <2>8. Goes(c, IF page = {} THEN PageShown(q) ELSE q)
    BY <1>4
  <2> HIDE DEF q
  <2>9. /\ CallOK(q, catalogue, fits, addedAt) /\ ListPageOK(q, addedAt)
        /\ q.op = "list" /\ q.more
    <3>1. rows = RowsAfter(u, k.cursor) /\ q.items = FirstOf(u, rows, k.size)
      BY <2>7 DEF rows, page
    <3>2. q.kept = IF k.cursor = Nothing THEN FollowedBy(u) ELSE k.kept
      BY <2>7 DEF kept
    <3>3. /\ q.next \in {KeyOf(u, s) : s \in q.items} \cup {Nothing}
          /\ q.next = Nothing <=> Cardinality(rows) <= k.size
          /\ q.next # Nothing =>
               \A s \in q.items : KeyOf(u, s) = q.next \/ Newer(KeyOf(u, s), q.next)
          /\ q.last <=> q.next = Nothing
      BY <1>1, <2>7
    <3> QED
      BY <1>2, <2>1, <2>5, <2>6, <2>7, <3>1, <3>2, <3>3, PageReadOK
  <2>10. PageShown(q) \in TrackCall /\ CallOK(PageShown(q), catalogue, fits, addedAt)
    <3>1. addedAt \in AddedAt
      BY DEF TrackInv, TrackTypeOK, AddedAt
    <3>2. StageOK(q) /\ ListOK(q, addedAt)
      BY <2>9 DEF CallOK
    <3> QED
      BY <2>5, <2>9, <3>1, <3>2, ListPageShown, PageShownFields
  <2> QED
    BY <1>2, <2>5, <2>8, <2>9, <2>10, OneCallGoes
<1> QED
  BY <1>1, <1>3, <1>4

-----------------------------------------------------------------------------
(* The tables change under the other calls *)

\* A change of user_watchlist leaves the rows a walk has to show, and those a list has
\* counted.
SameRows(k, at, at2) ==
    /\ k.op = "list" => \A s \in k.kept : at2[OwnerOf[k.token]][s] = at[OwnerOf[k.token]][s]
    /\ k.pc = "rows" => FollowedIn(at2, OwnerOf[k.token]) = FollowedIn(at, OwnerOf[k.token])

\* Then it does nothing to the call.
LEMMA OtherRowsChange ==
    ASSUME NEW k \in TrackCall, NEW cat, NEW fs, NEW at, NEW at2, CallOK(k, cat, fs, at),
           SameRows(k, at, at2)
    PROVE  CallOK(k, cat, fs, at2)
<1>1. k.op = "list" => ListOK(k, at2)
  <2> SUFFICES ASSUME k.op = "list"
               PROVE  ListOK(k, at2)
    OBVIOUS
  <2> DEFINE u == OwnerOf[k.token]
  <2>1. \A s \in k.kept : KeyIn(at2, u, s) = KeyIn(at, u, s) /\ at2[u][s] = at[u][s]
    BY DEF SameRows, KeyIn
  <2>2. \A s \in k.kept : PassedIn(k, s, at2) <=> PassedIn(k, s, at)
    BY <2>1 DEF PassedIn
  <2>3. k.pc = "stocks" => ListPageOK(k, at2)
    BY <2>1 DEF CallOK, ListOK, ListPageOK
  <2> QED
    BY <2>1, <2>2, <2>3 DEF CallOK, ListOK
<1> QED
  BY <1>1 DEF CallOK, SameRows

\* A walk that has less to show.
LEMMA ListForgets ==
    ASSUME NEW k \in TrackCall, NEW q \in TrackCall, NEW cat, NEW fs, NEW at,
           CallOK(k, cat, fs, at), k.op = "list", q.kept \subseteq k.kept,
           q.op = k.op, q.pc = k.pc, q.token = k.token, q.size = k.size, q.total = k.total,
           q.cursor = k.cursor, q.more = k.more, q.items = k.items, q.next = k.next,
           q.last = k.last, q.shown = k.shown, q.again = k.again
    PROVE  CallOK(q, cat, fs, at)
<1>1. StageOK(q)
  BY DEF CallOK, StageOK, Walks
<1>2. q.pc = "stocks" => ListPageOK(q, at)
  BY DEF CallOK, ListOK, ListPageOK
<1>3. \A s \in q.kept : PassedIn(q, s, at) <=> PassedIn(k, s, at)
  BY DEF PassedIn
<1>4. ListOK(q, at)
  BY <1>2, <1>3 DEF CallOK, ListOK
<1> QED
  BY <1>1, <1>4 DEF CallOK

LEMMA AddKeeps ==
    ASSUME TrackInv, NEW c \in TrackCalls, NEW k, k = trackCall[c], NEW u, u = Owner(c),
           Lists(u) = {}, k.pc = "write", k.op = "add",
           NEW now \in Instants, NEW outcome \in Outcomes,
           addedAt' = [addedAt EXCEPT ![u][k.stock] = Inserted(@, now)],
           trackCall' = [trackCall EXCEPT ![c] = [NewCall EXCEPT !.outcome = outcome]],
           UNCHANGED <<catalogue, fits, industries, login>>
    PROVE  TrackInv'
<1> DEFINE ended == [NewCall EXCEPT !.outcome = outcome]
<1>1. /\ k \in TrackCall /\ k.stock \in TrackedStocks /\ k.stock \in catalogue
      /\ u \in Followers
  <2>1. k \in TrackCall /\ CallOK(k, catalogue, fits, addedAt) /\ u = OwnerOf[k.token]
    BY CallHolds DEF Owner
  <2>2. k.token # Nothing /\ k.stock # Nothing /\ k.stock \in catalogue
    BY <2>1 DEF CallOK, StageOK
  <2> QED
    BY <2>1, <2>2, TrackConstants DEF TrackCall
<1>2. ended \in TrackCall /\ CallOK(ended, catalogue', fits', addedAt')
  BY NewCallEnds
<1>3. /\ trackCall \in [TrackCalls -> TrackCall]
      /\ addedAt \in [Followers -> [TrackedStocks -> Instants \cup {0}]]
  BY DEF TrackInv, TrackTypeOK
<1> HIDE DEF ended
<1>4. trackCall' = [trackCall EXCEPT ![c] = ended]
  BY DEF ended
<1>5. \A v \in Followers, s \in TrackedStocks :
        addedAt'[v][s] = IF v = u /\ s = k.stock THEN Inserted(addedAt[u][k.stock], now)
                         ELSE addedAt[v][s]
  BY <1>1, <1>3
<1>6. addedAt' \in [Followers -> [TrackedStocks -> Instants \cup {0}]]
  <2>1. addedAt[u][k.stock] \in Instants \cup {0}
    BY <1>1, <1>3
  <2>2. Inserted(addedAt[u][k.stock], now) \in Instants \cup {0}
    BY <2>1 DEF Inserted
  <2>3. addedAt' = [addedAt EXCEPT ![u] = [addedAt[u] EXCEPT ![k.stock]
                                              = Inserted(addedAt[u][k.stock], now)]]
    BY <1>1, <1>3
  <2>4. [addedAt[u] EXCEPT ![k.stock] = Inserted(addedAt[u][k.stock], now)]
          \in [TrackedStocks -> Instants \cup {0}]
    BY <1>1, <1>3, <2>2
  <2> QED
    BY <1>1, <1>3, <2>3, <2>4
<1>7. \A v \in Followers, s \in TrackedStocks :
        addedAt[v][s] # 0 => addedAt'[v][s] = addedAt[v][s]
  BY <1>5, <1>1 DEF Inserted
<1>8. TrackTypeOK'
  <2>1. trackCall' \in [TrackCalls -> TrackCall]
    BY <1>2, <1>3, <1>4
  <2> QED
    BY <1>6, <2>1 DEF TrackInv, TrackTypeOK
<1>9. \A v \in Followers : FollowedIn(addedAt', v) \subseteq catalogue'
  <2> SUFFICES ASSUME NEW v \in Followers, NEW s \in TrackedStocks, addedAt'[v][s] # 0
               PROVE  s \in catalogue
    BY DEF FollowedIn
  <2>1. CASE v = u /\ s = k.stock
    BY <2>1, <1>1
  <2>2. CASE ~(v = u /\ s = k.stock)
    BY <2>2, <1>5 DEF TrackInv, FollowedIn
  <2> QED
    BY <2>1, <2>2
<1>10. ASSUME NEW l \in TrackCall, CallOK(l, catalogue, fits, addedAt),
              NEW v, v = OwnerOf[l.token], l.pc = "rows" => v # u
       PROVE  CallOK(l, catalogue, fits, addedAt')
  <2>1. l.op = "list" => v \in Followers /\ l.kept \subseteq TrackedStocks
    <3>1. l.op = "list" => l.token # Nothing
      BY <1>10 DEF CallOK, StageOK
    <3> QED
      BY <1>10, <3>1, TrackConstants DEF TrackCall
  <2>2. l.op = "list" => \A s \in l.kept : addedAt'[v][s] = addedAt[v][s]
    BY <1>7, <1>10, <2>1 DEF CallOK, ListOK
  <2>3. l.pc = "rows" => FollowedIn(addedAt', v) = FollowedIn(addedAt, v)
    <3>1. l.pc = "rows" => l.op = "list"
      BY <1>10 DEF CallOK, StageOK
    <3> QED
      BY <3>1, <1>5, <1>10, <2>1 DEF FollowedIn
  <2>4. SameRows(l, addedAt, addedAt')
    BY <1>10, <2>2, <2>3 DEF SameRows
  <2> QED
    BY <1>10, <2>4, OtherRowsChange
<1>11. ASSUME NEW d \in TrackCalls
       PROVE  CallOK(trackCall'[d], catalogue', fits', addedAt')
  <2>1. CASE d = c
    BY <1>2, <1>3, <1>4, <2>1
  <2>2. CASE d # c
    <3>1. trackCall'[d] = trackCall[d]
      BY <1>3, <1>4, <2>2
    <3>2. trackCall[d] \in TrackCall /\ CallOK(trackCall[d], catalogue, fits, addedAt)
      BY CallHolds
    <3>3. trackCall[d].pc = "rows" => OwnerOf[trackCall[d].token] # u
      BY DEF Lists, Owner
    <3> QED
      BY <1>10, <3>1, <3>2, <3>3
  <2> QED
    BY <2>1, <2>2
<1>12. FiltersAreServable'
  BY DEF TrackInv, FiltersAreServable
<1> QED
  BY <1>8, <1>9, <1>11, <1>12 DEF TrackInv

\* What Forgotten makes of one call.
ForgottenIn(l, u, s) ==
    IF l.op = "list" /\ OwnerOf[l.token] = u THEN [l EXCEPT !.kept = @ \ {s}] ELSE l

\* A walk of the user goes on without the stock that is no longer followed; the other
\* calls do not see the change.
LEMMA CallForgets ==
    ASSUME TrackInv, NEW l \in TrackCall, CallOK(l, catalogue, fits, addedAt),
           NEW u \in Followers, NEW s \in TrackedStocks, NEW v, v = OwnerOf[l.token],
           l.pc = "rows" => v # u,
           addedAt' = [addedAt EXCEPT ![u][s] = 0],
           NEW q, q = ForgottenIn(l, u, s)
    PROVE  q \in TrackCall /\ CallOK(q, catalogue, fits, addedAt')
<1>1. addedAt \in [Followers -> [TrackedStocks -> Instants \cup {0}]]
  BY DEF TrackInv, TrackTypeOK
<1>2. \A w \in Followers, r \in TrackedStocks :
        addedAt'[w][r] = IF w = u /\ r = s THEN 0 ELSE addedAt[w][r]
  BY <1>1
<1>3. l.op = "list" => v \in Followers /\ l.kept \subseteq TrackedStocks
  <2>1. l.op = "list" => l.token # Nothing
    BY DEF CallOK, StageOK
  <2> QED
    BY <2>1, TrackConstants DEF TrackCall
<1>4. l.pc = "rows" => FollowedIn(addedAt', v) = FollowedIn(addedAt, v)
  <2>1. l.pc = "rows" => l.op = "list"
    BY DEF CallOK, StageOK
  <2> QED
    BY <2>1, <1>2, <1>3 DEF FollowedIn
<1>5. CASE l.op = "list" /\ v = u
  <2>1. q = [l EXCEPT !.kept = @ \ {s}]
    BY <1>5 DEF ForgottenIn
  <2>2. q \in TrackCall /\ q.kept = l.kept \ {s} /\ q.op = l.op /\ q.pc = l.pc
    BY <2>1 DEF TrackCall
  <2>3. /\ q.token = l.token /\ q.size = l.size /\ q.total = l.total
        /\ q.cursor = l.cursor /\ q.more = l.more /\ q.items = l.items
    BY <2>1 DEF TrackCall
  <2>4. q.next = l.next /\ q.last = l.last /\ q.shown = l.shown /\ q.again = l.again
    BY <2>1 DEF TrackCall
  <2>5. q.kept \subseteq l.kept
    BY <2>2
  <2>6. CallOK(q, catalogue, fits, addedAt)
    BY <1>5, <2>2, <2>3, <2>4, <2>5, ListForgets
  <2>7. \A r \in q.kept : addedAt'[v][r] = addedAt[v][r]
    BY <1>2, <1>3, <1>5, <2>2
  <2>8. SameRows(q, addedAt, addedAt')
    BY <1>4, <2>2, <2>3, <2>7 DEF SameRows
  <2> QED
    BY <2>2, <2>6, <2>8, OtherRowsChange
<1>6. CASE ~(l.op = "list" /\ v = u)
  <2>1. l.op = "list" => \A r \in l.kept : addedAt'[v][r] = addedAt[v][r]
    BY <1>2, <1>3, <1>6
  <2>2. SameRows(l, addedAt, addedAt')
    BY <1>4, <2>1 DEF SameRows
  <2>3. CallOK(l, catalogue, fits, addedAt')
    BY <2>2, OtherRowsChange
  <2> QED
    BY <1>6, <2>3 DEF ForgottenIn
<1> QED
  BY <1>5, <1>6

LEMMA RemoveKeeps ==
    ASSUME TrackInv, NEW c \in TrackCalls, NEW k, k = trackCall[c], NEW u, u = Owner(c),
           Lists(u) = {}, k.pc = "write", k.op = "remove", NEW outcome \in Outcomes,
           addedAt' = [addedAt EXCEPT ![u][k.stock] = 0],
           trackCall' = Forgotten(u, k.stock, [trackCall EXCEPT ![c] =
                                                 [NewCall EXCEPT !.outcome = outcome]]),
           UNCHANGED <<catalogue, fits, industries, login>>
    PROVE  TrackInv'
<1> DEFINE ended == [NewCall EXCEPT !.outcome = outcome]
           calls == [trackCall EXCEPT ![c] = ended]
<1>1. k.stock \in TrackedStocks /\ u \in Followers
  <2>1. k \in TrackCall /\ CallOK(k, catalogue, fits, addedAt) /\ u = OwnerOf[k.token]
    BY CallHolds DEF Owner
  <2>2. k.token # Nothing /\ k.stock # Nothing
    BY <2>1 DEF CallOK, StageOK
  <2> QED
    BY <2>1, <2>2, TrackConstants DEF TrackCall
<1>2. ended \in TrackCall /\ CallOK(ended, catalogue, fits, addedAt) /\ ended.pc # "rows"
  <2>1. ended.pc = "done"
    BY NewCallFields DEF TrackCall
  <2> QED
    BY <2>1, NewCallEnds
<1>3. /\ trackCall \in [TrackCalls -> TrackCall]
      /\ addedAt \in [Followers -> [TrackedStocks -> Instants \cup {0}]]
  BY DEF TrackInv, TrackTypeOK
<1> HIDE DEF ended
<1>4. trackCall' = Forgotten(u, k.stock, calls)
  BY DEF ended
<1>5. \A v \in Followers, s \in TrackedStocks :
        addedAt'[v][s] = IF v = u /\ s = k.stock THEN 0 ELSE addedAt[v][s]
  BY <1>1, <1>3
<1>6. addedAt' \in [Followers -> [TrackedStocks -> Instants \cup {0}]]
  <2>1. addedAt' = [addedAt EXCEPT ![u] = [addedAt[u] EXCEPT ![k.stock] = 0]]
    BY <1>1, <1>3
  <2>2. [addedAt[u] EXCEPT ![k.stock] = 0] \in [TrackedStocks -> Instants \cup {0}]
    BY <1>1, <1>3
  <2> QED
    BY <1>1, <1>3, <2>1, <2>2
<1>7. ASSUME NEW d \in TrackCalls
      PROVE  trackCall'[d] \in TrackCall /\ CallOK(trackCall'[d], catalogue, fits, addedAt')
  <2>1. /\ calls[d] \in TrackCall /\ CallOK(calls[d], catalogue, fits, addedAt)
        /\ calls[d].pc = "rows" => OwnerOf[calls[d].token] # u
    <3>1. CASE d = c
      BY <1>2, <1>3, <3>1
    <3>2. CASE d # c
      <4>1. calls[d] = trackCall[d]
        BY <1>3, <3>2
      <4>2. trackCall[d].pc = "rows" => OwnerOf[trackCall[d].token] # u
        BY DEF Lists, Owner
      <4> QED
        BY <4>1, <4>2, CallHolds
    <3> QED
      BY <3>1, <3>2
  <2>2. trackCall'[d] = ForgottenIn(calls[d], u, k.stock)
    BY <1>4 DEF Forgotten, ForgottenIn
  <2> HIDE DEF calls
  <2> QED
    BY <1>1, <2>1, <2>2, CallForgets
<1>8. TrackTypeOK'
  <2>1. trackCall' = [d \in TrackCalls |-> trackCall'[d]]
    BY <1>4 DEF Forgotten
  <2>2. trackCall' \in [TrackCalls -> TrackCall]
    BY <1>7, <2>1
  <2> QED
    BY <1>6, <2>2 DEF TrackInv, TrackTypeOK
<1>9. \A v \in Followers : FollowedIn(addedAt', v) \subseteq catalogue'
  BY <1>5 DEF TrackInv, FollowedIn
<1>10. FiltersAreServable'
  BY DEF TrackInv, FiltersAreServable
<1> QED
  BY <1>7, <1>8, <1>9, <1>10 DEF TrackInv

LEMMA ChangeRowKeeps ==
    ASSUME TrackInv, NEW c \in TrackCalls, ChangeRow(c)
    PROVE  TrackInv'
<1> DEFINE k == trackCall[c]
           u == Owner(c)
           Ended1(outcome) == [trackCall EXCEPT ![c] = [NewCall EXCEPT !.outcome = outcome]]
<1>1. PICK now \in Instants, outcome \in Outcomes :
        \/ /\ k.op = "add"
           /\ addedAt' = [addedAt EXCEPT ![u][k.stock] = Inserted(@, now)]
           /\ trackCall' = Ended1(outcome)
        \/ /\ k.op # "add"
           /\ addedAt' = [addedAt EXCEPT ![u][k.stock] = 0]
           /\ trackCall' = Forgotten(u, k.stock, Ended1(outcome))
  BY DEF ChangeRow, Outcomes
<1>2. /\ k.pc = "write" /\ Lists(u) = {}
      /\ UNCHANGED <<catalogue, fits, industries, login>>
  BY DEF ChangeRow, Admitted
<1>3. k.op \in {"add", "remove"}
  BY <1>2, CallHolds DEF CallOK, StageOK
<1> QED
  BY <1>1, <1>2, <1>3, AddKeeps, RemoveKeeps

\* The end of a session and a new industry are nothing to the calls.
LEMMA NoCallSees ==
    ASSUME TrackInv, UNCHANGED <<catalogue, fits, addedAt, trackCall>>,
           login' \in [Logins -> {"live", "over", "disabled"}],
           industries' \in SUBSET Industries, FiltersAreServable'
    PROVE  TrackInv'
BY DEF TrackInv, TrackTypeOK

LEMMA LoginKeeps ==
    ASSUME TrackInv,
           (\E t \in Logins : EndLogin(t)) \/ (\E u \in Followers : DisableUser(u))
    PROVE  TrackInv'
<1>1. login \in [Logins -> {"live", "over", "disabled"}]
  BY DEF TrackInv, TrackTypeOK
<1>2. login' \in [Logins -> {"live", "over", "disabled"}]
  BY <1>1 DEF EndLogin, DisableUser
<1>3. industries' \in SUBSET Industries /\ FiltersAreServable'
  BY DEF TrackInv, TrackTypeOK, FiltersAreServable, EndLogin, DisableUser
<1>4. UNCHANGED <<catalogue, fits, addedAt, trackCall>>
  BY DEF EndLogin, DisableUser
<1> QED
  BY <1>2, <1>3, <1>4, NoCallSees

\* A classification of two levels is a tree.
LEMMA PublishIndustryKeeps ==
    ASSUME TrackInv, NEW x \in Industries, PublishIndustry(x)
    PROVE  TrackInv'
<1>1. /\ industries \in SUBSET Industries /\ FiltersAreServable
      /\ login \in [Logins -> {"live", "over", "disabled"}]
  BY DEF TrackInv, TrackTypeOK
<1>2. /\ industries' = industries \cup ({x, ParentOf[x]} \ {Nothing})
      /\ UNCHANGED <<catalogue, fits, addedAt, login, trackCall>>
  BY DEF PublishIndustry
<1>3. ParentOf[x] \in Industries \cup {Nothing}
  BY TrackConstants
<1>4. industries' \in SUBSET Industries
  BY <1>1, <1>2, <1>3
<1>5. ASSUME NEW y \in industries'
      PROVE  ParentOf[y] \in industries' \cup {Nothing}
  <2>1. CASE y \in industries
    BY <2>1, <1>1, <1>2 DEF FiltersAreServable
  <2>2. CASE y = x
    BY <2>2, <1>2, <1>3
  <2>3. CASE y = ParentOf[x] /\ ParentOf[x] # Nothing
    BY <2>3, TwoLevels
  <2> QED
    BY <1>2, <1>5, <2>1, <2>2, <2>3
<1>6. FiltersAreServable'
  BY <1>5 DEF FiltersAreServable
<1> QED
  BY <1>1, <1>2, <1>4, <1>6, NoCallSees

\* What Unfound makes of one call.
UnfoundIn(l, s, ls) ==
    IF l.op # "search" \/ l.lookup \in ls THEN l
    ELSE [l EXCEPT !.kept = IF s \in l.shown \cup l.items THEN {} ELSE @ \ {s}]

\* A search goes on among the stocks it finds now.
LEMMA SearchGoesOn ==
    ASSUME NEW l \in TrackCall, NEW cat, NEW cat2, NEW at, CallOK(l, cat, fits, at),
           cat \subseteq cat2, NEW s \in TrackedStocks, NEW ls \in SUBSET Lookups,
           NEW found,
           found = [x \in Lookups |-> IF x \in ls THEN fits[x] \cup {s} ELSE fits[x] \ {s}],
           NEW q, q = UnfoundIn(l, s, ls)
    PROVE  q \in TrackCall /\ CallOK(q, cat2, found, at)
<1>1. CASE l.op # "search"
  <2>1. q = l
    BY <1>1 DEF UnfoundIn
  <2> QED
    BY <1>1, <2>1 DEF CallOK
<1>2. CASE l.op = "search" /\ l.lookup \in ls
  <2>1. q = l /\ l.lookup \in Lookups
    BY <1>2 DEF UnfoundIn
  <2>2. fits[l.lookup] \subseteq found[l.lookup]
    BY <1>2, <2>1
  <2>3. SearchOK(l, found)
    BY <1>2, <2>2 DEF CallOK, SearchOK, SearchPageOK
  <2>4. l.pc \notin {"rows", "stocks"}
    BY <1>2 DEF CallOK, StageOK
  <2> QED
    BY <1>2, <2>1, <2>3, <2>4 DEF CallOK
<1>3. CASE l.op = "search" /\ l.lookup \notin ls
  <2>1. q = [l EXCEPT !.kept = IF s \in l.shown \cup l.items THEN {} ELSE l.kept \ {s}]
    BY <1>3 DEF UnfoundIn
  <2>2. /\ l.lookup \in Lookups /\ StageOK(l) /\ SearchOK(l, fits)
        /\ l.pc \notin {"rows", "stocks"}
    BY <1>3 DEF CallOK, StageOK
  <2>3. found[l.lookup] = fits[l.lookup] \ {s}
    BY <1>3, <2>2
  <2>4. /\ q \in TrackCall
        /\ q.kept = IF s \in l.shown \cup l.items THEN {} ELSE l.kept \ {s}
    BY <2>1 DEF TrackCall
  <2>5. /\ q.op = l.op /\ q.pc = l.pc /\ q.token = l.token /\ q.stock = l.stock
        /\ q.size = l.size /\ q.lookup = l.lookup
    BY <2>1 DEF TrackCall
  <2>6. q.more = l.more /\ q.items = l.items /\ q.last = l.last /\ q.shown = l.shown
    BY <2>1 DEF TrackCall
  <2>7. StageOK(q)
    BY <2>2, <2>5, <2>6 DEF StageOK
  <2>8. q.pc = "check" => SearchPageOK(q, found)
    BY <2>2, <2>3, <2>4, <2>5, <2>6 DEF SearchOK, SearchPageOK
  <2>9. SearchOK(q, found)
    BY <2>2, <2>3, <2>4, <2>5, <2>6, <2>8 DEF SearchOK
  <2> QED
    BY <1>3, <2>2, <2>4, <2>5, <2>7, <2>9 DEF CallOK
<1> QED
  BY <1>1, <1>2, <1>3

LEMMA PublishStockKeeps ==
    ASSUME TrackInv, NEW s \in TrackedStocks, PublishStock(s)
    PROVE  TrackInv'
<1>1. PICK ls \in SUBSET Lookups :
        /\ catalogue' = catalogue \cup {s}
        /\ fits' = [l \in Lookups |-> IF l \in ls THEN fits[l] \cup {s} ELSE fits[l] \ {s}]
        /\ trackCall' = Unfound(s, ls)
        /\ UNCHANGED <<industries, addedAt, login>>
  BY DEF PublishStock
<1>2. ASSUME NEW d \in TrackCalls
      PROVE  trackCall'[d] \in TrackCall /\ CallOK(trackCall'[d], catalogue', fits', addedAt)
  <2>1. trackCall[d] \in TrackCall /\ CallOK(trackCall[d], catalogue, fits, addedAt)
    BY CallHolds
  <2>2. trackCall'[d] = UnfoundIn(trackCall[d], s, ls)
    BY <1>1 DEF Unfound, UnfoundIn
  <2>3. catalogue \subseteq catalogue'
    BY <1>1
  <2> QED
    BY <1>1, <2>1, <2>2, <2>3, SearchGoesOn
<1>3. TrackTypeOK'
  <2>1. trackCall' = [d \in TrackCalls |-> trackCall'[d]]
    BY <1>1 DEF Unfound
  <2>2. trackCall' \in [TrackCalls -> TrackCall]
    BY <1>2, <2>1
  <2>3. fits' \in [Lookups -> SUBSET TrackedStocks]
    BY <1>1 DEF TrackInv, TrackTypeOK
  <2> QED
    BY <1>1, <2>2, <2>3 DEF TrackInv, TrackTypeOK
<1>4. \A u \in Followers : FollowedIn(addedAt', u) \subseteq catalogue'
  BY <1>1 DEF TrackInv, FollowedIn
<1>5. FiltersAreServable'
  BY <1>1 DEF TrackInv, FiltersAreServable
<1> QED
  BY <1>1, <1>2, <1>3, <1>4, <1>5 DEF TrackInv

-----------------------------------------------------------------------------
(* The theorems *)

LEMMA TrackInitial == TrackInit => TrackInv
<1> SUFFICES ASSUME TrackInit
             PROVE  TrackInv
  OBVIOUS
<1>1. TrackTypeOK
  BY NewCallFields, TrackConstants DEF TrackInit, TrackTypeOK
<1>2. ASSUME NEW c \in TrackCalls
      PROVE  CallOK(trackCall[c], catalogue, fits, addedAt)
  <2>1. trackCall[c] = NewCall
    BY DEF TrackInit
  <2>2. StageOK(NewCall)
    BY NewCallFields DEF StageOK, Walks
  <2> QED
    BY <2>1, <2>2, NewCallFields, FreshCallOK
<1>3. \A u \in Followers : FollowedIn(addedAt, u) \subseteq catalogue
  BY DEF TrackInit, FollowedIn
<1>4. FiltersAreServable
  BY DEF TrackInit, FiltersAreServable
<1> QED
  BY <1>1, <1>2, <1>3, <1>4 DEF TrackInv

LEMMA TrackStep == TrackInv /\ [TrackNext]_trackVars => TrackInv'
<1> SUFFICES ASSUME TrackInv, [TrackNext]_trackVars
             PROVE  TrackInv'
  OBVIOUS
<1>1. ASSUME NEW c \in TrackCalls, Asked(c)
      PROVE  TrackInv'
  BY <1>1, StartFiltersKeeps, StartListKeeps, StartSearchKeeps, StartChangeKeeps,
     NextPageKeeps DEF Asked
<1>2. ASSUME NEW c \in TrackCalls, ByUserService(c)
      PROVE  TrackInv'
  BY <1>2, RefusedKeeps, UserFailsKeeps, CountRowsKeeps, ReadRowsKeeps,
     CheckFollowedKeeps, ChangeRowKeeps DEF ByUserService
<1>3. ASSUME NEW c \in TrackCalls, ByDataService(c)
      PROVE  TrackInv'
  BY <1>3, DataFailsKeeps, SearchStocksKeeps, ResolveStockKeeps, ResolvePageKeeps,
     FilterOptionsKeeps DEF ByDataService
<1>4. CASE UNCHANGED trackVars
  <2>1. UNCHANGED <<catalogue, fits, addedAt, trackCall>> /\ login' = login
        /\ industries' = industries
    BY <1>4 DEF trackVars
  <2> QED
    BY <2>1 DEF TrackInv, TrackTypeOK, FiltersAreServable
<1> QED
  BY <1>1, <1>2, <1>3, <1>4, LoginKeeps, PublishStockKeeps, PublishIndustryKeeps
  DEF TrackNext

LEMMA TrackInvariant == TrackSpec => []TrackInv
BY TrackInitial, TrackStep, PTL DEF TrackSpec

LEMMA WalksFollow == TrackInv => WalksAreExact
<1> SUFFICES ASSUME TrackInv, NEW c \in TrackCalls, trackCall[c].op = "list",
                    NEW s \in trackCall[c].kept
             PROVE  /\ s \in FollowedBy(Owner(c))
                    /\ s \in trackCall[c].shown <=> Passed(c, s)
                    /\ s \notin trackCall[c].again
  BY DEF WalksAreExact
<1>1. trackCall[c] \in TrackCall /\ ListOK(trackCall[c], addedAt)
  BY CallHolds DEF CallOK
<1>2. s \in TrackedStocks
  BY <1>1 DEF TrackCall
<1>3. PassedIn(trackCall[c], s, addedAt) <=> Passed(c, s)
  BY DEF PassedIn, Passed, KeyIn, KeyOf, Owner
<1> QED
  BY <1>1, <1>2, <1>3 DEF ListOK, FollowedBy, Owner

LEMMA SearchesFollow == TrackInv => SearchesMissNothing
<1> SUFFICES ASSUME TrackInv, NEW c \in TrackCalls, trackCall[c].op = "search",
                    NEW s \in trackCall[c].kept
             PROVE  /\ s \in fits[trackCall[c].lookup]
                    /\ \/ s \in trackCall[c].shown
                       \/ /\ trackCall[c].more
                          /\ Place(s, fits[trackCall[c].lookup]) >= Offset(trackCall[c])
  BY DEF SearchesMissNothing
<1> DEFINE k == trackCall[c]
           rows == fits[k.lookup]
<1>1. /\ k \in TrackCall /\ k.lookup \in Lookups /\ SearchOK(k, fits)
  BY CallHolds DEF CallOK, StageOK
<1>2. rows \in SUBSET TrackedStocks /\ s \in rows
  BY <1>1 DEF TrackInv, TrackTypeOK, SearchOK
<1>3. ASSUME s \notin k.shown
      PROVE  k.more /\ Place(s, rows) >= Offset(k)
  <2>1. k.more /\ k.shown \subseteq {r \in rows : r < s}
    BY <1>1, <1>3 DEF SearchOK
  <2>2. {r \in rows : r < s} \in SUBSET TrackedStocks
    BY <1>2
  <2>3. /\ Cardinality(k.shown) <= Cardinality({r \in rows : r < s})
        /\ Cardinality(k.shown) \in Nat /\ Cardinality({r \in rows : r < s}) \in Nat
    BY <2>1, <2>2, SubsetIsSmaller, SubsetIsFinite
  <2> QED
    BY <2>1, <2>3 DEF Place, Offset
<1> QED
  BY <1>2, <1>3

LEMMA ListsFollow == TrackInv => ListsAreServable
<1> SUFFICES ASSUME TrackInv
             PROVE  ListsAreServable
  OBVIOUS
<1>1. \A u \in Followers : FollowedBy(u) = FollowedIn(addedAt, u)
  BY DEF FollowedBy, FollowedIn
<1>2. \A u \in Followers : FollowedBy(u) \subseteq catalogue
  BY <1>1 DEF TrackInv
<1>3. ASSUME NEW c \in TrackCalls
      PROVE  /\ trackCall[c].pc = "rows" => trackCall[c].total = Cardinality(FollowedBy(Owner(c)))
             /\ trackCall[c].pc = "stocks" => trackCall[c].items \subseteq catalogue
  BY CallHolds DEF CallOK, FollowedBy, FollowedIn, Owner
<1> QED
  BY <1>2, <1>3 DEF ListsAreServable

\* The tables and the calls keep their form: what StageOK adds of the services a call
\* still waits for is what every handler relies on.
THEOREM TrackTypes == TrackSpec => []TrackTypeOK
BY TrackInvariant, PTL DEF TrackInv

\* The private list, page by page (listWatchlist of the User Service behind the Backend's
\* cursor): whatever is followed all through a walk is shown when the cursor passes it,
\* and once only.
THEOREM WalksShowEachOnce == TrackSpec => []WalksAreExact
BY TrackInvariant, WalksFollow, PTL

\* The search by offset (search(results.length) of the client): as long as what it has
\* shown is still found, no stock falls between two pages.
THEOREM SearchesSkipNothing == TrackSpec => []SearchesMissNothing
BY TrackInvariant, SearchesFollow, PTL

\* The answers the Backend refuses as incoherent never come: the total and the page of
\* the two statements of a list agree, and each followed stock is in the catalogue.
THEOREM ListsAreNeverRefused == TrackSpec => []ListsAreServable
BY TrackInvariant, ListsFollow, PTL

\* What users follow can be listed, whole and without repetition, at any time: the
\* invariant of the run Miniapp, here for every stock, session, user, call, page size,
\* lookup and industry.
THEOREM WatchlistServed == TrackSpec => []WatchlistIsServed
<1>1. TrackInv => WatchlistIsServed
  BY WalksFollow, SearchesFollow, ListsFollow DEF TrackInv, WatchlistIsServed
<1> QED
  BY <1>1, TrackInvariant, PTL
=============================================================================
