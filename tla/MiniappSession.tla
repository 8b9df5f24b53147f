---------------------------- MODULE MiniappSession ----------------------------
(* The session of the miniapp: one token in the storage of the device, and  *)
(* the identity hook of every open page (features/identity/use-identity.ts) *)
(* with its own copy of it.  A hook runs one action at a time, hidden and   *)
(* closed pages finish theirs, and any answer can be late, refused or lost. *)
EXTENDS FiniteSets, Naturals

CONSTANTS
    Pages,          \* hooks; a closed page gives its place to the next
    Offers,         \* page -> the actions it has buttons for
    SessionTokens,  \* bound: tokens issued, numbered in the order they are
    NoToken

ASSUME SessionConstants ==
    /\ SessionTokens \subseteq Nat /\ NoToken \notin SessionTokens
    /\ Offers \in [Pages -> SUBSET {"login", "logout", "nickname"}]

VARIABLES
    storedToken,  \* the storage of the device
    issued,       \* what the User Service holds: token -> state
    disabled,     \* the user was disabled
    front,        \* the page in front, or none
    hook,         \* state of the hooks
    action        \* the action each hook is running, with its request

sessionVars == <<storedToken, issued, disabled, front, hook, action>>

MaybeToken == SessionTokens \cup {NoToken}
Accepted(t) == t \in SessionTokens /\ issued[t] = "live" /\ ~disabled

Unmounted == [mounted |-> FALSE, profile |-> NoToken, token |-> NoToken, error |-> FALSE]
NewHook == [Unmounted EXCEPT !.mounted = TRUE]
NoAction == [kind |-> "none", at |-> "none", token |-> NoToken, answer |-> "none",
             result |-> NoToken]
Asking(kind, at, token) == [NoAction EXCEPT !.kind = kind, !.at = at, !.token = token]

SessionInit ==
    /\ storedToken = NoToken /\ issued = [t \in SessionTokens |-> "unissued"]
    /\ disabled = FALSE /\ front = NoToken
    /\ hook = [p \in Pages |-> Unmounted] /\ action = [p \in Pages |-> NoAction]

-----------------------------------------------------------------------------
(* The end of an action *)

\* The action ends with this session and profile, the device with `stored';
\* of a closed page nothing is left.
EndAction(p, token, profile, stored, error) ==
    /\ hook' = [hook EXCEPT ![p] =
                   IF ~@.mounted THEN Unmounted
                   ELSE [@ EXCEPT !.token = token, !.profile = profile, !.error = error]]
    /\ action' = [action EXCEPT ![p] = NoAction]
    /\ storedToken' = stored

Succeed(p) == EndAction(p, hook[p].token, action[p].token, storedToken, FALSE)
\* run: a rejection clears the stored session, whichever it is; a storage that
\* cannot be written is ignored.
Expired(p) ==
    \E kept \in BOOLEAN :
        EndAction(p, NoToken, NoToken, IF kept THEN storedToken ELSE NoToken, TRUE)

\* A failure that is treated like a rejection.
FailAction_Clears(p) == Expired(p)

\* Any other failure is only shown.
FailAction(p) == EndAction(p, hook[p].token, hook[p].profile, storedToken, TRUE)

-----------------------------------------------------------------------------
(* What the user does *)

Begin(p, next) ==
    /\ action' = [action EXCEPT ![p] = next]
    /\ UNCHANGED <<storedToken, issued, disabled>>

\* A refresh that leaves the profile of the last session.
RefreshHook_KeepsProfile(p, shown) ==
    IF action[p].kind # "none"
    THEN hook' = [hook EXCEPT ![p] = shown] /\ UNCHANGED action
    ELSE /\ hook' = [hook EXCEPT ![p] = [shown EXCEPT !.token = storedToken, !.error = FALSE]]
         /\ action' = IF storedToken = NoToken THEN action
                      ELSE [action EXCEPT ![p] = Asking("refresh", "me", storedToken)]

\* refresh: nothing while another action runs, at once a guest without a session.
RefreshHook(p, shown) ==
    IF action[p].kind # "none"
    THEN hook' = [hook EXCEPT ![p] = shown] /\ UNCHANGED action
    ELSE /\ hook' = [hook EXCEPT ![p] =
              [shown EXCEPT !.token = storedToken, !.error = FALSE,
                            !.profile = IF storedToken = NoToken THEN NoToken ELSE @]]
         /\ action' = IF storedToken = NoToken THEN action
                      ELSE [action EXCEPT ![p] = Asking("refresh", "me", storedToken)]

\* useDidShow and the retry button; the page in front before stays mounted.
ShowPage(p) ==
    /\ front' = p
    /\ ~hook[p].mounted => action[p].kind = "none"
    /\ RefreshHook(p, IF hook[p].mounted THEN hook[p] ELSE NewHook)
    /\ UNCHANGED <<storedToken, issued, disabled>>

ClosePage(p) ==
    /\ front = p /\ front' = NoToken
    /\ hook' = [hook EXCEPT ![p] =
                   IF action[p].kind = "none" THEN Unmounted ELSE [@ EXCEPT !.mounted = FALSE]]
    /\ UNCHANGED <<storedToken, issued, disabled, action>>

Idle(p, kind) == front = p /\ kind \in Offers[p] /\ action[p].kind = "none"

\* Logging in names the session it replaces.
Login(p) ==
    /\ Idle(p, "login") /\ hook[p].profile = NoToken
    /\ Begin(p, Asking("login", "code", hook[p].token))
    /\ hook' = [hook EXCEPT ![p].error = FALSE] /\ UNCHANGED front

\* Logging out and saving need a profile on the page.
AskWith(p, kind) ==
    /\ Idle(p, kind) /\ hook[p].profile # NoToken
    /\ UNCHANGED <<issued, disabled, front>>
    /\ IF hook[p].token = NoToken
       THEN Expired(p)
       ELSE /\ action' = [action EXCEPT ![p] = Asking(kind, kind, hook[p].token)]
            /\ hook' = [hook EXCEPT ![p].error = FALSE] /\ UNCHANGED storedToken

-----------------------------------------------------------------------------
(* The User Service *)

Answered(p, next) ==
    /\ action' = [action EXCEPT ![p] = next]
    /\ UNCHANGED <<storedToken, disabled, front, hook>>

\* me, avatar and profile: by the state of the session.
ServeRequest(p) ==
    /\ action[p].at \in {"me", "avatar", "nickname"} /\ action[p].answer = "none"
    /\ Answered(p, [action[p] EXCEPT !.answer = IF Accepted(action[p].token) THEN "ok" ELSE "expired"])
    /\ UNCHANGED issued

\* A login opens a session and revokes the one it names.
ServeLogin(p) ==
    /\ action[p].at = "login" /\ action[p].answer = "none"
    /\ IF disabled
       THEN Answered(p, [action[p] EXCEPT !.answer = "expired"]) /\ UNCHANGED issued
       ELSE \E t \in SessionTokens :
            /\ issued[t] = "unissued"
            /\ \A u \in SessionTokens : u < t => issued[u] # "unissued"
            /\ issued' = [u \in SessionTokens |->
                            IF u = t THEN "live"
                            ELSE IF u = action[p].token THEN "revoked" ELSE issued[u]]
            /\ Answered(p, [action[p] EXCEPT !.answer = "ok", !.result = t])

\* A logout, also one that undoes a login: revoking again changes nothing.
ServeLogout(p) ==
    /\ action[p].at \in {"logout", "undo"} /\ action[p].answer = "none"
    /\ issued' = [issued EXCEPT ![action[p].token] = "revoked"]
    /\ Answered(p, [action[p] EXCEPT !.answer = "ok"])

\* No answer in time, or none that counts; what changes a session may have been served.
LoseRequest(p) ==
    /\ action[p].at \notin {"none", "code"}
    /\ \/ action[p].answer = "none"
       \/ action[p].answer = "ok" /\ action[p].at \in {"login", "logout", "undo"}
    /\ Answered(p, [action[p] EXCEPT !.answer = "failed"]) /\ UNCHANGED issued

\* Sessions expire or are revoked elsewhere, users are disabled.
RevokeElsewhere ==
    /\ \/ \E t \in SessionTokens : /\ issued[t] = "live" /\ UNCHANGED disabled
                                   /\ issued' = [issued EXCEPT ![t] = "revoked"]
       \/ disabled' = TRUE /\ UNCHANGED issued
    /\ UNCHANGED <<storedToken, front, hook, action>>

-----------------------------------------------------------------------------
(* Answers *)

\* requestWechatCode ends: a code, or an error.
ReceiveCode(p) ==
    /\ action[p].at = "code" /\ UNCHANGED <<issued, disabled, front>>
    /\ \/ Begin(p, [action[p] EXCEPT !.at = "login"]) /\ UNCHANGED hook
       \/ FailAction(p)

\* The profile is shown before the avatar is asked for.
ReceiveProfile(p) ==
    /\ action[p].at = "me" /\ action[p].answer = "ok"
    /\ Begin(p, Asking("refresh", "avatar", hook[p].token))
    /\ hook' = [hook EXCEPT ![p].profile = action[p].token]
    /\ UNCHANGED front

ReceiveLast(p) ==
    /\ action[p].at \in {"avatar", "nickname"} /\ action[p].answer = "ok"
    /\ Succeed(p) /\ UNCHANGED <<issued, disabled, front>>

\* The session is saved, or given back when the storage cannot keep it.
ReceiveLogin(p) ==
    /\ action[p].at = "login" /\ action[p].answer = "ok"
    /\ UNCHANGED <<issued, disabled, front>>
    /\ LET next == action[p].result IN
       \/ EndAction(p, next, next, next, FALSE)
       \/ Begin(p, Asking("login", "undo", next)) /\ UNCHANGED hook

\* A logout forgets the session; a storage that cannot be written is an error.
ReceiveLogout(p) ==
    /\ action[p].at = "logout" /\ action[p].answer = "ok"
    /\ UNCHANGED <<issued, disabled, front>>
    /\ \/ EndAction(p, NoToken, NoToken, NoToken, FALSE)
       \/ EndAction(p, NoToken, NoToken, storedToken, TRUE)

ReceiveFailure(p) ==
    /\ \/ action[p].answer = "failed"
       \/ action[p].at = "undo" /\ action[p].answer # "none"
    /\ FailAction(p) /\ UNCHANGED <<issued, disabled, front>>

ReceiveExpired(p) ==
    /\ action[p].answer = "expired"
    /\ Expired(p) /\ UNCHANGED <<issued, disabled, front>>

SessionNext ==
    \/ RevokeElsewhere
    \/ \E p \in Pages :
         \/ ShowPage(p) \/ ClosePage(p) \/ Login(p)
         \/ AskWith(p, "logout") \/ AskWith(p, "nickname")
         \/ ServeRequest(p) \/ ServeLogin(p) \/ ServeLogout(p) \/ LoseRequest(p)
         \/ ReceiveCode(p) \/ ReceiveProfile(p) \/ ReceiveLast(p) \/ ReceiveLogin(p)
         \/ ReceiveLogout(p) \/ ReceiveFailure(p) \/ ReceiveExpired(p)

SessionSpec == SessionInit /\ [][SessionNext]_sessionVars

-----------------------------------------------------------------------------
(* Properties *)

SessionTypeOK ==
    /\ storedToken \in MaybeToken /\ front \in Pages \cup {NoToken}
    /\ issued \in [SessionTokens -> {"unissued", "live", "revoked"}]
    /\ \A p \in Pages :
         /\ {hook[p].profile, hook[p].token, action[p].token, action[p].result}
              \subseteq MaybeToken
         /\ action[p].kind = "none" <=> action[p].at = "none"

\* The device loses a session the User Service still accepts only to a login
\* or logout, or to a page that was itself working with another session: a
\* page never forgets the session it holds on a mere failure (run, logout).
LoginIsKept ==
    [][ Accepted(storedToken) /\ storedToken' # storedToken =>
          \E p \in Pages :
             /\ action[p].kind # "none" /\ action'[p].kind = "none"
             /\ \/ action[p].kind = "login" /\ storedToken' = action[p].result
                \/ storedToken' = NoToken /\ action[p].kind = "logout"
                \/ storedToken' = NoToken /\ hook[p].token # storedToken ]_sessionVars

\* A page shows the profile of the session it would log out or edit, unless it
\* is busy or says what went wrong.
ProfileIsOfSession ==
    SessionTypeOK /\ \A p \in Pages :
        hook[p].mounted /\ hook[p].profile # NoToken /\ hook[p].profile # hook[p].token
          => action[p].kind # "none" \/ hook[p].error
=============================================================================
