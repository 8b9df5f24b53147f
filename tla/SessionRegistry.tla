--------------------------- MODULE SessionRegistry ---------------------------
(***************************************************************************)
(* What the User Service promises its callers, with no transactions, locks *)
(* or retries: one profile per WeChat openid, sessions that belong to an   *)
(* openid, and operations that happen all at once or not at all.           *)
(* UserIdentity implements it.                                             *)
(***************************************************************************)
EXTENDS Integers

CONSTANTS Names, OpenIDs, UnionIDs, Stocks, TTL, MaxClock, None

VARIABLES
    clock,
    profiles,    \* by openid
    sessions     \* by token

vars == <<clock, profiles, sessions>>

Unknown == [status |-> "absent", unionid |-> None, phone |-> None,
            nickname |-> None, avatar |-> None, stocks |-> {}]

NoSession == [state |-> "absent", owner |-> None, createdAt |-> 0,
              expiresAt |-> 0, revokedAt |-> 0, consent |-> FALSE]

Init ==
    /\ clock = 0
    /\ profiles = [o \in OpenIDs |-> Unknown]
    /\ sessions = [t \in Names |-> NoSession]

Later(s, t) == IF s >= t THEN s ELSE t

RevokedRow(t, now) == [sessions[t] EXCEPT
                         !.state = "revoked",
                         !.revokedAt = Later(now, sessions[t].createdAt)]

\* A login opens one session for an openid, makes the profile if there is
\* none and adds what it learned, and ends the session it replaces, if any: a
\* live one of the same person.
Login(t, o, now, consent) ==
    /\ sessions[t].state = "absent"
    /\ profiles[o].status # "disabled"
    /\ sessions'[t] = [state |-> "live", owner |-> o, createdAt |-> now,
                       expiresAt |-> now + TTL, revokedAt |-> 0,
                       consent |-> consent]
    /\ \E replaced \in SUBSET {s \in Names : /\ sessions[s].state = "live"
                                             /\ sessions[s].owner = o} :
         /\ \A s, u \in replaced : s = u
         /\ \A s \in Names \ {t} :
              sessions'[s] = IF s \in replaced THEN RevokedRow(s, now)
                                               ELSE sessions[s]
    /\ \E unionid \in UnionIDs \cup {None}, phone \in BOOLEAN :
         /\ unionid \in {None, profiles[o].unionid} \/ profiles[o].unionid = None
         /\ phone => consent
         /\ profiles' = [profiles EXCEPT ![o].status = "active",
                                         ![o].unionid = IF @ = None THEN unionid
                                                                    ELSE @,
                                         ![o].phone = IF phone THEN t ELSE @]
    /\ UNCHANGED clock

Logout(t, now) ==
    /\ sessions[t].state = "live"
    /\ sessions' = [sessions EXCEPT ![t] = RevokedRow(t, now)]
    /\ UNCHANGED <<clock, profiles>>

\* Through a live session, an active user's own profile changes: its nickname,
\* avatar and stocks, and nothing else of it or of any other.
Write(t) ==
    LET o == sessions[t].owner IN
    /\ sessions[t].state = "live"
    /\ profiles[o].status = "active"
    /\ profiles' = [profiles EXCEPT ![o].nickname = profiles'[o].nickname,
                                    ![o].avatar = profiles'[o].avatar,
                                    ![o].stocks = profiles'[o].stocks]
    /\ UNCHANGED <<clock, sessions>>

Disable(o) ==
    /\ profiles[o].status = "active"
    /\ profiles' = [profiles EXCEPT ![o].status = "disabled"]
    /\ UNCHANGED <<clock, sessions>>

Tick ==
    /\ clock < MaxClock
    /\ clock' = clock + 1
    /\ UNCHANGED <<profiles, sessions>>

Next ==
    \/ \E t \in Names, o \in OpenIDs, now \in 0..clock, consent \in BOOLEAN :
         Login(t, o, now, consent)
    \/ \E t \in Names, now \in 0..clock : Logout(t, now)
    \/ \E t \in Names : Write(t)
    \/ \E o \in OpenIDs : Disable(o)
    \/ Tick

Spec == Init /\ [][Next]_vars
=============================================================================
