----------------------------- MODULE MCAccounts -----------------------------
(* Accounts and sessions at both ends: the calls of the User Service, or    *)
(* the identity hooks of two pages of the miniapp.                          *)
EXTENDS MCUserIdentity, MiniappSession

VARIABLE active

\* The profile page, and an editor that can also log in.
MCOffers == (1 :> {"login", "logout"}) @@ (2 :> {"login", "nickname"})

accountsVars == <<active, vars, sessionVars>>

AccountsInit == active \in {"service", "miniapp"} /\ Init /\ SessionInit

AccountsNext ==
    /\ UNCHANGED active
    /\ \/ active = "service" /\ Next /\ UNCHANGED sessionVars
       \/ active = "miniapp" /\ SessionNext /\ UNCHANGED vars

AccountsSpec == AccountsInit /\ [][AccountsNext]_accountsVars
=============================================================================
