-------------------------------- MODULE Sessions --------------------------------
(***************************************************************************)
(* Users, passwords and browser sessions (server/modules/identity/auth.py, *)
(* auth_router.py, service.py, and server/bootstrap.py).                   *)
(*                                                                         *)
(* Users come from the configuration, which the server applies when it     *)
(* starts; a login checks the password and replaces the sessions it found; *)
(* a cookie names a session and the second it was issued.                  *)
(***************************************************************************)
EXTENDS Integers, FiniteSets

CONSTANTS Browsers,   \* concurrent logins
          Users, SessionIds, Passwords,
          MaxAge,     \* AUTH_COOKIE_MAX_AGE
          LastTick,   \* bound on the clock
          NoUser, NoPassword

ASSUME SessionAssumption ==
    /\ NoPassword \notin Passwords /\ NoUser \notin Users
    /\ MaxAge \in Nat /\ LastTick \in Nat
    /\ IsFiniteSet(Browsers)

VARIABLES tick,
          password,  \* users.password_hash, as the password it accepts
          session,   \* credentials of type session
          login      \* what each login has read

sessionVars == <<tick, password, session, login>>

Session == [user : Users \cup {NoUser}, live : BOOLEAN, issued : Nat,
            proof : Passwords \cup {NoPassword}]  \* the password its login showed

SessionRow(user, live, issued, proof) ==
    [user |-> user, live |-> live, issued |-> issued, proof |-> proof]

Login == [user : Users \cup {NoUser}, proof : Passwords \cup {NoPassword},
          found : SUBSET SessionIds]

LoginOf(user, proof, found) == [user |-> user, proof |-> proof, found |-> found]

NoLogin == LoginOf(NoUser, NoPassword, {})

\* Types of users, sessions and logins.
SessionTypeOK ==
    /\ tick \in 0 .. LastTick
    /\ password \in [Users -> Passwords \cup {NoPassword}]
    /\ session \in [SessionIds -> Session]
    /\ login \in [Browsers -> Login]

LiveOf(u) == {s \in SessionIds : session[s].user = u /\ session[s].live}

\* Mutant: the session is dated back past its age.
DeadBackdated(row) == SessionRow(row.user, FALSE, row.issued - MaxAge - 1, row.proof)

Dead(row) == SessionRow(row.user, FALSE, row.issued, row.proof)

\* The sessions in S revoked, the others as they are.
Revoked(S) == [s \in SessionIds |-> IF s \in S THEN Dead(session[s]) ELSE session[s]]

\* _resolve_session_access_context of the cookie create_auth_session_cookie made.
CookieAccepted(s) == session[s].live /\ tick - session[s].issued <= MaxAge

\* resolve_user_by_password, and the query of create_fresh_session_credential.
LoginReads(b, u, p) ==
    /\ login[b] = NoLogin
    /\ p = password[u]
    /\ login' = [login EXCEPT ![b] = LoginOf(u, p, LiveOf(u))]
    /\ UNCHANGED <<tick, password, session>>

\* Mutant: earlier sessions are left alone.
ReplacedNone(b) == {}

\* The sessions a login puts an end to: the ones its query returned.
Replaced(b) == login[b].found

LoginWrites(b, s) ==
    /\ login[b] # NoLogin
    /\ session[s].user = NoUser
    /\ session' = [Revoked(Replaced(b)) EXCEPT ![s] = SessionRow(login[b].user, TRUE, tick, login[b].proof)]
    /\ login' = [login EXCEPT ![b] = NoLogin]
    /\ UNCHANGED <<tick, password>>

\* logout revokes the credential its cookie names, expired cookies excepted.
Logout(s) ==
    /\ CookieAccepted(s)
    /\ session' = Revoked({s})
    /\ UNCHANGED <<tick, password, login>>

\* Mutant: a rotated password leaves the sessions of the old one.
EndedByRemovalOnly(u, p) == IF p = NoPassword THEN LiveOf(u) ELSE {}

\* Sessions of u ended by a start with password p configured: all of them when
\* the user is gone (_disable_removed_users) or the password differs
\* (_apply_bootstrap_password).
EndedBy(u, p) == IF p = password[u] THEN {} ELSE LiveOf(u)

\* The server starts again with another configuration; requests in flight are
\* lost with the old process.
Restart(config) ==
    /\ password' = config
    /\ session' = Revoked(UNION {EndedBy(u, config[u]) : u \in Users})
    /\ login' = [b \in Browsers |-> NoLogin]
    /\ UNCHANGED tick

Elapses ==
    /\ tick < LastTick
    /\ tick' = tick + 1
    /\ UNCHANGED <<password, session, login>>

SessionInit ==
    /\ tick = 0
    /\ password = [u \in Users |-> NoPassword]
    /\ session = [s \in SessionIds |-> SessionRow(NoUser, FALSE, 0, NoPassword)]
    /\ login = [b \in Browsers |-> NoLogin]

SessionNext ==
    \/ \E b \in Browsers, u \in Users, p \in Passwords : LoginReads(b, u, p)
    \/ \E b \in Browsers, s \in SessionIds : LoginWrites(b, s)
    \/ \E s \in SessionIds : Logout(s)
    \/ \E config \in [Users -> Passwords \cup {NoPassword}] : Restart(config)
    \/ Elapses

SessionSpec == SessionInit /\ [][SessionNext]_sessionVars

-------------------------------------------------------------------------------
(* Properties *)

\* A cookie proves the password the user has now: rotating the password or
\* removing the user ends every session, also those older than other sessions.
SessionProvesPassword ==
    \A s \in SessionIds : CookieAccepted(s) => session[s].proof = password[session[s].user]

\* Logins do not pile up: however they overlap, a user has no more live
\* sessions than there were logins at once, and one when they never overlap.
FewLiveSessions ==
    \A u \in Users : Cardinality(LiveOf(u)) <= Cardinality(Browsers)

\* A live session proves a password that still counts, and logins that overlap
\* leave no more sessions than there were of them.
SessionsAreSound == SessionTypeOK /\ SessionProvesPassword /\ FewLiveSessions
===============================================================================
