------------------------------ MODULE Sessions ------------------------------
(***************************************************************************)
(* Server-side login sessions: the sessions table (auth.SessionStore), the *)
(* middleware that resolves a request's token into a user and guards the   *)
(* routes (auth.Authenticator), and the login, logout and guarded handlers *)
(* (package api).                                                          *)
(*                                                                         *)
(* A request is a sequence of database statements with tests of the clock  *)
(* between them, and requests interleave.  The token a login draws at      *)
(* random is the login's own name.  Accounts are never changed or deleted  *)
(* by any code of the repository, so they are a constant.                  *)
(***************************************************************************)
EXTENDS Integers

CONSTANTS
    Requests,   \* HTTP requests
    Kinds,      \* the routes they may be for
    Users,      \* the rows of users
    RoleOf,     \* their roles
    Null,       \* no row, no token, no user
    Second,     \* clock ticks in a second
    TTL,        \* SessionStore.ttl, in ticks
    MaxTime,    \* bound on the clock
    Bearers,    \* TRUE: clients may send Authorization: Bearer
    Faults      \* TRUE: database calls fail

SessionRows == [user : Users, expires : Int]
Routes == {"login", "logout", "me", "users", "ws"}

ASSUME KindsAssumption == Kinds \subseteq Routes
ASSUME NullAssumption == Null \notin Requests \cup Users \cup SessionRows
ASSUME RoleAssumption == RoleOf \in [Users -> {"admin", "member"}]
ASSUME TimeAssumption ==
    Second \in Nat \ {0} /\ TTL \in Nat \ {0} /\ MaxTime \in Nat
ASSUME SwitchAssumption == Bearers \in BOOLEAN /\ Faults \in BOOLEAN

Tokens == Requests

VARIABLES
    sessions,   \* table sessions: the row of each token, or Null
    at,         \* where each request is, or how it was answered
    kind,       \* the route of each request
    cookie,     \* the session cookie it carries, or Null
    bearer,     \* its bearer token, or Null
    row,        \* the session row that Get selected
    user,       \* the user attached to its context, or Null
    given,      \* the ExpiresAt that a login gave its client
    now,        \* the clock, in ticks
    failed,     \* history: requests a statement of which failed
    late        \* history: why a request's token was over when it arrived

history == <<failed, late>>
vars == <<sessions, at, kind, cookie, bearer, row, user, given, now, history>>

Goto(r, label) == at' = [at EXCEPT ![r] = label]

\* A timestamp written with time.RFC3339: whole seconds.
RFC3339(t) == t - (t % Second)

\* The cookie, else the Authorization header.
TokenFrom(r) == IF cookie[r] # Null THEN cookie[r] ELSE bearer[r]

\* A client sends a token that a login gave it, or none.  A browser stops
\* sending a cookie when it expires.
LoggedIn(t) == kind[t] = "login" /\ at[t] = "ok"
InJar(t) == LoggedIn(t) /\ now < RFC3339(given[t])

\* The lifetime a login gave its client has passed, or a logout with the cookie
\* has deleted the session and been answered.
Over(t, why) ==
    \/ why = "expired" /\ now >= given[t]
    \/ /\ why = "loggedOut"
       /\ \E q \in Requests \ failed :
             kind[q] = "logout" /\ at[q] = "ok" /\ cookie[q] = t

\* A statement of r fails, or none does.
Fail(r) == Faults /\ failed' = failed \cup {r}
Succeed == UNCHANGED failed

-----------------------------------------------------------------------------
(* WithUser: resolve, for every route. *)

Arrive(r) ==
    /\ at[r] = "idle"
    /\ \E k \in Kinds,
          c \in {t \in Tokens : InJar(t)} \cup {Null},
          h \in {t \in Tokens : Bearers /\ LoggedIn(t)} \cup {Null} :
          /\ kind' = [kind EXCEPT ![r] = k]
          /\ cookie' = [cookie EXCEPT ![r] = c]
          /\ bearer' = [bearer EXCEPT ![r] = h]
          /\ Goto(r, IF c = Null /\ h = Null THEN "route" ELSE "select")
    /\ late' = [late EXCEPT ![r] =
           {why \in {"expired", "loggedOut"} : TokenFrom(r)' # Null
                                               /\ Over(TokenFrom(r)', why)}]
    /\ UNCHANGED <<sessions, row, user, given, now, failed>>

\* SessionStore.Get: the SELECT.
GetSelect(r) ==
    /\ at[r] = "select"
    /\ \/ /\ Succeed
          /\ row' = [row EXCEPT ![r] = sessions[TokenFrom(r)]]
          /\ Goto(r, IF row'[r] = Null THEN "route" ELSE "expiry")
       \/ Fail(r) /\ Goto(r, "route") /\ UNCHANGED row
    /\ UNCHANGED <<sessions, kind, cookie, bearer, user, given, now, late>>

\* A variant of the next step that accepts any row.
GetAnyRow(r) ==
    /\ at[r] = "expiry"
    /\ Goto(r, "load")
    /\ UNCHANGED <<sessions, kind, cookie, bearer, row, user, given, now, history>>

\* SessionStore.Get: the row read against the clock of this moment.
GetExpiry(r) ==
    /\ at[r] = "expiry"
    /\ Goto(r, IF now < row[r].expires THEN "load" ELSE "evict")
    /\ UNCHANGED <<sessions, kind, cookie, bearer, row, user, given, now, history>>

\* SessionStore.Get deletes an expired session; its error is ignored.
GetEvict(r) ==
    /\ at[r] = "evict"
    /\ \/ Succeed /\ sessions' = [sessions EXCEPT ![TokenFrom(r)] = Null]
       \/ Fail(r) /\ UNCHANGED sessions
    /\ Goto(r, "route")
    /\ UNCHANGED <<kind, cookie, bearer, row, user, given, now, late>>

\* users.GetByID: the row of the session's user, which is never deleted.
GetByID(r) == user' = [user EXCEPT ![r] = row[r].user]

\* resolve loads the user; when the query fails the request has none.
LoadUser(r) ==
    /\ at[r] = "load"
    /\ \/ Succeed /\ GetByID(r)
       \/ Fail(r) /\ UNCHANGED user
    /\ Goto(r, "route")
    /\ UNCHANGED <<sessions, kind, cookie, bearer, row, given, now, late>>

-----------------------------------------------------------------------------
(* The routes. *)

\* GET /auth/me and /ws are behind RequireAuth; /users and /invites are behind
\* RequireRole as well.  The variant leaves RequireRole out.
Guarded(r) == kind[r] \in {"me", "users", "ws"}

GuardAuth(r) ==
    IF user[r] = Null THEN "unauthorized" ELSE "ok"

Guard(r) ==
    IF user[r] = Null THEN "unauthorized"
    ELSE IF kind[r] = "users" /\ RoleOf[user[r]] # "admin" THEN "forbidden"
    ELSE "ok"

\* The guarded handlers: handleMe answers from the context; handleListUsers
\* reads the table; handleWS upgrades the connection, which stays open, or
\* answers a request that is no WebSocket handshake.
HandleMe(r) == Succeed /\ Goto(r, "ok")
HandleListUsers(r) ==
    \/ Succeed /\ Goto(r, "ok")
    \/ Fail(r) /\ Goto(r, "error")
HandleWS(r) == Succeed /\ (Goto(r, "open") \/ Goto(r, "badRequest"))

Handle(r) ==
    \/ kind[r] = "me" /\ HandleMe(r)
    \/ kind[r] = "users" /\ HandleListUsers(r)
    \/ kind[r] = "ws" /\ HandleWS(r)

Serve(r) ==
    /\ at[r] = "route" /\ Guarded(r)
    /\ \/ Guard(r) # "ok" /\ Succeed /\ Goto(r, Guard(r))
       \/ Guard(r) = "ok" /\ Handle(r)
    /\ UNCHANGED <<sessions, kind, cookie, bearer, row, user, given, now, late>>

\* A /ws connection ends, sooner or later: no session is looked at again.
Disconnect(r) ==
    /\ at[r] = "open"
    /\ Goto(r, "ok")
    /\ UNCHANGED <<sessions, kind, cookie, bearer, row, user, given, now, history>>

\* A variant of the next step that only clears the client's cookie.
LogoutKeepsRow(r) ==
    /\ at[r] = "route" /\ kind[r] = "logout"
    /\ Goto(r, "ok")
    /\ UNCHANGED <<sessions, kind, cookie, bearer, row, user, given, now, history>>

\* handleLogout deletes the session of the cookie, ignores an error, and
\* answers 204.
Logout(r) ==
    /\ at[r] = "route" /\ kind[r] = "logout"
    /\ \/ cookie[r] = Null /\ Succeed /\ UNCHANGED sessions
       \/ /\ cookie[r] # Null
          /\ Succeed /\ sessions' = [sessions EXCEPT ![cookie[r]] = Null]
       \/ cookie[r] # Null /\ Fail(r) /\ UNCHANGED sessions
    /\ Goto(r, "ok")
    /\ UNCHANGED <<kind, cookie, bearer, row, user, given, now, late>>

\* A variant of the next step that does not look at GetByEmail's error.
CheckNothing(r) ==
    /\ at[r] = "route" /\ kind[r] = "login"
    /\ \E u \in Users \cup {Null} : user' = [user EXCEPT ![r] = u]
    /\ Goto(r, "create")
    /\ UNCHANGED <<sessions, kind, cookie, bearer, row, given, now, history>>

\* decodeJSON refuses the body; users.GetByEmail finds the account of the email,
\* if it has one.
DecodeFails(r) == Goto(r, "badRequest") /\ UNCHANGED user
FindByEmail(r) == \E u \in Users : user' = [user EXCEPT ![r] = u]

\* handleLogin decodes the body, finds the account and checks the password: a
\* missing account, a failed query and a wrong password have one answer.
CheckCredentials(r) ==
    /\ at[r] = "route" /\ kind[r] = "login"
    /\ \/ FindByEmail(r) /\ Goto(r, "create")
       \/ Goto(r, "unauthorized") /\ UNCHANGED user
       \/ DecodeFails(r)
    /\ UNCHANGED <<sessions, kind, cookie, bearer, row, given, now, history>>

\* SessionStore.Create.  A failed INSERT may have been applied.
CreateSession(r) ==
    /\ at[r] = "create"
    /\ given' = [given EXCEPT ![r] = now + TTL]
    /\ \/ /\ sessions' = [sessions EXCEPT ![r] =
                 [user |-> user[r], expires |-> RFC3339(now + TTL)]]
          /\ \/ Succeed /\ Goto(r, "ok")
             \/ Fail(r) /\ Goto(r, "error")
       \/ Fail(r) /\ Goto(r, "error") /\ UNCHANGED sessions
    /\ UNCHANGED <<kind, cookie, bearer, row, user, now, late>>

\* A variant of the next step that purges what is about to expire.
DeleteExpiring ==
    /\ sessions' = [t \in Tokens |->
           IF sessions[t] # Null /\ sessions[t].expires <= RFC3339(now) + Second
           THEN Null ELSE sessions[t]]
    /\ sessions' # sessions
    /\ UNCHANGED <<at, kind, cookie, bearer, row, user, given, now, history>>

\* SessionStore.DeleteExpired, meant for a periodic job.
DeleteExpired ==
    /\ sessions' = [t \in Tokens |->
           IF sessions[t] # Null /\ sessions[t].expires < RFC3339(now)
           THEN Null ELSE sessions[t]]
    /\ sessions' # sessions
    /\ UNCHANGED <<at, kind, cookie, bearer, row, user, given, now, history>>

Tick ==
    /\ now < MaxTime
    /\ now' = now + 1
    /\ UNCHANGED <<sessions, at, kind, cookie, bearer, row, user, given, history>>

Answers == {"ok", "badRequest", "unauthorized", "forbidden", "error"}

\* Every request was answered and the clock has reached its bound.
Quiet ==
    /\ now = MaxTime
    /\ \A r \in Requests : at[r] \in Answers
    /\ UNCHANGED vars

Init ==
    /\ sessions = [t \in Tokens |-> Null]
    /\ at = [r \in Requests |-> "idle"]
    /\ kind = [r \in Requests |-> "me"]
    /\ cookie = [r \in Requests |-> Null]
    /\ bearer = [r \in Requests |-> Null]
    /\ row = [r \in Requests |-> Null]
    /\ user = [r \in Requests |-> Null]
    /\ given = [r \in Requests |-> 0]
    /\ now = 0
    /\ failed = {}
    /\ late = [r \in Requests |-> {}]

Next ==
    \/ \E r \in Requests :
          \/ Arrive(r)
          \/ GetSelect(r) \/ GetExpiry(r) \/ GetEvict(r) \/ LoadUser(r)
          \/ Serve(r) \/ Disconnect(r) \/ Logout(r)
          \/ CheckCredentials(r) \/ CreateSession(r)
    \/ DeleteExpired
    \/ Tick
    \/ Quiet

Spec == Init /\ [][Next]_vars

-----------------------------------------------------------------------------
(* Properties. *)

TypeOK ==
    /\ sessions \in [Tokens -> SessionRows \cup {Null}]
    /\ at \in [Requests -> {"idle", "select", "expiry", "evict", "load",
                            "route", "create", "open"} \cup Answers]
    /\ kind \in [Requests -> Routes]
    /\ cookie \in [Requests -> Tokens \cup {Null}]
    /\ bearer \in [Requests -> Tokens \cup {Null}]
    /\ row \in [Requests -> SessionRows \cup {Null}]
    /\ user \in [Requests -> Users \cup {Null}]
    /\ given \in [Requests -> 0..(MaxTime + TTL)]
    /\ now \in 0..MaxTime
    /\ failed \subseteq Requests
    /\ late \in [Requests -> SUBSET {"expired", "loggedOut"}]

Served(r) == Guarded(r) /\ at[r] \in {"open", "ok"}

\* A guarded request is served only as the user who logged in with the token
\* it carries, and an admin's route only to an admin (resolve, RequireAuth,
\* RequireRole).
ServedAsOwner ==
    \A r \in Requests : Served(r) =>
        /\ TokenFrom(r) # Null
        /\ LoggedIn(TokenFrom(r))
        /\ user[r] = user[TokenFrom(r)]
        /\ kind[r] = "users" => RoleOf[user[r]] = "admin"

\* A request that arrives once its session is over is not served, whatever
\* fails and whatever earlier requests are still doing with the row: the
\* session's lifetime has passed, purged or not (Get, DeleteExpired), or a
\* logout with its cookie was answered and its DELETE did not fail
\* (handleLogout, Delete).
NeverServedLate == \A r \in Requests : late[r] # {} => ~Served(r)

\* A request with a client's token is refused only because one of its own
\* statements failed, because a logout of that token has reached the server, or
\* because its lifetime, cut to whole seconds, is over: neither Get's eviction
\* nor DeleteExpired takes a session that is still good.
RefusedForCause ==
    \A r \in Requests \ failed :
        (Guarded(r) /\ at[r] = "unauthorized" /\ TokenFrom(r) # Null)
        => \/ \E q \in Requests : kind[q] = "logout" /\ cookie[q] = TokenFrom(r)
           \/ now >= RFC3339(given[TokenFrom(r)])

\* session.go:91: "Delete removes a session (logout)", and middleware.go:32-33:
\* a token comes from the cookie or from "an Authorization: Bearer header (the
\* latter for native/API clients)".  So a client that logs out with its token
\* has no session left.
LogoutRemovesSession ==
    \A q \in Requests :
        kind[q] = "logout" /\ at[q] = "ok" /\ TokenFrom(q) # Null
            => sessions[TokenFrom(q)] = Null

-----------------------------------------------------------------------------
(* Refinement: what the routes see of a session is SessionLife. *)

\* A row is good, and a copy of it is, until the clock reaches its expiry.
Good(s) == s # Null /\ now < s.expires

\* The resolver has a session for r: a copy it will accept, or the user of one.
Admitted(r) ==
    /\ Guarded(r)
    /\ \/ at[r] = "expiry" /\ Good(row[r])
       \/ at[r] = "load"
       \/ user[r] # Null

Life == INSTANCE SessionLife WITH
    None <- Null,
    drawn <- {t \in Tokens : kind[t] = "login" /\ at[t] \in {"ok", "error"}},
    live <- {t \in Tokens : Good(sessions[t])},
    seen <- [r \in Requests |-> IF Admitted(r) THEN TokenFrom(r) ELSE Null],
    served <- {r \in Requests : Served(r)}

\* A guarded request is served only if its token was alive after it was sent,
\* and a token that a logout, an eviction or the clock ended never comes back,
\* although rows are read in one step and judged in another (Get, resolve).
ImplementsSessionLife == Life!Spec
=============================================================================
