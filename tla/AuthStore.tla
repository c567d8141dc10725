------------------------------ MODULE AuthStore ------------------------------
(***************************************************************************)
(* A tab of the web application: the auth store, the API client under it,  *)
(* the layouts that decide what is shown, and the browser's cookie, against*)
(* the sessions of the server.  Calls overlap, are lost before or after    *)
(* the server acted, and outlive the page that made them.  The cookie is   *)
(* set when the headers of an answer arrive, the store after its body.     *)
(***************************************************************************)
EXTENDS Integers, FiniteSets

CONSTANTS Users,
          Tokens,       \* session tokens, each issued at most once: the bound on logins
          Calls,        \* slots of requests in flight: the bound on overlap
          MaxLoads,     \* bound on page loads
          External,     \* a ?next= that starts with "/" and names another host: "//host"
          Targets,      \* the ?next= a page may be loaded with: the bound on these
          None

ASSUME AuthStoreAssumption ==
    /\ None \notin Users \cup Tokens \cup Calls
    /\ External \notin {"/", "/login", "/redeem"}
    /\ "/" \in Targets /\ Targets \subseteq {"/", "/login", "/redeem", External}
    /\ "ended" \notin Users /\ "keep" \notin Tokens /\ None \notin {"ended", "keep"}
    /\ Calls \subseteq Nat /\ IsFiniteSet(Calls)
    /\ MaxLoads \in Nat

VARIABLES
    status, user,   \* the store
    bootError,      \* the root layout shows "can't reach"
    theme,          \* whether theme.init() could read localStorage at this load
    path,           \* where the tab is
    next,           \* where ?next= sends a user who signs in; "/" if it is of no use
    submitting,     \* the call the displayed form waits for
    call,           \* the requests
    jar,            \* the session cookie
    sessions,       \* the server's sessions, as in module Sessions
    loads,
    home,           \* history: the live cookie the page was loaded with, until it
                    \* signs out, the cookie changes or the server fails on it
    aside           \* history: what happened since then that a tab cannot notice

tab == <<status, user, bootError, theme, path, next, submitting>>
vars == <<tab, call, jar, sessions, loads, home, aside>>

AuthPaths == {"/login", "/redeem"}
Paths == {"/"} \cup AuthPaths

\* "missed": an answer was lost, a session ended or a statement failed.
\* "crossed": calls overlapped, another tab changed the cookie, or a redemption
\* went without its login.
Asides == {"nothing", "missed", "crossed"}

\* What a request is answered: the status, the user in the body, and the cookie
\* in the headers ("keep" if there is none).
Answer(code, who, set) == [code |-> code, who |-> who, set |-> set]
Pending == Answer("none", None, "keep")

Idle == [at |-> "idle", kind |-> "none", page |-> "none",
         cookie |-> None, who |-> None, answer |-> Pending]

InFlight == {c \in Calls : call[c].at # "idle"}
Mine(c) == call[c].page = "open"

\* Slots are interchangeable: a request takes the first free one.
Free(c) == c \notin InFlight /\ \A d \in Calls \ InFlight : c <= d

\* Whom the server takes a request with cookie k for.
Live(k) == IF k = None \/ sessions[k] \notin Users THEN None ELSE sessions[k]

Fresh == {k \in Tokens : sessions[k] = None}

\* The root layout renders a page when the status is known.  Variant: at once.
RenderedAtOnce == TRUE
Rendered == status # "loading" /\ ~bootError

\* What the tab displays; "blank" while a layout redirects.
Screen ==
    IF ~Rendered THEN IF bootError THEN "error" ELSE "spinner"
    ELSE IF path = "/" THEN IF status = "authenticated" THEN "app" ELSE "blank"
    ELSE IF status # "authenticated" THEN "form" ELSE "blank"

SetUser(u) == status' = "authenticated" /\ user' = u
\* Variant: the user stays in the store.
SetAnonymousKeeps == status' = "anonymous" /\ UNCHANGED user
SetAnonymous == status' = "anonymous" /\ user' = None

\* fetch: the cookie is read when the request is sent.
Send(c, kind, who) ==
    call' = [call EXCEPT ![c] = [Idle EXCEPT !.at = "sent", !.kind = kind,
                                     !.page = "open", !.cookie = jar, !.who = who]]

Crossed == aside' = "crossed"
Missed == aside' = IF aside = "crossed" THEN aside ELSE "missed"
NoteOverlap == IF InFlight = {} THEN UNCHANGED aside ELSE Crossed

\* goto: the form of another page is left with the call it waits for.
Goto(p, n) ==
    /\ path' = p /\ next' = n
    /\ submitting' = IF p = path THEN submitting ELSE None

SetCookie(k) == jar' = k /\ home' = IF k = jar THEN home ELSE None
-----------------------------------------------------------------------------

\* Before the first load the tab shows nothing that answers.
Init ==
    /\ status = "loading" /\ user = None /\ bootError = TRUE
    /\ theme = "none" /\ path = "/" /\ next = "/" /\ submitting = None
    /\ call = [c \in Calls |-> Idle]
    /\ jar = None /\ sessions = [k \in Tokens |-> None]
    /\ loads = 0 /\ home = None /\ aside = "nothing"

\* theme.init() reads localStorage, which throws where storage is blocked.
ThemeInit == theme' \in {"set", "failed"}

\* The page is loaded (again): the store starts anew and calls of the former
\* page go on without it.  onMount refreshes, unless theme.init() threw, which is
\* called before the try: then the request is never made.
Load(c) ==
    /\ Free(c) /\ loads < MaxLoads /\ loads' = loads + 1
    /\ status' = "loading" /\ user' = None /\ bootError' = FALSE
    /\ ThemeInit
    /\ path' \in Paths /\ submitting' = None
    /\ next' \in IF path' = "/" THEN {"/"} ELSE Targets
    /\ call' = [d \in Calls |->
                   IF d = c /\ theme' = "set"
                   THEN [Idle EXCEPT !.at = "sent", !.kind = "me", !.page = "open",
                                     !.cookie = jar]
                   ELSE IF ~Mine(d) THEN call[d]
                   ELSE IF call[d].kind = "me" THEN Idle
                   ELSE [call[d] EXCEPT !.page = "left"]]
    /\ home' = IF Live(jar) # None THEN jar ELSE None
    /\ aside' = IF InFlight = {} THEN "nothing" ELSE "crossed"
    /\ UNCHANGED <<jar, sessions>>

\* "Try again" on the error screen.
Retry(c) ==
    /\ Screen = "error" /\ loads > 0 /\ Free(c)
    /\ bootError' = FALSE
    /\ Send(c, "me", None) /\ NoteOverlap
    /\ UNCHANGED <<status, user, theme, path, next, submitting, jar, sessions, loads, home>>

\* The forms: their button is disabled while their own call runs.
Submit(c, u) ==
    /\ Screen = "form" /\ submitting = None /\ Free(c)
    /\ submitting' = c
    /\ Send(c, IF path = "/login" THEN "login" ELSE "redeem", u) /\ NoteOverlap
    /\ UNCHANGED <<status, user, bootError, theme, path, next, jar, sessions, loads, home>>

\* The links between the forms; the new form knows nothing of the old one's call.
FollowLink ==
    /\ Screen = "form"
    /\ \E p \in AuthPaths \ {path} : Goto(p, "/")
    /\ UNCHANGED <<status, user, bootError, theme, call, jar, sessions, loads, home, aside>>

\* "Sign out"; the button is never disabled.
SignOut(c) ==
    /\ Screen = "app" /\ Free(c)
    /\ Send(c, "logout", None) /\ NoteOverlap
    /\ home' = None
    /\ UNCHANGED <<tab, jar, sessions, loads>>

\* The reactive statements of the two layouts, which replace the displayed page
\* by nothing.  goto rejects the URL of another host and the tab stays.
LeaveApp == path = "/" /\ path' = "/login" /\ next' = "/"
LeaveAuth == path \in AuthPaths /\ next # External /\ path' = next /\ next' = "/"
\* Variant: only the (auth) layout redirects.
RedirectAuthOnly == LeaveAuth
Redirect == LeaveApp \/ LeaveAuth

Navigate ==
    /\ Screen = "blank" /\ Redirect
    /\ submitting' = None
    /\ UNCHANGED <<status, user, bootError, theme, call, jar, sessions, loads, home, aside>>
-----------------------------------------------------------------------------
(* The server.  A call whose page is left or whose connection is gone may   *)
(* still be served; nobody gets the answer of the latter.                   *)

Finish(c) == call' = [call EXCEPT ![c] = Idle]

Reply(c, answer) ==
    IF call[c].page = "gone" THEN Finish(c)
    ELSE call' = [call EXCEPT ![c].at = "answered", ![c].answer = answer,
                              ![c].cookie = None]

OpenSession(c, k) == sessions' = [sessions EXCEPT ![k] = call[c].who]
EndSession(k) == sessions' = [s \in Tokens |-> IF s = k THEN "ended" ELSE sessions[s]]

\* handleMe, behind the middleware: 401 if the session is not found, or cannot
\* be looked up.
ServeMe(c) ==
    /\ call[c].kind = "me"
    /\ LET u == Live(call[c].cookie)
       IN  \/ /\ u # None /\ Reply(c, Answer("200", u, "keep"))
              /\ UNCHANGED <<home, aside>>
           \/ /\ Reply(c, Answer("401", None, "keep"))
              /\ IF u = None THEN UNCHANGED <<home, aside>> ELSE home' = None /\ Missed
    /\ UNCHANGED sessions

ServeLogin(c) ==
    /\ call[c].kind = "login"
    /\ \E k \in Fresh : OpenSession(c, k) /\ Reply(c, Answer("200", call[c].who, k))
    /\ UNCHANGED <<home, aside>>

\* handleRedeem answers 201 with or without the automatic login.
ServeRedeem(c) ==
    /\ call[c].kind = "redeem"
    /\ \/ /\ \E k \in Fresh : OpenSession(c, k)
                              /\ Reply(c, Answer("201", call[c].who, k))
          /\ UNCHANGED aside
       \/ /\ Reply(c, Answer("201", call[c].who, "keep"))
          /\ Crossed /\ UNCHANGED sessions
    /\ UNCHANGED home

\* Wrong credentials (a 401 too); any other error, a gateway's included.
Refuse(c) ==
    /\ call[c].kind # "logout"
    /\ Reply(c, Answer(IF call[c].kind = "login" THEN "401" ELSE "500", None, "keep"))
    /\ UNCHANGED <<sessions, home, aside>>

\* handleLogout deletes the session of the cookie and clears the cookie.
ServeLogout(c) ==
    /\ call[c].kind = "logout"
    /\ EndSession(call[c].cookie)
    /\ Reply(c, Answer("204", None, None))
    /\ UNCHANGED <<home, aside>>

Serve(c) ==
    /\ call[c].at = "sent"
    /\ ServeMe(c) \/ ServeLogin(c) \/ ServeRedeem(c) \/ Refuse(c) \/ ServeLogout(c)
    /\ UNCHANGED <<tab, jar, loads>>
-----------------------------------------------------------------------------
(* The browser and request().                                               *)

\* The headers arrive: the browser stores the cookie.
Arrive(c) ==
    /\ call[c].at = "answered" /\ Mine(c)
    /\ SetCookie(IF call[c].answer.set = "keep" THEN jar ELSE call[c].answer.set)
    /\ call' = [call EXCEPT ![c].at = "headers", ![c].answer.set = "keep"]
    /\ UNCHANGED <<tab, sessions, loads, aside>>

\* Nobody waits for the answer any more, and the request may never have been
\* sent; the cookie of a call that its page left may still be stored.
Abandoned(c) ==
    /\ c \in InFlight /\ ~Mine(c)
    /\ \/ SetCookie(jar)
       \/ /\ call[c].at = "answered"
          /\ call[c].answer.set # "keep" /\ SetCookie(call[c].answer.set)
    /\ Finish(c)
    /\ UNCHANGED <<tab, sessions, loads, aside>>

\* res.ok: request throws on an error status.  Variant: it does not.
AnyStatus(a) == a.code # "none"
Ok(a) == a.code \in {"200", "201", "204"}

\* refresh: only a 401 means anonymous.  Variant: any error does.
UnauthorizedOrNot(a) == TRUE
IsUnauthorized(a) == a.code = "401"

Refreshed(a) ==
    /\ \/ Ok(a) /\ SetUser(a.who) /\ UNCHANGED bootError
       \/ ~Ok(a) /\ IsUnauthorized(a) /\ SetAnonymous /\ UNCHANGED bootError
       \/ ~Ok(a) /\ ~IsUnauthorized(a) /\ bootError' = TRUE /\ UNCHANGED <<status, user>>
    /\ UNCHANGED submitting

\* login and redeem, and the form that waits for them.
SignedIn(c, a) ==
    /\ IF Ok(a) THEN SetUser(call[c].who) ELSE UNCHANGED <<status, user>>
    /\ submitting' = IF submitting = c THEN None ELSE submitting
    /\ UNCHANGED bootError

\* logout: whatever the answer.  Variant: after a failure only.
SignedOutOnError(a) == IF Ok(a) THEN UNCHANGED <<status, user>> ELSE SetAnonymous
SignedOut(a) == SetAnonymous

\* signOut goes to the sign-in form, unless logout threw.
AfterLogout(a) ==
    IF Ok(a) THEN Goto("/login", "/") ELSE UNCHANGED <<path, next, submitting>>

Handle(c, a) ==
    /\ \/ call[c].kind = "me" /\ Refreshed(a) /\ UNCHANGED <<path, next>>
       \/ /\ call[c].kind \in {"login", "redeem"} /\ SignedIn(c, a)
          /\ UNCHANGED <<path, next>>
       \/ /\ call[c].kind = "logout" /\ SignedOut(a) /\ AfterLogout(a)
          /\ UNCHANGED bootError
    /\ UNCHANGED theme

\* The body is read and the promise resolves.
Settle(c) ==
    /\ call[c].at = "headers" /\ Mine(c)
    /\ Handle(c, call[c].answer)
    /\ Finish(c)
    /\ UNCHANGED <<jar, sessions, loads, home, aside>>

\* fetch rejects, before or after the server acted, or the body of a good answer
\* breaks off (errorMessage does without one).  What was sent may still reach
\* the server.
Fail(c) ==
    /\ c \in InFlight /\ Mine(c)
    /\ call[c].at = "headers" => Ok(call[c].answer) /\ call[c].answer.code # "204"
    /\ Handle(c, Pending)
    /\ IF call[c].at = "sent" /\ call[c].kind # "me"
       THEN call' = [call EXCEPT ![c].page = "gone"] ELSE Finish(c)
    /\ Missed
    /\ UNCHANGED <<jar, sessions, loads, home>>
-----------------------------------------------------------------------------

\* The session of the cookie passes its expiry (others are nobody's any more).
Expire(k) ==
    /\ k = jar /\ sessions[k] \in Users
    /\ EndSession(k) /\ Missed
    /\ UNCHANGED <<tab, call, jar, loads, home>>

\* Another tab of the browser signs in or out: the cookie is the same.
Elsewhere ==
    /\ \/ \E u \in Users, k \in Fresh :
              SetCookie(k) /\ sessions' = [sessions EXCEPT ![k] = u]
       \/ jar # None /\ SetCookie(None) /\ EndSession(jar)
    /\ Crossed
    /\ UNCHANGED <<tab, call, loads>>

\* What the (auth) layout cannot send away: signed in, under a ?next= that goto
\* rejects.
Stranded == Screen = "blank" /\ path \in AuthPaths /\ next = External

\* Such a tab, and one whose refresh was never sent, waits for a load; the model
\* has no more of them.
Quiet ==
    /\ theme = "failed" \/ Stranded
    /\ loads = MaxLoads
    /\ UNCHANGED vars

Network(c) == Serve(c) \/ Arrive(c) \/ Abandoned(c) \/ Settle(c) \/ Fail(c)

Next ==
    \/ \E c \in Calls : Load(c) \/ Retry(c) \/ SignOut(c) \/ Network(c)
    \/ \E c \in Calls, u \in Users : Submit(c, u)
    \/ FollowLink \/ Navigate \/ Elsewhere
    \/ \E k \in Tokens : Expire(k)
    \/ Quiet

Spec == Init /\ [][Next]_vars

\* Every request is answered or fails, and the router follows a redirect.
\* Nothing obliges the user, the clock or another tab.
FairSpec ==
    /\ Spec
    /\ \A c \in Calls : WF_vars(Network(c))
    /\ WF_vars(Navigate)
-----------------------------------------------------------------------------

TypeOK ==
    /\ status \in {"loading", "authenticated", "anonymous"}
    /\ user \in Users \cup {None} /\ (user # None <=> status = "authenticated")
    /\ bootError \in BOOLEAN /\ theme \in {"none", "set", "failed"}
    /\ path \in Paths /\ next \in Targets /\ (path = "/" => next = "/")
    /\ submitting \in Calls \cup {None}
    /\ jar \in Tokens \cup {None}
    /\ sessions \in [Tokens -> Users \cup {None, "ended"}]
    /\ \A c \in Calls :
        /\ call[c].at \in {"idle", "sent", "answered", "headers"}
        /\ call[c].cookie \in Tokens \cup {None}
        /\ call[c].at = "idle" <=> call[c] = Idle
    /\ loads \in 0..MaxLoads /\ home \in Tokens \cup {None} /\ aside \in Asides

\* While refresh is under way nothing else of its page is, so its answer never
\* overwrites that of a later login or logout; and the error screen never
\* covers a store that knows its user (the root layout, refresh).
RefreshAlone ==
    /\ \A c \in InFlight : Mine(c) /\ call[c].kind = "me" =>
          status = "loading" /\ \A d \in InFlight \ {c} : ~Mine(d)
    /\ bootError => status = "loading"

\* A page loaded with a live session does not send its user to the sign-in
\* form while that session lives, the cookie stays and the user has not signed
\* out: whatever answers are lost, an error is not taken for a 401 (refresh).
SignedInStaysIn == home # None /\ Live(home) # None => status # "anonymous"

\* When all calls are settled and nothing happened that the tab cannot know of,
\* the tab shows the user as whom the server serves it, and the sign-in form
\* exactly when the server serves it as nobody.
ShownIsServed ==
    InFlight = {} /\ aside = "nothing" /\ status # "loading" => user = Live(jar)

\* Even after lost calls and expiries, a tab does not show one user while its
\* requests are served as another, as long as its calls did not overlap, no
\* other tab changed the cookie and no redemption went without its login.
NoMixup ==
    InFlight = {} /\ aside # "crossed" /\ user # None
        => Live(jar) \in {user, None}

\* A tab leaves the spinner, and the blank between two layouts that redirect,
\* whatever calls are lost, with two exceptions, in which nothing ever ends it:
\* theme.init() threw at this load, before refresh and outside its try
\* (routes/+layout.svelte:10), or goto rejects where the (auth) layout sends a
\* user who is signed in ((auth)/+layout.svelte:10).
ScreenSettles ==
    Screen \in {"spinner", "blank"}
        ~> Screen \in {"app", "form", "error"} \/ theme = "failed" \/ Stranded
=============================================================================
