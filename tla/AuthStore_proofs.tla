--------------------------- MODULE AuthStore_proofs ---------------------------
(* Theorems about AuthStore, for every value of its constants. *)
EXTENDS AuthStore, TLAPS

-----------------------------------------------------------------------------
(* The inductive invariants, in the order in which they rest on each other. *)

Answers == [code : {"none", "200", "201", "204", "401", "500"},
            who : Users \cup {None}, set : Tokens \cup {None, "keep"}]

Requests == [at : {"idle", "sent", "answered", "headers"},
             kind : {"none", "me", "login", "redeem", "logout"},
             page : {"none", "open", "left", "gone"},
             cookie : Tokens \cup {None}, who : Users \cup {None}, answer : Answers]

\* A request names its kind and its page; a credential form names its user; and a
\* good answer to refresh has one.  One that nobody waits for is not answered.
Request(c) ==
    /\ call[c].at = "idle" => call[c] = Idle
    /\ call[c].at # "idle" => call[c].kind # "none" /\ call[c].page # "none"
    /\ call[c].page = "gone" => call[c].at = "sent"
    /\ call[c].kind \in {"login", "redeem"} => call[c].who \in Users
    /\ call[c].kind = "me" /\ call[c].at \in {"answered", "headers"} =>
          /\ call[c].answer.set = "keep"
          /\ Ok(call[c].answer) => call[c].answer.who \in Users

\* All of the type invariant but that bootError is Boolean.
Typed ==
    /\ status \in {"loading", "authenticated", "anonymous"}
    /\ user \in Users \cup {None} /\ (user # None <=> status = "authenticated")
    /\ theme \in {"none", "set", "failed"}
    /\ path \in Paths /\ next \in Targets /\ (path = "/" => next = "/")
    /\ submitting \in Calls \cup {None}
    /\ jar \in Tokens \cup {None}
    /\ sessions \in [Tokens -> Users \cup {None, "ended"}]
    /\ loads \in 0..MaxLoads /\ home \in Tokens \cup {None} /\ aside \in Asides
    /\ call \in [Calls -> Requests]
    /\ \A c \in Calls : Request(c)

\* While refresh runs the store is loading and no other call of the page runs;
\* and while the error screen is up none runs at all.
Alone ==
    /\ \A c \in Calls : Mine(c) =>
          /\ ~bootError
          /\ call[c].kind = "me" =>
                status = "loading" /\ \A d \in Calls : Mine(d) => d = c
    /\ bootError => status = "loading"

\* A cookie, stored or on its way, is of a session that was opened once.
Issued ==
    /\ jar # None => sessions[jar] # None
    /\ home # None => home = jar
    /\ \A c \in Calls : call[c].at = "answered" /\ call[c].answer.set \in Tokens =>
                            sessions[call[c].answer.set] # None

\* Since a page was loaded with a live cookie, its refresh goes with that cookie
\* and is answered 401 only when the session has ended; and it did not sign out.
Stays ==
    home # None =>
        /\ status = "anonymous" => Live(home) = None
        /\ \A c \in Calls : Mine(c) =>
              /\ call[c].kind # "logout"
              /\ call[c].kind = "me" /\ call[c].at = "sent" => call[c].cookie = home
              /\ call[c].kind = "me" /\ call[c].at # "sent"
                    /\ IsUnauthorized(call[c].answer) => Live(home) = None

\* As long as nothing crossed, one call runs at a time.
Single ==
    aside # "crossed" =>
        \A c \in InFlight : call[c].page # "left" /\ \A d \in InFlight : d = c

\* The answer of a request of the page, once handled, puts in the store whom the
\* server serves, or somebody whose session has ended since.
Matches(c) ==
    /\ call[c].kind = "me" =>
          /\ call[c].at = "sent" => call[c].cookie = jar
          /\ call[c].at # "sent" /\ Ok(call[c].answer) =>
                Live(jar) \in {call[c].answer.who, None}
    /\ call[c].kind \in {"login", "redeem"} =>
          /\ user = None
          /\ call[c].at = "answered" =>
                IF Ok(call[c].answer)
                THEN /\ call[c].answer.set \in Tokens
                     /\ Live(call[c].answer.set) \in {call[c].who, None}
                ELSE call[c].answer.set = "keep"
          /\ call[c].at = "headers" /\ Ok(call[c].answer) => Live(jar) \in {call[c].who, None}
    /\ call[c].kind = "logout" /\ call[c].at = "answered" => call[c].answer.set = None

\* ... and whoever is in the store, or will be, is served as that user or as nobody.
Agrees ==
    aside # "crossed" =>
        /\ user # None => Live(jar) \in {user, None}
        /\ \A c \in Calls : Mine(c) => Matches(c)

\* ... puts in the store exactly whom the server serves.
Tells(c) ==
    /\ call[c].kind = "me" /\ call[c].at # "sent" =>
          /\ IsUnauthorized(call[c].answer) => Live(jar) = None
          /\ Ok(call[c].answer) => Live(jar) = call[c].answer.who
    /\ call[c].kind \in {"login", "redeem"} =>
          /\ call[c].at \in {"sent", "answered"} => Live(jar) = None
          /\ call[c].at = "answered" /\ Ok(call[c].answer) =>
                Live(call[c].answer.set) = call[c].who
          /\ call[c].at = "headers" =>
                Live(jar) = IF Ok(call[c].answer) THEN call[c].who ELSE None
    /\ call[c].kind = "logout" =>
          IF call[c].at = "sent" THEN call[c].cookie = jar ELSE Live(jar) = None

\* As long as nothing at all happened aside, the tab knows exactly who is served.
Exact ==
    aside = "nothing" =>
        /\ \A c \in InFlight : Mine(c)
        /\ InFlight = {} /\ status # "loading" => user = Live(jar)
        /\ \A c \in Calls : Mine(c) => Tells(c)

-----------------------------------------------------------------------------
(* What the operators do to the requests. *)

USE AuthStoreAssumption

Only(c) == \A d \in Calls : d # c => call'[d] = call[d]

LEMMA IdleType == Idle \in Requests /\ Pending \in Answers
BY DEF Idle, Pending, Answer, Requests, Answers

LEMMA Sends ==
    ASSUME Typed, NEW c \in Calls, NEW kind \in {"me", "login", "redeem", "logout"},
           NEW who \in Users \cup {None}, Send(c, kind, who)
    PROVE  /\ call' \in [Calls -> Requests] /\ Only(c)
           /\ call'[c].at = "sent" /\ call'[c].kind = kind /\ call'[c].page = "open"
           /\ call'[c].cookie = jar /\ call'[c].who = who
<1> DEFINE new == [Idle EXCEPT !.at = "sent", !.kind = kind,
                               !.page = "open", !.cookie = jar, !.who = who]
<1>1. /\ new \in Requests
      /\ new.at = "sent" /\ new.kind = kind /\ new.page = "open"
      /\ new.cookie = jar /\ new.who = who
  BY IdleType DEF Typed, Idle, Requests
<1>2. call' = [call EXCEPT ![c] = new] /\ call \in [Calls -> Requests]
  BY DEF Send, Typed
<1> HIDE DEF new
<1> QED BY <1>1, <1>2 DEF Only

LEMMA Finishes ==
    ASSUME Typed, NEW c \in Calls, Finish(c)
    PROVE  call' \in [Calls -> Requests] /\ Only(c) /\ call'[c] = Idle
BY IdleType DEF Finish, Typed, Only

LEMMA Replies ==
    ASSUME Typed, NEW c \in Calls, NEW a \in Answers, Reply(c, a)
    PROVE  /\ call' \in [Calls -> Requests] /\ Only(c)
           /\ IF call[c].page = "gone" THEN call'[c] = Idle
              ELSE /\ call'[c].at = "answered" /\ call'[c].answer = a
                   /\ call'[c].kind = call[c].kind /\ call'[c].page = call[c].page
                   /\ call'[c].who = call[c].who
<1>1. CASE call[c].page = "gone"
  BY <1>1, Finishes DEF Reply
<1>2. CASE call[c].page # "gone"
  <2> DEFINE new == [call[c] EXCEPT !.at = "answered", !.answer = a, !.cookie = None]
  <2>1. call \in [Calls -> Requests]
    BY DEF Typed
  <2>2. /\ new \in Requests
        /\ new.at = "answered" /\ new.answer = a /\ new.kind = call[c].kind
        /\ new.page = call[c].page /\ new.who = call[c].who
    BY <2>1 DEF Requests
  <2>3. call' = [call EXCEPT ![c] = new]
    BY <1>2, <2>1 DEF Reply
  <2> HIDE DEF new
  <2> QED BY <1>2, <2>1, <2>2, <2>3 DEF Only
<1> QED BY <1>1, <1>2

LEMMA Arrives ==
    ASSUME Typed, NEW c \in Calls, Arrive(c)
    PROVE  /\ call[c].at = "answered" /\ Mine(c)
           /\ call' \in [Calls -> Requests] /\ Only(c)
           /\ call'[c].at = "headers" /\ call'[c].kind = call[c].kind
           /\ call'[c].page = call[c].page /\ call'[c].who = call[c].who
           /\ call'[c].answer.code = call[c].answer.code
           /\ call'[c].answer.who = call[c].answer.who
           /\ call'[c].answer.set = "keep"
<1> DEFINE answer == [call[c].answer EXCEPT !.set = "keep"]
           new == [call[c] EXCEPT !.at = "headers", !.answer = answer]
<1>1. call \in [Calls -> Requests]
  BY DEF Typed
<1>2. /\ answer \in Answers /\ answer.set = "keep"
      /\ answer.code = call[c].answer.code /\ answer.who = call[c].answer.who
  BY <1>1 DEF Requests, Answers
<1>3. call' = [call EXCEPT ![c] = new]
  <2>1. call' = [call EXCEPT ![c].at = "headers", ![c].answer.set = "keep"]
    BY Zenon DEF Arrive
  <2>2. [call EXCEPT ![c].at = "headers", ![c].answer.set = "keep"] = [call EXCEPT ![c] = new]
    BY <1>1 DEF Requests, Answers
  <2> QED BY <2>1, <2>2, Zenon
<1> HIDE DEF answer
<1>4. /\ new \in Requests /\ new.at = "headers" /\ new.answer = answer
      /\ new.kind = call[c].kind /\ new.page = call[c].page /\ new.who = call[c].who
  BY <1>1, <1>2 DEF Requests
<1> HIDE DEF new
<1> QED BY <1>1, <1>2, <1>3, <1>4 DEF Only, Arrive

\* The requests after a page load: refresh is sent, or nothing at all, and nothing
\* else is the page's.
LEMMA Loads ==
    ASSUME Typed, NEW c \in Calls, Load(c)
    PROVE  /\ call' \in [Calls -> Requests]
           /\ \/ call'[c] = Idle
              \/ /\ call'[c].at = "sent" /\ call'[c].kind = "me" /\ call'[c].page = "open"
                 /\ call'[c].cookie = jar
           /\ \A d \in Calls : d # c =>
                 \/ call'[d] = call[d] /\ ~Mine(d)
                 \/ call'[d] = Idle
                 \/ /\ call'[d].page = "left" /\ call'[d].at = call[d].at
                    /\ call'[d].kind = call[d].kind /\ call'[d].who = call[d].who
                    /\ call'[d].answer = call[d].answer /\ call[d].at # "idle"
                    /\ call[d].kind # "me"
<1> DEFINE new == [Idle EXCEPT !.at = "sent", !.kind = "me", !.page = "open", !.cookie = jar]
           left(d) == [call[d] EXCEPT !.page = "left"]
<1>1. call \in [Calls -> Requests] /\ jar \in Tokens \cup {None}
  BY DEF Typed
<1>2. /\ new \in Requests /\ new.at = "sent" /\ new.kind = "me" /\ new.page = "open"
      /\ new.cookie = jar
  BY <1>1, IdleType DEF Requests, Idle
<1>3. ASSUME NEW d \in Calls
      PROVE  /\ left(d) \in Requests /\ left(d).page = "left" /\ left(d).at = call[d].at
             /\ left(d).kind = call[d].kind /\ left(d).who = call[d].who
             /\ left(d).answer = call[d].answer
  BY <1>1 DEF Requests
<1>4. call' = [d \in Calls |->
                   IF d = c /\ theme' = "set" THEN new ELSE IF ~Mine(d) THEN call[d]
                   ELSE IF call[d].kind = "me" THEN Idle ELSE left(d)]
  BY Zenon DEF Load
<1>free. call[c] = Idle /\ ~Mine(c)
  BY DEF Load, Free, InFlight, Typed, Request, Mine, Idle
<1>5. \A d \in Calls : Mine(d) => call[d].at # "idle"
  BY DEF Typed, Request, Mine, Idle
<1> HIDE DEF new, left
<1>6. ASSUME NEW d \in Calls
      PROVE  call'[d] = IF d = c /\ theme' = "set" THEN new ELSE IF ~Mine(d) THEN call[d]
                        ELSE IF call[d].kind = "me" THEN Idle ELSE left(d)
  BY <1>4
<1>7. call' \in [Calls -> Requests]
  BY <1>1, <1>2, <1>3, <1>4, IdleType
<1> QED BY <1>2, <1>3, <1>free, <1>5, <1>6, <1>7

\* What the store is when an answer is handled.
LEMMA Handles ==
    ASSUME NEW c, NEW a, Handle(c, a)
    PROVE  /\ theme' = theme
           /\ \/ UNCHANGED <<path, next>> /\ submitting' \in {submitting, None}
              \/ Goto("/login", "/")
           /\ \/ /\ call[c].kind = "me"
                 /\ \/ Ok(a) /\ SetUser(a.who) /\ bootError' = bootError
                    \/ ~Ok(a) /\ IsUnauthorized(a) /\ SetAnonymous /\ bootError' = bootError
                    \/ ~Ok(a) /\ ~IsUnauthorized(a) /\ status' = status /\ user' = user
              \/ /\ call[c].kind \in {"login", "redeem"}
                 /\ bootError' = bootError
                 /\ \/ Ok(a) /\ SetUser(call[c].who)
                    \/ ~Ok(a) /\ status' = status /\ user' = user
              \/ call[c].kind = "logout" /\ bootError' = bootError /\ SetAnonymous
<1>1. CASE call[c].kind = "me" /\ Refreshed(a) /\ UNCHANGED <<path, next, theme>>
  <2>1. submitting' \in {submitting, None}
    BY <1>1 DEF Refreshed
  <2> QED BY <1>1, <2>1, Zenon DEF Refreshed
<1>2. CASE /\ call[c].kind \in {"login", "redeem"} /\ SignedIn(c, a)
           /\ UNCHANGED <<path, next, theme>>
  <2>1. submitting' \in {submitting, None}
    BY <1>2 DEF SignedIn
  <2> QED BY <1>2, <2>1, Zenon DEF SignedIn
<1>3. CASE /\ call[c].kind = "logout" /\ SignedOut(a) /\ AfterLogout(a)
           /\ UNCHANGED <<bootError, theme>>
  <2>1. \/ UNCHANGED <<path, next>> /\ submitting' \in {submitting, None}
        \/ Goto("/login", "/")
    BY <1>3 DEF AfterLogout
  <2> QED BY <1>3, <2>1, Zenon DEF SignedOut
<1> QED BY <1>1, <1>2, <1>3, Zenon DEF Handle

\* What the server does: it answers, and opens or ends a session.
LEMMA Serves ==
    ASSUME NEW c \in Calls, Serve(c)
    PROVE  /\ call[c].at = "sent" /\ UNCHANGED <<tab, jar, loads>>
           /\ \/ /\ call[c].kind = "me" /\ sessions' = sessions
                 /\ LET u == Live(call[c].cookie)
                    IN  \/ /\ u # None /\ Reply(c, Answer("200", u, "keep"))
                           /\ UNCHANGED <<home, aside>>
                        \/ /\ u = None /\ Reply(c, Answer("401", None, "keep"))
                           /\ UNCHANGED <<home, aside>>
                        \/ Reply(c, Answer("401", None, "keep")) /\ home' = None /\ Missed
              \/ /\ call[c].kind \in {"login", "redeem"} /\ UNCHANGED <<home, aside>>
                 /\ \E k \in Fresh, code \in {"200", "201"} :
                       OpenSession(c, k) /\ Reply(c, Answer(code, call[c].who, k))
              \/ /\ call[c].kind = "redeem" /\ home' = home /\ Crossed
                 /\ Reply(c, Answer("201", call[c].who, "keep")) /\ sessions' = sessions
              \/ /\ call[c].kind = "login" /\ Reply(c, Answer("401", None, "keep"))
                 /\ UNCHANGED <<sessions, home, aside>>
              \/ /\ call[c].kind # "logout" /\ Reply(c, Answer("500", None, "keep"))
                 /\ UNCHANGED <<sessions, home, aside>>
              \/ /\ call[c].kind = "logout" /\ EndSession(call[c].cookie)
                 /\ Reply(c, Answer("204", None, None))
                 /\ UNCHANGED <<home, aside>>
<1> USE DEF Serve
<1>1. CASE ServeMe(c)
  BY <1>1, Zenon DEF ServeMe
<1>2. CASE ServeLogin(c)
  BY <1>2, Zenon DEF ServeLogin
<1>3. CASE ServeRedeem(c)
  BY <1>3, Zenon DEF ServeRedeem
<1>4. CASE Refuse(c)
  BY <1>4, Zenon DEF Refuse
<1>5. CASE ServeLogout(c)
  BY <1>5, Zenon DEF ServeLogout
<1> QED BY <1>1, <1>2, <1>3, <1>4, <1>5, Zenon

LEMMA AnswerTypes ==
    /\ \A code \in {"none", "200", "201", "204", "401", "500"}, who \in Users \cup {None},
          set \in Tokens \cup {None, "keep"} :
             /\ Answer(code, who, set) \in Answers
             /\ Answer(code, who, set).code = code
             /\ Answer(code, who, set).who = who
             /\ Answer(code, who, set).set = set
    /\ \A k : Live(k) \in Users \cup {None}
BY DEF Answer, Answers, Live

\* What the tab displays says where the store is.
LEMMA Screens ==
    /\ Screen = "form" => ~bootError /\ status \notin {"loading", "authenticated"}
    /\ Screen = "app" => ~bootError /\ status = "authenticated"
    /\ Screen = "error" => bootError
BY Zenon DEF Screen, Rendered

-----------------------------------------------------------------------------
(* Types. *)

LEMMA TypedInit == Init => Typed
<1> SUFFICES ASSUME Init PROVE Typed
  OBVIOUS
<1>1. /\ status = "loading" /\ user = None /\ submitting = None
      /\ theme = "none" /\ path = "/" /\ next = "/"
      /\ call = [c \in Calls |-> Idle]
      /\ jar = None /\ sessions = [k \in Tokens |-> None]
      /\ loads = 0 /\ home = None /\ aside = "nothing"
  BY Zenon DEF Init
<1>2. \A c \in Calls : Request(c)
  BY <1>1 DEF Request, Idle
<1> QED BY <1>1, <1>2, IdleType DEF Typed, Paths, AuthPaths, Asides

\* What opening and ending a session does to the types.
LEMMA SessionTypes ==
    ASSUME Typed
    PROVE  /\ \A k \in Tokens, u \in Users :
                 [sessions EXCEPT ![k] = u] \in [Tokens -> Users \cup {None, "ended"}]
           /\ \A k : EndSession(k) => sessions' \in [Tokens -> Users \cup {None, "ended"}]
BY DEF Typed, EndSession

\* The requests stay well formed when one of them changes.
LEMMA RequestsKept ==
    ASSUME Typed, NEW c \in Calls, Only(c), Request(c)'
    PROVE  \A d \in Calls : Request(d)'
BY DEF Typed, Only, Request

LEMMA IdleRequest ==
    ASSUME NEW c \in Calls, call'[c] = Idle
    PROVE  Request(c)'
BY DEF Request, Idle

LEMMA TypedStep == Typed /\ [Next]_vars => Typed'
<1> SUFFICES ASSUME Typed, [Next]_vars PROVE Typed'
  OBVIOUS
<1> DEFINE Store == /\ status \in {"loading", "authenticated", "anonymous"}
                    /\ user \in Users \cup {None} /\ (user # None <=> status = "authenticated")
           Place == /\ theme \in {"none", "set", "failed"}
                    /\ path \in Paths /\ next \in Targets /\ (path = "/" => next = "/")
                    /\ submitting \in Calls \cup {None}
           Jars == jar \in Tokens \cup {None} /\ home \in Tokens \cup {None}
           Sessions == sessions \in [Tokens -> Users \cup {None, "ended"}]
           History == loads \in 0..MaxLoads /\ aside \in Asides
           Requested == call \in [Calls -> Requests] /\ \A c \in Calls : Request(c)
<1>typed. Store /\ Place /\ Jars /\ Sessions /\ History /\ Requested
  BY DEF Typed
<1> SUFFICES Store' /\ Place' /\ Jars' /\ Sessions' /\ History' /\ Requested'
  BY DEF Typed
<1> DEFINE Goal == Store' /\ Place' /\ Jars' /\ Sessions' /\ History' /\ Requested'
<1>asides. {"nothing", "missed", "crossed"} = Asides
  BY DEF Asides
<1>noted. /\ NoteOverlap => aside' \in Asides
          /\ Missed => aside' \in Asides
          /\ Crossed => aside' \in Asides
  BY <1>typed DEF NoteOverlap, Missed, Crossed, Asides
<1>1. ASSUME NEW c \in Calls, Load(c) PROVE Goal
  <2>1. /\ status' = "loading" /\ user' = None /\ submitting' = None
        /\ theme' \in {"set", "failed"}
        /\ path' \in Paths /\ next' \in Targets /\ (path' = "/" => next' = "/")
        /\ home' \in {jar, None} /\ aside' \in Asides
        /\ loads < MaxLoads /\ loads' = loads + 1 /\ UNCHANGED <<jar, sessions>>
    BY <1>1 DEF Load, ThemeInit, Asides
  <2>2. \A d \in Calls : Request(d)'
    <3>1. ASSUME NEW d \in Calls, d # c PROVE Request(d)'
      <4>1. \/ call'[d] = call[d] /\ ~Mine(d)
            \/ call'[d] = Idle
            \/ /\ call'[d].page = "left" /\ call'[d].at = call[d].at
               /\ call'[d].kind = call[d].kind /\ call'[d].who = call[d].who
               /\ call'[d].answer = call[d].answer /\ call[d].at # "idle"
               /\ call[d].kind # "me"
        BY <1>1, <3>1, Loads
      <4> QED BY <1>typed, <4>1, IdleRequest DEF Request
    <3>2. Request(c)'
      <4>1. \/ call'[c] = Idle
            \/ call'[c].at = "sent" /\ call'[c].kind = "me" /\ call'[c].page = "open"
        BY <1>1, Loads
      <4> QED BY <4>1, IdleRequest DEF Request
    <3> QED BY <3>1, <3>2
  <2>3. call' \in [Calls -> Requests]
    BY <1>1, Loads
  <2> QED BY <1>typed, <2>1, <2>2, <2>3
<1>2. ASSUME NEW c \in Calls, Retry(c) PROVE Goal
  <2>1. /\ Send(c, "me", None)
        /\ UNCHANGED <<status, user, theme, path, next, submitting, jar, sessions, loads, home>>
        /\ NoteOverlap
    BY <1>2, Zenon DEF Retry
  <2>2. call' \in [Calls -> Requests] /\ \A d \in Calls : Request(d)'
    BY <2>1, Sends, RequestsKept DEF Request
  <2> QED BY <1>typed, <1>noted, <2>1, <2>2
<1>3. ASSUME NEW c \in Calls, NEW u \in Users, Submit(c, u) PROVE Goal
  <2>1. /\ \E kind \in {"login", "redeem"} : Send(c, kind, u)
        /\ submitting' = c
        /\ UNCHANGED <<status, user, theme, path, next, jar, sessions, loads, home>>
        /\ NoteOverlap
    BY <1>3, Zenon DEF Submit
  <2>2. call' \in [Calls -> Requests] /\ \A d \in Calls : Request(d)'
    BY <2>1, Sends, RequestsKept DEF Request
  <2> QED BY <1>typed, <1>noted, <2>1, <2>2
<1>4. ASSUME NEW c \in Calls, SignOut(c) PROVE Goal
  <2>1. /\ Send(c, "logout", None) /\ home' = None
        /\ UNCHANGED <<status, user, theme, path, next, submitting, jar, sessions, loads>>
        /\ NoteOverlap
    BY <1>4, Zenon DEF SignOut, tab
  <2>2. call' \in [Calls -> Requests] /\ \A d \in Calls : Request(d)'
    BY <2>1, Sends, RequestsKept DEF Request
  <2> QED BY <1>typed, <1>noted, <2>1, <2>2
<1>5. CASE FollowLink \/ Navigate
  <2>1. CASE FollowLink
    BY <1>typed, <2>1 DEF FollowLink, Goto, Request, Paths, AuthPaths
  <2>2. CASE Navigate
    <3>1. /\ path' \in Paths /\ next' = "/" /\ submitting' = None
          /\ UNCHANGED <<status, user, theme, call, jar, sessions, loads, home, aside>>
      BY <1>typed, <2>2 DEF Navigate, Redirect, LeaveApp, LeaveAuth, Paths, AuthPaths
    <3> QED BY <1>typed, <3>1 DEF Request
  <2> QED BY <1>5, <2>1, <2>2
<1>6. ASSUME NEW c \in Calls, Serve(c) PROVE Goal
  <2> DEFINE Served == call' \in [Calls -> Requests] /\ \A d \in Calls : Request(d)'
  <2>1. call[c].at = "sent" /\ UNCHANGED <<tab, jar, loads>>
    BY <1>6, Serves
  <2>2. ASSUME NEW a \in Answers, Reply(c, a),
               call[c].kind = "me" => a.set = "keep" /\ (Ok(a) => a.who \in Users)
        PROVE  Served
    <3>1. /\ call' \in [Calls -> Requests] /\ Only(c)
          /\ IF call[c].page = "gone" THEN call'[c] = Idle
             ELSE /\ call'[c].at = "answered" /\ call'[c].answer = a
                  /\ call'[c].kind = call[c].kind /\ call'[c].page = call[c].page
                  /\ call'[c].who = call[c].who
      BY <2>2, Replies
    <3>2. Request(c)'
      BY <1>typed, <2>1, <2>2, <3>1, IdleRequest DEF Request
    <3> QED BY <3>1, <3>2, RequestsKept
  <2>3. \A u \in Users \cup {None} : u # None => u \in Users
    OBVIOUS
  <2>4. Served /\ Sessions' /\ home' \in {home, None} /\ aside' \in Asides
    <3>1. CASE /\ call[c].kind = "me" /\ sessions' = sessions
               /\ LET u == Live(call[c].cookie)
                  IN  \/ /\ u # None /\ Reply(c, Answer("200", u, "keep"))
                         /\ UNCHANGED <<home, aside>>
                      \/ /\ u = None /\ Reply(c, Answer("401", None, "keep"))
                         /\ UNCHANGED <<home, aside>>
                      \/ Reply(c, Answer("401", None, "keep")) /\ home' = None /\ Missed
      <4>1. PICK u \in Users \cup {None} :
                \/ /\ u # None /\ Reply(c, Answer("200", u, "keep"))
                   /\ UNCHANGED <<home, aside>>
                \/ /\ Reply(c, Answer("401", None, "keep"))
                   /\ (UNCHANGED <<home, aside>> \/ (home' = None /\ Missed))
        BY <3>1, AnswerTypes, Zenon
      <4>2. ~Ok(Answer("401", None, "keep"))
        BY AnswerTypes DEF Ok
      <4>3. Served
        BY <2>2, <2>3, <4>1, <4>2, AnswerTypes
      <4> QED BY <1>typed, <1>noted, <3>1, <4>1, <4>3
    <3>2. CASE /\ call[c].kind \in {"login", "redeem"} /\ UNCHANGED <<home, aside>>
               /\ \E k \in Fresh, code \in {"200", "201"} :
                     OpenSession(c, k) /\ Reply(c, Answer(code, call[c].who, k))
      <4>1. PICK k \in Fresh, code \in {"200", "201"} :
                OpenSession(c, k) /\ Reply(c, Answer(code, call[c].who, k))
        BY <3>2
      <4>2. k \in Tokens /\ call[c].who \in Users
        BY <1>typed, <3>2 DEF Fresh, Request
      <4>3. /\ Answer(code, call[c].who, k) \in Answers
            /\ call[c].kind # "me"
        BY <3>2, <4>1, <4>2, AnswerTypes
      <4>4. Served
        BY <2>2, <4>1, <4>3
      <4>5. Sessions'
        BY <4>1, <4>2, SessionTypes DEF OpenSession
      <4> QED BY <1>typed, <3>2, <4>4, <4>5
    <3>3. CASE /\ call[c].kind = "redeem" /\ home' = home /\ Crossed
               /\ Reply(c, Answer("201", call[c].who, "keep")) /\ sessions' = sessions
      <4>1. call[c].who \in Users
        BY <1>typed, <3>3 DEF Request
      <4>2. Served
        BY <2>2, <3>3, <4>1, AnswerTypes
      <4> QED BY <1>typed, <1>noted, <3>3, <4>2
    <3>4. CASE /\ call[c].kind = "login" /\ Reply(c, Answer("401", None, "keep"))
               /\ UNCHANGED <<sessions, home, aside>>
      <4>1. Served
        BY <2>2, <3>4, AnswerTypes
      <4> QED BY <1>typed, <3>4, <4>1
    <3>5. CASE /\ call[c].kind # "logout" /\ Reply(c, Answer("500", None, "keep"))
               /\ UNCHANGED <<sessions, home, aside>>
      <4>1. ~Ok(Answer("500", None, "keep"))
        BY AnswerTypes DEF Ok
      <4>2. Served
        BY <2>2, <3>5, <4>1, AnswerTypes
      <4> QED BY <1>typed, <3>5, <4>2
    <3>6. CASE /\ call[c].kind = "logout" /\ EndSession(call[c].cookie)
               /\ Reply(c, Answer("204", None, None))
               /\ UNCHANGED <<home, aside>>
      <4>1. Served
        BY <2>2, <3>6, AnswerTypes
      <4> QED BY <1>typed, <3>6, <4>1, SessionTypes
    <3> HIDE DEF Served, Sessions
    <3> QED BY <1>6, <3>1, <3>2, <3>3, <3>4, <3>5, <3>6, Serves, Zenon
  <2> QED BY <1>typed, <2>1, <2>4 DEF tab
<1>7. ASSUME NEW c \in Calls, Arrive(c) PROVE Goal
  <2>1. /\ call[c].at = "answered" /\ UNCHANGED <<tab, sessions, loads, aside>>
        /\ jar' \in {jar, call[c].answer.set} /\ home' \in {home, None}
        /\ call[c].answer.set = "keep" => jar' = jar
    BY <1>7 DEF Arrive, SetCookie
  <2>2. call[c].answer.set \in Tokens \cup {None, "keep"}
    BY <1>typed DEF Requests, Answers
  <2>3. call' \in [Calls -> Requests] /\ Request(c)'
    BY <1>typed, <1>7, Arrives DEF Request, Ok
  <2>4. \A d \in Calls : Request(d)'
    BY <1>7, <2>3, Arrives, RequestsKept
  <2> QED BY <1>typed, <2>1, <2>2, <2>3, <2>4 DEF tab
<1>8. ASSUME NEW c \in Calls, Abandoned(c) PROVE Goal
  <2>1. /\ UNCHANGED <<tab, sessions, loads, aside>> /\ Finish(c)
        /\ jar' \in {jar, call[c].answer.set} /\ home' \in {home, None}
        /\ call[c].answer.set = "keep" => jar' = jar
    BY <1>8 DEF Abandoned, SetCookie
  <2>2. call[c].answer.set \in Tokens \cup {None, "keep"}
    BY <1>typed DEF Requests, Answers
  <2>3. call' \in [Calls -> Requests] /\ \A d \in Calls : Request(d)'
    BY <2>1, Finishes, IdleRequest, RequestsKept
  <2> QED BY <1>typed, <2>1, <2>2, <2>3 DEF tab
<1>handled. ASSUME NEW c \in Calls, NEW a, Handle(c, a),
                   call[c].kind = "me" /\ Ok(a) => a.who \in Users
            PROVE  Store' /\ Place'
  <2>1. call[c].kind \in {"login", "redeem"} => call[c].who \in Users
    BY <1>typed DEF Request
  <2>2. Place'
    <3>1. /\ theme' = theme
          /\ \/ UNCHANGED <<path, next>> /\ submitting' \in {submitting, None}
             \/ Goto("/login", "/")
      BY <1>handled, Handles
    <3> QED BY <1>typed, <3>1 DEF Goto, Paths, AuthPaths
  <2> QED BY <1>typed, <1>handled, <2>1, <2>2, Handles DEF SetUser, SetAnonymous
<1>9. ASSUME NEW c \in Calls, Settle(c) PROVE Goal
  <2>1. /\ call[c].at = "headers" /\ Handle(c, call[c].answer) /\ Finish(c)
        /\ UNCHANGED <<jar, sessions, loads, home, aside>>
    BY <1>9, Zenon DEF Settle
  <2>2. Store' /\ Place'
    BY <1>typed, <1>handled, <2>1 DEF Request
  <2>3. call' \in [Calls -> Requests] /\ \A d \in Calls : Request(d)'
    BY <2>1, Finishes, IdleRequest, RequestsKept
  <2> QED BY <1>typed, <2>1, <2>2, <2>3
<1>10. ASSUME NEW c \in Calls, Fail(c) PROVE Goal
  <2>1. /\ Handle(c, Pending) /\ Missed
        /\ UNCHANGED <<jar, sessions, loads, home>>
    BY <1>10, Zenon DEF Fail
  <2>2. Store' /\ Place'
    BY <1>handled, <2>1 DEF Ok, Pending, Answer
  <2>3. CASE call[c].at = "sent" /\ call[c].kind # "me" /\ call' = [call EXCEPT ![c].page = "gone"]
    <3>1. /\ call' \in [Calls -> Requests] /\ Only(c)
          /\ call'[c].page = "gone" /\ call'[c].at = "sent"
          /\ call'[c].kind = call[c].kind /\ call'[c].who = call[c].who
      BY <1>typed, <2>3 DEF Requests, Only
    <3>2. Request(c)'
      BY <1>typed, <2>3, <3>1 DEF Request
    <3>3. \A d \in Calls : Request(d)'
      BY <3>1, <3>2, RequestsKept
    <3> QED BY <1>typed, <1>noted, <2>1, <2>2, <3>1, <3>3
  <2>4. CASE Finish(c)
    <3>1. call' \in [Calls -> Requests] /\ \A d \in Calls : Request(d)'
      BY <2>4, Finishes, IdleRequest, RequestsKept
    <3> QED BY <1>typed, <1>noted, <2>1, <2>2, <3>1
  <2> QED BY <1>10, <2>3, <2>4 DEF Fail
<1>11. ASSUME NEW k \in Tokens, Expire(k) PROVE Goal
  <2>1. EndSession(k) /\ Missed /\ UNCHANGED <<tab, call, jar, loads, home>>
    BY <1>11, Zenon DEF Expire
  <2> QED BY <1>typed, <1>noted, <2>1, SessionTypes DEF tab, Request
<1>12. CASE Elsewhere
  <2>1. Crossed /\ UNCHANGED <<tab, call, loads>>
    BY <1>12, Zenon DEF Elsewhere
  <2>2. Sessions' /\ Jars'
    <3>1. ASSUME NEW u \in Users, NEW k \in Fresh, SetCookie(k),
                 sessions' = [sessions EXCEPT ![k] = u]
          PROVE  Sessions' /\ Jars'
      <4>1. k \in Tokens
        BY DEF Fresh
      <4> QED BY <1>typed, <3>1, <4>1 DEF SetCookie
    <3>2. CASE SetCookie(None) /\ EndSession(jar)
      BY <1>typed, <3>2, SessionTypes DEF SetCookie
    <3> QED BY <1>12, <3>1, <3>2, Zenon DEF Elsewhere
  <2> QED BY <1>typed, <1>noted, <2>1, <2>2 DEF tab, Request
<1>13. CASE UNCHANGED vars
  BY <1>typed, <1>13 DEF vars, tab, Request
<1> QED BY <1>1, <1>2, <1>3, <1>4, <1>5, <1>6, <1>7, <1>8, <1>9, <1>10, <1>11, <1>12, <1>13
        DEF Next, Network, Quiet

Flag == bootError \in BOOLEAN

LEMMA FlagStep == Flag /\ [Next]_vars => Flag'
<1> SUFFICES ASSUME bootError \in BOOLEAN, [Next]_vars PROVE bootError' \in BOOLEAN
  BY Zenon DEF Flag
<1>1. ASSUME bootError' = bootError \/ bootError' = FALSE \/ bootError' = TRUE
      PROVE  bootError' \in BOOLEAN
  BY <1>1, Zenon
<1>2. ASSUME NEW c, NEW a, Handle(c, a) PROVE bootError' = bootError \/ bootError' = TRUE
  BY <1>2, Zenon DEF Handle, Refreshed, SignedIn
<1>3. ASSUME NEW c \in Calls, Network(c) PROVE bootError' = bootError \/ bootError' = TRUE
  BY <1>2, <1>3, Zenon DEF Network, Serve, Arrive, Abandoned, Settle, Fail, tab
<1>4. ASSUME NEW c \in Calls, Load(c) \/ Retry(c) PROVE bootError' = FALSE
  BY <1>4, Zenon DEF Load, Retry
<1>5. CASE (\E c \in Calls : SignOut(c)) \/ (\E c \in Calls, u \in Users : Submit(c, u))
           \/ FollowLink \/ Navigate \/ Elsewhere \/ (\E k \in Tokens : Expire(k))
           \/ UNCHANGED vars
  BY <1>5, Zenon DEF SignOut, Submit, FollowLink, Navigate, Elsewhere, Expire, vars, tab
<1> QED BY <1>1, <1>3, <1>4, <1>5, Zenon DEF Next, Quiet

\* A tab, its requests, the cookie and the server's sessions are of their types;
\* and a store has a user exactly when it is authenticated.
THEOREM TypeCorrect == Spec => []TypeOK
<1>1. Init => Flag
  BY Zenon DEF Init, Flag
<1>2. Typed => /\ \A c \in Calls : /\ call[c].at \in {"idle", "sent", "answered", "headers"}
                                   /\ call[c].cookie \in Tokens \cup {None}
                                   /\ call[c].at = "idle" <=> call[c] = Idle
  BY DEF Typed, Request, Requests, Idle
<1>3. Typed /\ Flag => TypeOK
  BY <1>2, Zenon DEF Typed, Flag, TypeOK
<1> QED BY <1>1, <1>3, TypedInit, TypedStep, FlagStep, PTL DEF Spec

-----------------------------------------------------------------------------
(* What the steps of the network do to the requests. *)

LEMMA ServeEffect ==
    ASSUME Typed, NEW c \in Calls, Serve(c)
    PROVE  /\ Only(c)
           /\ \/ call[c].page = "gone" /\ call'[c] = Idle
              \/ /\ call[c].page # "gone" /\ call'[c].at = "answered"
                 /\ call'[c].kind = call[c].kind /\ call'[c].page = call[c].page
                 /\ call'[c].who = call[c].who
<1>1. call[c].who \in Users \cup {None}
  BY DEF Typed, Requests
<1>2. \E a \in Answers : Reply(c, a)
  <2>1. \A k \in Fresh : k \in Tokens
    BY DEF Fresh
  <2> QED BY <1>1, <2>1, Serves, AnswerTypes
<1> QED BY <1>2, Replies

LEMMA FailEffect ==
    ASSUME Typed, NEW c \in Calls, Fail(c)
    PROVE  /\ Only(c) /\ c \in InFlight /\ Mine(c)
           /\ \/ call'[c] = Idle
              \/ /\ call[c].at = "sent" /\ call[c].kind # "me"
                 /\ call'[c].page = "gone" /\ call'[c].at = "sent"
<1>1. CASE Finish(c)
  BY <1>1, Finishes DEF Fail
<1>2. CASE call[c].at = "sent" /\ call[c].kind # "me" /\ call' = [call EXCEPT ![c].page = "gone"]
  BY <1>2 DEF Fail, Typed, Requests, Only
<1> QED BY <1>1, <1>2 DEF Fail

LEMMA SettleEffect ==
    ASSUME Typed, NEW c \in Calls, Settle(c)
    PROVE  Only(c) /\ call'[c] = Idle /\ call[c].at = "headers" /\ Mine(c)
BY Finishes DEF Settle

LEMMA IdleNotMine ==
    ASSUME NEW c \in Calls
    PROVE  /\ call[c] = Idle => ~Mine(c) /\ c \notin InFlight
           /\ call'[c] = Idle => ~Mine(c)' /\ c \notin InFlight'
           /\ Typed /\ Mine(c) => c \in InFlight
<1>1. Idle.page # "open" /\ Idle.at = "idle"
  BY DEF Idle
<1>2. Typed /\ Mine(c) => c \in InFlight
  BY DEF Idle, Mine, InFlight, Typed, Request
<1> QED BY <1>1, <1>2 DEF Mine, InFlight

-----------------------------------------------------------------------------
(* Refresh runs alone. *)

LEMMA AloneInit == Init => Alone
<1> SUFFICES ASSUME Init PROVE Alone
  OBVIOUS
<1>1. call = [c \in Calls |-> Idle] /\ status = "loading"
  BY Zenon DEF Init
<1> QED BY <1>1 DEF Alone, Mine, Idle

LEMMA AloneKept ==
    ASSUME Alone, status' = status, bootError' = bootError,
           \A d \in Calls : Mine(d)' => Mine(d) /\ call'[d].kind = call[d].kind
    PROVE  Alone'
BY DEF Alone

LEMMA AloneStep == Typed /\ Alone /\ [Next]_vars => Alone'
<1> SUFFICES ASSUME Typed, Alone, [Next]_vars PROVE Alone'
  OBVIOUS
<1>1. ASSUME NEW c \in Calls, Load(c) PROVE Alone'
  <2>1. status' = "loading" /\ ~bootError'
    BY <1>1, Zenon DEF Load
  <2>2. \A d \in Calls : Mine(d)' => d = c
    BY <1>1, Loads DEF Mine, Idle
  <2> QED BY <2>1, <2>2 DEF Alone
<1>2. ASSUME NEW c \in Calls, Retry(c) PROVE Alone'
  <2>1. bootError /\ ~bootError' /\ status' = status /\ Send(c, "me", None)
    BY <1>2, Screens, Zenon DEF Retry
  <2>2. status = "loading" /\ \A d \in Calls : ~Mine(d)
    BY <2>1, Zenon DEF Alone
  <2>3. \A d \in Calls : Mine(d)' => d = c
    BY <2>1, <2>2, Sends DEF Mine, Only
  <2> QED BY <2>1, <2>2, <2>3 DEF Alone
<1>3. ASSUME NEW c \in Calls, NEW u \in Users \cup {None}, NEW kind \in {"login", "redeem", "logout"},
             Send(c, kind, u), status # "loading", ~bootError, status' = status,
             bootError' = bootError
      PROVE  Alone'
  <2>1. \A d \in Calls : Mine(d) => call[d].kind # "me"
    BY <1>3 DEF Alone
  <2>2. \A d \in Calls : Mine(d)' => call'[d].kind # "me"
    <3>1. Only(c) /\ call'[c].kind = kind
      BY <1>3, Sends
    <3> QED BY <1>3, <2>1, <3>1 DEF Mine, Only
  <2>3. ~bootError'
    BY <1>3, Zenon
  <2> QED BY <2>2, <2>3, Zenon DEF Alone
<1>4. ASSUME NEW c \in Calls, NEW u \in Users, Submit(c, u) PROVE Alone'
  <2>1. status # "loading" /\ ~bootError /\ status' = status /\ bootError' = bootError
    BY <1>4, Screens, Zenon DEF Submit
  <2>2. \E kind \in {"login", "redeem"} : Send(c, kind, u)
    BY <1>4, Zenon DEF Submit
  <2> QED BY <1>3, <2>1, <2>2, Zenon
<1>5. ASSUME NEW c \in Calls, SignOut(c) PROVE Alone'
  <2>1. status # "loading" /\ ~bootError /\ status' = status /\ bootError' = bootError
    BY <1>5, Screens DEF SignOut, tab
  <2>2. Send(c, "logout", None)
    BY <1>5, Zenon DEF SignOut
  <2> QED BY <1>3, <2>1, <2>2, Zenon
<1>6. CASE FollowLink \/ Navigate \/ Elsewhere \/ (\E k \in Tokens : Expire(k)) \/ UNCHANGED vars
  <2>1. status' = status /\ bootError' = bootError /\ call' = call
    BY <1>6, Zenon DEF FollowLink, Navigate, Elsewhere, Expire, vars, tab
  <2> QED BY <2>1, AloneKept DEF Mine
<1>7. ASSUME NEW c \in Calls, Serve(c) \/ Arrive(c) \/ Abandoned(c) PROVE Alone'
  <2>1. status' = status /\ bootError' = bootError
    BY <1>7, Zenon DEF Serve, Arrive, Abandoned, tab
  <2>2. Only(c) /\ (Mine(c)' => Mine(c) /\ call'[c].kind = call[c].kind)
    <3>1. CASE Serve(c)
      BY <3>1, ServeEffect DEF Mine, Idle
    <3>2. CASE Arrive(c)
      BY <3>2, Arrives DEF Mine
    <3>3. CASE Abandoned(c)
      <4>1. Finish(c)
        BY <3>3, Zenon DEF Abandoned
      <4>2. Only(c) /\ call'[c] = Idle
        BY <4>1, Finishes
      <4> QED BY <4>2, IdleNotMine
    <3> QED BY <1>7, <3>1, <3>2, <3>3
  <2> QED BY <2>1, <2>2, AloneKept DEF Only, Mine
<1>8. ASSUME NEW c \in Calls, NEW a, Handle(c, a), Mine(c), Only(c), ~Mine(c)' PROVE Alone'
  <2>1. \A d \in Calls : Mine(d)' => Mine(d) /\ d # c /\ call'[d].kind = call[d].kind
    BY <1>8 DEF Only, Mine
  <2>2. CASE call[c].kind = "me"
    <3>1. status = "loading" /\ (\A d \in Calls : ~Mine(d)') /\ ~bootError
      BY <1>8, <2>1, <2>2 DEF Alone
    <3>2. bootError' = bootError \/ status' = status
      BY <1>8, <2>2, Handles, Zenon
    <3>3. bootError' => status' = "loading"
      BY <3>1, <3>2, Zenon
    <3> QED BY <3>1, <3>3, Zenon DEF Alone
  <2>3. CASE call[c].kind # "me"
    <3>1. ~bootError /\ \A d \in Calls : Mine(d)' => call'[d].kind # "me"
      BY <1>8, <2>1, <2>3 DEF Alone
    <3>2. bootError' = bootError
      BY <1>8, <2>3, Handles, Zenon
    <3>3. ~bootError'
      BY <3>1, <3>2, Zenon
    <3> QED BY <3>1, <3>3, Zenon DEF Alone
  <2> QED BY <2>2, <2>3
<1>9. ASSUME NEW c \in Calls, Settle(c) \/ Fail(c) PROVE Alone'
  <2>1. \E a : Handle(c, a)
    BY <1>9, Zenon DEF Settle, Fail
  <2>2. Only(c) /\ Mine(c) /\ ~Mine(c)'
    BY <1>9, SettleEffect, FailEffect DEF Mine, Idle
  <2> QED BY <1>8, <2>1, <2>2
<1> QED BY <1>1, <1>2, <1>4, <1>5, <1>6, <1>7, <1>9, Zenon DEF Next, Network, Quiet

\* While refresh is under way nothing else of its page is, and the error screen
\* never covers a store that knows its user.
THEOREM RefreshAloneAlways == Spec => []RefreshAlone
<1>1. Alone => RefreshAlone
  <2> SUFFICES ASSUME Alone PROVE RefreshAlone
    OBVIOUS
  <2>1. bootError => status = "loading"
    BY Zenon DEF Alone
  <2>2. \A c \in InFlight : Mine(c) /\ call[c].kind = "me" =>
            status = "loading" /\ \A d \in InFlight \ {c} : ~Mine(d)
    BY DEF Alone, InFlight
  <2> QED BY <2>1, <2>2, Zenon DEF RefreshAlone
<1> QED BY <1>1, TypedInit, TypedStep, AloneInit, AloneStep, PTL DEF Spec

-----------------------------------------------------------------------------
(* What the server's answer says, and what becomes of the sessions. *)

LEMMA Answered ==
    ASSUME Typed, NEW c \in Calls, Serve(c)
    PROVE  LET a == call'[c].answer
               open == call[c].page # "gone"
           IN  \/ /\ call[c].kind = "me" /\ sessions' = sessions
                  /\ open => a.set = "keep"
                  /\ open /\ Ok(a) => a.who = Live(call[c].cookie)
                  /\ \/ /\ UNCHANGED <<home, aside>>
                        /\ open /\ IsUnauthorized(a) => Live(call[c].cookie) = None
                     \/ home' = None /\ Missed
               \/ /\ call[c].kind \in {"login", "redeem"} /\ UNCHANGED <<home, aside>>
                  /\ \E k \in Fresh : /\ sessions' = [sessions EXCEPT ![k] = call[c].who]
                                      /\ open => Ok(a) /\ a.set = k
               \/ /\ call[c].kind = "redeem" /\ home' = home /\ aside' = "crossed"
                  /\ sessions' = sessions
                  /\ open => a.set = "keep"
               \/ /\ call[c].kind \in {"login", "redeem"} /\ UNCHANGED <<sessions, home, aside>>
                  /\ open => ~Ok(a) /\ a.set = "keep"
               \/ /\ call[c].kind = "logout" /\ UNCHANGED <<home, aside>>
                  /\ EndSession(call[c].cookie)
                  /\ open => a.set = None
<1> DEFINE Replied(a) == call[c].page # "gone" => call'[c].answer = a
<1>1. ASSUME NEW a \in Answers, Reply(c, a) PROVE Replied(a)
  BY <1>1, Replies
<1>2. call[c].who \in Users \cup {None} /\ (call[c].at = "sent" => call[c].kind # "none")
  BY DEF Typed, Request, Requests
<1>3. \A k \in Fresh : k \in Tokens
  BY DEF Fresh
<1>4. \A code \in {"none", "200", "201", "204", "401", "500"}, who \in Users \cup {None},
         set \in Tokens \cup {None, "keep"} :
             Reply(c, Answer(code, who, set)) => Replied(Answer(code, who, set))
  BY <1>1, AnswerTypes
<1>5. CASE call[c].kind = "me"
  <2> DEFINE u == Live(call[c].cookie)
  <2>1. u \in Users \cup {None}
    BY AnswerTypes
  <2>2. /\ Reply(c, Answer("200", u, "keep")) => Replied(Answer("200", u, "keep"))
        /\ Reply(c, Answer("401", None, "keep")) => Replied(Answer("401", None, "keep"))
        /\ Reply(c, Answer("500", None, "keep")) => Replied(Answer("500", None, "keep"))
    <3> HIDE DEF u, Replied
    <3> QED BY <1>4, <2>1
  <2>3. sessions' = sessions
    BY <1>5, Serves, Zenon
  <2>4. \/ Replied(Answer("200", u, "keep")) /\ UNCHANGED <<home, aside>>
        \/ Replied(Answer("401", None, "keep")) /\ u = None /\ UNCHANGED <<home, aside>>
        \/ Replied(Answer("401", None, "keep")) /\ home' = None /\ Missed
        \/ Replied(Answer("500", None, "keep")) /\ UNCHANGED <<home, aside>>
    <3> HIDE DEF Replied
    <3> QED BY <1>5, <2>2, Serves, Zenon
  <2> QED BY <1>5, <2>1, <2>3, <2>4, AnswerTypes DEF Ok, IsUnauthorized
<1>6. CASE call[c].kind \in {"login", "redeem"}
  <2>1. \/ \E k \in Fresh, code \in {"200", "201"} :
              /\ sessions' = [sessions EXCEPT ![k] = call[c].who]
              /\ Replied(Answer(code, call[c].who, k)) /\ UNCHANGED <<home, aside>>
        \/ /\ call[c].kind = "redeem" /\ home' = home /\ aside' = "crossed"
           /\ Replied(Answer("201", call[c].who, "keep")) /\ sessions' = sessions
        \/ /\ Replied(Answer("401", None, "keep")) /\ UNCHANGED <<sessions, home, aside>>
        \/ /\ Replied(Answer("500", None, "keep")) /\ UNCHANGED <<sessions, home, aside>>
    <3> HIDE DEF Replied
    <3> QED BY <1>2, <1>3, <1>4, <1>6, Serves DEF OpenSession, Crossed
  <2> QED BY <1>2, <1>3, <1>6, <2>1, AnswerTypes DEF Ok
<1>7. CASE call[c].kind = "logout"
  <2>1. /\ Replied(Answer("204", None, None)) /\ EndSession(call[c].cookie)
        /\ UNCHANGED <<home, aside>>
    <3> HIDE DEF Replied
    <3> QED BY <1>4, <1>7, Serves
  <2> QED BY <1>7, <2>1, AnswerTypes
<1>8. call[c].kind \in {"me", "login", "redeem", "logout"}
  <2>1. call[c].at = "sent"
    BY Serves
  <2> QED BY <1>2, <2>1 DEF Typed, Requests
<1> QED BY <1>5, <1>6, <1>7, <1>8

\* A session that was opened is never opened again: it goes on, or it ends.
LEMMA SessionChange ==
    ASSUME Typed, [Next]_vars, NEW k \in Tokens, sessions[k] # None
    PROVE  sessions'[k] = sessions[k] \/ sessions'[k] = "ended"
<1>types. sessions \in [Tokens -> Users \cup {None, "ended"}]
  BY DEF Typed
<1>1. CASE sessions' = sessions
  BY <1>1
<1>2. ASSUME NEW e, EndSession(e) PROVE sessions'[k] = sessions[k] \/ sessions'[k] = "ended"
  BY <1>2 DEF EndSession
<1>3. ASSUME NEW n \in Fresh, NEW u, sessions' = [sessions EXCEPT ![n] = u]
      PROVE  sessions'[k] = sessions[k]
  BY <1>types, <1>3 DEF Fresh
<1>4. ASSUME NEW c \in Calls, Serve(c)
      PROVE  \/ sessions' = sessions
             \/ \E e : EndSession(e)
             \/ \E n \in Fresh, u \in Users \cup {None} : sessions' = [sessions EXCEPT ![n] = u]
  <2>1. call[c].who \in Users \cup {None}
    BY DEF Typed, Requests
  <2> QED BY <1>4, <2>1, Answered
<1>5. CASE Elsewhere
  BY <1>2, <1>3, <1>5, Zenon DEF Elsewhere
<1>6. ASSUME NEW e \in Tokens, Expire(e) PROVE EndSession(e)
  BY <1>6, Zenon DEF Expire
<1>7. ASSUME NEW c \in Calls, Load(c) \/ Retry(c) \/ SignOut(c) \/ Arrive(c) \/ Abandoned(c)
                                \/ Settle(c) \/ Fail(c)
      PROVE  sessions' = sessions
  BY <1>7, Zenon DEF Load, Retry, SignOut, Arrive, Abandoned, Settle, Fail
<1>8. ASSUME NEW c \in Calls, NEW u \in Users, Submit(c, u) PROVE sessions' = sessions
  BY <1>8, Zenon DEF Submit
<1>9. CASE FollowLink \/ Navigate \/ UNCHANGED vars
  BY <1>1, <1>9, Zenon DEF FollowLink, Navigate, vars
<1> QED BY <1>1, <1>2, <1>3, <1>4, <1>5, <1>6, <1>7, <1>8, <1>9, Zenon DEF Next, Network, Quiet

-----------------------------------------------------------------------------
(* A cookie is of a session that was opened. *)

LEMMA StaysOpened ==
    ASSUME Typed, [Next]_vars, NEW k \in Tokens, sessions[k] # None
    PROVE  sessions'[k] # None
BY SessionChange

LEMMA IssuedInit == Init => Issued
<1> SUFFICES ASSUME Init PROVE Issued
  OBVIOUS
<1>1. call = [c \in Calls |-> Idle] /\ jar = None /\ home = None
  BY Zenon DEF Init
<1> QED BY <1>1 DEF Issued, Idle

LEMMA IssuedKept ==
    ASSUME Typed, Issued, [Next]_vars,
           \/ jar' \in {jar, None}
           \/ jar' \in Tokens /\ (sessions[jar'] # None \/ sessions'[jar'] # None),
           home' \in {jar', None},
           \A d \in Calls : call'[d].at = "answered" /\ call'[d].answer.set \in Tokens =>
               \/ sessions'[call'[d].answer.set] # None
               \/ call[d].at = "answered" /\ call[d].answer.set = call'[d].answer.set
    PROVE  Issued'
<1>1. jar \in Tokens \cup {None}
  BY DEF Typed
<1>2. jar' # None => sessions'[jar'] # None
  BY <1>1, StaysOpened DEF Issued
<1>3. \A d \in Calls : call'[d].at = "answered" /\ call'[d].answer.set \in Tokens =>
          sessions'[call'[d].answer.set] # None
  BY StaysOpened DEF Issued
<1> QED BY <1>2, <1>3 DEF Issued

\* Where the cookie goes when an answer arrives or another tab signs in.
LEMMA CookieSet ==
    ASSUME Issued, NEW k, SetCookie(k)
    PROVE  jar' = k /\ home' \in {jar', None} /\ (home' # None => home' = home /\ jar' = jar)
BY DEF SetCookie, Issued

LEMMA AbandonedEffect ==
    ASSUME Typed, NEW c \in Calls, Abandoned(c)
    PROVE  /\ Only(c) /\ call'[c] = Idle /\ c \in InFlight /\ ~Mine(c)
           /\ UNCHANGED <<tab, sessions, loads, aside>>
           /\ \E k \in Tokens \cup {None} :
                 /\ SetCookie(k)
                 /\ k = jar \/ (call[c].at = "answered" /\ call[c].answer.set = k)
<1>1. /\ Finish(c) /\ c \in InFlight /\ ~Mine(c) /\ UNCHANGED <<tab, sessions, loads, aside>>
      /\ \/ SetCookie(jar)
         \/ /\ call[c].at = "answered"
            /\ call[c].answer.set # "keep" /\ SetCookie(call[c].answer.set)
  BY Zenon DEF Abandoned
<1>2. jar \in Tokens \cup {None} /\ call[c].answer.set \in Tokens \cup {None, "keep"}
  BY DEF Typed, Requests, Answers
<1>3. call[c].answer.set # "keep" => call[c].answer.set \in Tokens \cup {None}
  BY <1>2
<1>4. \E k \in Tokens \cup {None} :
          /\ SetCookie(k)
          /\ k = jar \/ (call[c].at = "answered" /\ call[c].answer.set = k)
  BY <1>1, <1>2, <1>3, Zenon
<1> QED BY <1>1, <1>4, Finishes

LEMMA ArriveEffect ==
    ASSUME Typed, NEW c \in Calls, Arrive(c)
    PROVE  \E k \in Tokens \cup {None} :
              /\ SetCookie(k)
              /\ IF call[c].answer.set = "keep" THEN k = jar ELSE k = call[c].answer.set
<1>1. jar \in Tokens \cup {None} /\ call[c].answer.set \in Tokens \cup {None, "keep"}
  BY DEF Typed, Requests, Answers
<1>2. SetCookie(IF call[c].answer.set = "keep" THEN jar ELSE call[c].answer.set)
  BY Zenon DEF Arrive
<1> DEFINE k == IF call[c].answer.set = "keep" THEN jar ELSE call[c].answer.set
<1>3. k \in Tokens \cup {None}
  BY <1>1
<1>4. SetCookie(k)
  BY <1>2
<1>5. IF call[c].answer.set = "keep" THEN k = jar ELSE k = call[c].answer.set
  OBVIOUS
<1> HIDE DEF k
<1> QED BY <1>3, <1>4, <1>5

LEMMA IssuedStep == Typed /\ Issued /\ [Next]_vars => Issued'
<1> SUFFICES ASSUME Typed, Issued, [Next]_vars PROVE Issued'
  OBVIOUS
<1>kept. home \in {jar, None}
  BY DEF Issued
<1> DEFINE Same(d) == call[d].at = "answered" /\ call[d].answer.set = call'[d].answer.set
           Told == \A d \in Calls : call'[d].at = "answered" /\ call'[d].answer.set \in Tokens =>
                       sessions'[call'[d].answer.set] # None \/ Same(d)
<1>told. ASSUME NEW c \in Calls, Only(c), call'[c].at \in {"idle", "sent", "headers"} PROVE Told
  BY <1>told DEF Only
<1>idle. Idle.at = "idle"
  BY DEF Idle
<1>1. ASSUME NEW c \in Calls, Load(c) PROVE Issued'
  <2>1. jar' = jar /\ home' \in {jar, None}
    BY <1>1 DEF Load
  <2>2. Told
    BY <1>1, <1>idle, Loads
  <2> QED BY <2>1, <2>2, IssuedKept
<1>2. ASSUME NEW c \in Calls, NEW kind \in {"me", "login", "redeem", "logout"},
             NEW u \in Users \cup {None}, Send(c, kind, u), jar' = jar, home' \in {home, None}
      PROVE  Issued'
  <2>1. Told
    BY <1>2, <1>told, Sends
  <2> QED BY <1>2, <1>kept, <2>1, IssuedKept
<1>3. ASSUME NEW c \in Calls, Retry(c) PROVE Issued'
  <2>1. Send(c, "me", None) /\ jar' = jar /\ home' = home
    BY <1>3, Zenon DEF Retry
  <2> QED BY <1>2, <2>1
<1>4. ASSUME NEW c \in Calls, NEW u \in Users, Submit(c, u) PROVE Issued'
  <2>1. (\E kind \in {"login", "redeem"} : Send(c, kind, u)) /\ jar' = jar /\ home' = home
    BY <1>4, Zenon DEF Submit
  <2> QED BY <1>2, <2>1
<1>5. ASSUME NEW c \in Calls, SignOut(c) PROVE Issued'
  <2>1. Send(c, "logout", None) /\ jar' = jar /\ home' = None
    BY <1>5, Zenon DEF SignOut
  <2> QED BY <1>2, <2>1
<1>6. CASE FollowLink \/ Navigate \/ (\E k \in Tokens : Expire(k)) \/ UNCHANGED vars
  <2>1. call' = call /\ jar' = jar /\ home' = home
    BY <1>6, Zenon DEF FollowLink, Navigate, Expire, vars
  <2> QED BY <1>kept, <2>1, IssuedKept
<1>7. CASE Elsewhere
  <2>1. call' = call
    BY <1>7, Zenon DEF Elsewhere
  <2>2. \/ \E u \in Users, k \in Fresh :
               SetCookie(k) /\ sessions' = [sessions EXCEPT ![k] = u]
        \/ SetCookie(None)
    BY <1>7, Zenon DEF Elsewhere
  <2>3. ASSUME NEW u \in Users, NEW k \in Fresh, SetCookie(k), sessions' = [sessions EXCEPT ![k] = u]
        PROVE  Issued'
    <3>1. k \in Tokens /\ sessions'[k] # None
      BY <2>3 DEF Typed, Fresh
    <3> QED BY <2>1, <2>3, <3>1, CookieSet, IssuedKept
  <2> QED BY <2>1, <2>2, <2>3, CookieSet, IssuedKept
<1>8. ASSUME NEW c \in Calls, Serve(c) PROVE Issued'
  <2>1. jar' = jar /\ home' \in {home, None}
    BY <1>8, Serves DEF tab
  <2>2. call[c].page # "gone" /\ call'[c].answer.set \in Tokens =>
            sessions'[call'[c].answer.set] # None
    <3>1. \A k \in Fresh : k \in Tokens
      BY DEF Fresh
    <3>2. call[c].kind \in {"login", "redeem"} => call[c].who \in Users
      BY DEF Typed, Request
    <3>3. sessions \in [Tokens -> Users \cup {None, "ended"}]
      BY DEF Typed
    <3> QED BY <1>8, <3>1, <3>2, <3>3, Answered
  <2>3. Told
    BY <1>8, <1>idle, <2>2, ServeEffect DEF Only
  <2> QED BY <1>kept, <2>1, <2>3, IssuedKept
<1>9. ASSUME NEW c \in Calls, Arrive(c) PROVE Issued'
  <2>1. Told
    BY <1>9, <1>told, Arrives
  <2>2. PICK k \in Tokens \cup {None} :
              /\ SetCookie(k)
              /\ IF call[c].answer.set = "keep" THEN k = jar ELSE k = call[c].answer.set
    BY <1>9, ArriveEffect
  <2>3. k \in {jar, None} \/ (k \in Tokens /\ sessions[k] # None)
    BY <1>9, <2>2, Arrives DEF Issued
  <2> QED BY <2>1, <2>2, <2>3, CookieSet, IssuedKept
<1>10. ASSUME NEW c \in Calls, Abandoned(c) PROVE Issued'
  <2>1. Told
    BY <1>10, <1>told, <1>idle, AbandonedEffect
  <2>2. PICK k \in Tokens \cup {None} :
                 /\ SetCookie(k)
                 /\ k = jar \/ (call[c].at = "answered" /\ call[c].answer.set = k)
    BY <1>10, AbandonedEffect
  <2>3. k \in {jar, None} \/ (k \in Tokens /\ sessions[k] # None)
    BY <2>2 DEF Issued
  <2> QED BY <2>1, <2>2, <2>3, CookieSet, IssuedKept
<1>11. ASSUME NEW c \in Calls, Settle(c) \/ Fail(c) PROVE Issued'
  <2>1. jar' = jar /\ home' = home
    BY <1>11, Zenon DEF Settle, Fail
  <2>2. Told
    BY <1>11, <1>told, <1>idle, SettleEffect, FailEffect
  <2> QED BY <1>kept, <2>1, <2>2, IssuedKept
<1> QED BY <1>1, <1>3, <1>4, <1>5, <1>6, <1>7, <1>8, <1>9, <1>10, <1>11, Zenon DEF Next, Network, Quiet

-----------------------------------------------------------------------------
(* A page loaded with a live session does not lose it by mistake. *)

LEMMA StaysInit == Init => Stays
BY Zenon DEF Init, Stays

\* A cookie that serves nobody any more does not come back.
LEMMA HomeDies ==
    ASSUME Typed, Issued, [Next]_vars, home # None, Live(home) = None
    PROVE  Live(home)' = None \/ home' # home
<1>1. home \in Tokens /\ sessions[home] # None
  BY DEF Typed, Issued
<1>2. sessions'[home] = sessions[home] \/ sessions'[home] = "ended"
  BY <1>1, SessionChange
<1> QED BY <1>1, <1>2 DEF Live

LEMMA StaysKept ==
    ASSUME Typed, Issued, Stays, [Next]_vars, home' \in {home, None},
           home # None /\ status' = "anonymous" => status = "anonymous" \/ Live(home) = None,
           home # None => \A d \in Calls : Mine(d)' =>
               /\ Mine(d) /\ call'[d].kind = call[d].kind
               /\ call'[d].kind = "me" /\ call'[d].at = "sent" =>
                     call[d].at = "sent" /\ call'[d].cookie = call[d].cookie
               /\ call'[d].kind = "me" /\ call'[d].at # "sent"
                     /\ IsUnauthorized(call'[d].answer) =>
                     \/ Live(home) = None
                     \/ call[d].at # "sent" /\ IsUnauthorized(call[d].answer)
    PROVE  Stays'
<1>1. CASE home' = None
  BY <1>1 DEF Stays
<1>2. CASE home' = home /\ home # None
  <2>1. Live(home) = None => Live(home)' = None
    BY <1>2, HomeDies
  <2>2. status' = "anonymous" => Live(home)' = None
    BY <1>2, <2>1 DEF Stays
  <2>3. ASSUME NEW d \in Calls, Mine(d)'
        PROVE  /\ call'[d].kind # "logout"
               /\ call'[d].kind = "me" /\ call'[d].at = "sent" => call'[d].cookie = home'
               /\ call'[d].kind = "me" /\ call'[d].at # "sent"
                     /\ IsUnauthorized(call'[d].answer) => Live(home)' = None
    <3> QED BY <1>2, <2>1, <2>3 DEF Stays
  <2> QED BY <2>2, <2>3 DEF Stays, IsUnauthorized
<1> QED BY <1>1, <1>2

LEMMA PendingIsNothing == ~Ok(Pending) /\ ~IsUnauthorized(Pending)
BY DEF Pending, Answer, Ok, IsUnauthorized

LEMMA StaysStep == Typed /\ Issued /\ Stays /\ [Next]_vars => Stays'
<1> SUFFICES ASSUME Typed, Issued, Stays, [Next]_vars PROVE Stays'
  OBVIOUS
<1>1. ASSUME NEW c \in Calls, Load(c) PROVE Stays'
  <2>1. status' = "loading" /\ home' \in {jar, None}
    BY <1>1 DEF Load
  <2>2. \A d \in Calls : Mine(d)' => d = c
    BY <1>1, Loads DEF Mine, Idle
  <2>3. Mine(c)' => call'[c].kind = "me" /\ call'[c].at = "sent" /\ call'[c].cookie = jar
    BY <1>1, Loads, IdleNotMine
  <2> QED BY <2>1, <2>2, <2>3 DEF Stays
<1>2. ASSUME NEW c \in Calls, NEW kind \in {"me", "login", "redeem"}, NEW u \in Users \cup {None},
             Send(c, kind, u), UNCHANGED <<status, sessions, home>>
      PROVE  Stays'
  <2>1. Only(c) /\ call'[c].at = "sent" /\ call'[c].kind = kind /\ call'[c].cookie = jar
    BY <1>2, Sends
  <2>2. Live(home)' = Live(home)
    BY <1>2 DEF Live
  <2> QED BY <1>2, <2>1, <2>2 DEF Stays, Issued, Only, Mine, IsUnauthorized
<1>3. ASSUME NEW c \in Calls, Retry(c) PROVE Stays'
  <2>1. Send(c, "me", None) /\ UNCHANGED <<status, sessions, home>>
    BY <1>3, Zenon DEF Retry
  <2> QED BY <1>2, <2>1
<1>4. ASSUME NEW c \in Calls, NEW u \in Users, Submit(c, u) PROVE Stays'
  <2>1. (\E kind \in {"login", "redeem"} : Send(c, kind, u)) /\ UNCHANGED <<status, sessions, home>>
    BY <1>4, Zenon DEF Submit
  <2> QED BY <1>2, <2>1
<1>5. CASE \E c \in Calls : SignOut(c)
  BY <1>5, Zenon DEF SignOut, Stays
<1>6. CASE FollowLink \/ Navigate \/ Elsewhere \/ (\E k \in Tokens : Expire(k)) \/ UNCHANGED vars
  <2>1. call' = call /\ status' = status
    BY <1>6, Zenon DEF FollowLink, Navigate, Elsewhere, Expire, vars, tab
  <2>2. home' \in {home, None}
    <3>1. CASE Elsewhere
      BY <3>1 DEF Elsewhere, SetCookie
    <3>2. CASE ~Elsewhere
      <4>1. home' = home
        BY <1>6, <3>2, Zenon DEF FollowLink, Navigate, Expire, vars
      <4> QED BY <4>1
    <3> QED BY <3>1, <3>2
  <2> QED BY <2>1, <2>2, StaysKept DEF Mine
<1>7. ASSUME NEW c \in Calls, Serve(c) PROVE Stays'
  <2>1. status' = status /\ home' \in {home, None}
    BY <1>7, Serves DEF tab
  <2>2. Only(c) /\ call[c].at = "sent"
    BY <1>7, ServeEffect, Serves
  <2>3. Mine(c)' => /\ Mine(c) /\ call'[c].kind = call[c].kind /\ call'[c].at # "sent"
                    /\ call[c].page # "gone"
    BY <1>7, ServeEffect DEF Mine, Idle
  <2>4. home' # None /\ Mine(c)' /\ call'[c].kind = "me" /\ IsUnauthorized(call'[c].answer) =>
            Live(home) = None
    <3>1. home # None /\ Mine(c) /\ call[c].kind = "me" => call[c].cookie = home
      BY <2>2 DEF Stays
    <3>2. home' # None /\ call[c].kind = "me" /\ call[c].page # "gone"
            /\ IsUnauthorized(call'[c].answer) => Live(call[c].cookie) = None
      BY <1>7, Answered
    <3> QED BY <2>1, <2>3, <3>1, <3>2
  <2>5. CASE home' = None
    BY <2>5 DEF Stays
  <2>6. CASE home' # None
    BY <2>1, <2>2, <2>3, <2>4, <2>6, StaysKept DEF Only, Mine
  <2> QED BY <2>5, <2>6
<1>8. ASSUME NEW c \in Calls, Arrive(c) PROVE Stays'
  <2>1. status' = status
    BY <1>8, Zenon DEF Arrive, tab
  <2>2. home' \in {home, None}
    BY <1>8, ArriveEffect DEF SetCookie
  <2> QED BY <1>8, <2>1, <2>2, Arrives, StaysKept DEF Only, Mine, IsUnauthorized
<1>9. ASSUME NEW c \in Calls, Abandoned(c) PROVE Stays'
  <2>1. status' = status /\ Only(c) /\ call'[c] = Idle
    BY <1>9, AbandonedEffect DEF tab
  <2>2. home' \in {home, None}
    BY <1>9, AbandonedEffect DEF SetCookie
  <2> QED BY <2>1, <2>2, StaysKept DEF Only, Mine, Idle
<1>10. ASSUME NEW c \in Calls, NEW a, Handle(c, a), Mine(c), Only(c), ~Mine(c)', home' = home,
              call[c].kind = "me" /\ IsUnauthorized(a) =>
                  call[c].at # "sent" /\ IsUnauthorized(call[c].answer)
       PROVE  Stays'
  <2>1. home # None => call[c].kind # "logout"
    BY <1>10 DEF Stays
  <2>2. home # None /\ call[c].kind = "me" /\ IsUnauthorized(a) => Live(home) = None
    BY <1>10 DEF Stays
  <2>3. home # None /\ status' = "anonymous" => status = "anonymous" \/ Live(home) = None
    BY <1>10, <2>1, <2>2, Handles DEF SetUser
  <2> QED BY <1>10, <2>3, StaysKept DEF Only, Mine
<1>11. ASSUME NEW c \in Calls, Settle(c) PROVE Stays'
  <2>1. Handle(c, call[c].answer) /\ home' = home /\ call[c].at = "headers" /\ Mine(c)
    BY <1>11, Zenon DEF Settle
  <2>2. Only(c) /\ ~Mine(c)'
    BY <1>11, SettleEffect DEF Mine, Idle
  <2> QED BY <1>10, <2>1, <2>2
<1>12. ASSUME NEW c \in Calls, Fail(c) PROVE Stays'
  <2>1. Handle(c, Pending) /\ home' = home
    BY <1>12, Zenon DEF Fail
  <2>2. Only(c) /\ Mine(c) /\ (call'[c] = Idle \/ call'[c].page = "gone")
    BY <1>12, FailEffect
  <2>3. ~Mine(c)'
    BY <2>2 DEF Mine, Idle
  <2> QED BY <1>10, <2>1, <2>2, <2>3, PendingIsNothing
<1> QED BY <1>1, <1>3, <1>4, <1>5, <1>6, <1>7, <1>8, <1>9, <1>11, <1>12, Zenon DEF Next, Network, Quiet

\* A page loaded with a live session does not send its user to the sign-in form
\* while that session lives, whatever answers are lost (refresh).
THEOREM SignedInStaysInAlways == Spec => []SignedInStaysIn
<1>1. Stays => SignedInStaysIn
  BY DEF Stays, SignedInStaysIn
<1> QED BY <1>1, TypedInit, TypedStep, IssuedInit, IssuedStep, StaysInit, StaysStep, PTL DEF Spec

-----------------------------------------------------------------------------
(* As long as nothing crossed, one call runs at a time. *)

LEMMA SingleInit == Init => Single
<1> SUFFICES ASSUME Init PROVE Single
  OBVIOUS
<1>1. call = [c \in Calls |-> Idle]
  BY Zenon DEF Init
<1> QED BY <1>1 DEF Single, InFlight, Idle

LEMMA SingleKept ==
    ASSUME Single, aside' # "crossed" => aside # "crossed",
           \A d \in Calls : call'[d].at # "idle" =>
               call[d].at # "idle" /\ (call'[d].page = "left" => call[d].page = "left")
    PROVE  Single'
BY DEF Single, InFlight

LEMMA SingleStep == Typed /\ Single /\ [Next]_vars => Single'
<1> SUFFICES ASSUME Typed, Single, [Next]_vars PROVE Single'
  OBVIOUS
<1>1. ASSUME NEW c \in Calls, Load(c) PROVE Single'
  <2>1. aside' # "crossed" => InFlight = {}
    BY <1>1 DEF Load
  <2>2. InFlight = {} => \A d \in Calls : call[d].at = "idle" /\ call[d] = Idle
    BY DEF InFlight, Typed, Request
  <2>3. InFlight = {} => \A d \in Calls : call'[d].at # "idle" => d = c
    BY <1>1, <2>2, Loads DEF Idle
  <2>4. call'[c].at # "idle" => call'[c].page = "open"
    <3>1. Idle.at = "idle"
      BY DEF Idle
    <3> QED BY <1>1, <3>1, Loads
  <2> QED BY <2>1, <2>3, <2>4 DEF Single, InFlight
<1>2. ASSUME NEW c \in Calls, NEW kind \in {"me", "login", "redeem", "logout"},
             NEW u \in Users \cup {None}, Send(c, kind, u), NoteOverlap
      PROVE  Single'
  <2>1. aside' # "crossed" => InFlight = {}
    BY <1>2 DEF NoteOverlap, Crossed
  <2>2. InFlight = {} => \A d \in Calls : call[d].at = "idle"
    BY DEF InFlight
  <2>3. Only(c) /\ call'[c].page = "open"
    BY <1>2, Sends
  <2> QED BY <2>1, <2>2, <2>3 DEF Single, InFlight, Only
<1>3. ASSUME NEW c \in Calls, Retry(c) PROVE Single'
  <2>1. Send(c, "me", None) /\ NoteOverlap
    BY <1>3, Zenon DEF Retry
  <2> QED BY <1>2, <2>1
<1>4. ASSUME NEW c \in Calls, NEW u \in Users, Submit(c, u) PROVE Single'
  <2>1. (\E kind \in {"login", "redeem"} : Send(c, kind, u)) /\ NoteOverlap
    BY <1>4, Zenon DEF Submit
  <2> QED BY <1>2, <2>1
<1>5. ASSUME NEW c \in Calls, SignOut(c) PROVE Single'
  <2>1. Send(c, "logout", None) /\ NoteOverlap
    BY <1>5, Zenon DEF SignOut
  <2> QED BY <1>2, <2>1
<1>6. CASE FollowLink \/ Navigate \/ Elsewhere \/ (\E k \in Tokens : Expire(k)) \/ UNCHANGED vars
  <2>1. call' = call
    BY <1>6, Zenon DEF FollowLink, Navigate, Elsewhere, Expire, vars
  <2>2. aside' = aside \/ Crossed \/ Missed
    BY <1>6, Zenon DEF FollowLink, Navigate, Elsewhere, Expire, vars
  <2> QED BY <2>1, <2>2, SingleKept DEF Crossed, Missed
<1>7. ASSUME NEW c \in Calls, Serve(c) PROVE Single'
  <2>1. aside' = aside \/ aside' = "crossed" \/ Missed
    BY <1>7, Answered
  <2> QED BY <1>7, <2>1, Serves, ServeEffect, SingleKept DEF Missed, Only, Idle
<1>8. ASSUME NEW c \in Calls, Arrive(c) PROVE Single'
  <2>1. aside' = aside
    BY <1>8, Zenon DEF Arrive
  <2> QED BY <1>8, <2>1, Arrives, SingleKept DEF Only
<1>9. ASSUME NEW c \in Calls, Abandoned(c) \/ Settle(c) \/ Fail(c) PROVE Single'
  <2>1. aside' = aside \/ Missed
    BY <1>9, Zenon DEF Abandoned, Settle, Fail
  <2>2. /\ Only(c)
        /\ call'[c].at # "idle" => call[c].at # "idle" /\ call'[c].page # "left"
    BY <1>9, AbandonedEffect, SettleEffect, FailEffect DEF Idle
  <2> QED BY <2>1, <2>2, SingleKept DEF Missed, Only
<1> QED BY <1>1, <1>3, <1>4, <1>5, <1>6, <1>7, <1>8, <1>9, Zenon DEF Next, Network, Quiet

-----------------------------------------------------------------------------
(* As long as nothing crossed, the tab does not show one user while its requests *)
(* are served as another.                                                        *)

LEMMA AgreesInit == Init => Agrees
<1> SUFFICES ASSUME Init PROVE Agrees
  OBVIOUS
<1>1. call = [c \in Calls |-> Idle] /\ user = None
  BY Zenon DEF Init
<1> QED BY <1>1 DEF Agrees, Mine, Idle

\* The session of a cookie that stays is not another's later on.
LEMMA JarShrinks ==
    ASSUME Typed, Issued, [Next]_vars, jar' = jar
    PROVE  Live(jar)' \in {Live(jar), None}
<1>1. CASE jar = None
  BY <1>1 DEF Live
<1>2. CASE jar # None
  <2>1. jar \in Tokens /\ sessions[jar] # None
    BY <1>2 DEF Typed, Issued
  <2>2. sessions'[jar] = sessions[jar] \/ sessions'[jar] = "ended"
    BY <2>1, SessionChange
  <2> QED BY <2>1, <2>2 DEF Live
<1> QED BY <1>1, <1>2

\* A step after which the requests of the page are as before.
LEMMA AgreesKept ==
    ASSUME Typed, Issued, Agrees, [Next]_vars, aside # "crossed",
           jar' = jar, user' \in {user, None},
           \A d \in Calls : Mine(d)' => call'[d] = call[d]
    PROVE  Agrees'
<1>1. Live(jar)' \in {Live(jar), None}
  BY JarShrinks
<1>2. user' # None => Live(jar)' \in {user', None}
  BY <1>1 DEF Agrees
<1>3. ASSUME NEW d \in Calls, Mine(d)' PROVE Matches(d)'
  <2>1. Mine(d) /\ call'[d] = call[d] /\ Matches(d)
    BY <1>3 DEF Mine, Agrees
  <2>2. call[d].at = "answered" /\ call[d].answer.set \in Tokens =>
            \/ Live(call[d].answer.set)' = Live(call[d].answer.set)
            \/ Live(call[d].answer.set)' = None
    <3>1. CASE call[d].at = "answered" /\ call[d].answer.set \in Tokens
      <4> DEFINE k == call[d].answer.set
      <4>1. k \in Tokens /\ sessions[k] # None
        BY <3>1 DEF Issued
      <4>2. sessions'[k] = sessions[k] \/ sessions'[k] = "ended"
        BY <4>1, SessionChange
      <4>3. call'[d].answer.set = k
        BY <2>1
      <4> QED BY <4>1, <4>2, <4>3 DEF Live
    <3> QED BY <3>1
  <2>3. Ok(call[d].answer)' = Ok(call[d].answer)
    BY <2>1 DEF Ok
  <2> QED BY <1>1, <2>1, <2>2, <2>3 DEF Matches, Ok
<1> QED BY <1>2, <1>3 DEF Agrees

\* As long as nothing crossed, a call in flight is the only one.
LEMMA OnlyOne ==
    ASSUME Typed, Single, NEW c \in InFlight, Only(c), aside # "crossed"
    PROVE  /\ \A d \in Calls : d # c => call[d].at = "idle" /\ ~Mine(d)
           /\ \A d \in Calls : d # c => call'[d].at = "idle" /\ ~Mine(d)'
           /\ call[c].page \in {"open", "gone"}
<1>1. \A d \in Calls : d # c => call[d].at = "idle" /\ call[d] = Idle
  BY DEF Single, InFlight, Typed, Request
<1>2. call[c].page \in {"open", "gone"}
  BY DEF Single, InFlight, Typed, Request, Requests
<1> QED BY <1>1, <1>2 DEF Only, Mine, Idle

LEMMA AgreesSend ==
    ASSUME Typed, Issued, Agrees, [Next]_vars, NEW c \in Calls,
           NEW kind \in {"me", "login", "redeem", "logout"}, NEW u \in Users \cup {None},
           Send(c, kind, u), NoteOverlap, aside' # "crossed",
           UNCHANGED <<user, jar, sessions>>, kind \in {"login", "redeem"} => user = None
    PROVE  Agrees'
<1>1. InFlight = {} /\ aside' = aside
  BY DEF NoteOverlap, Crossed
<1>2. /\ Only(c) /\ call'[c].at = "sent" /\ call'[c].kind = kind /\ call'[c].cookie = jar
  BY Sends
<1>3. \A d \in Calls : Mine(d)' => d = c
  BY <1>1, <1>2, IdleNotMine DEF Only, Mine
<1>4. Matches(c)'
  BY <1>2 DEF Matches
<1>5. Live(jar)' = Live(jar)
  BY DEF Live
<1> QED BY <1>1, <1>3, <1>4, <1>5 DEF Agrees

LEMMA AgreesServe ==
    ASSUME Typed, Issued, Single, Agrees, [Next]_vars, NEW c \in Calls, Serve(c),
           aside' # "crossed"
    PROVE  Agrees'
<1>1. aside # "crossed" /\ user' = user /\ jar' = jar /\ call[c].at = "sent"
  BY Answered, Serves DEF tab, Missed
<1>2. /\ Only(c)
      /\ \/ call[c].page = "gone" /\ call'[c] = Idle
         \/ /\ call[c].page # "gone" /\ call'[c].at = "answered"
            /\ call'[c].kind = call[c].kind /\ call'[c].page = call[c].page
            /\ call'[c].who = call[c].who
  BY ServeEffect
<1>3. c \in InFlight
  BY <1>1 DEF InFlight
<1>4. \A d \in Calls : Mine(d)' => d = c /\ Mine(c) /\ call[c].page # "gone"
  BY <1>1, <1>2, <1>3, OnlyOne DEF Mine, Idle
<1>5. user' # None => Live(jar)' \in {user', None}
  BY <1>1, JarShrinks DEF Agrees
<1>6. ASSUME Mine(c), call[c].page # "gone" PROVE Matches(c)'
  <2> DEFINE a == call'[c].answer
  <2>1. Matches(c)
    BY <1>1, <1>6 DEF Agrees
  <2>2. CASE call[c].kind = "me" /\ sessions' = sessions
             /\ (Ok(a) => a.who = Live(call[c].cookie))
    <3>1. call[c].cookie = jar /\ Live(jar)' = Live(jar)
      BY <1>1, <2>1, <2>2 DEF Matches, Live
    <3> QED BY <1>2, <1>6, <2>2, <3>1 DEF Matches, Ok
  <2>3. ASSUME call[c].kind \in {"login", "redeem"}, NEW k \in Fresh,
               sessions' = [sessions EXCEPT ![k] = call[c].who], Ok(a), a.set = k
        PROVE  Matches(c)'
    <3>1. k \in Tokens /\ sessions'[k] = call[c].who /\ user' = None
      BY <1>1, <2>1, <2>3 DEF Fresh, Matches, Typed
    <3>2. Live(call[c].answer.set)' \in {call[c].who, None}
      BY <2>3, <3>1 DEF Live
    <3> QED BY <1>2, <1>6, <2>3, <3>1, <3>2 DEF Matches, Ok
  <2>4. CASE call[c].kind \in {"login", "redeem"} /\ ~Ok(a) /\ a.set = "keep"
    BY <1>1, <1>2, <1>6, <2>1, <2>4 DEF Matches, Ok
  <2>5. CASE call[c].kind = "logout" /\ a.set = None
    BY <1>2, <1>6, <2>5 DEF Matches
  <2> QED BY <1>6, <2>2, <2>3, <2>4, <2>5, Answered
<1> QED BY <1>4, <1>5, <1>6 DEF Agrees

LEMMA AgreesArrive ==
    ASSUME Typed, Single, Agrees, NEW c \in Calls, Arrive(c), aside' # "crossed"
    PROVE  Agrees'
<1>1. UNCHANGED <<user, sessions, aside>>
  BY Zenon DEF Arrive, tab
<1>2. /\ call[c].at = "answered" /\ Mine(c) /\ Only(c)
      /\ call'[c].at = "headers" /\ call'[c].kind = call[c].kind
      /\ call'[c].who = call[c].who
      /\ call'[c].answer.code = call[c].answer.code
      /\ call'[c].answer.who = call[c].answer.who
  BY Arrives
<1>3. PICK k \in Tokens \cup {None} :
              /\ SetCookie(k)
              /\ IF call[c].answer.set = "keep" THEN k = jar ELSE k = call[c].answer.set
  BY ArriveEffect
<1>4. jar' = k
  BY <1>3 DEF SetCookie
<1>5. c \in InFlight /\ Matches(c)
  BY <1>1, <1>2 DEF InFlight, Agrees
<1>6. \A d \in Calls : Mine(d)' => d = c
  BY <1>1, <1>2, <1>5, OnlyOne
<1>7. Ok(call'[c].answer) = Ok(call[c].answer)
  BY <1>2 DEF Ok
<1>8. \A t : Live(t)' = Live(t)
  BY <1>1 DEF Live
<1>9. CASE call[c].kind = "me"
  <2>1. jar' = jar
    BY <1>2, <1>3, <1>4, <1>9 DEF Typed, Request
  <2>2. Live(jar)' = Live(jar)
    BY <1>1, <2>1 DEF Live
  <2>3. Matches(c)'
    BY <1>2, <1>5, <1>7, <1>9, <2>2 DEF Matches, Ok
  <2> QED BY <1>1, <1>6, <2>2, <2>3 DEF Agrees
<1>10. CASE call[c].kind \in {"login", "redeem"}
  <2>1. user' = None
    BY <1>1, <1>5, <1>10 DEF Matches
  <2>2. Ok(call[c].answer) => Live(jar)' \in {call[c].who, None}
    <3>1. Ok(call[c].answer) => /\ call[c].answer.set \in Tokens
                                /\ Live(call[c].answer.set) \in {call[c].who, None}
      BY <1>2, <1>5, <1>10 DEF Matches
    <3>2. Ok(call[c].answer) => jar' = call[c].answer.set
      BY <1>3, <1>4, <3>1
    <3> QED BY <1>1, <3>1, <3>2 DEF Live
  <2>3. Matches(c)'
    BY <1>2, <1>7, <1>10, <2>1, <2>2 DEF Matches, Ok
  <2> QED BY <1>6, <2>1, <2>3 DEF Agrees
<1>11. CASE call[c].kind = "logout"
  <2>1. jar' = None
    BY <1>2, <1>3, <1>4, <1>5, <1>11 DEF Matches
  <2>2. Live(jar)' = None
    BY <2>1 DEF Live
  <2>3. Matches(c)'
    BY <1>2, <1>11 DEF Matches
  <2> QED BY <1>6, <2>2, <2>3 DEF Agrees
<1>12. call[c].kind \in {"me", "login", "redeem", "logout"}
  BY <1>2 DEF Typed, Request, Requests
<1> QED BY <1>9, <1>10, <1>11, <1>12

LEMMA AgreesHandle ==
    ASSUME Typed, Issued, Single, Agrees, NEW c \in Calls, NEW a, Mine(c), Only(c), ~Mine(c)',
           Handle(c, a), UNCHANGED <<jar, sessions>>, aside # "crossed",
           Ok(a) => call[c].at = "headers" /\ a = call[c].answer
    PROVE  Agrees'
<1>1. c \in InFlight /\ Matches(c)
  BY IdleNotMine DEF Agrees
<1>2. \A d \in Calls : ~Mine(d)'
  BY <1>1, OnlyOne
<1>3. Live(jar)' = Live(jar)
  BY DEF Live
<1>4. user' # None => user' = user \/ Live(jar) \in {user', None}
  BY <1>1, Handles DEF Matches, SetUser, SetAnonymous
<1> QED BY <1>2, <1>3, <1>4 DEF Agrees

LEMMA AgreesStep ==
    Typed /\ Alone /\ Issued /\ Single /\ Agrees /\ [Next]_vars => Agrees'
<1> SUFFICES ASSUME Typed, Alone, Issued, Single, Agrees, [Next]_vars, aside' # "crossed"
             PROVE  Agrees'
  BY DEF Agrees
<1>1. ASSUME NEW c \in Calls, Load(c) PROVE Agrees'
  <2>1. user' = None /\ jar' = jar
    BY <1>1, Zenon DEF Load
  <2>2. \A d \in Calls : Mine(d)' => d = c
    BY <1>1, Loads DEF Mine, Idle
  <2>3. Mine(c)' => Matches(c)'
    <3>1. Mine(c)' => call'[c].at = "sent" /\ call'[c].kind = "me" /\ call'[c].cookie = jar
      BY <1>1, Loads, IdleNotMine
    <3> QED BY <2>1, <3>1 DEF Matches
  <2> QED BY <2>1, <2>2, <2>3 DEF Agrees
<1>2. ASSUME NEW c \in Calls, Retry(c) PROVE Agrees'
  <2>1. Send(c, "me", None) /\ NoteOverlap /\ UNCHANGED <<user, jar, sessions>>
    BY <1>2, Zenon DEF Retry
  <2> QED BY <2>1, AgreesSend
<1>3. ASSUME NEW c \in Calls, NEW u \in Users, Submit(c, u) PROVE Agrees'
  <2>1. /\ \E kind \in {"login", "redeem"} : Send(c, kind, u)
        /\ NoteOverlap /\ UNCHANGED <<user, jar, sessions>>
    BY <1>3, Zenon DEF Submit
  <2>2. status # "authenticated"
    BY <1>3, Screens, Zenon DEF Submit
  <2>3. user = None
    BY <2>2 DEF Typed
  <2> QED BY <2>1, <2>3, AgreesSend
<1>4. ASSUME NEW c \in Calls, SignOut(c) PROVE Agrees'
  <2>1. Send(c, "logout", None) /\ NoteOverlap /\ UNCHANGED <<user, jar, sessions>>
    BY <1>4, Zenon DEF SignOut, tab
  <2> QED BY <2>1, AgreesSend
<1>5. CASE FollowLink \/ Navigate \/ (\E k \in Tokens : Expire(k)) \/ UNCHANGED vars
  <2>1. call' = call /\ jar' = jar /\ user' = user /\ (aside' = aside \/ Missed)
    BY <1>5, Zenon DEF FollowLink, Navigate, Expire, vars, tab
  <2>2. aside # "crossed"
    BY <2>1 DEF Missed
  <2> QED BY <2>1, <2>2, AgreesKept
<1>6. CASE Elsewhere
  BY <1>6, Zenon DEF Elsewhere, Crossed
<1>7. ASSUME NEW c \in Calls, Serve(c) PROVE Agrees'
  BY <1>7, AgreesServe
<1>8. ASSUME NEW c \in Calls, Arrive(c) PROVE Agrees'
  BY <1>8, AgreesArrive
<1>9. ASSUME NEW c \in Calls, Abandoned(c) PROVE Agrees'
  <2>1. /\ Only(c) /\ call'[c] = Idle /\ c \in InFlight /\ ~Mine(c)
        /\ UNCHANGED <<tab, sessions, loads, aside>>
    BY <1>9, AbandonedEffect
  <2>2. call[c].page = "gone"
    BY <2>1, OnlyOne DEF Mine
  <2>3. call[c].at = "sent"
    BY <2>2 DEF Typed, Request
  <2>4. jar' = jar
    BY <1>9, <2>3, AbandonedEffect DEF SetCookie
  <2>5. \A d \in Calls : ~Mine(d)'
    <3>1. ~Mine(c)'
      BY <2>1, IdleNotMine
    <3> QED BY <2>1, <3>1, OnlyOne DEF Mine, Only
  <2> QED BY <2>1, <2>4, <2>5, AgreesKept DEF tab
<1>10. ASSUME NEW c \in Calls, Settle(c) PROVE Agrees'
  <2>1. /\ Handle(c, call[c].answer) /\ UNCHANGED <<jar, sessions, aside>>
    BY <1>10, Zenon DEF Settle
  <2>2. Only(c) /\ Mine(c) /\ call[c].at = "headers" /\ call'[c] = Idle
    BY <1>10, SettleEffect
  <2>3. ~Mine(c)'
    BY <2>2 DEF Mine, Idle
  <2> QED BY <2>1, <2>2, <2>3, AgreesHandle
<1>11. ASSUME NEW c \in Calls, Fail(c) PROVE Agrees'
  <2>1. Handle(c, Pending) /\ UNCHANGED <<jar, sessions>> /\ Missed
    BY <1>11, Zenon DEF Fail
  <2>2. Only(c) /\ Mine(c) /\ (call'[c] = Idle \/ call'[c].page = "gone")
    BY <1>11, FailEffect
  <2>3. ~Mine(c)' /\ aside # "crossed"
    BY <2>1, <2>2 DEF Mine, Idle, Missed
  <2> QED BY <2>1, <2>2, <2>3, PendingIsNothing, AgreesHandle
<1> QED BY <1>1, <1>2, <1>3, <1>4, <1>5, <1>6, <1>7, <1>8, <1>9, <1>10, <1>11, Zenon
        DEF Next, Network, Quiet

\* Once its calls are settled, a tab does not show one user while its requests are
\* served as another, even after lost calls and expired sessions, as long as its
\* calls did not overlap, no other tab changed the cookie and no redemption went
\* without its automatic login (the auth store and the cookie).
THEOREM NoMixupAlways == Spec => []NoMixup
<1>1. Agrees => NoMixup
  BY DEF Agrees, NoMixup
<1> QED BY <1>1, TypedInit, TypedStep, AloneInit, AloneStep, IssuedInit, IssuedStep,
           SingleInit, SingleStep, AgreesInit, AgreesStep, PTL DEF Spec

-----------------------------------------------------------------------------
(* As long as nothing happened aside, the tab shows exactly whom the server serves. *)

LEMMA ExactInit == Init => Exact
<1> SUFFICES ASSUME Init PROVE Exact
  OBVIOUS
<1>1. call = [c \in Calls |-> Idle] /\ status = "loading"
  BY Zenon DEF Init
<1> QED BY <1>1 DEF Exact, InFlight, Mine, Idle

LEMMA ExactSend ==
    ASSUME Typed, Exact, NEW c \in Calls,
           NEW kind \in {"me", "login", "redeem", "logout"}, NEW u \in Users \cup {None},
           Send(c, kind, u), NoteOverlap, UNCHANGED <<status, user, jar, sessions>>,
           kind \in {"login", "redeem"} => user = None /\ status # "loading"
    PROVE  Exact'
<1> SUFFICES ASSUME aside' = "nothing" PROVE Exact'
  BY DEF Exact
<1>1. InFlight = {} /\ aside = "nothing"
  BY DEF NoteOverlap, Crossed
<1>2. /\ Only(c) /\ call'[c].at = "sent" /\ call'[c].kind = kind /\ call'[c].cookie = jar
      /\ call'[c].page = "open"
  BY Sends
<1>3. \A d \in Calls : call'[d].at # "idle" \/ Mine(d)' => d = c
  BY <1>1, <1>2, IdleNotMine DEF Only, Mine, InFlight
<1>4. kind \in {"login", "redeem"} => Live(jar)' = None
  BY <1>1 DEF Exact, Live
<1>5. Tells(c)'
  BY <1>2, <1>4 DEF Tells
<1>6. Mine(c)' /\ call'[c].at # "idle"
  BY <1>2 DEF Mine
<1> QED BY <1>3, <1>5, <1>6 DEF Exact, InFlight

LEMMA ExactServe ==
    ASSUME Typed, Issued, Single, Agrees, Exact, [Next]_vars, NEW c \in Calls, Serve(c)
    PROVE  Exact'
<1> SUFFICES ASSUME aside' = "nothing" PROVE Exact'
  BY DEF Exact
<1>1. aside = "nothing" /\ jar' = jar /\ call[c].at = "sent"
  BY Answered, Serves DEF Missed
<1>2. c \in InFlight /\ Mine(c) /\ Matches(c) /\ Tells(c)
  BY <1>1 DEF InFlight, Exact, Agrees
<1>3. /\ Only(c) /\ call[c].page # "gone" /\ call'[c].at = "answered"
      /\ call'[c].kind = call[c].kind /\ call'[c].page = call[c].page
      /\ call'[c].who = call[c].who
  BY <1>2, ServeEffect DEF Mine
<1>4. \A d \in Calls : call'[d].at # "idle" \/ Mine(d)' => d = c
  BY <1>1, <1>2, <1>3, OnlyOne
<1>5. Mine(c)' /\ call'[c].at # "idle"
  BY <1>2, <1>3 DEF Mine
<1>6. Live(jar)' \in {Live(jar), None}
  BY <1>1, JarShrinks
<1>7. Tells(c)'
  <2> DEFINE a == call'[c].answer
  <2>1. CASE call[c].kind = "me" /\ sessions' = sessions
             /\ (Ok(a) => a.who = Live(call[c].cookie))
             /\ (IsUnauthorized(a) => Live(call[c].cookie) = None)
    <3>1. call[c].cookie = jar /\ Live(jar)' = Live(jar)
      BY <1>1, <1>2, <2>1 DEF Matches, Live
    <3> QED BY <1>3, <2>1, <3>1 DEF Tells, Ok, IsUnauthorized
  <2>2. ASSUME call[c].kind \in {"login", "redeem"}, NEW k \in Fresh,
               sessions' = [sessions EXCEPT ![k] = call[c].who], Ok(a), a.set = k
        PROVE  Tells(c)'
    <3>1. k \in Tokens /\ sessions'[k] = call[c].who /\ call[c].who \in Users
      BY <2>2 DEF Fresh, Typed, Request
    <3>2. Live(call[c].answer.set)' = call[c].who
      BY <2>2, <3>1 DEF Live
    <3>3. Live(jar)' = None
      BY <1>1, <1>2, <1>6, <2>2 DEF Tells
    <3> QED BY <1>3, <2>2, <3>2, <3>3 DEF Tells
  <2>3. CASE call[c].kind \in {"login", "redeem"} /\ ~Ok(a)
    <3>1. Live(jar)' = None
      BY <1>1, <1>2, <1>6, <2>3 DEF Tells
    <3> QED BY <1>3, <2>3, <3>1 DEF Tells, Ok
  <2>4. CASE call[c].kind = "logout" /\ EndSession(call[c].cookie)
    <3>1. call[c].cookie = jar
      BY <1>1, <1>2, <2>4 DEF Tells
    <3>2. Live(jar)' = None
      BY <1>1, <2>4, <3>1 DEF EndSession, Live, Typed
    <3> QED BY <1>3, <2>4, <3>2 DEF Tells
  <2>6. Missed => aside' # "nothing"
    BY DEF Missed
  <2> QED BY <1>1, <1>3, <2>1, <2>2, <2>3, <2>4, <2>6, Answered
<1> QED BY <1>4, <1>5, <1>7 DEF Exact, InFlight

LEMMA ExactArrive ==
    ASSUME Typed, Single, Agrees, Exact, NEW c \in Calls, Arrive(c)
    PROVE  Exact'
<1> SUFFICES ASSUME aside' = "nothing" PROVE Exact'
  BY DEF Exact
<1>1. UNCHANGED <<sessions, aside>>
  BY Zenon DEF Arrive
<1>2. /\ call[c].at = "answered" /\ Mine(c) /\ Only(c)
      /\ call'[c].at = "headers" /\ call'[c].kind = call[c].kind
      /\ call'[c].who = call[c].who /\ call'[c].page = call[c].page
      /\ call'[c].answer.code = call[c].answer.code
      /\ call'[c].answer.who = call[c].answer.who
  BY Arrives
<1>3. PICK k \in Tokens \cup {None} :
              /\ SetCookie(k)
              /\ IF call[c].answer.set = "keep" THEN k = jar ELSE k = call[c].answer.set
  BY ArriveEffect
<1>4. jar' = k
  BY <1>3 DEF SetCookie
<1>5. c \in InFlight /\ Matches(c) /\ Tells(c)
  BY <1>1, <1>2 DEF InFlight, Agrees, Exact
<1>6. \A d \in Calls : call'[d].at # "idle" \/ Mine(d)' => d = c
  BY <1>1, <1>2, <1>5, OnlyOne
<1>7. Mine(c)' /\ call'[c].at # "idle"
  BY <1>2 DEF Mine
<1>8. /\ Ok(call'[c].answer) = Ok(call[c].answer)
      /\ IsUnauthorized(call'[c].answer) = IsUnauthorized(call[c].answer)
  BY <1>2 DEF Ok, IsUnauthorized
<1>9. CASE call[c].kind = "me"
  <2>1. jar' = jar
    BY <1>2, <1>3, <1>4, <1>9 DEF Typed, Request
  <2>2. Live(jar)' = Live(jar)
    BY <1>1, <2>1 DEF Live
  <2> QED BY <1>2, <1>5, <1>6, <1>7, <1>8, <1>9, <2>2
          DEF Tells, Exact, InFlight, Ok, IsUnauthorized
<1>10. CASE call[c].kind \in {"login", "redeem"}
  <2>1. CASE Ok(call[c].answer)
    <3>1. /\ call[c].answer.set \in Tokens
          /\ Live(call[c].answer.set) = call[c].who
      BY <1>2, <1>5, <1>10, <2>1 DEF Matches, Tells
    <3>2. jar' = call[c].answer.set
      BY <1>3, <1>4, <3>1
    <3>3. Live(jar)' = call[c].who
      BY <1>1, <3>1, <3>2 DEF Live
    <3>4. Tells(c)'
      BY <1>2, <1>8, <1>10, <2>1, <3>3 DEF Tells, Ok
    <3> QED BY <1>6, <1>7, <3>4 DEF Exact, InFlight
  <2>2. CASE ~Ok(call[c].answer)
    <3>1. jar' = jar /\ Live(jar) = None
      BY <1>2, <1>3, <1>4, <1>5, <1>10, <2>2 DEF Matches, Tells
    <3>2. Live(jar)' = None
      BY <1>1, <3>1 DEF Live
    <3>3. Tells(c)'
      BY <1>2, <1>8, <1>10, <2>2, <3>2 DEF Tells, Ok
    <3> QED BY <1>6, <1>7, <3>3 DEF Exact, InFlight
  <2> QED BY <2>1, <2>2
<1>11. CASE call[c].kind = "logout"
  <2>1. jar' = None
    BY <1>2, <1>3, <1>4, <1>5, <1>11 DEF Matches
  <2>2. Live(jar)' = None
    BY <2>1 DEF Live
  <2>3. Tells(c)'
    BY <1>2, <1>11, <2>2 DEF Tells
  <2> QED BY <1>6, <1>7, <2>3 DEF Exact, InFlight
<1>12. call[c].kind \in {"me", "login", "redeem", "logout"}
  BY <1>2 DEF Typed, Request, Requests
<1> QED BY <1>9, <1>10, <1>11, <1>12

LEMMA ExactSettle ==
    ASSUME Typed, Alone, Single, Agrees, Exact, NEW c \in Calls, Settle(c)
    PROVE  Exact'
<1> SUFFICES ASSUME aside' = "nothing" PROVE Exact'
  BY DEF Exact
<1>1. Handle(c, call[c].answer) /\ UNCHANGED <<jar, sessions, aside>>
  BY Zenon DEF Settle
<1>2. Only(c) /\ Mine(c) /\ call[c].at = "headers" /\ call'[c] = Idle
  BY SettleEffect
<1>3. c \in InFlight /\ Matches(c) /\ Tells(c)
  BY <1>1, <1>2 DEF InFlight, Agrees, Exact
<1>4. \A d \in Calls : call'[d].at = "idle" /\ ~Mine(d)'
  BY <1>1, <1>2, <1>3, OnlyOne DEF Mine, Idle
<1>5. Live(jar)' = Live(jar)
  BY <1>1 DEF Live
<1>6. status' # "loading" => user' = Live(jar)
  <2> DEFINE a == call[c].answer
  <2>1. CASE call[c].kind = "me"
    <3>1. status = "loading"
      BY <1>2, <2>1 DEF Alone
    <3>2. \/ Ok(a) /\ user' = a.who
          \/ IsUnauthorized(a) /\ user' = None
          \/ status' = status
      BY <1>1, <2>1, Handles DEF SetUser, SetAnonymous
    <3> QED BY <1>2, <1>3, <2>1, <3>1, <3>2 DEF Tells
  <2>2. CASE call[c].kind \in {"login", "redeem"}
    <3>1. \/ Ok(a) /\ user' = call[c].who
          \/ ~Ok(a) /\ user' = user
      BY <1>1, <2>2, Handles DEF SetUser
    <3> QED BY <1>2, <1>3, <2>2, <3>1 DEF Tells, Matches
  <2>3. CASE call[c].kind = "logout"
    <3>1. user' = None
      BY <1>1, <2>3, Handles DEF SetAnonymous
    <3> QED BY <1>2, <1>3, <2>3, <3>1 DEF Tells
  <2>4. call[c].kind \in {"me", "login", "redeem", "logout"}
    BY <1>2 DEF Typed, Request, Requests
  <2> QED BY <2>1, <2>2, <2>3, <2>4
<1> QED BY <1>4, <1>5, <1>6 DEF Exact, InFlight

LEMMA ExactStep ==
    Typed /\ Alone /\ Issued /\ Single /\ Agrees /\ Exact /\ [Next]_vars => Exact'
<1> SUFFICES ASSUME Typed, Alone, Issued, Single, Agrees, Exact, [Next]_vars PROVE Exact'
  OBVIOUS
<1>missed. (Missed => aside' # "nothing") /\ (Crossed => aside' # "nothing")
  BY DEF Missed, Crossed
<1>1. ASSUME NEW c \in Calls, Load(c), aside' = "nothing" PROVE Exact'
  <2>1. InFlight = {} /\ status' = "loading"
    BY <1>1 DEF Load
  <2>2. \A d \in Calls : call[d] = Idle
    BY <2>1 DEF InFlight, Typed, Request
  <2>3. \A d \in Calls : d # c => call'[d] = Idle
    BY <1>1, <2>2, Loads DEF Idle
  <2>4. \A d \in Calls : d # c => d \notin InFlight' /\ ~Mine(d)'
    BY <2>3, IdleNotMine
  <2>5. CASE call'[c] = Idle
    <3>1. c \notin InFlight' /\ ~Mine(c)'
      BY <2>5, IdleNotMine
    <3>2. \A d \in InFlight' : d \in Calls
      BY DEF InFlight
    <3> QED BY <2>1, <2>4, <3>1, <3>2 DEF Exact
  <2>6. CASE call'[c].at = "sent" /\ call'[c].kind = "me" /\ call'[c].page = "open"
    <3>1. Mine(c)' /\ c \in InFlight' /\ Tells(c)'
      BY <2>6 DEF Mine, InFlight, Tells
    <3>2. \A d \in InFlight' : d \in Calls
      BY DEF InFlight
    <3> QED BY <2>1, <2>4, <3>1, <3>2 DEF Exact
  <2> QED BY <1>1, <2>5, <2>6, Loads
<1>2. ASSUME NEW c \in Calls, Retry(c) PROVE Exact'
  <2>1. Send(c, "me", None) /\ NoteOverlap /\ UNCHANGED <<status, user, jar, sessions>>
    BY <1>2, Zenon DEF Retry
  <2> QED BY <2>1, ExactSend
<1>3. ASSUME NEW c \in Calls, NEW u \in Users, Submit(c, u) PROVE Exact'
  <2>1. /\ \E kind \in {"login", "redeem"} : Send(c, kind, u)
        /\ NoteOverlap /\ UNCHANGED <<status, user, jar, sessions>>
    BY <1>3, Zenon DEF Submit
  <2>2. status \notin {"loading", "authenticated"}
    BY <1>3, Screens, Zenon DEF Submit
  <2>3. user = None /\ status # "loading"
    BY <2>2 DEF Typed
  <2> QED BY <2>1, <2>3, ExactSend
<1>4. ASSUME NEW c \in Calls, SignOut(c) PROVE Exact'
  <2>1. Send(c, "logout", None) /\ NoteOverlap /\ UNCHANGED <<status, user, jar, sessions>>
    BY <1>4, Zenon DEF SignOut, tab
  <2> QED BY <2>1, ExactSend
<1>5. CASE FollowLink \/ Navigate \/ UNCHANGED vars
  <2>1. UNCHANGED <<status, user, call, jar, sessions, aside>>
    BY <1>5, Zenon DEF FollowLink, Navigate, vars, tab
  <2> QED BY <2>1 DEF Exact, InFlight, Mine, Tells, Live, Ok, IsUnauthorized
<1>6. CASE Elsewhere \/ (\E k \in Tokens : Expire(k)) \/ (\E c \in Calls : Fail(c))
  <2>1. Crossed \/ Missed
    BY <1>6, Zenon DEF Elsewhere, Expire, Fail
  <2> QED BY <1>missed, <2>1 DEF Exact
<1>7. ASSUME NEW c \in Calls, Abandoned(c) PROVE Exact'
  <2>1. aside' = aside /\ c \in InFlight /\ ~Mine(c)
    BY <1>7, AbandonedEffect
  <2> QED BY <2>1 DEF Exact
<1>8. ASSUME NEW c \in Calls, Serve(c) PROVE Exact'
  BY <1>8, ExactServe
<1>9. ASSUME NEW c \in Calls, Arrive(c) PROVE Exact'
  BY <1>9, ExactArrive
<1>10. ASSUME NEW c \in Calls, Settle(c) PROVE Exact'
  BY <1>10, ExactSettle
<1>11. aside' # "nothing" => Exact'
  BY DEF Exact
<1> QED BY <1>1, <1>2, <1>3, <1>4, <1>5, <1>6, <1>7, <1>8, <1>9, <1>10, <1>11, Zenon
        DEF Next, Network, Quiet

\* When all calls are settled and nothing happened that the tab cannot know of, it
\* shows the user as whom the server serves it, and the form when it serves nobody.
THEOREM ShownIsServedAlways == Spec => []ShownIsServed
<1>1. Exact => ShownIsServed
  BY DEF Exact, ShownIsServed
<1> QED BY <1>1, TypedInit, TypedStep, AloneInit, AloneStep, IssuedInit, IssuedStep,
           SingleInit, SingleStep, AgreesInit, AgreesStep, ExactInit, ExactStep, PTL DEF Spec
=============================================================================
