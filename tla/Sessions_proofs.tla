--------------------------- MODULE Sessions_proofs ---------------------------
(* Theorems about Sessions, for every value of its constants. *)
EXTENDS Sessions, TLAPS

-----------------------------------------------------------------------------
(* Type correctness. *)

\* Cutting a time to whole seconds gives a time that is not later.
LEMMA CutTime ==
    ASSUME NEW t \in Int
    PROVE  RFC3339(t) \in Int /\ RFC3339(t) <= t
<1>1. t % Second \in Int /\ 0 <= t % Second
  BY TimeAssumption
<1> QED BY <1>1 DEF RFC3339

\* What a request has at hand where it is: its token, the row it read, the
\* account it found.
InHand ==
    \A r \in Requests :
        /\ at[r] \in {"select", "expiry", "evict", "load"} => TokenFrom(r) # Null
        /\ at[r] \in {"expiry", "evict", "load"} => row[r] # Null
        /\ at[r] = "create" => user[r] # Null

Typed == TypeOK /\ InHand

\* The empty table and the idle requests of Init have their types.
LEMMA TypeInit == Init => Typed
BY TimeAssumption DEF Init, Typed, TypeOK, Routes, Tokens, InHand

\* Every statement of every request keeps the types of the table and of what the
\* requests remember.
LEMMA TypeStep == Typed /\ [Next]_vars => Typed'
<1> SUFFICES ASSUME Typed, [Next]_vars
             PROVE  Typed'
  OBVIOUS
<1> USE NullAssumption DEF Typed, TypeOK, InHand, TokenFrom, Goto, Answers, Tokens, history
<1>1. ASSUME NEW r \in Requests, Arrive(r) PROVE Typed'
  BY <1>1, KindsAssumption DEF Arrive
<1>2. ASSUME NEW r \in Requests, GetSelect(r) PROVE Typed'
  BY <1>2 DEF GetSelect, Fail, Succeed
<1>3. ASSUME NEW r \in Requests, GetExpiry(r) PROVE Typed'
  BY <1>3 DEF GetExpiry
<1>4. ASSUME NEW r \in Requests, GetEvict(r) PROVE Typed'
  BY <1>4 DEF GetEvict, Fail, Succeed
<1>5. ASSUME NEW r \in Requests, LoadUser(r) PROVE Typed'
  BY <1>5 DEF LoadUser, GetByID, Fail, Succeed, SessionRows
<1>6. ASSUME NEW r \in Requests, Serve(r) PROVE Typed'
  BY <1>6 DEF Serve, Guard, Handle, HandleMe, HandleListUsers, HandleWS, Fail, Succeed
<1>7. ASSUME NEW r \in Requests, Disconnect(r) PROVE Typed'
  BY <1>7 DEF Disconnect
<1>8. ASSUME NEW r \in Requests, Logout(r) PROVE Typed'
  BY <1>8 DEF Logout, Fail, Succeed
<1>9. ASSUME NEW r \in Requests, CheckCredentials(r) PROVE Typed'
  BY <1>9 DEF CheckCredentials, FindByEmail, DecodeFails
<1>10. ASSUME NEW r \in Requests, CreateSession(r) PROVE Typed'
  BY <1>10, CutTime, TimeAssumption DEF CreateSession, SessionRows, Fail, Succeed
<1>11. CASE DeleteExpired
  BY <1>11 DEF DeleteExpired
<1>12. CASE Tick
  BY <1>12, TimeAssumption DEF Tick
<1>13. CASE Quiet \/ UNCHANGED vars
  BY <1>13 DEF Quiet, vars
<1> QED BY <1>1, <1>2, <1>3, <1>4, <1>5, <1>6, <1>7, <1>8, <1>9, <1>10, <1>11,
           <1>12, <1>13 DEF Next

\* The tables, the clock and all that requests remember keep their types.
THEOREM TypeCorrect == Spec => []TypeOK
<1>1. Typed => TypeOK
  BY DEF Typed
<1> QED BY <1>1, TypeInit, TypeStep, PTL DEF Spec

-----------------------------------------------------------------------------
(* The inductive invariant. *)

\* A route whose step is taken once is taken by its own requests, and nothing is
\* known of a request before it is resolved.
RouteSteps ==
    \A r \in Requests :
        /\ at[r] = "idle" => kind[r] = "me"
        /\ at[r] = "create" => kind[r] = "login"
        /\ at[r] = "open" => kind[r] = "ws"
        /\ at[r] \in {"idle", "select", "expiry", "evict", "load"} => user[r] = Null

\* Clients have no other tokens than those that logins gave them.
TokensOfLogins ==
    \A r \in Requests :
        /\ cookie[r] # Null => LoggedIn(cookie[r])
        /\ bearer[r] # Null => LoggedIn(bearer[r])

\* A row says what the login of its token gave its client, in whole seconds;
\* a login whose answer was lost may have left one.
SessionsOfLogins ==
    \A t \in Tokens : sessions[t] # Null =>
        /\ kind[t] = "login" /\ at[t] \in {"ok", "error"}
        /\ sessions[t].user = user[t]
        /\ sessions[t].expires = RFC3339(given[t])

\* So does the copy that Get works on, whatever became of the row since.
CopiesOfLogins ==
    \A r \in Requests :
        /\ at[r] \in {"expiry", "evict", "load"} =>
              /\ row[r].user = user[TokenFrom(r)]
              /\ row[r].expires = RFC3339(given[TokenFrom(r)])
        /\ at[r] = "evict" => now >= row[r].expires

\* The user in a guarded request's context is the one its token stands for.
UsersOfTokens ==
    \A r \in Requests : Guarded(r) /\ user[r] # Null =>
        TokenFrom(r) # Null /\ user[r] = user[TokenFrom(r)]

\* What is served has passed its guard.
ServedPassed ==
    \A r \in Requests : Served(r) =>
        user[r] # Null /\ (kind[r] = "users" => RoleOf[user[r]] = "admin")

Provenance ==
    /\ RouteSteps /\ TokensOfLogins /\ SessionsOfLogins /\ CopiesOfLogins
    /\ UsersOfTokens /\ ServedPassed

\* Nothing was sent yet.
LEMMA ProvenanceInit == Init => Provenance
BY DEF Init, Provenance, RouteSteps, TokensOfLogins, SessionsOfLogins, CopiesOfLogins,
       UsersOfTokens, ServedPassed, Served, Tokens, TokenFrom

\* Logins leave rows, Get copies them and loads their users: no step makes a row,
\* a copy or a user out of anything else.
LEMMA ProvenanceStep == Typed /\ Provenance /\ [Next]_vars => Provenance'
<1> SUFFICES ASSUME Typed, Provenance, [Next]_vars
             PROVE  Provenance'
  OBVIOUS
<1> USE NullAssumption DEF Typed, TypeOK, InHand, TokenFrom, Goto, Answers, Tokens, history,
   Provenance, RouteSteps, TokensOfLogins, SessionsOfLogins, CopiesOfLogins, UsersOfTokens, ServedPassed, LoggedIn, Served, Guarded
<1>1. ASSUME NEW r \in Requests, Arrive(r) PROVE Provenance'
  BY <1>1, KindsAssumption DEF Arrive, InJar
<1>2. ASSUME NEW r \in Requests, GetSelect(r) PROVE Provenance'
  BY <1>2 DEF GetSelect, Fail, Succeed
<1>3. ASSUME NEW r \in Requests, GetExpiry(r) PROVE Provenance'
  BY <1>3 DEF GetExpiry, SessionRows
<1>4. ASSUME NEW r \in Requests, GetEvict(r) PROVE Provenance'
  BY <1>4 DEF GetEvict, Fail, Succeed
<1>5. ASSUME NEW r \in Requests, LoadUser(r) PROVE Provenance'
  BY <1>5 DEF LoadUser, GetByID, Fail, Succeed, SessionRows
<1>6. ASSUME NEW r \in Requests, Serve(r) PROVE Provenance'
  BY <1>6 DEF Serve, Guard, Handle, HandleMe, HandleListUsers, HandleWS, Fail, Succeed
<1>7. ASSUME NEW r \in Requests, Disconnect(r) PROVE Provenance'
  BY <1>7 DEF Disconnect
<1>8. ASSUME NEW r \in Requests, Logout(r) PROVE Provenance'
  BY <1>8 DEF Logout, Fail, Succeed
<1>9. ASSUME NEW r \in Requests, CheckCredentials(r) PROVE Provenance'
  BY <1>9 DEF CheckCredentials, FindByEmail, DecodeFails
<1>10. ASSUME NEW r \in Requests, CreateSession(r) PROVE Provenance'
  BY <1>10, CutTime, TimeAssumption DEF CreateSession, SessionRows, Fail, Succeed
<1>11. CASE DeleteExpired
  BY <1>11 DEF DeleteExpired
<1>12. CASE Tick
  BY <1>12, TimeAssumption DEF Tick, SessionRows
<1>13. CASE Quiet \/ UNCHANGED vars
  BY <1>13 DEF Quiet, vars
<1> QED BY <1>1, <1>2, <1>3, <1>4, <1>5, <1>6, <1>7, <1>8, <1>9, <1>10, <1>11,
           <1>12, <1>13 DEF Next

\* A guarded request is served only as the user who logged in with the token it
\* carries, and an admin's route only to an admin.
THEOREM ServedAsOwnerAlways == Spec => []ServedAsOwner
<1>1. Typed /\ Provenance => ServedAsOwner
  BY DEF Provenance, TokensOfLogins, UsersOfTokens, ServedPassed,
       ServedAsOwner, Served, TokenFrom
<1> QED BY <1>1, TypeInit, TypeStep, ProvenanceInit, ProvenanceStep, PTL DEF Spec

-----------------------------------------------------------------------------
(* Sessions end, once and for all. *)

\* No request can be admitted under t any more.
Dead(t) == sessions[t] = Null \/ now >= sessions[t].expires

\* The answer to a logout whose statements all succeeded is true: the session of
\* its cookie is gone, and no later statement of any request brings it back.
LoggedOutGone ==
    \A q \in Requests \ failed :
        kind[q] = "logout" /\ at[q] = "ok" /\ cookie[q] # Null
            => sessions[cookie[q]] = Null

\* A request that arrived late is shut out: its token is dead, and neither a copy
\* of the row made in time nor a user is in its context.
LateShutOut ==
    \A r \in Requests : late[r] # {} =>
        /\ at[r] # "idle" /\ TokenFrom(r) # Null
        /\ Dead(TokenFrom(r)) /\ ~Admitted(r)

Ended == LoggedOutGone /\ LateShutOut

\* Nothing has ended yet.
LEMMA EndedInit == Init => Ended
BY DEF Init, Ended, LoggedOutGone, LateShutOut

\* No step brings a dead session back or lets a late request in: only the login
\* that drew a token makes its row, once, and copies agree with their rows.
LEMMA EndedStep == Typed /\ Provenance /\ Ended /\ [Next]_vars => Ended'
<1> SUFFICES ASSUME Typed, Provenance, Ended, [Next]_vars
             PROVE  Ended'
  OBVIOUS
<1> USE NullAssumption DEF Typed, TypeOK, InHand, TokenFrom, Goto, Answers, Tokens, history,
   Provenance, RouteSteps, TokensOfLogins, SessionsOfLogins, CopiesOfLogins, LoggedIn, Guarded,
   Ended, LoggedOutGone, LateShutOut, Dead, Admitted, Good, SessionRows
<1>1. ASSUME NEW r \in Requests, Arrive(r) PROVE Ended'
  BY <1>1, KindsAssumption, CutTime DEF Arrive, InJar, Over
<1>2. ASSUME NEW r \in Requests, GetSelect(r) PROVE Ended'
  BY <1>2 DEF GetSelect, Fail, Succeed
<1>3. ASSUME NEW r \in Requests, GetExpiry(r) PROVE Ended'
  BY <1>3 DEF GetExpiry
<1>4. ASSUME NEW r \in Requests, GetEvict(r) PROVE Ended'
  BY <1>4 DEF GetEvict, Fail, Succeed
<1>5. ASSUME NEW r \in Requests, LoadUser(r) PROVE Ended'
  BY <1>5 DEF LoadUser, GetByID, Fail, Succeed
<1>6. ASSUME NEW r \in Requests, Serve(r) PROVE Ended'
  BY <1>6 DEF Serve, Guard, Handle, HandleMe, HandleListUsers, HandleWS, Fail, Succeed
<1>7. ASSUME NEW r \in Requests, Disconnect(r) PROVE Ended'
  BY <1>7 DEF Disconnect
<1>8. ASSUME NEW r \in Requests, Logout(r) PROVE Ended'
  BY <1>8 DEF Logout, Fail, Succeed
<1>9. ASSUME NEW r \in Requests, CheckCredentials(r) PROVE Ended'
  BY <1>9 DEF CheckCredentials, FindByEmail, DecodeFails
<1>10. ASSUME NEW r \in Requests, CreateSession(r) PROVE Ended'
  BY <1>10, CutTime, TimeAssumption DEF CreateSession, Fail, Succeed
<1>11. CASE DeleteExpired
  BY <1>11 DEF DeleteExpired
<1>12. CASE Tick
  BY <1>12, TimeAssumption DEF Tick
<1>13. CASE Quiet \/ UNCHANGED vars
  BY <1>13 DEF Quiet, vars
<1> QED BY <1>1, <1>2, <1>3, <1>4, <1>5, <1>6, <1>7, <1>8, <1>9, <1>10, <1>11,
           <1>12, <1>13 DEF Next

\* A request that arrives once its session is over, by time or by a logout that
\* succeeded, is not served, whatever fails and whatever else is under way.
THEOREM NeverServedLateAlways == Spec => []NeverServedLate
<1>1. Typed /\ Provenance /\ Ended => NeverServedLate
  BY DEF Provenance, ServedPassed, Ended, LateShutOut, NeverServedLate, Served, Admitted
<1> QED BY <1>1, TypeInit, TypeStep, ProvenanceInit, ProvenanceStep, EndedInit, EndedStep,
           PTL DEF Spec

-----------------------------------------------------------------------------
(* Good sessions are not taken away. *)

\* What may end the session of t.
Cause(t) ==
    \/ \E q \in Requests : kind[q] = "logout" /\ cookie[q] = t
    \/ now >= RFC3339(given[t])

\* A session that a login opened is missing for a cause only, and a request of
\* it that was not admitted has a cause or a failure of its own.
MissingForCause ==
    /\ \A t \in Tokens : LoggedIn(t) /\ sessions[t] = Null => Cause(t)
    /\ \A r \in Requests \ failed :
          (/\ at[r] \in {"route", "unauthorized"} /\ Guarded(r)
           /\ TokenFrom(r) # Null /\ user[r] = Null)
              => Cause(TokenFrom(r))
    /\ \A r \in Requests : at[r] = "unauthorized" /\ Guarded(r) => user[r] = Null

\* Nobody was refused yet.
LEMMA CauseInit == Init => MissingForCause
BY DEF Init, MissingForCause, LoggedIn, Tokens

\* Get evicts, and DeleteExpired purges, by the expiry cut to whole seconds,
\* which is the cause they leave; a logout is one by itself.
LEMMA CauseStep == Typed /\ Provenance /\ MissingForCause /\ [Next]_vars => MissingForCause'
<1> SUFFICES ASSUME Typed, Provenance, MissingForCause, [Next]_vars
             PROVE  MissingForCause'
  OBVIOUS
<1> USE NullAssumption DEF Typed, TypeOK, InHand, TokenFrom, Goto, Answers, Tokens, history,
   Provenance, RouteSteps, TokensOfLogins, SessionsOfLogins, CopiesOfLogins, LoggedIn, Guarded,
   MissingForCause, Cause, SessionRows
<1>1. ASSUME NEW r \in Requests, Arrive(r) PROVE MissingForCause'
  <2>1. /\ at[r] = "idle" /\ kind[r] = "me" /\ at'[r] \in {"route", "select"}
        /\ \A q \in Requests \ {r} :
              /\ at'[q] = at[q] /\ kind'[q] = kind[q] /\ cookie'[q] = cookie[q]
              /\ bearer'[q] = bearer[q]
        /\ at'[r] = "route" => cookie'[r] = Null /\ bearer'[r] = Null
        /\ UNCHANGED <<sessions, user, given, now, failed>>
    BY <1>1 DEF Arrive
  <2>2. \A t \in Tokens : Cause(t) => Cause(t)'
    BY <2>1
  <2>3. \A t \in Tokens : LoggedIn(t)' => LoggedIn(t)
    BY <2>1
  <2>4. \A q \in Requests \ {r} : TokenFrom(q)' = TokenFrom(q) /\ (Guarded(q)' <=> Guarded(q))
    BY <2>1
  <2>5. \A q \in Requests : TokenFrom(q) # Null => TokenFrom(q) \in Tokens
    OBVIOUS
  <2> HIDE DEF Cause, LoggedIn
  <2> QED BY <2>1, <2>2, <2>3, <2>4, <2>5
<1>2. ASSUME NEW r \in Requests, GetSelect(r) PROVE MissingForCause'
  BY <1>2 DEF GetSelect, Fail, Succeed
<1>3. ASSUME NEW r \in Requests, GetExpiry(r) PROVE MissingForCause'
  BY <1>3 DEF GetExpiry
<1>4. ASSUME NEW r \in Requests, GetEvict(r) PROVE MissingForCause'
  BY <1>4 DEF GetEvict, Fail, Succeed
<1>5. ASSUME NEW r \in Requests, LoadUser(r) PROVE MissingForCause'
  BY <1>5 DEF LoadUser, GetByID, Fail, Succeed
<1>6. ASSUME NEW r \in Requests, Serve(r) PROVE MissingForCause'
  BY <1>6 DEF Serve, Guard, Handle, HandleMe, HandleListUsers, HandleWS, Fail, Succeed
<1>7. ASSUME NEW r \in Requests, Disconnect(r) PROVE MissingForCause'
  BY <1>7 DEF Disconnect
<1>8. ASSUME NEW r \in Requests, Logout(r) PROVE MissingForCause'
  BY <1>8 DEF Logout, Fail, Succeed
<1>9. ASSUME NEW r \in Requests, CheckCredentials(r) PROVE MissingForCause'
  BY <1>9 DEF CheckCredentials, FindByEmail, DecodeFails
<1>10. ASSUME NEW r \in Requests, CreateSession(r) PROVE MissingForCause'
  BY <1>10, CutTime, TimeAssumption DEF CreateSession, Fail, Succeed
<1>11. CASE DeleteExpired
  BY <1>11, CutTime, TimeAssumption DEF DeleteExpired
<1>12. CASE Tick
  BY <1>12, TimeAssumption, CutTime DEF Tick
<1>13. CASE Quiet \/ UNCHANGED vars
  BY <1>13 DEF Quiet, vars
<1> QED BY <1>1, <1>2, <1>3, <1>4, <1>5, <1>6, <1>7, <1>8, <1>9, <1>10, <1>11,
           <1>12, <1>13 DEF Next

\* A request with a client's token is refused only for a failure of its own
\* statements, a logout of that token, or the end of its whole seconds.
THEOREM RefusedForCauseAlways == Spec => []RefusedForCause
<1>1. MissingForCause => RefusedForCause
  BY DEF MissingForCause, RefusedForCause, Cause
<1> QED BY <1>1, TypeInit, TypeStep, ProvenanceInit, ProvenanceStep, CauseInit, CauseStep,
           PTL DEF Spec

-----------------------------------------------------------------------------
(* Refinement of SessionLife. *)

\* What SessionLife sees: the tokens drawn, those alive, the live token that each
\* request was admitted under, and the requests served.
Drawn == {t \in Tokens : kind[t] = "login" /\ at[t] \in {"ok", "error"}}
Alive == {t \in Tokens : Good(sessions[t])}
Seen == [r \in Requests |-> IF Admitted(r) THEN TokenFrom(r) ELSE Null]
ServedOnes == {r \in Requests : Served(r)}

\* An empty table with idle requests is an initial state of SessionLife.
LEMMA LifeInit == Init => Life!Init
BY DEF Init, Life!Init, Tokens, Good, Admitted, Served, Guarded

\* A step that SessionLife does not see.
LEMMA LifeStutter ==
    ASSUME UNCHANGED <<Drawn, Alive, Seen, ServedOnes>>
    PROVE  UNCHANGED Life!lvars
BY DEF Drawn, Alive, Seen, ServedOnes, Life!lvars

\* Tokens die and requests lose their admission: an End.
LEMMA LifeEnd ==
    ASSUME UNCHANGED <<Drawn, ServedOnes>>, Alive' \subseteq Alive,
           \A r \in Requests :
              Seen'[r] = Seen[r] \/ (Seen'[r] = Null /\ r \notin ServedOnes)
    PROVE  Life!Next
<1> DEFINE lost == {r \in Requests : Seen'[r] # Seen[r]}
<1>1. Seen' = [r \in Requests |-> IF r \in lost THEN Null ELSE Seen[r]]
  BY DEF Seen
<1>2. lost \in SUBSET (Requests \ ServedOnes)
  OBVIOUS
<1>3. Life!End
  BY <1>1, <1>2 DEF Drawn, Alive, Seen, ServedOnes, Life!End
<1> QED BY <1>3 DEF Life!Next

\* A successful INSERT, or a failed one, is Issue; Get's SELECT of a good row is
\* Admit; a guarded handler's answer is Serve; deletions and the clock are End;
\* SessionLife sees no other step.
LEMMA LifeStep ==
    Typed /\ Provenance /\ [Next]_vars => [Life!Next]_(Life!lvars)
<1> SUFFICES ASSUME Typed, Provenance, [Next]_vars
             PROVE  Life!Next \/ UNCHANGED Life!lvars
  OBVIOUS
<1> DEFINE mapped == <<Drawn, Alive, Seen, ServedOnes>>
<1>0. ASSUME UNCHANGED mapped PROVE UNCHANGED Life!lvars
  BY <1>0, LifeStutter
<1> USE NullAssumption DEF Typed, TypeOK, InHand, TokenFrom, Goto, Answers, Tokens, history,
   Provenance, RouteSteps, TokensOfLogins, SessionsOfLogins, UsersOfTokens, LoggedIn, Guarded,
   Drawn, Alive, Seen, ServedOnes, Good, Admitted, Served
<1>1. ASSUME NEW r \in Requests, Arrive(r) PROVE UNCHANGED mapped
  BY <1>1 DEF Arrive
<1>2. ASSUME NEW r \in Requests, GetSelect(r) PROVE Life!Next \/ UNCHANGED mapped
  <2>1. UNCHANGED <<Drawn, Alive, ServedOnes>> /\ Seen[r] = Null
    BY <1>2 DEF GetSelect
  <2>2. CASE Admitted(r)'
    <3>1. PICK t \in Tokens : t \in Alive /\ TokenFrom(r) = t /\ TokenFrom(r)' = t
      BY <1>2, <2>2 DEF GetSelect
    <3>2. Seen'[r] = t /\ \A q \in Requests \ {r} : Seen'[q] = Seen[q]
      BY <1>2, <2>2, <3>1 DEF GetSelect
    <3>3. /\ Seen = [q \in Requests |-> Seen[q]]
          /\ Seen' = [q \in Requests |-> Seen'[q]]
      OBVIOUS
    <3>4. Seen' = [Seen EXCEPT ![r] = t]
      <4> HIDE DEF Seen
      <4> QED BY <3>2, <3>3
    <3>5. Life!Admit(r, t)
      BY <2>1, <3>1, <3>4 DEF Life!Admit
    <3> QED BY <3>1, <3>5 DEF Life!Next
  <2>3. CASE ~Admitted(r)'
    BY <1>2, <2>1, <2>3 DEF GetSelect
  <2> QED BY <2>2, <2>3
<1>3. ASSUME NEW r \in Requests, GetExpiry(r) PROVE UNCHANGED mapped
  BY <1>3 DEF GetExpiry
<1>4. ASSUME NEW r \in Requests, GetEvict(r) PROVE Life!Next
  <2>1. UNCHANGED <<Drawn, ServedOnes, Seen>> /\ Alive' \subseteq Alive
    BY <1>4 DEF GetEvict
  <2> QED BY <2>1, LifeEnd
<1>5. ASSUME NEW r \in Requests, LoadUser(r) PROVE Life!Next
  <2>1. UNCHANGED <<Drawn, ServedOnes, Alive>>
    BY <1>5 DEF LoadUser
  <2>2. \A q \in Requests :
           Seen'[q] = Seen[q] \/ (Seen'[q] = Null /\ q \notin ServedOnes)
    BY <1>5 DEF LoadUser, GetByID
  <2> QED BY <2>1, <2>2, LifeEnd
<1>6. ASSUME NEW r \in Requests, Serve(r) PROVE Life!Next \/ UNCHANGED mapped
  <2>1. UNCHANGED <<Drawn, Alive, Seen>>
    BY <1>6 DEF Serve, Guard, Handle, HandleMe, HandleListUsers, HandleWS
  <2>2. CASE Served(r)'
    <3>1. ServedOnes' = ServedOnes \cup {r} /\ Seen[r] # Null
      BY <1>6, <2>2 DEF Serve, Guard, Handle, HandleMe, HandleListUsers, HandleWS
    <3>2. Life!Serve(r)
      BY <2>1, <3>1 DEF Life!Serve
    <3> QED BY <3>2 DEF Life!Next
  <2>3. CASE ~Served(r)'
    <3>1. UNCHANGED ServedOnes
      BY <1>6, <2>3 DEF Serve, Guard, Handle, HandleMe, HandleListUsers, HandleWS
    <3> QED BY <2>1, <3>1
  <2> QED BY <2>2, <2>3
<1>7. ASSUME NEW r \in Requests, Disconnect(r) PROVE UNCHANGED mapped
  BY <1>7 DEF Disconnect
<1>8. ASSUME NEW r \in Requests, Logout(r) PROVE Life!Next
  <2>1. UNCHANGED <<Drawn, ServedOnes, Seen>> /\ Alive' \subseteq Alive
    BY <1>8 DEF Logout
  <2> QED BY <2>1, LifeEnd
<1>9. ASSUME NEW r \in Requests, CheckCredentials(r) PROVE UNCHANGED mapped
  BY <1>9 DEF CheckCredentials, FindByEmail, DecodeFails
<1>10. ASSUME NEW r \in Requests, CreateSession(r) PROVE Life!Next
  <2>1. r \notin Drawn /\ Drawn' = Drawn \cup {r} /\ UNCHANGED <<Seen, ServedOnes>>
    BY <1>10 DEF CreateSession
  <2>2. Alive' \in {Alive, Alive \cup {r}}
    BY <1>10 DEF CreateSession
  <2>3. Life!Issue(r)
    BY <2>1, <2>2 DEF Life!Issue
  <2> QED BY <2>3 DEF Life!Next
<1>11. CASE DeleteExpired
  <2>1. UNCHANGED <<Drawn, ServedOnes, Seen>> /\ Alive' \subseteq Alive
    BY <1>11 DEF DeleteExpired
  <2> QED BY <2>1, LifeEnd
<1>12. CASE Tick
  <2>1. UNCHANGED <<Drawn, ServedOnes>> /\ Alive' \subseteq Alive
    BY <1>12, TimeAssumption DEF Tick, SessionRows
  <2>2. \A q \in Requests :
           Seen'[q] = Seen[q] \/ (Seen'[q] = Null /\ q \notin ServedOnes)
    BY <1>12, TimeAssumption DEF Tick, SessionRows
  <2> QED BY <2>1, <2>2, LifeEnd
<1>13. ASSUME Quiet \/ UNCHANGED vars PROVE UNCHANGED mapped
  BY <1>13 DEF Quiet, vars
<1> HIDE DEF mapped
<1> QED BY <1>0, <1>1, <1>2, <1>3, <1>4, <1>5, <1>6, <1>7, <1>8, <1>9, <1>10, <1>11,
           <1>12, <1>13 DEF Next

\* What the routes see of sessions is SessionLife: one is issued once, dies once,
\* and a request is served only if its token was alive after it was sent.
THEOREM Implementation == Spec => ImplementsSessionLife
BY LifeInit, LifeStep, TypeInit, TypeStep, ProvenanceInit, ProvenanceStep, PTL
   DEF Spec, Life!Spec, ImplementsSessionLife
=============================================================================
