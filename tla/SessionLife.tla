----------------------------- MODULE SessionLife -----------------------------
(***************************************************************************)
(* What a login session promises, whatever the database rows, the clock    *)
(* and the interleaving of requests behind it: a token is issued once,     *)
(* dies once and never comes back, and a request is served only if its     *)
(* token was seen alive after the request was sent.                        *)
(***************************************************************************)
CONSTANTS Tokens, Requests, None

VARIABLES
    drawn,      \* the tokens that were drawn; none is drawn twice
    live,       \* those under which a request may be admitted now
    seen,       \* the live token that a request was admitted under, or None
    served      \* the requests that were served

lvars == <<drawn, live, seen, served>>

Init ==
    /\ drawn = {} /\ live = {} /\ served = {}
    /\ seen = [r \in Requests |-> None]

\* A new token comes alive, or a login fails after drawing it.
Issue(t) ==
    /\ t \notin drawn
    /\ drawn' = drawn \cup {t}
    /\ live' \in {live, live \cup {t}}
    /\ UNCHANGED <<seen, served>>

Admit(r, t) ==
    /\ t \in live /\ seen[r] = None
    /\ seen' = [seen EXCEPT ![r] = t]
    /\ UNCHANGED <<drawn, live, served>>

Serve(r) ==
    /\ seen[r] # None
    /\ served' = served \cup {r}
    /\ UNCHANGED <<drawn, live, seen>>

\* Tokens die, by a logout or by the clock, and requests that were not served
\* yet may lose their admission.
End ==
    /\ live' \in SUBSET live
    /\ \E lost \in SUBSET (Requests \ served) :
          seen' = [r \in Requests |-> IF r \in lost THEN None ELSE seen[r]]
    /\ UNCHANGED <<drawn, served>>

Next ==
    \/ \E t \in Tokens : Issue(t)
    \/ \E r \in Requests : Serve(r) \/ \E t \in Tokens : Admit(r, t)
    \/ End

Spec == Init /\ [][Next]_lvars
=============================================================================
