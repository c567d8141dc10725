----------------------------- MODULE InviteOnce -----------------------------
(***************************************************************************)
(* What invite redemption promises to the people who take part in it, with *)
(* no requests, rows, clocks or failures: a token is issued with a role,   *)
(* at most one person ever comes to hold it, and only its holder is        *)
(* admitted, with the role the token was issued for.                       *)
(***************************************************************************)
CONSTANTS Tokens, People, Roles, None   \* None is no person and no role

VARIABLES
    terms,      \* the role each issued token grants, None before it is issued
    holder,     \* the person a token belongs to, None while it is open
    admitted    \* the role a person was admitted with, None before

ivars == <<terms, holder, admitted>>

Init ==
    /\ terms = [t \in Tokens |-> None]
    /\ holder = [t \in Tokens |-> None]
    /\ admitted = [p \in People |-> None]

Issue(t, role) ==
    /\ terms[t] = None
    /\ terms' = [terms EXCEPT ![t] = role]
    /\ UNCHANGED <<holder, admitted>>

Claim(t, p) ==
    /\ terms[t] # None
    /\ holder[t] = None
    /\ \A u \in Tokens : holder[u] # p
    /\ holder' = [holder EXCEPT ![t] = p]
    /\ UNCHANGED <<terms, admitted>>

Admit(t, p) ==
    /\ holder[t] = p
    /\ admitted[p] = None
    /\ admitted' = [admitted EXCEPT ![p] = terms[t]]
    /\ UNCHANGED <<terms, holder>>

Next ==
    \/ \E t \in Tokens, role \in Roles : Issue(t, role)
    \/ \E t \in Tokens, p \in People : Claim(t, p) \/ Admit(t, p)

Spec == Init /\ [][Next]_ivars
=============================================================================
