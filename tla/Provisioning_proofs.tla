------------------------- MODULE Provisioning_proofs -------------------------
(* Theorems about Provisioning, for every value of its constants. *)
EXTENDS Provisioning, FiniteSetTheorems, TLAPS

USE DEF Accounts, Calls, Roles

-----------------------------------------------------------------------------
(* Type correctness. *)

\* An expiry is an integer, whatever the ttlHours and however it wraps.
LEMMA ExpiryType ==
    ASSUME now \in Int, NEW hours \in TTLHours
    PROVE  RFC3339(Expiry(hours)) \in Int
<1>1. \A t \in Int : RFC3339(t) \in Int
  BY TimeAssumption DEF RFC3339
<1>2. hours * Hour \in Int
  BY TimeAssumption
<1>3. HoursToDuration(hours) \in Int
  <2> DEFINE width == 2 * (MaxDuration + 1)
  <2>1. width \in Nat \ {0}
    BY TimeAssumption
  <2>2. \A x \in Int : x % width \in Int
    <3> HIDE DEF width
    <3> QED BY <2>1
  <2>3. hours * Hour + MaxDuration + 1 \in Int
    BY <1>2, TimeAssumption
  <2> HIDE DEF width
  <2>4. (hours * Hour + MaxDuration + 1) % width \in Int
    BY <2>2, <2>3
  <2>5. HoursToDuration(hours)
            = ((hours * Hour + MaxDuration + 1) % width) - (MaxDuration + 1)
    BY DEF HoursToDuration, width
  <2> QED BY <2>4, <2>5, TimeAssumption
<1>4. Expiry(hours) \in Int
  BY <1>3, TimeAssumption DEF Expiry
<1> QED BY <1>1, <1>4

\* A stored user row is well formed, whatever was passed to Create.
LEMMA CreateUserType ==
    ASSUME users \in [Accounts -> UserRows \cup {Null}],
           NEW c \in Accounts, NEW email, NEW name, NEW role,
           CreateUser(c, email, name, role)
    PROVE  /\ users' \in [Accounts -> UserRows \cup {Null}]
           /\ users'[c] = [email |-> NormalizeEmail[email], role |-> role]
           /\ users'[c] \in UserRows
           /\ users'[c] # Null
           /\ \A d \in Accounts \ {c} : users'[d] = users[d]
<1>1. email \in Emails /\ role \in Roles
  BY EmailAssumption DEF CreateUser, ValidForCreate, RoleValid
<1>2. [email |-> NormalizeEmail[email], role |-> role] \in UserRows
  BY <1>1, EmailAssumption DEF UserRows
<1> QED BY <1>2, NullAssumption DEF CreateUser

\* The empty tables and idle calls of Init have their types.
LEMMA TypeInit == Init => TypeOK
BY TimeAssumption DEF Init, TypeOK

\* Every step of every call, and every step of the environment, keeps the types
\* of the tables and of what the calls remember.
LEMMA TypeStep == TypeOK /\ [Next]_vars => TypeOK'
<1> SUFFICES ASSUME TypeOK, [Next]_vars
             PROVE  TypeOK'
  OBVIOUS
<1> USE DEF Goto, InFlight, Answers
<1>1. ASSUME NEW s \in Setups, SetupCount(s) PROVE TypeOK'
  BY <1>1 DEF SetupCount, TypeOK
<1>2. ASSUME NEW s \in Setups, SetupInsert(s) PROVE TypeOK'
  <2>1. users' \in [Accounts -> UserRows \cup {Null}]
    <3>1. CASE users' = users
      BY <3>1 DEF TypeOK
    <3>2. CASE \E email \in Emails, name \in Names :
                   CreateUser(s, email, name, "admin")
      BY <3>2, CreateUserType DEF TypeOK
    <3> QED BY <1>2, <3>1, <3>2 DEF SetupInsert
  <2> QED BY <1>2, <2>1 DEF SetupInsert, TypeOK
<1>3. ASSUME NEW s \in Setups, SetupInterrupted(s) PROVE TypeOK'
  BY <1>3 DEF SetupInterrupted, TypeOK
<1>4. ASSUME NEW m \in Mints, MintInvite(m) PROVE TypeOK'
  <2>1. at' \in [Calls -> {"idle"} \cup InFlight \cup Answers]
    BY <1>4 DEF MintInvite, TypeOK
  <2>2. ASSUME NEW admin \in Admins, NEW email \in Emails,
               NEW hours \in TTLHours, NEW role \in Roles
        PROVE  [email |-> NormalizeEmail[email], role |-> role,
                createdBy |-> admin, expires |-> RFC3339(Expiry(hours)),
                redeemedBy |-> Null] \in InviteRows
    <3>1. RFC3339(Expiry(hours)) \in Int
      BY ExpiryType, TimeAssumption DEF TypeOK
    <3> QED BY <3>1, EmailAssumption DEF InviteRows, Admins
  <2>3. invites' \in [Mints -> InviteRows \cup {Null}]
    <3>1. CASE invites' = invites
      BY <3>1 DEF TypeOK
    <3>2. CASE \E row \in InviteRows : invites' = [invites EXCEPT ![m] = row]
      BY <3>2 DEF TypeOK
    <3>3. \/ invites' = invites
          \/ \E row \in InviteRows : invites' = [invites EXCEPT ![m] = row]
      <4>1. PICK admin \in Admins, email \in Emails, asked \in RequestedRoles,
                 hours \in TTLHours :
               LET role == IF asked = "" THEN "member" ELSE asked
               IN  \/ /\ RoleValid(role)
                      /\ invites' = [invites EXCEPT ![m] =
                             [email |-> NormalizeEmail[email], role |-> role,
                              createdBy |-> admin,
                              expires |-> RFC3339(Expiry(hours)),
                              redeemedBy |-> Null]]
                   \/ invites' = invites
        BY <1>4 DEF MintInvite
      <4> QED BY <4>1, <2>2 DEF RoleValid
    <3> QED BY <3>1, <3>2, <3>3
  <2> QED BY <1>4, <2>1, <2>3 DEF MintInvite, TypeOK
<1>5. ASSUME NEW r \in Redeems, RedeemLookup(r) PROVE TypeOK'
  BY <1>5 DEF RedeemLookup, TypeOK
<1>6. ASSUME NEW r \in Redeems, RedeemCheck(r) PROVE TypeOK'
  BY <1>6 DEF RedeemCheck, TypeOK
<1>7. ASSUME NEW r \in Redeems, RedeemInsert(r) PROVE TypeOK'
  <2>1. users' \in [Accounts -> UserRows \cup {Null}]
    <3>1. CASE users' = users
      BY <3>1 DEF TypeOK
    <3>2. CASE \E email, name : CreateUser(r, email, name, inv[r].role)
      BY <3>2, CreateUserType DEF TypeOK
    <3> QED BY <1>7, <3>1, <3>2 DEF RedeemInsert, CreateUserFails
  <2>2. at' \in [Calls -> {"idle"} \cup InFlight \cup Answers]
    BY <1>7 DEF RedeemInsert, TypeOK
  <2> QED BY <1>7, <2>1, <2>2 DEF RedeemInsert, TypeOK
<1>8. ASSUME NEW r \in Redeems, RedeemMark(r) PROVE TypeOK'
  <2>1. at' \in [Calls -> {"idle"} \cup InFlight \cup Answers]
    BY <1>8 DEF RedeemMark, TypeOK
  <2>2. invites' \in [Mints -> InviteRows \cup {Null}]
    <3>1. CASE invites' = invites
      BY <3>1 DEF TypeOK
    <3>2. CASE /\ token[r] \in Mints
               /\ invites[token[r]] # Null
               /\ invites' = [invites EXCEPT ![token[r]].redeemedBy = r]
      <4>1. invites[token[r]] \in InviteRows
        BY <3>2 DEF TypeOK
      <4>2. [invites[token[r]] EXCEPT !.redeemedBy = r] \in InviteRows
        BY <4>1 DEF InviteRows
      <4> QED BY <3>2, <4>2 DEF TypeOK
    <3>3. CASE /\ token[r] = Null
               /\ invites' = [invites EXCEPT ![token[r]].redeemedBy = r]
      BY <3>3, NullAssumption DEF TypeOK
    <3> QED BY <1>8, <3>1, <3>2, <3>3 DEF RedeemMark, OpenRow, TypeOK
  <2> QED BY <1>8, <2>1, <2>2 DEF RedeemMark, TypeOK
<1>9. ASSUME NEW r \in Redeems, RedeemLogin(r) PROVE TypeOK'
  BY <1>9 DEF RedeemLogin, TypeOK
<1>10. CASE ServerCrash
  BY <1>10 DEF ServerCrash, TypeOK
<1>11. CASE Tick
  BY <1>11, TimeAssumption DEF Tick, TypeOK
<1>12. CASE UNCHANGED vars
  BY <1>12 DEF vars, TypeOK
<1> QED BY <1>1, <1>2, <1>3, <1>4, <1>5, <1>6, <1>7, <1>8, <1>9, <1>10, <1>11,
           <1>12 DEF Next, RedeemStep, Quiet

\* The tables and the calls keep their types.
THEOREM TypeCorrect == Spec => []TypeOK
BY TypeInit, TypeStep, PTL DEF Spec

-----------------------------------------------------------------------------
(* What a step does to each table and to each call.  The invariants follow  *)
(* from these effects without another look at the actions.                  *)

\* A row of users appears once, in the insert step of its own call.
UserEffect ==
    \A c \in Accounts : users'[c] # users[c] =>
        /\ at[c] = "insert"
        /\ at'[c] \notin {"idle", "check", "insert"}
        /\ users'[c] \in UserRows
        /\ NormalizeEmail[users'[c].email] = users'[c].email
        /\ \A d \in Accounts \ {c} :
              /\ users'[d] = users[d]
              /\ users[d] # Null => users[d].email # users'[c].email
        /\ c \in Setups => users'[c].role = "admin"
        /\ c \in Redeems =>
              /\ users'[c].role = inv[c].role
              /\ inv[c].email # NoEmail =>
                    users'[c].email = NormalizeEmail[inv[c].email]
        /\ UNCHANGED <<invites, sessions, token, inv>>

\* A row of invites appears open, or is credited to a call that marks it.
InviteEffect ==
    \A t \in Mints : invites'[t] # invites[t] =>
        /\ UNCHANGED <<users, sessions, token, inv>>
        /\ \/ /\ at[t] = "idle" /\ at'[t] # "idle"
              /\ invites'[t] \in InviteRows
              /\ NormalizeEmail[invites'[t].email] = invites'[t].email
              /\ invites'[t].createdBy \in Admins
              /\ invites'[t].redeemedBy = Null
           \/ /\ invites[t] # Null
              /\ invites[t].redeemedBy = Null
              /\ \E r \in Redeems :
                    /\ at[r] = "mark"
                    /\ token[r] = t
                    /\ invites'[t] = [invites[t] EXCEPT !.redeemedBy = r]

\* A request is read once, when its call begins.
RequestEffect ==
    \A r \in Redeems : at[r] # "idle" =>
        token'[r] = token[r] /\ inv'[r] = inv[r]

\* The steps a call of /auth/redeem can take.
RedeemEffect ==
    \A r \in Redeems :
        \/ at'[r] = at[r]
        \/ at'[r] \in {"invalid", "failed", "lost"}
        \/ /\ at[r] = "idle" /\ at'[r] = "check"
           /\ token'[r] \in Mints
           /\ invites[token'[r]] # Null
           /\ inv'[r] = invites[token'[r]]
           /\ UNCHANGED <<users, invites>>
        \/ at[r] = "check" /\ at'[r] = "insert" /\ UNCHANGED <<users, invites>>
        \/ at[r] = "insert" /\ at'[r] = "mark" /\ users'[r] # Null
        \/ /\ at[r] = "mark" /\ at'[r] = "login"
           /\ token[r] \in Mints => invites'[token[r]].redeemedBy = r
           /\ UNCHANGED users
        \/ at[r] = "login" /\ at'[r] = "created"

\* The other calls, and the sessions.
OtherEffect ==
    /\ \A s \in Setups :
          \/ at'[s] = at[s]
          \/ at'[s] \in Answers
          \/ at[s] = "idle" /\ at'[s] = "insert" /\ UNCHANGED users
    /\ \A t \in Mints : at'[t] = at[t] \/ at'[t] \in Answers
    /\ \A r \in Redeems : r \in sessions' => r \in sessions \/ at[r] = "login"

\* Create's effect on the table, for the two actions that call it.
LEMMA CreateUserEffect ==
    ASSUME TypeOK, NEW c \in Accounts, NEW email, NEW name, NEW role,
           CreateUser(c, email, name, role)
    PROVE  /\ users'[c] \in UserRows
           /\ users'[c] # Null
           /\ users'[c].role = role
           /\ users'[c].email = NormalizeEmail[email]
           /\ NormalizeEmail[users'[c].email] = users'[c].email
           /\ \A d \in Accounts \ {c} :
                 /\ users'[d] = users[d]
                 /\ users[d] # Null => users[d].email # users'[c].email
<1>1. email \in Emails
  BY EmailAssumption DEF CreateUser, ValidForCreate
<1>2. users'[c] = [email |-> NormalizeEmail[email], role |-> role]
  BY CreateUserType DEF TypeOK
<1>3. \A d \in Accounts \ {c} : users'[d] = users[d]
  BY CreateUserType DEF TypeOK
<1>4. NormalizeEmail[NormalizeEmail[email]] = NormalizeEmail[email]
  BY <1>1, EmailAssumption
<1>5. \A d \in Accounts : users[d] # Null => users[d].email # NormalizeEmail[email]
  BY DEF CreateUser, EmailFree
<1>6. users'[c] \in UserRows /\ users'[c] # Null
  BY CreateUserType DEF TypeOK
<1> QED BY <1>2, <1>3, <1>4, <1>5, <1>6

\* The only writers of users are the insert steps of a setup and of a redemption,
\* and each writes one new row under the UNIQUE constraint.
LEMMA UserEffectStep == TypeOK /\ [Next]_vars => UserEffect
<1> SUFFICES ASSUME TypeOK, [Next]_vars, ~UNCHANGED users
             PROVE  UserEffect
  BY DEF UserEffect
<1>1. ASSUME NEW s \in Setups, SetupInsert(s) PROVE UserEffect
  <2>1. PICK email \in Emails, name \in Names :
           CreateUser(s, email, name, "admin")
    BY <1>1 DEF SetupInsert
  <2>2. /\ at[s] = "insert" /\ at'[s] \in {"created", "failed"}
        /\ UNCHANGED <<invites, sessions, token, inv>>
    BY <1>1 DEF SetupInsert, Goto, TypeOK
  <2>3. s \notin Redeems
    BY CallsAssumption
  <2> QED BY <2>1, <2>2, <2>3, CreateUserEffect DEF UserEffect
<1>2. ASSUME NEW r \in Redeems, RedeemInsert(r) PROVE UserEffect
  <2>1. PICK supplied \in Emails, name \in Names :
           CreateUser(r, RedeemEmail(inv[r], supplied), name, inv[r].role)
    BY <1>2 DEF RedeemInsert, CreateUserFails
  <2>2. /\ at[r] = "insert" /\ at'[r] \in {"mark", "failed"}
        /\ UNCHANGED <<invites, sessions, token, inv>>
    BY <1>2 DEF RedeemInsert, Goto, TypeOK
  <2>3. r \notin Setups
    BY CallsAssumption
  <2> QED BY <2>1, <2>2, <2>3, CreateUserEffect DEF UserEffect, RedeemEmail
<1> QED BY <1>1, <1>2 DEF Next, RedeemStep, vars, SetupCount, SetupInterrupted,
           MintInvite, RedeemLookup, RedeemCheck, RedeemMark, RedeemLogin,
           ServerCrash, Tick, Quiet

\* The only writers of invites are MintInvite, on an empty row, and the credit
\* that RedeemMark gives to its own redemption.
LEMMA InviteEffectStep == TypeOK /\ [Next]_vars => InviteEffect
<1> SUFFICES ASSUME TypeOK, [Next]_vars, ~UNCHANGED invites
             PROVE  InviteEffect
  BY DEF InviteEffect
<1>1. ASSUME NEW m \in Mints, MintInvite(m) PROVE InviteEffect
  <2>1. PICK admin \in Admins, email \in Emails, role \in Roles,
             hours \in TTLHours :
           invites' = [invites EXCEPT ![m] =
                          [email |-> NormalizeEmail[email], role |-> role,
                           createdBy |-> admin,
                           expires |-> RFC3339(Expiry(hours)),
                           redeemedBy |-> Null]]
    BY <1>1 DEF MintInvite, RoleValid
  <2>2. /\ at[m] = "idle" /\ at'[m] # "idle"
        /\ UNCHANGED <<users, sessions, token, inv>>
    BY <1>1 DEF MintInvite, Goto, TypeOK
  <2>3. invites'[m] \in InviteRows
    <3>1. RFC3339(Expiry(hours)) \in Int
      BY ExpiryType, TimeAssumption DEF TypeOK
    <3>2. invites'[m] = [email |-> NormalizeEmail[email], role |-> role,
                         createdBy |-> admin,
                         expires |-> RFC3339(Expiry(hours)),
                         redeemedBy |-> Null]
      BY <2>1 DEF TypeOK
    <3> QED BY <3>1, <3>2, EmailAssumption DEF InviteRows, Admins
  <2>4. /\ NormalizeEmail[invites'[m].email] = invites'[m].email
        /\ invites'[m].createdBy \in Admins
        /\ invites'[m].redeemedBy = Null
    BY <2>1, EmailAssumption DEF TypeOK
  <2>5. \A t \in Mints \ {m} : invites'[t] = invites[t]
    BY <2>1 DEF TypeOK
  <2> QED BY <2>2, <2>3, <2>4, <2>5 DEF InviteEffect
<1>2. ASSUME NEW r \in Redeems, RedeemMark(r) PROVE InviteEffect
  <2>1. /\ at[r] = "mark"
        /\ OpenRow(invites[token[r]])
        /\ invites' = [invites EXCEPT ![token[r]].redeemedBy = r]
        /\ UNCHANGED <<users, sessions, token, inv>>
    BY <1>2 DEF RedeemMark
  <2>2. \A t \in Mints : invites'[t] # invites[t] =>
           token[r] = t /\ invites'[t] = [invites[t] EXCEPT !.redeemedBy = r]
    BY <2>1 DEF TypeOK
  <2> QED BY <2>1, <2>2 DEF InviteEffect, OpenRow, Redeemed
<1> QED BY <1>1, <1>2 DEF Next, RedeemStep, vars, SetupCount, SetupInsert,
           SetupInterrupted, RedeemLookup, RedeemCheck, RedeemInsert,
           RedeemLogin, ServerCrash, Tick, Quiet

\* A redemption takes its token and its copy of the row in RedeemLookup only.
LEMMA RequestEffectStep == TypeOK /\ [Next]_vars => RequestEffect
BY DEF RequestEffect, TypeOK, Next, RedeemStep, vars, SetupCount, SetupInsert,
       SetupInterrupted, MintInvite, RedeemLookup, RedeemCheck, RedeemInsert,
       RedeemMark, RedeemLogin, ServerCrash, Tick, Quiet

\* How a redemption advances: a label after the insert is reached only by the
\* insert, a label after the credit only by the credit.
LEMMA RedeemEffectStep == TypeOK /\ [Next]_vars => RedeemEffect
<1> SUFFICES ASSUME TypeOK, [Next]_vars, NEW r \in Redeems, at'[r] # at[r]
             PROVE  \/ at'[r] \in {"invalid", "failed", "lost"}
                    \/ /\ at[r] = "idle" /\ at'[r] = "check"
                       /\ token'[r] \in Mints
                       /\ invites[token'[r]] # Null
                       /\ inv'[r] = invites[token'[r]]
                       /\ UNCHANGED <<users, invites>>
                    \/ /\ at[r] = "check" /\ at'[r] = "insert"
                       /\ UNCHANGED <<users, invites>>
                    \/ at[r] = "insert" /\ at'[r] = "mark" /\ users'[r] # Null
                    \/ /\ at[r] = "mark" /\ at'[r] = "login"
                       /\ token[r] \in Mints =>
                             invites'[token[r]].redeemedBy = r
                       /\ UNCHANGED users
                    \/ at[r] = "login" /\ at'[r] = "created"
  BY DEF RedeemEffect
<1> DEFINE Moved(c) == \A d \in Calls \ {c} : at'[d] = at[d]
<1>0. \A c \in Calls : \A label : Goto(c, label) => at'[c] = label /\ Moved(c)
  BY DEF Goto, TypeOK
<1>1. ASSUME NEW q \in Redeems, RedeemLookup(q) PROVE r = q
  BY <1>1, <1>0 DEF RedeemLookup
<1>2. ASSUME NEW q \in Redeems, RedeemStep(q) PROVE r = q
  BY <1>2, <1>0 DEF RedeemStep, RedeemCheck, RedeemInsert, RedeemMark,
     RedeemLogin
<1>3. CASE RedeemLookup(r)
  BY <1>3, <1>0 DEF RedeemLookup, TypeOK
<1>4. CASE RedeemCheck(r)
  BY <1>4, <1>0 DEF RedeemCheck
<1>5. CASE RedeemInsert(r)
  <2>1. at[r] = "insert"
    BY <1>5 DEF RedeemInsert
  <2>2. at'[r] = "failed" \/ (at'[r] = "mark" /\ users'[r] # Null)
    BY <1>5, <1>0, CreateUserEffect DEF RedeemInsert
  <2> QED BY <2>1, <2>2
<1>6. CASE RedeemMark(r)
  <2>1. at[r] = "mark" /\ UNCHANGED users
    BY <1>6 DEF RedeemMark
  <2>2. \/ at'[r] = "failed"
        \/ /\ at'[r] = "login"
           /\ OpenRow(invites[token[r]])
           /\ invites' = [invites EXCEPT ![token[r]].redeemedBy = r]
    BY <1>6, <1>0 DEF RedeemMark
  <2>3. ASSUME token[r] \in Mints, OpenRow(invites[token[r]]),
               invites' = [invites EXCEPT ![token[r]].redeemedBy = r]
        PROVE  invites'[token[r]].redeemedBy = r
    <3>1. invites[token[r]] \in InviteRows
      BY <2>3 DEF TypeOK, OpenRow
    <3> QED BY <2>3, <3>1 DEF InviteRows, TypeOK
  <2> QED BY <2>1, <2>2, <2>3
<1>7. CASE RedeemLogin(r)
  BY <1>7, <1>0 DEF RedeemLogin
<1>8. ASSUME NEW s \in Setups, SetupCount(s) \/ SetupInsert(s)
                               \/ SetupInterrupted(s)
      PROVE  FALSE
  BY <1>8, <1>0, CallsAssumption
     DEF SetupCount, SetupInsert, SetupInterrupted
<1>9. ASSUME NEW m \in Mints, MintInvite(m) PROVE FALSE
  BY <1>9, <1>0, CallsAssumption DEF MintInvite
<1>10. CASE ServerCrash
  BY <1>10 DEF ServerCrash
<1> QED BY <1>1, <1>2, <1>3, <1>4, <1>5, <1>6, <1>7, <1>8, <1>9, <1>10
        DEF Next, RedeemStep, vars, Tick, Quiet

\* How setups and mints advance, and that neither opens a session.
LEMMA OtherEffectStep == TypeOK /\ [Next]_vars => OtherEffect
<1> SUFFICES ASSUME TypeOK, [Next]_vars PROVE OtherEffect
  OBVIOUS
<1> USE CallsAssumption DEF Goto, TypeOK, Answers, InFlight
<1>1. ASSUME NEW s \in Setups
      PROVE  \/ at'[s] = at[s]
             \/ at'[s] \in Answers
             \/ at[s] = "idle" /\ at'[s] = "insert" /\ UNCHANGED users
  BY DEF Next, RedeemStep, vars, SetupCount, SetupInsert,
       SetupInterrupted, MintInvite, RedeemLookup, RedeemCheck, RedeemInsert,
       RedeemMark, RedeemLogin, ServerCrash, Tick, Quiet
<1>2. ASSUME NEW t \in Mints
      PROVE  at'[t] = at[t] \/ at'[t] \in Answers
  <2>1. ASSUME NEW m \in Mints, MintInvite(m)
        PROVE  at'[t] = at[t] \/ at'[t] \in Answers
    BY <2>1 DEF MintInvite
  <2>2. ASSUME NEW c \in Accounts, NEW label, Goto(c, label)
        PROVE  at'[t] = at[t]
    BY <2>2
  <2>3. ASSUME NEW s \in Setups,
               SetupCount(s) \/ SetupInsert(s) \/ SetupInterrupted(s)
        PROVE  at'[t] = at[t]
    BY <2>2, <2>3 DEF SetupCount, SetupInsert, SetupInterrupted
  <2>4. ASSUME NEW r \in Redeems, RedeemLookup(r) \/ RedeemStep(r)
        PROVE  at'[t] = at[t]
    <3> HIDE DEF Goto, TypeOK
    <3> QED BY <2>2, <2>4 DEF RedeemLookup, RedeemStep, RedeemCheck,
               RedeemInsert, RedeemMark, RedeemLogin
  <2>5. CASE ServerCrash \/ Tick \/ Quiet \/ UNCHANGED vars
    BY <2>5 DEF ServerCrash, Tick, Quiet, vars
  <2> QED BY <2>1, <2>3, <2>4, <2>5 DEF Next
<1>3. ASSUME NEW r \in Redeems, r \in sessions'
      PROVE  r \in sessions \/ at[r] = "login"
  BY <1>3 DEF Next, RedeemStep, vars, SetupCount, SetupInsert,
       SetupInterrupted, MintInvite, RedeemLookup, RedeemCheck, RedeemInsert,
       RedeemMark, RedeemLogin, ServerCrash, Tick, Quiet
<1> QED BY <1>1, <1>2, <1>3 DEF OtherEffect

-----------------------------------------------------------------------------
(* The inductive invariant. *)

\* The inductive invariant holds of an empty database.
LEMMA InductiveInit == Init => Inductive
<1> SUFFICES ASSUME Init PROVE Inductive
  OBVIOUS
<1>1. TypeOK
  BY TypeInit
<1> QED BY <1>1, CallsAssumption
        DEF Init, Inductive, AccountsInStep, InvitesInStep, SnapshotsAgree,
            CreditFirst, InviteOnly, NoDanglingReference,
            OneAccountPerIdentity, OnTerms, Redeemed, InFlight

\* What earlier steps put in the tables stays: accounts never change, and an
\* invite keeps its terms and its credit.
LEMMA Kept ==
    ASSUME Inductive, UserEffect, InviteEffect, RequestEffect
    PROVE  /\ \A c \in Accounts : users[c] # Null => users'[c] = users[c]
           /\ \A t \in Mints : invites[t] # Null =>
                 /\ invites'[t] # Null
                 /\ invites'[t].role = invites[t].role
                 /\ invites'[t].email = invites[t].email
                 /\ invites'[t].createdBy = invites[t].createdBy
                 /\ invites[t].redeemedBy # Null => invites'[t] = invites[t]
           /\ \A r \in Redeems : users[r] # Null => token'[r] = token[r]
           /\ Admins \subseteq Admins'
<1>1. \A c \in Accounts : users[c] # Null => users'[c] = users[c]
  BY DEF UserEffect, Inductive, AccountsInStep
<1>2. ASSUME NEW t \in Mints, invites[t] # Null
      PROVE  /\ invites'[t] # Null
             /\ invites'[t].role = invites[t].role
             /\ invites'[t].email = invites[t].email
             /\ invites'[t].createdBy = invites[t].createdBy
             /\ invites[t].redeemedBy # Null => invites'[t] = invites[t]
  <2>1. CASE invites'[t] = invites[t]
    BY <1>2, <2>1
  <2>2. CASE invites'[t] # invites[t]
    <3>1. invites[t].redeemedBy = Null
      BY <1>2, <2>2 DEF InviteEffect, Inductive, InvitesInStep
    <3>2. PICK r \in Redeems : invites'[t] = [invites[t] EXCEPT !.redeemedBy = r]
      BY <1>2, <2>2 DEF InviteEffect, Inductive, InvitesInStep
    <3>3. invites[t] \in InviteRows
      BY <1>2 DEF Inductive, TypeOK
    <3>4. invites'[t] \in InviteRows
      BY <3>2, <3>3 DEF InviteRows
    <3> QED BY <3>1, <3>2, <3>3, <3>4, NullAssumption DEF InviteRows
  <2> QED BY <2>1, <2>2
<1>3. \A r \in Redeems : users[r] # Null => token'[r] = token[r]
  BY DEF RequestEffect, Inductive, AccountsInStep
<1>4. Admins \subseteq Admins'
  BY <1>1 DEF Admins
<1> QED BY <1>1, <1>2, <1>3, <1>4

\* A step keeps accounts in step with the calls that make them: no row before
\* the insert, a row after it.
LEMMA AccountsInStepStep ==
    ASSUME Inductive, UserEffect, RedeemEffect, OtherEffect
    PROVE  AccountsInStep'
<1>1. ASSUME NEW c \in Accounts,
             at'[c] \in {"idle", "check", "insert"}
      PROVE  users'[c] = Null
  <2>1. users'[c] = users[c]
    BY <1>1 DEF UserEffect
  <2>2. CASE c \in Setups
    BY <1>1, <2>1, <2>2 DEF Inductive, AccountsInStep, OtherEffect, Answers
  <2>3. CASE c \in Redeems
    BY <1>1, <2>1, <2>3 DEF Inductive, AccountsInStep, RedeemEffect
  <2> QED BY <2>2, <2>3
<1>2. ASSUME NEW c \in Accounts, at'[c] \in {"mark", "login"}
      PROVE  users'[c] # Null
  <2>1. users[c] # Null => users'[c] # Null
    BY NullAssumption DEF UserEffect
  <2>2. CASE c \in Setups
    BY <1>2, <2>1, <2>2 DEF Inductive, AccountsInStep, OtherEffect, Answers
  <2>3. CASE c \in Redeems
    BY <1>2, <2>1, <2>3 DEF Inductive, AccountsInStep, RedeemEffect
  <2> QED BY <2>2, <2>3
<1>3. ASSUME NEW c \in Setups, users'[c] # Null
      PROVE  users'[c].role = "admin"
  BY <1>3 DEF Inductive, AccountsInStep, UserEffect
<1> QED BY <1>1, <1>2, <1>3 DEF AccountsInStep

\* A step keeps invites in step with the calls that mint them, and their emails
\* in normal form.
LEMMA InvitesInStepStep ==
    ASSUME Inductive, InviteEffect, OtherEffect
    PROVE  InvitesInStep'
<1> SUFFICES ASSUME NEW t \in Mints
             PROVE  /\ at'[t] = "idle" => invites'[t] = Null
                    /\ invites'[t] # Null =>
                          NormalizeEmail[invites'[t].email] = invites'[t].email
  BY DEF InvitesInStep
<1>1. at'[t] = "idle" => at[t] = "idle"
  BY DEF OtherEffect, Answers
<1>2. CASE invites'[t] = invites[t]
  BY <1>1, <1>2 DEF Inductive, InvitesInStep
<1>3. CASE invites'[t] # invites[t] /\ invites[t] = Null
  BY <1>1, <1>3 DEF InviteEffect
<1>4. CASE invites'[t] # invites[t] /\ invites[t] # Null
  <2>1. PICK r \in Redeems : invites'[t] = [invites[t] EXCEPT !.redeemedBy = r]
    BY <1>4 DEF InviteEffect, Inductive, InvitesInStep
  <2>2. invites'[t].email = invites[t].email
    BY <1>4, <2>1 DEF Inductive, TypeOK, InviteRows
  <2> QED BY <1>1, <1>4, <2>2 DEF Inductive, InvitesInStep
<1> QED BY <1>2, <1>3, <1>4

\* A step never makes what a redemption remembers of its invite disagree with
\* the row in the role or the email: only the credit can go stale.
LEMMA SnapshotsAgreeStep ==
    ASSUME Inductive, UserEffect, InviteEffect, RequestEffect, RedeemEffect
    PROVE  SnapshotsAgree'
<1> SUFFICES ASSUME NEW r \in Redeems, at'[r] \in InFlight
             PROVE  /\ token'[r] \in Mints
                    /\ inv'[r] # Null
                    /\ invites'[token'[r]] # Null
                    /\ inv'[r].role = invites'[token'[r]].role
                    /\ inv'[r].email = invites'[token'[r]].email
  BY DEF SnapshotsAgree, InFlight
<1>1. CASE at[r] \in InFlight
  <2>1. token'[r] = token[r] /\ inv'[r] = inv[r]
    BY <1>1 DEF RequestEffect, InFlight
  <2> QED BY <1>1, <2>1, Kept DEF Inductive, SnapshotsAgree
<1>2. CASE at[r] \notin InFlight
  BY <1>2 DEF RedeemEffect, InFlight
<1> QED BY <1>1, <1>2

\* An account made under an invite's terms stays so.
LEMMA OnTermsKept ==
    ASSUME Inductive, UserEffect, InviteEffect, RequestEffect,
           NEW r \in Redeems, OnTerms(r)
    PROVE  OnTerms(r)'
<1>1. users'[r] = users[r] /\ token'[r] = token[r]
  BY Kept DEF OnTerms
<1>2. /\ invites'[token[r]] # Null
      /\ invites'[token[r]].role = invites[token[r]].role
      /\ invites'[token[r]].email = invites[token[r]].email
  BY Kept DEF OnTerms
<1> QED BY <1>1, <1>2 DEF OnTerms

\* A step that makes an account from an invite makes it on that invite's terms,
\* because the remembered row still agrees with the stored one.
LEMMA InviteOnlyStep ==
    ASSUME Inductive, UserEffect, InviteEffect, RequestEffect
    PROVE  InviteOnly'
<1> SUFFICES ASSUME NEW r \in Redeems, users'[r] # Null
             PROVE  OnTerms(r)'
  BY DEF InviteOnly
<1>1. CASE users[r] # Null
  BY <1>1, OnTermsKept DEF Inductive, InviteOnly
<1>2. CASE users[r] = Null
  <2>1. /\ at[r] = "insert"
        /\ users'[r].role = inv[r].role
        /\ inv[r].email # NoEmail =>
              users'[r].email = NormalizeEmail[inv[r].email]
        /\ UNCHANGED <<invites, token>>
    BY <1>2 DEF UserEffect
  <2>2. /\ token[r] \in Mints
        /\ invites[token[r]] # Null
        /\ inv[r].role = invites[token[r]].role
        /\ inv[r].email = invites[token[r]].email
    BY <2>1 DEF Inductive, SnapshotsAgree, InFlight
  <2>3. NormalizeEmail[invites[token[r]].email] = invites[token[r]].email
    BY <2>2 DEF Inductive, InvitesInStep
  <2> QED BY <2>1, <2>2, <2>3 DEF OnTerms
<1> QED BY <1>1, <1>2

\* A step answers "created", or opens a session, only for a redemption whose
\* credit is already written.
LEMMA CreditFirstStep ==
    ASSUME Inductive, UserEffect, InviteEffect, RequestEffect, RedeemEffect,
           OtherEffect
    PROVE  CreditFirst'
<1>1. ASSUME NEW r \in Redeems, Credited(r)
      PROVE  Credited(r)'
  <2>1. OnTerms(r)'
    BY <1>1, OnTermsKept DEF Credited
  <2>2. token'[r] = token[r]
    BY <1>1, Kept DEF Credited, OnTerms
  <2>3. r # Null
    BY NullAssumption
  <2>4. invites'[token[r]] = invites[token[r]]
    BY <1>1, <2>3, Kept DEF Credited, OnTerms
  <2> QED BY <1>1, <2>1, <2>2, <2>4 DEF Credited
<1>2. ASSUME NEW r \in Redeems, at'[r] = "login", at[r] # "login"
      PROVE  Credited(r)'
  <2>1. /\ at[r] = "mark"
        /\ token[r] \in Mints => invites'[token[r]].redeemedBy = r
    BY <1>2 DEF RedeemEffect
  <2>2. OnTerms(r)
    BY <2>1 DEF Inductive, AccountsInStep, InviteOnly
  <2>3. OnTerms(r)'
    BY <2>2, OnTermsKept
  <2>4. token'[r] = token[r]
    BY <2>2, Kept DEF OnTerms
  <2> QED BY <2>1, <2>2, <2>3, <2>4 DEF Credited, OnTerms
<1>3. ASSUME NEW r \in Redeems, at'[r] = "created"
      PROVE  at[r] \in {"login", "created"}
  BY <1>3 DEF RedeemEffect
<1>4. ASSUME NEW r \in Redeems, r \in sessions'
      PROVE  r \in sessions \/ at[r] = "login"
  BY <1>4 DEF OtherEffect
<1> QED BY <1>1, <1>2, <1>3, <1>4 DEF CreditFirst, Inductive

\* A step leaves every invite minted by an admin and credited to an account made
\* from it: a row once inserted is never deleted.
LEMMA NoDanglingReferenceStep ==
    ASSUME Inductive, UserEffect, InviteEffect, RequestEffect
    PROVE  NoDanglingReference'
<1> SUFFICES ASSUME NEW t \in Mints, invites'[t] # Null
             PROVE  /\ invites'[t].createdBy \in Admins'
                    /\ invites'[t].redeemedBy # Null =>
                          \E r \in Redeems : /\ invites'[t].redeemedBy = r
                                             /\ token'[r] = t
                                             /\ OnTerms(r)'
  BY DEF NoDanglingReference, Redeemed, OnTerms
<1>1. invites'[t].createdBy \in Admins'
  <2>1. CASE invites[t] # Null
    BY <2>1, Kept DEF Inductive, NoDanglingReference
  <2>2. CASE invites[t] = Null
    BY <2>2, Kept DEF InviteEffect
  <2> QED BY <2>1, <2>2
<1>2. ASSUME invites[t] # Null, invites[t].redeemedBy # Null
      PROVE  \E r \in Redeems : /\ invites'[t].redeemedBy = r
                                /\ token'[r] = t
                                /\ OnTerms(r)'
  <2>1. PICK r \in Redeems :
           invites[t].redeemedBy = r /\ token[r] = t /\ OnTerms(r)
    BY <1>2 DEF Inductive, NoDanglingReference, Redeemed, OnTerms
  <2>2. invites'[t].redeemedBy = r
    BY <1>2, <2>1, Kept
  <2>3. OnTerms(r)'
    BY <2>1, OnTermsKept
  <2>4. token'[r] = t
    BY <2>1, Kept DEF OnTerms
  <2> QED BY <2>2, <2>3, <2>4
<1>3. ASSUME invites[t] = Null \/ invites[t].redeemedBy = Null,
             invites'[t].redeemedBy # Null
      PROVE  \E r \in Redeems : /\ invites'[t].redeemedBy = r
                                /\ token'[r] = t
                                /\ OnTerms(r)'
  <2>1. invites'[t] # invites[t]
    BY <1>3
  <2>2. PICK r \in Redeems :
           /\ invites[t] # Null
           /\ at[r] = "mark"
           /\ token[r] = t
           /\ invites'[t] = [invites[t] EXCEPT !.redeemedBy = r]
           /\ UNCHANGED token
    BY <1>3, <2>1 DEF InviteEffect
  <2>3. invites[t] \in InviteRows
    BY <2>2 DEF Inductive, TypeOK
  <2>4. invites'[t].redeemedBy = r
    BY <2>2, <2>3 DEF InviteRows
  <2>5. OnTerms(r)
    BY <2>2 DEF Inductive, AccountsInStep, InviteOnly
  <2>6. OnTerms(r)'
    BY <2>5, OnTermsKept
  <2> QED BY <2>2, <2>4, <2>6
<1> QED BY <1>1, <1>2, <1>3

\* A step that inserts an account finds its normalized email free.
LEMMA OneAccountPerIdentityStep ==
    ASSUME Inductive, UserEffect
    PROVE  OneAccountPerIdentity'
<1> SUFFICES ASSUME NEW c \in Accounts, NEW d \in Accounts,
                    users'[c] # Null, users'[d] # Null
             PROVE  /\ NormalizeEmail[users'[c].email] = users'[c].email
                    /\ users'[c].email = users'[d].email => c = d
  BY DEF OneAccountPerIdentity
<1>1. CASE users'[c] # users[c]
  BY <1>1 DEF UserEffect
<1>2. CASE users'[d] # users[d] /\ users'[c] = users[c]
  BY <1>2 DEF UserEffect, Inductive, OneAccountPerIdentity
<1>3. CASE users'[c] = users[c] /\ users'[d] = users[d]
  BY <1>3 DEF Inductive, OneAccountPerIdentity
<1> QED BY <1>1, <1>2, <1>3

\* Every step preserves the inductive invariant.
LEMMA InductiveStep == Inductive /\ [Next]_vars => Inductive'
<1> SUFFICES ASSUME Inductive, [Next]_vars PROVE Inductive'
  OBVIOUS
<1>1. TypeOK /\ TypeOK'
  BY TypeStep DEF Inductive
<1>2. UserEffect /\ InviteEffect /\ RequestEffect
  BY <1>1, UserEffectStep, InviteEffectStep, RequestEffectStep
<1>3. RedeemEffect /\ OtherEffect
  BY <1>1, RedeemEffectStep, OtherEffectStep
<1>4. AccountsInStep' /\ InvitesInStep' /\ SnapshotsAgree'
  BY <1>2, <1>3, AccountsInStepStep, InvitesInStepStep, SnapshotsAgreeStep
<1>5. InviteOnly' /\ CreditFirst'
  BY <1>2, <1>3, InviteOnlyStep, CreditFirstStep
<1>6. NoDanglingReference' /\ OneAccountPerIdentity'
  BY <1>2, NoDanglingReferenceStep, OneAccountPerIdentityStep
<1> QED BY <1>1, <1>4, <1>5, <1>6 DEF Inductive

\* The inductive invariant, from which the safety properties follow, holds in
\* every reachable state.
THEOREM InductiveInvariant == Spec => []Inductive
BY InductiveInit, InductiveStep, PTL DEF Spec

-----------------------------------------------------------------------------
(* The safety properties. *)

\* At most one redemption of a token is ever answered "created": two of them
\* would both be the one account the row credits.
THEOREM OneSuccess == Spec => []OneSuccessPerInvite
<1>1. Inductive => OneSuccessPerInvite
  BY DEF Inductive, CreditFirst, Credited, OneSuccessPerInvite
<1> QED BY <1>1, InductiveInvariant, PTL

\* Whoever is told "created" or is logged in by a redemption is the account
\* the invite is credited to.
THEOREM SuccessIsCredited == Spec => []SuccessMeansCredited
<1>1. Inductive => SuccessMeansCredited
  BY DEF Inductive, CreditFirst, SuccessMeansCredited
<1> QED BY <1>1, InductiveInvariant, PTL

\* The tables refer only to rows that exist and agree with them.
THEOREM ReferencesHold == Spec => []NoDanglingReference
<1>1. Inductive => NoDanglingReference
  BY DEF Inductive
<1> QED BY <1>1, InductiveInvariant, PTL

\* Every account but those of --setup was made under an invite's terms.
THEOREM ProvisionedByInvite == Spec => []InviteOnly
<1>1. Inductive => InviteOnly
  BY DEF Inductive
<1> QED BY <1>1, InductiveInvariant, PTL

\* No two accounts have the same normalized email.
THEOREM IdentitiesUnique == Spec => []OneAccountPerIdentity
<1>1. Inductive => OneAccountPerIdentity
  BY DEF Inductive
<1> QED BY <1>1, InductiveInvariant, PTL

\* An invite bound to an email makes one account at most: both of two accounts
\* would carry that email.
THEOREM BoundInviteIsSingleUse == Spec => []BoundInviteOneAccount
<1>1. Inductive => BoundInviteOneAccount
  <2> SUFFICES ASSUME Inductive, NEW r \in Redeems, NEW q \in Redeems,
                      users[r] # Null, users[q] # Null, token[r] = token[q],
                      invites[token[r]].email # NoEmail
               PROVE  r = q
    BY DEF BoundInviteOneAccount
  <2>1. OnTerms(r) /\ OnTerms(q)
    BY DEF Inductive, InviteOnly
  <2>2. users[r].email = users[q].email
    BY <2>1 DEF OnTerms
  <2> QED BY <2>2 DEF Inductive, OneAccountPerIdentity
<1> QED BY <1>1, InductiveInvariant, PTL

\* No step reassigns a credited invite or changes the terms of any invite.
THEOREM CreditStaysFinal == Spec => CreditIsFinal
<1> DEFINE Final == \A t \in Mints : invites[t] # Null =>
          /\ invites'[t] # Null
          /\ Redeemed(invites[t]) => invites'[t] = invites[t]
          /\ [invites'[t] EXCEPT !.redeemedBy = Null]
                 = [invites[t] EXCEPT !.redeemedBy = Null]
<1>1. Inductive /\ [Next]_vars => [Final]_vars
  <2> SUFFICES ASSUME Inductive, [Next]_vars, NEW t \in Mints, invites[t] # Null
               PROVE  /\ invites'[t] # Null
                      /\ Redeemed(invites[t]) => invites'[t] = invites[t]
                      /\ [invites'[t] EXCEPT !.redeemedBy = Null]
                             = [invites[t] EXCEPT !.redeemedBy = Null]
    OBVIOUS
  <2>1. UserEffect /\ InviteEffect /\ RequestEffect
    BY UserEffectStep, InviteEffectStep, RequestEffectStep DEF Inductive
  <2>2. invites'[t] # Null /\ (Redeemed(invites[t]) => invites'[t] = invites[t])
    BY <2>1, Kept DEF Redeemed
  <2>3. [invites'[t] EXCEPT !.redeemedBy = Null]
            = [invites[t] EXCEPT !.redeemedBy = Null]
    <3>1. CASE invites'[t] = invites[t]
      BY <3>1
    <3>2. CASE invites'[t] # invites[t]
      <4>1. PICK r \in Redeems :
               invites'[t] = [invites[t] EXCEPT !.redeemedBy = r]
        BY <2>1, <3>2 DEF InviteEffect, Inductive, InvitesInStep
      <4>2. invites[t] \in InviteRows
        BY DEF Inductive, TypeOK
      <4> QED BY <4>1, <4>2 DEF InviteRows
    <3> QED BY <3>1, <3>2
  <2> QED BY <2>2, <2>3
<1>2. Inductive /\ [Next]_vars => [\A t \in Mints : invites[t] # Null =>
          /\ invites'[t] # Null
          /\ Redeemed(invites[t]) => invites'[t] = invites[t]
          /\ [invites'[t] EXCEPT !.redeemedBy = Null]
                 = [invites[t] EXCEPT !.redeemedBy = Null]]_vars
  BY <1>1
<1> QED BY <1>2, InductiveInvariant, PTL DEF Spec, CreditIsFinal

-----------------------------------------------------------------------------
(* What is over stays over: two properties of the whole future of a call.   *)

\* No step turns the clock back.
LEMMA ClockStep ==
    TypeOK /\ [Next]_vars => now \in Nat /\ now' \in Nat /\ now <= now'
<1> SUFFICES ASSUME TypeOK, [Next]_vars
             PROVE  now \in Nat /\ now' \in Nat /\ now <= now'
  OBVIOUS
<1>1. now \in Nat
  BY TimeAssumption DEF TypeOK
<1>2. CASE Tick
  BY <1>1, <1>2 DEF Tick
<1>3. \A m \in Mints : MintInvite(m) => UNCHANGED now
  BY ZenonT(30) DEF MintInvite
<1>4. CASE UNCHANGED now
  BY <1>1, <1>4
<1> QED BY <1>2, <1>3, <1>4 DEF Next, RedeemStep, vars, SetupCount,
           SetupInsert, SetupInterrupted, RedeemLookup, RedeemCheck,
           RedeemInsert, RedeemMark, RedeemLogin, ServerCrash, Quiet

\* A redemption passes its check only with a row that is valid at that moment,
\* and a setup its own only on an empty users table.
LEMMA PassedStep ==
    ASSUME TypeOK, [Next]_vars, NEW c \in Accounts,
           at[c] # "insert", at'[c] = "insert"
    PROVE  /\ c \in Redeems => Valid(inv[c], now)
           /\ c \in Setups => ~(Count > 0)
<1>0. \A d \in Calls : \A label : Goto(d, label) =>
         at'[d] = label /\ \A e \in Calls \ {d} : at'[e] = at[e]
  BY DEF Goto, TypeOK
<1>1. ASSUME NEW s \in Setups,
             SetupCount(s) \/ SetupInsert(s) \/ SetupInterrupted(s)
      PROVE  c = s /\ ~(Count > 0)
  <2>1. c = s
    BY <1>1, <1>0 DEF SetupCount, SetupInsert, SetupInterrupted
  <2>2. SetupCount(s)
    BY <1>1, <1>0, <2>1 DEF SetupInsert, SetupInterrupted
  <2>3. CASE Count > 0
    <3>1. Goto(s, "refused") \/ Goto(s, "failed")
      BY <2>2, <2>3 DEF SetupCount
    <3> QED BY <3>1, <2>1, <1>0
  <2> QED BY <2>1, <2>3
<1>2. ASSUME NEW r \in Redeems, RedeemLookup(r) \/ RedeemStep(r)
      PROVE  c = r /\ Valid(inv[c], now)
  <2>1. c = r
    BY <1>2, <1>0 DEF RedeemStep, RedeemLookup, RedeemCheck, RedeemInsert,
       RedeemMark, RedeemLogin
  <2>2. RedeemCheck(r)
    BY <1>2, <1>0, <2>1 DEF RedeemStep, RedeemLookup, RedeemInsert, RedeemMark,
       RedeemLogin
  <2> QED BY <2>1, <2>2, <1>0 DEF RedeemCheck
<1>3. ASSUME NEW m \in Mints, MintInvite(m) PROVE FALSE
  <2>1. Goto(m, "created") \/ Goto(m, "failed")
    BY <1>3, ZenonT(30) DEF MintInvite
  <2> QED BY <2>1, <1>0, CallsAssumption
<1>4. CASE ServerCrash
  BY <1>4 DEF ServerCrash
<1> QED BY <1>1, <1>2, <1>3, <1>4, CallsAssumption DEF Next, vars, Tick, Quiet

\* The invite of token t admits nobody any more.
Spent(t) ==
    /\ invites[t] # Null
    /\ invites[t].redeemedBy # Null \/ now >= invites[t].expires

\* Redemption r can no longer make an account with token t: it has not looked
\* the token up, or holds a copy that the check refuses, or was refused.
ShutOut(r, t) ==
    /\ Spent(t)
    /\ token[r] = t => users[r] = Null
    /\ \/ at[r] = "idle" \/ token[r] # t
       \/ at[r] = "check" /\ ~Valid(inv[r], now)
       \/ at[r] \in {"invalid", "failed", "lost"}

\* A spent invite stays spent: its credit is final and the clock goes on.
LEMMA SpentStep ==
    ASSUME Inductive, [Next]_vars, NEW t \in Mints, Spent(t)
    PROVE  Spent(t)'
<1>1. InviteEffect /\ now \in Nat /\ now' \in Nat /\ now <= now'
  BY InviteEffectStep, ClockStep DEF Inductive
<1>2. at[t] # "idle" /\ invites[t] \in InviteRows
  BY DEF Inductive, InvitesInStep, TypeOK, Spent
<1>3. CASE invites'[t] = invites[t]
  BY <1>1, <1>2, <1>3 DEF Spent, InviteRows
<1>4. CASE invites'[t] # invites[t]
  <2>1. PICK r \in Redeems : invites'[t] = [invites[t] EXCEPT !.redeemedBy = r]
    BY <1>1, <1>2, <1>4 DEF InviteEffect
  <2>2. invites'[t].redeemedBy = r /\ invites'[t] \in InviteRows
    BY <2>1, <1>2 DEF InviteRows
  <2> QED BY <2>2, NullAssumption DEF Spent
<1> QED BY <1>3, <1>4

\* Once shut out, a redemption is shut out for ever.
LEMMA ShutOutStep ==
    ASSUME Inductive, [Next]_vars, NEW r \in Redeems, NEW t \in Mints,
           ShutOut(r, t)
    PROVE  ShutOut(r, t)'
<1>1. /\ UserEffect /\ RequestEffect /\ RedeemEffect
      /\ now \in Nat /\ now' \in Nat /\ now <= now'
  BY UserEffectStep, RequestEffectStep, RedeemEffectStep, ClockStep DEF Inductive
<1>2. Spent(t)'
  BY SpentStep DEF ShutOut
<1>3. CASE at[r] = "idle"
  <2>1. users'[r] = Null
    BY <1>1, <1>3 DEF UserEffect, Inductive, AccountsInStep
  <2>2. CASE at'[r] = "check"
    <3>1. inv'[r] = invites'[token'[r]]
      BY <1>1, <1>3, <2>2 DEF RedeemEffect
    <3>2. ASSUME token'[r] = t PROVE ~Valid(inv[r], now)'
      <4>1. inv'[r] = invites'[t] /\ invites[t] = invites'[t]
        BY <1>1, <1>3, <2>2, <3>1, <3>2 DEF RedeemEffect
      <4>2. invites'[t] \in InviteRows
        BY <4>1, <1>2 DEF Inductive, TypeOK, Spent
      <4> QED BY <4>1, <4>2, <1>1, <1>2 DEF Spent, Valid, Redeemed, InviteRows
    <3> QED BY <1>2, <2>1, <2>2, <3>2 DEF ShutOut
  <2>3. CASE at'[r] # "check"
    <3>1. at'[r] \in {"idle", "invalid", "failed", "lost"}
      BY <1>1, <1>3, <2>3 DEF RedeemEffect
    <3> QED BY <1>2, <2>1, <3>1 DEF ShutOut
  <2> QED BY <2>2, <2>3
<1>4. CASE at[r] # "idle" /\ token[r] # t
  BY <1>1, <1>2, <1>4 DEF RequestEffect, ShutOut
<1>5. CASE at[r] # "idle" /\ token[r] = t
  <2>1. token'[r] = token[r] /\ inv'[r] = inv[r]
    BY <1>1, <1>5 DEF RequestEffect
  <2>2. at[r] # "insert" /\ users'[r] = Null
    BY <1>1, <1>5 DEF ShutOut, UserEffect
  <2>3. CASE at[r] = "check" /\ ~Valid(inv[r], now)
    <3>1. at'[r] # "insert"
      BY <2>3, PassedStep DEF Inductive
    <3>2. at'[r] \in {"check", "invalid", "failed", "lost"}
      BY <1>1, <2>3, <3>1 DEF RedeemEffect
    <3>3. inv[r] \in InviteRows
      BY <2>3 DEF Inductive, SnapshotsAgree, InFlight, TypeOK
    <3>4. ~Valid(inv[r], now)'
      BY <1>1, <2>1, <2>3, <3>3 DEF Valid, Redeemed, InviteRows
    <3> QED BY <1>2, <2>2, <3>2, <3>4 DEF ShutOut
  <2>4. CASE at[r] \in {"invalid", "failed", "lost"}
    <3>1. at'[r] \in {"invalid", "failed", "lost"}
      BY <1>1, <2>4 DEF RedeemEffect
    <3> QED BY <1>2, <2>2, <3>1 DEF ShutOut
  <2> QED BY <1>5, <2>3, <2>4 DEF ShutOut
<1> QED BY <1>3, <1>4, <1>5

\* A redemption that arrives once its invite is credited or past its expiry
\* leaves no account behind, at any later time.
THEOREM SpentInvitesStayShut == Spec => SpentInviteAdmitsNobody
<1>1. ASSUME NEW r \in Redeems, NEW t \in Mints
      PROVE  Spec => []((/\ at[r] = "idle"
                         /\ invites[t] # Null
                         /\ invites[t].redeemedBy # Null
                            \/ now >= invites[t].expires)
                           => [](token[r] = t => users[r] = Null))
  <2>1. Inductive /\ at[r] = "idle" /\ Spent(t) => ShutOut(r, t)
    BY DEF Inductive, AccountsInStep, ShutOut
  <2>2. Inductive /\ [Next]_vars /\ ShutOut(r, t) => ShutOut(r, t)'
    BY ShutOutStep
  <2>3. ShutOut(r, t) => (token[r] = t => users[r] = Null)
    BY DEF ShutOut
  <2>4. (/\ at[r] = "idle"
         /\ invites[t] # Null
         /\ invites[t].redeemedBy # Null \/ now >= invites[t].expires)
            => at[r] = "idle" /\ Spent(t)
    BY DEF Spent
  <2> QED BY <2>1, <2>2, <2>3, <2>4, InductiveInvariant, PTL DEF Spec
<1> QED BY <1>1 DEF SpentInviteAdmitsNobody

\* The users table is finite, although no bound is put on the calls.
FiniteTable == IsFiniteSet({c \in Accounts : users[c] # Null})

\* Count reads an empty table exactly when nobody has an account.
LEMMA CountPositive ==
    ASSUME NEW table, IsFiniteSet({c \in Accounts : table[c] # Null})
    PROVE  Cardinality({c \in Accounts : table[c] # Null}) > 0
              <=> \E c \in Accounts : table[c] # Null
<1> DEFINE U == {c \in Accounts : table[c] # Null}
<1>1. Cardinality(U) \in Nat /\ (Cardinality(U) = 0 <=> U = {})
  BY FS_CardinalityType, FS_EmptySet
<1> QED BY <1>1

\* A step adds at most one row to users.
LEMMA FiniteTableStep ==
    ASSUME FiniteTable, UserEffect
    PROVE  FiniteTable'
<1> DEFINE U == {c \in Accounts : users[c] # Null}
<1>1. CASE \A c \in Accounts : users'[c] = users[c]
  <2>1. U' = U
    BY <1>1
  <2> QED BY <2>1 DEF FiniteTable
<1>2. CASE \E c \in Accounts : users'[c] # users[c]
  <2>1. PICK c \in Accounts : users'[c] # users[c]
    BY <1>2
  <2>2. \A d \in Accounts \ {c} : users'[d] = users[d]
    BY <2>1 DEF UserEffect
  <2>3. U' \subseteq U \cup {c}
    BY <2>2
  <2>4. IsFiniteSet(U \cup {c})
    BY FS_AddElement DEF FiniteTable
  <2>5. IsFiniteSet(U')
    <3> HIDE DEF U
    <3> QED BY <2>3, <2>4, FS_Subset
  <2> QED BY <2>5 DEF FiniteTable
<1> QED BY <1>1, <1>2

\* Setup s can no longer make an admin: the instance has an account and s is
\* not past its check.
LockedOut(s) == Count > 0 /\ users[s] = Null /\ at[s] # "insert"

\* Once locked out, a setup is locked out for ever.
LEMMA LockedOutStep ==
    ASSUME TypeOK, FiniteTable, [Next]_vars, NEW s \in Setups, LockedOut(s)
    PROVE  LockedOut(s)'
<1>1. UserEffect
  BY UserEffectStep
<1>2. FiniteTable'
  BY <1>1, FiniteTableStep
<1>3. PICK c \in Accounts : users[c] # Null
  BY CountPositive DEF LockedOut, Count, FiniteTable
<1>4. \E d \in Accounts : users'[d] # Null
  <2>1. CASE users'[c] = users[c]
    BY <1>3, <2>1
  <2>2. CASE users'[c] # users[c]
    BY <1>1, <2>2, NullAssumption DEF UserEffect
  <2> QED BY <2>1, <2>2
<1>5. (Count > 0)'
  BY <1>2, <1>4, CountPositive DEF Count, FiniteTable
<1>6. users'[s] = Null
  BY <1>1 DEF UserEffect, LockedOut
<1>7. at'[s] # "insert"
  BY PassedStep DEF LockedOut
<1> QED BY <1>5, <1>6, <1>7 DEF LockedOut

\* A setup that starts on an instance with an account makes no admin, at any
\* later time, however many setups and redemptions run beside it.
THEOREM NoRebootstrapEver == Spec => NoRebootstrap
<1>1. Init => FiniteTable
  <2>1. Init => {c \in Accounts : users[c] # Null} = {}
    BY DEF Init
  <2> QED BY <2>1, FS_EmptySet DEF FiniteTable
<1>2. TypeOK /\ FiniteTable /\ [Next]_vars => FiniteTable'
  BY UserEffectStep, FiniteTableStep
<1>3. Spec => []FiniteTable
  BY <1>1, <1>2, TypeCorrect, PTL DEF Spec
<1>4. ASSUME NEW s \in Setups
      PROVE  Spec => []((at[s] = "idle" /\ Count > 0) => [](users[s] = Null))
  <2>1. Inductive /\ at[s] = "idle" /\ Count > 0 => LockedOut(s)
    BY DEF Inductive, AccountsInStep, LockedOut
  <2>2. TypeOK /\ FiniteTable /\ [Next]_vars /\ LockedOut(s) => LockedOut(s)'
    BY LockedOutStep
  <2>3. LockedOut(s) => users[s] = Null
    BY DEF LockedOut
  <2> QED BY <2>1, <2>2, <2>3, <1>3, TypeCorrect, InductiveInvariant, PTL DEF Spec
<1> QED BY <1>4 DEF NoRebootstrap

-----------------------------------------------------------------------------
(* Refinement of InviteOnce. *)

\* An empty database is an initial state of InviteOnce.
LEMMA OnceInit == Init => Once!Init
BY CallsAssumption DEF Init, Once!Init

\* Minting is Issue, the credit is Claim, the answer "created" is Admit, and no
\* other step changes what InviteOnce sees.
LEMMA OnceStep == Inductive /\ [Next]_vars => [Once!Next]_(Once!ivars)
<1> SUFFICES ASSUME Inductive, [Next]_vars
             PROVE  Once!Next \/ UNCHANGED Once!ivars
  OBVIOUS
<1> DEFINE terms == [t \in Mints |->
                       IF invites[t] = Null THEN Null ELSE invites[t].role]
           holder == [t \in Mints |->
                       IF invites[t] = Null THEN Null ELSE invites[t].redeemedBy]
           admitted == [r \in Redeems |->
                          IF at[r] = "created" THEN users[r].role ELSE Null]
<1> USE DEF Goto
<1>0. TypeOK /\ UserEffect
  BY UserEffectStep DEF Inductive
\* Who is admitted changes only when a redemption is answered "created".
<1>1. ASSUME \A r \in Redeems : at'[r] = "created" <=> at[r] = "created"
      PROVE  admitted' = admitted
  <2>1. ASSUME NEW r \in Redeems, at[r] = "created" PROVE users'[r] = users[r]
    BY <1>0, <2>1 DEF UserEffect
  <2> QED BY <1>1, <2>1
<1>2. ASSUME UNCHANGED invites,
             \A r \in Redeems : at'[r] = "created" <=> at[r] = "created"
      PROVE  UNCHANGED Once!ivars
  <2>1. terms' = terms /\ holder' = holder
    BY <1>2
  <2>2. admitted' = admitted
    BY <1>1, <1>2
  <2> QED BY <2>1, <2>2 DEF Once!ivars
<1>3. ASSUME NEW m \in Mints, MintInvite(m)
      PROVE  Once!Next \/ UNCHANGED Once!ivars
  <2>1. \A r \in Redeems : at'[r] = at[r]
    BY <1>3, <1>0, CallsAssumption DEF MintInvite, TypeOK
  <2>2. CASE UNCHANGED invites
    BY <1>2, <2>1, <2>2
  <2>3. CASE ~UNCHANGED invites
    <3>1. PICK row \in InviteRows :
             /\ invites' = [invites EXCEPT ![m] = row]
             /\ row.role \in Roles
             /\ row.redeemedBy = Null
             /\ row # Null
      <4>1. PICK admin \in Admins, email \in Emails, role \in Roles,
                 hours \in TTLHours :
               invites' = [invites EXCEPT ![m] =
                              [email |-> NormalizeEmail[email], role |-> role,
                               createdBy |-> admin,
                               expires |-> RFC3339(Expiry(hours)),
                               redeemedBy |-> Null]]
        <5> HIDE DEF Goto
        <5> QED BY <1>3, <2>3 DEF MintInvite, RoleValid
      <4>2. RFC3339(Expiry(hours)) \in Int
        BY <1>0, ExpiryType, TimeAssumption DEF TypeOK
      <4>3. [email |-> NormalizeEmail[email], role |-> role,
             createdBy |-> admin, expires |-> RFC3339(Expiry(hours)),
             redeemedBy |-> Null] \in InviteRows
        BY <4>2, EmailAssumption DEF InviteRows, Admins
      <4> QED BY <4>1, <4>3, NullAssumption
    <3>2. invites[m] = Null
      BY <1>3 DEF MintInvite, Inductive, InvitesInStep
    <3>3. invites'[m] = row /\ \A t \in Mints \ {m} : invites'[t] = invites[t]
      BY <3>1, <1>0 DEF TypeOK
    <3>4. terms' = [terms EXCEPT ![m] = row.role] /\ terms[m] = Null
      <4>1. terms[m] = Null
        BY <3>2
      <4>2. \A t \in Mints \ {m} : terms'[t] = terms[t]
        BY <3>3
      <4>3. terms'[m] = row.role
        BY <3>1, <3>3
      <4>4. /\ terms = [t \in Mints |-> terms[t]]
            /\ terms' = [t \in Mints |-> terms'[t]]
        OBVIOUS
      <4> HIDE DEF terms
      <4> QED BY <4>1, <4>2, <4>3, <4>4
    <3>5. holder' = holder
      BY <3>1, <3>2, <3>3
    <3>6. admitted' = admitted
      BY <1>1, <2>1
    <3>7. Once!Issue(m, row.role)
      BY <3>4, <3>5, <3>6 DEF Once!Issue
    <3> QED BY <3>1, <3>7 DEF Once!Next
  <2> QED BY <2>2, <2>3
<1>4. ASSUME NEW r \in Redeems, RedeemMark(r)
      PROVE  Once!Next \/ UNCHANGED Once!ivars
  <2>1. at[r] = "mark" /\ at'[r] # "created"
    BY <1>4, <1>0 DEF RedeemMark, TypeOK
  <2>2. \A q \in Redeems \ {r} : at'[q] = at[q]
    BY <1>4, <1>0 DEF RedeemMark, TypeOK
  <2>3. admitted' = admitted
    BY <1>1, <2>1, <2>2
  <2>4. CASE UNCHANGED invites
    BY <1>2, <2>1, <2>2, <2>4
  <2>5. CASE ~UNCHANGED invites
    <3> DEFINE t == token[r]
    <3>1. t \in Mints
      BY <2>1 DEF Inductive, SnapshotsAgree, InFlight
    <3>2. /\ invites[t] # Null /\ invites[t].redeemedBy = Null
          /\ invites' = [invites EXCEPT ![t].redeemedBy = r]
      BY <1>4, <2>5 DEF RedeemMark, OpenRow, Redeemed
    <3>3. invites[t] \in InviteRows
      BY <3>1, <3>2, <1>0 DEF TypeOK
    <3>4. /\ invites'[t] # Null
          /\ invites'[t].role = invites[t].role
          /\ invites'[t].redeemedBy = r
          /\ \A u \in Mints \ {t} : invites'[u] = invites[u]
      <4>1. /\ invites'[t] = [invites[t] EXCEPT !.redeemedBy = r]
            /\ \A u \in Mints \ {t} : invites'[u] = invites[u]
        BY <3>1, <3>2, <1>0 DEF TypeOK
      <4>2. invites'[t] \in InviteRows
        BY <4>1, <3>3 DEF InviteRows
      <4> QED BY <4>1, <4>2, <3>3, NullAssumption DEF InviteRows
    <3>5. terms' = terms /\ terms[t] # Null
      <4>1. invites[t].role # Null
        BY <3>3, NullAssumption DEF InviteRows
      <4> QED BY <4>1, <3>1, <3>2, <3>4
    <3>6. holder' = [holder EXCEPT ![t] = r] /\ holder[t] = Null
      BY <3>1, <3>2, <3>4
    <3>7. ASSUME NEW u \in Mints, holder[u] = r PROVE FALSE
      <4>1. invites[u] # Null /\ invites[u].redeemedBy = r /\ r # Null
        BY <3>7, NullAssumption
      <4>2. token[r] = u
        BY <4>1 DEF Inductive, NoDanglingReference, Redeemed
      <4> QED BY <4>1, <4>2, <3>2
    <3>8. Once!Claim(t, r)
      BY <3>5, <3>6, <3>7, <2>3 DEF Once!Claim
    <3> QED BY <3>1, <3>8 DEF Once!Next
  <2> QED BY <2>4, <2>5
<1>5. ASSUME NEW r \in Redeems, RedeemLogin(r)
      PROVE  Once!Next
  <2>1. /\ at[r] = "login"
        /\ at' = [at EXCEPT ![r] = "created"]
        /\ UNCHANGED <<users, invites, token>>
    BY <1>5 DEF RedeemLogin
  <2>2. Credited(r) /\ token[r] \in Mints
    BY <2>1 DEF Inductive, CreditFirst, SnapshotsAgree, InFlight
  <2>3. terms' = terms /\ holder' = holder
    BY <2>1
  <2>4. holder[token[r]] = r /\ terms[token[r]] = users[r].role
    BY <2>2 DEF Credited, OnTerms
  <2>5. admitted[r] = Null
    BY <2>1
  <2>6. admitted' = [admitted EXCEPT ![r] = users[r].role]
    <3>1. at'[r] = "created" /\ \A q \in Redeems \ {r} : at'[q] = at[q]
      BY <2>1, <1>0 DEF TypeOK
    <3> QED BY <3>1, <2>1
  <2>7. Once!Admit(token[r], r)
    BY <2>3, <2>4, <2>5, <2>6 DEF Once!Admit
  <2> QED BY <2>2, <2>7 DEF Once!Next
<1>6. ASSUME NEW r \in Redeems,
             RedeemLookup(r) \/ RedeemCheck(r) \/ RedeemInsert(r)
      PROVE  UNCHANGED Once!ivars
  <2>1. UNCHANGED invites
    BY <1>6 DEF RedeemLookup, RedeemCheck, RedeemInsert
  <2>2. PICK label \in {"check", "insert", "mark", "invalid", "failed"} :
           Goto(r, label)
    BY <1>6 DEF RedeemLookup, RedeemCheck, RedeemInsert
  <2>3. at[r] # "created"
    BY <1>6 DEF RedeemLookup, RedeemCheck, RedeemInsert
  <2>4. \A q \in Redeems : at'[q] = "created" <=> at[q] = "created"
    BY <2>2, <2>3, <1>0 DEF TypeOK
  <2> QED BY <1>2, <2>1, <2>4
<1>7. ASSUME NEW s \in Setups,
             SetupCount(s) \/ SetupInsert(s) \/ SetupInterrupted(s)
      PROVE  UNCHANGED Once!ivars
  <2>1. UNCHANGED invites /\ \E label : Goto(s, label)
    BY <1>7 DEF SetupCount, SetupInsert, SetupInterrupted
  <2>2. \A q \in Redeems : at'[q] = at[q]
    BY <2>1, <1>0, CallsAssumption DEF TypeOK
  <2> QED BY <1>2, <2>1, <2>2
<1>8. CASE ServerCrash
  <2>1. /\ UNCHANGED invites
        /\ \A q \in Redeems : at'[q] = "created" <=> at[q] = "created"
    BY <1>8 DEF ServerCrash, InFlight
  <2> QED BY <1>2, <2>1
<1>9. CASE Tick \/ Quiet \/ UNCHANGED vars
  BY <1>2, <1>9 DEF Tick, Quiet, vars
<1> QED BY <1>3, <1>4, <1>5, <1>6, <1>7, <1>8, <1>9 DEF Next, RedeemStep

\* What callers see of provisioning is the one-holder-per-token admission of
\* InviteOnce: every step claims, issues, admits, or changes nothing visible.
THEOREM Implementation == Spec => ImplementsInviteOnce
BY OnceInit, OnceStep, InductiveInvariant, PTL
   DEF Spec, Once!Spec, ImplementsInviteOnce
=============================================================================
