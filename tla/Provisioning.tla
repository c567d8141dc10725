---------------------------- MODULE Provisioning ----------------------------
(***************************************************************************)
(* Invite-only provisioning: the --setup process that creates the master   *)
(* admin, the admin's minting of invites, and the redemption of an invite  *)
(* into an account (account.Service over the users and invites tables,     *)
(* called by main.runSetup and by the HTTP handlers of package api).       *)
(*                                                                         *)
(* Every database statement is its own transaction, so a call is a         *)
(* sequence of atomic steps and calls interleave between them.  What a     *)
(* call remembers across its steps (the row that GetByToken returned) is   *)
(* its local state, and may be stale when it is used.                      *)
(*                                                                         *)
(* The ids and tokens the code draws at random are the call that draws     *)
(* them: the account of a Setup or Redeem call is named by the call, the   *)
(* token of an invite by the Mint call.                                    *)
(***************************************************************************)
EXTENDS Integers, FiniteSets

CONSTANTS
    Setups,          \* runs of `echoboard --setup`
    Mints,           \* calls of POST /invites
    Redeems,         \* calls of POST /auth/redeem
    Null,            \* SQL NULL, and the absence of a row
    Emails,          \* what a client may send as an email, "" included
    NoEmail,         \* the empty string
    NormalizeEmail,  \* lower-casing and trimming, as a function on Emails
    HasAt,           \* the emails that contain "@"
    TTLHours,        \* what a client may send as ttlHours
    Hour,            \* clock ticks in an hour
    Second,          \* clock ticks in a second
    DefaultTTL,      \* invite.DefaultTTL, in ticks
    MaxDuration,     \* the largest time.Duration, in ticks
    MaxTime,         \* bound on the clock
    Faults           \* TRUE: database calls fail, the server crashes

Accounts == Setups \cup Redeems
Calls == Accounts \cup Mints

Roles == {"admin", "member"}
RequestedRoles == Roles \cup {"", "owner"}
PasswordLengths == {7, 8, 73}
Names == {"", "Ada"}

UserRows == [email : Emails, role : Roles]
InviteRows == [email : Emails, role : Roles, createdBy : Accounts,
               expires : Int, redeemedBy : Accounts \cup {Null}]

ASSUME CallsAssumption ==
    /\ Setups \cap Redeems = {}
    /\ Setups \cap Mints = {}
    /\ Redeems \cap Mints = {}

ASSUME NullAssumption ==
    Null \notin UserRows \cup InviteRows \cup Calls \cup Roles

ASSUME EmailAssumption ==
    /\ NoEmail \in Emails
    /\ HasAt \subseteq Emails
    /\ NormalizeEmail \in [Emails -> Emails]
    /\ \A e \in Emails :
          /\ NormalizeEmail[NormalizeEmail[e]] = NormalizeEmail[e]
          /\ e \in HasAt <=> NormalizeEmail[e] \in HasAt
    /\ NormalizeEmail[NoEmail] = NoEmail
    /\ NoEmail \notin HasAt

ASSUME TimeAssumption ==
    /\ TTLHours \subseteq Int
    /\ Hour \in Nat \ {0}
    /\ Second \in Nat \ {0}
    /\ DefaultTTL \in Nat
    /\ MaxDuration \in Nat
    /\ MaxTime \in Nat

ASSUME FaultsAssumption == Faults \in BOOLEAN

Answers == {"created", "invalid", "refused", "failed", "lost"}
InFlight == {"check", "insert", "mark", "login"}

VARIABLES
    users,      \* table users: the row of each account, or Null
    invites,    \* table invites: the row of each token, or Null
    sessions,   \* table sessions: the accounts logged in by their redemption
    at,         \* where each call is: not begun, before a step, or answered
    token,      \* the token a Redeem call was sent
    inv,        \* the row that call's GetByToken returned
    now         \* the server's clock, in ticks

vars == <<users, invites, sessions, at, token, inv, now>>

\* A call moves on to its next step, or to its answer.
Goto(c, label) == at' = [at EXCEPT ![c] = label]

-----------------------------------------------------------------------------
(* Pure parts of the code. *)

\* A timestamp written with time.RFC3339 and read back: whole seconds.
RFC3339(t) == t - (t % Second)

\* time.Duration(hours) * time.Hour, in two's complement.
HoursToDuration(hours) ==
    LET width == 2 * (MaxDuration + 1)
    IN  ((hours * Hour + MaxDuration + 1) % width) - (MaxDuration + 1)

\* user.Role.Valid, and a variant that knows no unknown role.
AnyRole(role) == TRUE
RoleValid(role) == role \in Roles

HashPasswordAccepts(length) == length >= 8 /\ length <= 72

ValidForCreate(email, name, role) ==
    /\ NormalizeEmail[email] # NoEmail
    /\ email \in HasAt
    /\ name # ""
    /\ RoleValid(role)

Redeemed(row) == row.redeemedBy # Null

\* invite.Valid, and a variant that forgets the expiry.
ValidForever(row, t) == ~Redeemed(row)
Valid(row, t) == ~Redeemed(row) /\ t < row.expires

\* The email of the new account: the invite's, when it has one.  The variant
\* takes what the request supplies.
SuppliedEmail(row, supplied) == supplied
RedeemEmail(row, supplied) ==
    IF row.email # NoEmail THEN row.email ELSE supplied

\* The row that MarkRedeemed's WHERE clause selects, and a variant without
\* "AND redeemed_at IS NULL".
AnyRow(row) == row # Null
OpenRow(row) == row # Null /\ ~Redeemed(row)

-----------------------------------------------------------------------------
(* The users table. *)

Count == Cardinality({c \in Accounts : users[c] # Null})

\* The UNIQUE constraint on users.email.
EmailFree(email) == \A c \in Accounts : users[c] # Null => users[c].email # email

\* user.Repository.Create stores the row of account c ...  The variant stores
\* the email as it was typed.
CreateUserAsTyped(c, email, name, role) ==
    /\ ValidForCreate(email, name, role)
    /\ EmailFree(email)
    /\ users' = [users EXCEPT ![c] = [email |-> email, role |-> role]]
CreateUser(c, email, name, role) ==
    /\ ValidForCreate(email, name, role)
    /\ EmailFree(NormalizeEmail[email])
    /\ users' = [users EXCEPT ![c] = [email |-> NormalizeEmail[email],
                                      role |-> role]]

\* ... or returns an error: a bad field, a duplicate email, a failed INSERT.
CreateUserFails(email, name, role) ==
    /\ \/ ~ValidForCreate(email, name, role)
       \/ ~EmailFree(NormalizeEmail[email])
       \/ Faults
    /\ UNCHANGED users

-----------------------------------------------------------------------------
(* echoboard --setup: account.CreateFirstAdmin. *)

\* The check that the instance is fresh, and a variant off by one.
SetupCountTwo(s) ==
    /\ at[s] = "idle"
    /\ Goto(s, IF Count > 1 THEN "refused" ELSE "insert")
    /\ UNCHANGED <<users, invites, sessions, token, inv, now>>
SetupCount(s) ==
    /\ at[s] = "idle"
    /\ \/ Goto(s, IF Count > 0 THEN "refused" ELSE "insert")
       \/ Faults /\ Goto(s, "failed")
    /\ UNCHANGED <<users, invites, sessions, token, inv, now>>

\* Hashing, then the INSERT.  An INSERT may have been applied although its
\* answer was lost.
SetupInsert(s) ==
    /\ at[s] = "insert"
    /\ \E email \in Emails, name \in Names, length \in PasswordLengths :
          \/ /\ HashPasswordAccepts(length)
             /\ CreateUser(s, email, name, "admin")
             /\ Goto(s, "created") \/ (Faults /\ Goto(s, "failed"))
          \/ /\ HashPasswordAccepts(length) =>
                    CreateUserFails(email, name, "admin")
             /\ UNCHANGED users
             /\ Goto(s, "failed")
    /\ UNCHANGED <<invites, sessions, token, inv, now>>

-----------------------------------------------------------------------------
(* POST /invites: an admin mints an invite. *)

\* RequireAuth and RequireRole let the request through for an admin only.
Admins == {c \in Accounts : users[c] # Null /\ users[c].role = "admin"}

Expiry(hours) == IF hours > 0 THEN now + HoursToDuration(hours)
                              ELSE now + DefaultTTL

\* invite.Repository.Create.  The token reaches someone only if the call
\* answers "created".
MintInvite(m) ==
    /\ at[m] = "idle"
    /\ \E admin \in Admins, email \in Emails, asked \in RequestedRoles,
          hours \in TTLHours :
          LET role == IF asked = "" THEN "member" ELSE asked
          IN  \/ /\ RoleValid(role)
                 /\ invites' = [invites EXCEPT ![m] =
                        [email |-> NormalizeEmail[email], role |-> role,
                         createdBy |-> admin,
                         expires |-> RFC3339(Expiry(hours)),
                         redeemedBy |-> Null]]
                 /\ Goto(m, "created") \/ (Faults /\ Goto(m, "failed"))
              \/ /\ ~RoleValid(role) \/ Faults
                 /\ UNCHANGED invites
                 /\ Goto(m, "failed")
    /\ UNCHANGED <<users, sessions, token, inv, now>>

-----------------------------------------------------------------------------
(* POST /auth/redeem: account.RedeemInvite, then the auto-login. *)

\* The tokens a caller can present: those an admin was given, and wrong ones.
Presentable(t) == at[t] = "created" \/ invites[t] = Null

\* GetByToken.
RedeemLookup(r) ==
    /\ at[r] = "idle"
    /\ \E t \in Mints :
          /\ Presentable(t)
          /\ token' = [token EXCEPT ![r] = t]
          /\ inv' = [inv EXCEPT ![r] = invites[t]]
          /\ \/ Goto(r, IF invites[t] = Null THEN "invalid" ELSE "check")
             \/ Faults /\ Goto(r, "failed")
    /\ UNCHANGED <<users, invites, sessions, now>>

\* The test of the row read, against the clock of this moment, and hashing.
RedeemCheck(r) ==
    /\ at[r] = "check"
    /\ \/ ~Valid(inv[r], now) /\ Goto(r, "invalid")
       \/ /\ Valid(inv[r], now)
          /\ \E length \in PasswordLengths :
                Goto(r, IF HashPasswordAccepts(length) THEN "insert"
                                                       ELSE "failed")
    /\ UNCHANGED <<users, invites, sessions, token, inv, now>>

\* Variants of the next step: the account is always a member; an error of
\* users.Create is ignored; the invite is never marked.
RedeemInsertMember(r) ==
    /\ at[r] = "insert"
    /\ \E supplied \in Emails, name \in Names :
          /\ CreateUser(r, RedeemEmail(inv[r], supplied), name, "member")
          /\ Goto(r, "mark")
    /\ UNCHANGED <<invites, sessions, token, inv, now>>

RedeemInsertUnchecked(r) ==
    /\ at[r] = "insert"
    /\ \E supplied \in Emails, name \in Names :
          LET email == RedeemEmail(inv[r], supplied)
          IN  \/ CreateUser(r, email, name, inv[r].role)
              \/ CreateUserFails(email, name, inv[r].role)
    /\ Goto(r, "mark")
    /\ UNCHANGED <<invites, sessions, token, inv, now>>

RedeemInsertOnly(r) ==
    /\ at[r] = "insert"
    /\ \E supplied \in Emails, name \in Names :
          LET email == RedeemEmail(inv[r], supplied)
          IN  \/ /\ CreateUser(r, email, name, inv[r].role)
                 /\ Goto(r, "login")
              \/ /\ CreateUserFails(email, name, inv[r].role)
                 /\ Goto(r, "failed")
    /\ UNCHANGED <<invites, sessions, token, inv, now>>

\* users.Create, with the invite's role and its email when it has one.
RedeemInsert(r) ==
    /\ at[r] = "insert"
    /\ \E supplied \in Emails, name \in Names :
          LET email == RedeemEmail(inv[r], supplied)
          IN  \/ /\ CreateUser(r, email, name, inv[r].role)
                 /\ Goto(r, "mark") \/ (Faults /\ Goto(r, "failed"))
              \/ /\ CreateUserFails(email, name, inv[r].role)
                 /\ Goto(r, "failed")
    /\ UNCHANGED <<invites, sessions, token, inv, now>>

\* A variant of the next step that does not look at RowsAffected.
RedeemMarkUncounted(r) ==
    LET t == token[r]
    IN  /\ at[r] = "mark"
        /\ invites' = IF OpenRow(invites[t])
                      THEN [invites EXCEPT ![t].redeemedBy = r] ELSE invites
        /\ Goto(r, "login")
        /\ UNCHANGED <<users, sessions, token, inv, now>>

\* MarkRedeemed: the UPDATE of the open row, and an error when it changed none.
RedeemMark(r) ==
    LET t == token[r]
    IN  /\ at[r] = "mark"
        /\ \/ /\ OpenRow(invites[t])
              /\ invites' = [invites EXCEPT ![t].redeemedBy = r]
              /\ Goto(r, "login") \/ (Faults /\ Goto(r, "failed"))
           \/ /\ ~OpenRow(invites[t]) \/ Faults
              /\ UNCHANGED invites
              /\ Goto(r, "failed")
        /\ UNCHANGED <<users, sessions, token, inv, now>>

\* The auto-login; a session that cannot be created does not fail the call.
RedeemLogin(r) ==
    /\ at[r] = "login"
    /\ \/ sessions' = sessions \cup {r}
       \/ Faults /\ UNCHANGED sessions
    /\ Goto(r, "created")
    /\ UNCHANGED <<users, invites, token, inv, now>>

-----------------------------------------------------------------------------
(* The environment. *)

\* The server process dies: every request it was serving is lost, what the
\* database committed stays.  It is restarted and serves new requests.
ServerCrash ==
    /\ Faults
    /\ \E r \in Redeems : at[r] \in InFlight
    /\ at' = [c \in Calls |-> IF c \in Redeems /\ at[c] \in InFlight
                              THEN "lost" ELSE at[c]]
    /\ UNCHANGED <<users, invites, sessions, token, inv, now>>

\* The operator interrupts a setup between its check and its INSERT.
SetupInterrupted(s) ==
    /\ Faults
    /\ at[s] = "insert"
    /\ Goto(s, "lost")
    /\ UNCHANGED <<users, invites, sessions, token, inv, now>>

Tick ==
    /\ now < MaxTime
    /\ now' = now + 1
    /\ UNCHANGED <<users, invites, sessions, at, token, inv>>

\* Nothing is being served and the clock has reached its bound.
Quiet ==
    /\ now = MaxTime
    /\ \A c \in Calls : at[c] \notin InFlight
    /\ UNCHANGED vars

-----------------------------------------------------------------------------

Init ==
    /\ users = [c \in Accounts |-> Null]
    /\ invites = [t \in Mints |-> Null]
    /\ sessions = {}
    /\ at = [c \in Calls |-> "idle"]
    /\ token = [r \in Redeems |-> Null]
    /\ inv = [r \in Redeems |-> Null]
    /\ now = 0

\* The steps of a redemption once its request has arrived.
RedeemStep(r) ==
    RedeemCheck(r) \/ RedeemInsert(r) \/ RedeemMark(r) \/ RedeemLogin(r)

Next ==
    \/ \E s \in Setups : SetupCount(s) \/ SetupInsert(s) \/ SetupInterrupted(s)
    \/ \E m \in Mints : MintInvite(m)
    \/ \E r \in Redeems : RedeemLookup(r) \/ RedeemStep(r)
    \/ ServerCrash
    \/ Tick
    \/ Quiet

Spec == Init /\ [][Next]_vars

\* The goroutine that serves a request is scheduled until it has answered.
FairSpec == Spec /\ \A r \in Redeems : WF_vars(RedeemStep(r))
-----------------------------------------------------------------------------
(* Properties. *)

TypeOK ==
    /\ users \in [Accounts -> UserRows \cup {Null}]
    /\ invites \in [Mints -> InviteRows \cup {Null}]
    /\ sessions \subseteq Redeems
    /\ at \in [Calls -> {"idle"} \cup InFlight \cup Answers]
    /\ token \in [Redeems -> Mints \cup {Null}]
    /\ inv \in [Redeems -> InviteRows \cup {Null}]
    /\ now \in 0..MaxTime

\* The account of r was made under the terms of the invite it presented.
OnTerms(r) ==
    /\ token[r] \in Mints
    /\ users[r] # Null
    /\ invites[token[r]] # Null
    /\ users[r].role = invites[token[r]].role
    /\ \/ invites[token[r]].email = NoEmail
       \/ users[r].email = invites[token[r]].email

Credited(r) == OnTerms(r) /\ invites[token[r]].redeemedBy = r

\* Of all the calls that present one token, at most one is answered "created",
\* however they interleave, fail and are retried (RedeemInvite, MarkRedeemed).
OneSuccessPerInvite ==
    \A r, q \in Redeems :
        at[r] = "created" /\ at[q] = "created" /\ token[r] = token[q] => r = q

\* A redemption answered "created", and every automatic login, belongs to the
\* account its invite is credited to, made with that invite's role and email
\* (RedeemInvite runs MarkRedeemed before handleRedeem creates a session).
SuccessMeansCredited ==
    \A r \in Redeems : at[r] = "created" \/ r \in sessions => Credited(r)

\* The rows agree although the schema has no foreign key: an invite was minted
\* by an account that is still an admin, and is credited only to an account
\* that was made by presenting it.
NoDanglingReference ==
    \A t \in Mints : invites[t] # Null =>
        /\ invites[t].createdBy \in Admins
        /\ Redeemed(invites[t]) =>
              /\ invites[t].redeemedBy \in Redeems
              /\ token[invites[t].redeemedBy] = t
              /\ OnTerms(invites[t].redeemedBy)

\* Nobody is provisioned without an invite, whatever fails: an account that no
\* --setup made was made under the terms of an invite.
InviteOnly == \A r \in Redeems : users[r] # Null => OnTerms(r)

\* Two accounts never share an identity, however their emails were spelled, and
\* an email is stored in the form GetByEmail looks it up by.
OneAccountPerIdentity ==
    \A c, d \in Accounts : users[c] # Null /\ users[d] # Null =>
        /\ NormalizeEmail[users[c].email] = users[c].email
        /\ users[c].email = users[d].email => c = d

\* An invite bound to an email admits one account only, even among redemptions
\* that race past the validity check (the email override and UNIQUE).
BoundInviteOneAccount ==
    \A r, q \in Redeems :
        /\ users[r] # Null /\ users[q] # Null
        /\ token[r] = token[q]
        /\ invites[token[r]].email # NoEmail
        => r = q

\* A step may credit an open invite but never reassigns a credited one, nor
\* changes the terms of any (the WHERE clause of MarkRedeemed).
CreditIsFinal ==
    [][\A t \in Mints : invites[t] # Null =>
          /\ invites'[t] # Null
          /\ Redeemed(invites[t]) => invites'[t] = invites[t]
          /\ [invites'[t] EXCEPT !.redeemedBy = Null]
                 = [invites[t] EXCEPT !.redeemedBy = Null]]_vars

\* A call that arrives when its invite is already credited or past its expiry
\* never leaves an account behind (RedeemInvite's use of Valid).
SpentInviteAdmitsNobody ==
    \A r \in Redeems, t \in Mints :
        []((/\ at[r] = "idle"
            /\ invites[t] # Null
            /\ invites[t].redeemedBy # Null \/ now >= invites[t].expires)
              => [](token[r] = t => users[r] = Null))

\* A setup that starts when the instance has an account never makes an admin
\* (CreateFirstAdmin's Count).
NoRebootstrap ==
    \A s \in Setups :
        []((at[s] = "idle" /\ Count > 0) => [](users[s] = Null))

\* When nothing fails, every account made from an invite leaves that invite
\* consumed, by it or by the redemption it raced with.
AccountConsumesInvite ==
    \A r \in Redeems :
        users[r] # Null ~>
            \E t \in Mints : t = token[r] /\ invites[t] # Null /\ Redeemed(invites[t])

-----------------------------------------------------------------------------
(* The inductive invariant behind the safety properties. *)

\* An account appears only in the insert step of its own call, and stays.
AccountsInStep ==
    \A c \in Accounts :
        /\ at[c] \in {"idle", "check", "insert"} => users[c] = Null
        /\ at[c] \in {"mark", "login"} => users[c] # Null
        /\ c \in Setups /\ users[c] # Null => users[c].role = "admin"

\* A token has a row only once its call has minted it, in normal form.
InvitesInStep ==
    \A t \in Mints :
        /\ at[t] = "idle" => invites[t] = Null
        /\ invites[t] # Null =>
              NormalizeEmail[invites[t].email] = invites[t].email

\* What a redemption remembers of its invite is stale in one column only.
SnapshotsAgree ==
    \A r \in Redeems : at[r] \in InFlight =>
        /\ token[r] \in Mints
        /\ inv[r] # Null
        /\ invites[token[r]] # Null
        /\ inv[r].role = invites[token[r]].role
        /\ inv[r].email = invites[token[r]].email

\* The credit is written before the answer and before the session.
CreditFirst ==
    \A r \in Redeems :
        at[r] \in {"login", "created"} \/ r \in sessions => Credited(r)

\* Everything the safety properties need to be preserved by every step.
Inductive ==
    /\ TypeOK
    /\ AccountsInStep
    /\ InvitesInStep
    /\ SnapshotsAgree
    /\ CreditFirst
    /\ InviteOnly
    /\ NoDanglingReference
    /\ OneAccountPerIdentity

-----------------------------------------------------------------------------
(* Claims of the documentation that concurrent calls can break. *)

\* invite.go:16: "Invite is a single-use, time-limited token granting a role."
SingleUse ==
    \A r, q \in Redeems :
        users[r] # Null /\ users[q] # Null /\ token[r] = token[q] => r = q

\* account.go:32-33: CreateFirstAdmin "only succeeds on a fresh instance with
\* no existing users, protecting against re-bootstrap".
OneBootstrap ==
    \A s, z \in Setups : at[s] = "created" /\ at[z] = "created" => s = z

-----------------------------------------------------------------------------
(* Refinement: what a caller sees of redemption is InviteOnce. *)

Once == INSTANCE InviteOnce WITH
    Tokens <- Mints,
    People <- Redeems,
    None <- Null,
    terms <- [t \in Mints |->
                 IF invites[t] = Null THEN Null ELSE invites[t].role],
    holder <- [t \in Mints |->
                 IF invites[t] = Null THEN Null ELSE invites[t].redeemedBy],
    admitted <- [r \in Redeems |->
                 IF at[r] = "created" THEN users[r].role ELSE Null]

\* Redemption admits through each invite its one holder, with its role.
ImplementsInviteOnce == Once!Spec
=============================================================================
