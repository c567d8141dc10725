# EchoBoard: TLA+ models and proofs

EchoBoard is a self-hosted Go server with a SvelteKit front end. The code
that carries a protocol today is the back end's account provisioning, its
login sessions, its realtime hub and its life as a process on a database to
migrate, and the front end's auth store and service worker. This directory
models those six, checks them with TLC, and proves their safety with TLAPS.

## 1. The system

| Component | State it keeps | Operations | Interacts with | What makes it correct |
|---|---|---|---|---|
| Accounts (`internal/account`, `internal/user`) | table `users` | `CreateFirstAdmin`, `RedeemInvite`; users are inserted and read, never changed | invites, passwords, handlers, `--setup` | nobody has an account without an invite or the first setup; one account per email; role and email are the invite's |
| Invites (`internal/invite`) | table `invites` | `Create`, `GetByToken`, `MarkRedeemed` | accounts, handlers | an invite is credited once, for good; a spent or expired one admits nobody |
| Sessions (`internal/auth/session.go`) | table `sessions` | `Create`, `Get` (evicts), `Delete`, `DeleteExpired` | middleware, handlers | a session serves its owner, until it expires or is logged out, and not less |
| Middleware (`internal/auth/middleware.go`) | the user in the request's context | `WithUser`, `RequireAuth`, `RequireRole` | sessions, users, every route | a guarded handler runs only for the right user and role |
| Realtime hub (`internal/api/ws.go`) | map of clients, a channel of 16 and a connection per client | `Broadcast`, `add`, `remove`, `Count`, `handleWS`, `readPump`, `writePump` | two goroutines per connection, subsystems that broadcast | no panic, no gap in what a client is sent, no block, no leak |
| HTTP API (`internal/api`) | none of its own | routes and handlers | all of the above | calls the steps above in the right order |
| Passwords (`internal/auth/password.go`) | none | `HashPassword`, `CheckPassword` | accounts, login | refuses what bcrypt would truncate |
| Lifecycle (`cmd/echoboard/main.go`) | the process | start, `--setup`, serve, shutdown | everything | starts only on a valid configuration and schema; dies without harm |
| Migrations and database handle (`internal/db`) | the schema, `schema_migrations`, the pool | `Open`, `Migrate`, `rebind` | lifecycle, all repositories | every migration is applied once, in order, or not at all |
| Configuration, vault | the environment, a key | `Load`, `Validate`, `NewVault` | lifecycle | production has a durable key |
| Front end: auth store, API client, guards | who the tab thinks is signed in | `refresh`, `login`, `redeem`, `logout` | the HTTP API | agrees with the server once requests settle |
| Front end: service worker | the caches | install, activate, fetch | tabs, the browser, the server's deployments | an active worker has its whole version cached; no tab loses a chunk without a cause; the browser follows the server |
| Embedded web files, packages with only `doc.go`, theme, pages, build files | none, or display only | | | |

### What is hard here

- Each database statement is its own transaction; no code opens one across
  statements except the migration runner. Every multi-statement operation
  interleaves with the others and can be cut short: setup (count, insert),
  redemption (read, test, insert account, credit invite, open session),
  session lookup (read, test, evict, load user).
- A row that was read is used several statements later.
- A statement can be applied although its caller sees an error, and the
  process can die between two statements.
- Timestamps are stored in whole seconds and compared with a finer clock;
  a lifetime is multiplied in 64 bits.
- The hub's goroutines share a map under a read-write lock, and channels that
  one goroutine closes while others use them. Closing twice, or sending after
  the close, panics.
- Two processes of different builds can start on one database: each reads which
  migrations are recorded and applies the rest, a file at a time.
- In the browser, calls of one page overlap, and the storage outlives the page:
  an answer can arrive after the sign-in it belonged to is over.
- Workers of several versions share the caches of one origin: one installs while
  another deletes caches, and the server may change version between two fetches
  of one install.

`PROJECT.json` lists these as hazards, each at its line, with the properties
that catch it.

## 2. The modules

| Module | Models |
|---|---|
| `Provisioning` | accounts, invites, setup, redemption, and the death of a process |
| `InviteOnce` | what redemption promises: a token, at most one holder, only the holder admitted |
| `Sessions` | the session table, the middleware, login and logout, the guarded routes |
| `SessionLife` | what a session promises: a token dies once, and a request is served only if its token was alive after it was sent |
| `Hub` | the WebSocket hub and its pumps |
| `Feed` | what the hub promises a client: a gap-free feed from when it joined to when it is cut off |
| `Config` | `Load`, `Validate`, `IsProduction` and the keys of `NewVault`, as operators |
| `Startup` | the life of processes: configuration, `Open`, `Migrate`, setup or serving, shutdown |
| `SchemaHistory` | what migrating promises: the schema moves forward by whole migrations, in order |
| `AuthStore` | a tab: the auth store, the API client, the layouts and the cookie |
| `ServiceWorker` | a browser: the workers of successive versions, their caches and the tabs they control |
| `Provisioning_proofs`, `Sessions_proofs`, `Hub_proofs`, `Startup_proofs`, `AuthStore_proofs`, `ServiceWorker_proofs` | the theorems about each component, and that it implements its abstract specification where there is one |
| `MCProvisioning`, `MCSessions`, `MCHub`, `MCStartup`, `MCAuthStore`, `MCServiceWorker` | instances for TLC |

`Provisioning` and `Sessions` meet in one place, the automatic login after a
redemption: in `Provisioning` it is the set `sessions` of accounts that were
logged in, in `Sessions` it is a login like any other. They share no other
state that either changes: `Sessions` reads only that accounts exist and what
their roles are, and these never change once written. `Hub` is entered through
the guard that `Sessions` models and takes nothing from it but the right to
register: the route `/ws` of `Sessions` ends in a connection that is `open`, which
is where a connection of `Hub` begins. `Startup` ends where the others begin, with a process that is at its
setup or serving on a full schema (`RunsOnFullSchema`). `AuthStore` talks to the
handlers that `Sessions` models: its server is that module's sessions, with the
steps of a request taken together and their failures kept. `ServiceWorker` shares
nothing with the others: the worker leaves `/api`, `/ws` and `/health` to the
network.

Definitions introduced as a *variant* ("A variant of the next step ...") are
not part of any specification. Each is a plausible mistake in the operator that
follows it, and is there to show that a property would notice it.

### Provisioning

A call (a setup, a mint, a redemption) is a model value; `at[c]` is the step it
is about to take or the answer it has given. The account and the token that a
call draws at random are named by the call, so `users` maps calls to rows.

| Action | Code |
|---|---|
| `SetupCount`, `SetupInsert` | `CreateFirstAdmin`: the count; hashing and the INSERT |
| `SetupInterrupted` | the operator ends `--setup` between the two |
| `MintInvite` | `RequireRole(admin)`, `handleCreateInvite`, `invite.Repository.Create` |
| `RedeemLookup` | `GetByToken`; `inv[r]` is the row the call will use from now on |
| `RedeemCheck` | `Valid` on that row with the clock of the moment, `HashPassword` |
| `RedeemInsert` | the email override, `users.Create` |
| `RedeemMark` | `MarkRedeemed`: the guarded UPDATE and the count of affected rows |
| `RedeemLogin` | `handleRedeem`'s automatic login, whose failure is ignored |
| `ServerCrash` | every request in flight is lost, the tables stay |
| `Tick` | the clock |

Emails are a small set with `NormalizeEmail` as a function on it; passwords are
their lengths; names are empty or not. An expiry goes through
`HoursToDuration` (two's complement multiplication, with the largest duration a
constant) and `RFC3339` (truncation to seconds). With `Faults`, a statement may
fail without effect, or take effect and report failure.

### Sessions

A request is a model value: it arrives with a route, a cookie and a bearer
token, each a token that some login gave to its client, or none. `Get` is three
steps (`GetSelect`, `GetExpiry`, `GetEvict`), followed by `LoadUser` and the
route's own step. `DeleteExpired`, which the code offers for a periodic job and
nothing calls, may run at any time. A browser stops sending a cookie when it
expires; a bearer token may be sent for ever.

A guarded route ends in `Handle`: `handleMe` answers, `handleListUsers` may fail,
`handleWS` leaves the connection `open` until `Disconnect`, without another look
at its session.

`failed` and `late` are history: the operations a statement of which failed, and
why the session of a request was over when it arrived. `NeverServedLate` is
stated with them, so it holds with failures too.

The refinement of `SessionLife` reads a token as alive while its row is there and
the clock is before its expiry, and a request as admitted from the SELECT of a
good row on. So the SELECT is the moment that counts: a request that read its
row before a logout may still be served after it, one that arrives later may
not, and no interleaving of eviction, purge and login revives a token.

### Startup

A process goes through `run`: `Start` (Load, Validate), `Open`,
`EnsureMigrationsTable`, `AppliedVersions`, then for each pending file `Begin`,
`Exec` for each statement, `Record`, `Commit`, then `SetupEnds` or `Listen`. An interrupt (`Signal`)
closes the listener, and the process drains its requests until there is none or
the deadline passes (`Drain`); the next process may listen meanwhile. `tx[p]` is what its open transaction wrote, invisible to the others
until `Commit`. A lock is held by having written: SQLite's locks the database,
Postgres's the object. A process that is locked out waits or takes `Busy`;
`Fault`, `CommitLost` and `Killed` are the failures, and all of them end the
process, as in the code. `Embedded` gives each process its build, so that an old
and a new server meet. A file is a sequence of tokens, cut by `SplitStatements`
as the code cuts the text. The environment is one for a deployment.

### ServiceWorker

The code is three event handlers; what runs them is the browser, modelled after
the standard: one installing, one waiting and one active worker, an update check
that finds a script that differs from the newest, a waiting worker that becomes
active after `skipWaiting`, and fetches that wait for activation. These
definitions are marked external in the map.

| Action | Code |
|---|---|
| `Update` | registration or update; `install` opens the cache of its version |
| `FetchAsset`, `Installed` | `addAll`, one fetch at a time, any failure rejects it; then it stores everything at once, and `skipWaiting` |
| `InstallFails`, `ActivationFails` | the browser stops the worker |
| `Activate`, `Keys`, `Delete`, `Claim` | `activate`: the keys, one deletion after the other, `clients.claim` |
| `Navigate`, `Load` | the `fetch` handler for a page and for a chunk of the version a tab runs |
| `Deploy`, `GoOffline`, `GoOnline` | the server changes version, or is out of reach |

A file with a hashed name has one content for ever; a static file has one for
each version. Whether the server answers an unknown path with the shell or with
404 is a choice of the initial state, since nothing in the repository serves the
build yet. `overlapped`, `mixed` and `cut` are history; they name the three ways
in which the properties do not hold (section 3).

### AuthStore

`Load` is a page load with the refresh of `onMount`, `Retry`, `Submit` and
`SignOut` are the calls a user can make on what `Screen` shows. A call is sent with the
cookie of the moment, served, and answered in two steps: `Arrive` stores the
cookie with the headers, `Settle` hands the body to the store. `Fail` is a lost
connection, before or after the server acted. A call whose page was reloaded is
`Abandoned`: the server may serve it and its cookie may still be stored.
`Elsewhere` is another tab of the browser. `home` and `aside` are history.
`Redirect` joins the reactive statements of the two layouts; `next` is where the
one of the sign-in forms sends a user who is signed in. `AfterLogout` is the
navigation with which `signOut` ends. `ThemeInit` is the call that comes before
refresh at a page load and may throw. `Targets` is the set of `?next=` a page may
be loaded with, `External` one that starts with a slash and names another host.
The link to `/setup`, which is text, a `?next=` inside a `?next=`, and one that no
route matches, which loads another page, are left out.

### Hub

One process per broadcasting goroutine, two per connection. Under `Lock` nothing
else can run, so a critical section is one step, preceded by the announcement
(`pending`) that keeps later readers out: this is Go's writer preference, and
the progress of writers depends on it. Under `RLock` every operation on the map
or a channel is a step of its own. A send or a close that Go would panic on, and
a map write during another goroutine's iteration, set `panicked`. Timeouts are not clocks:
a peer that hangs up or falls silent is `gone`, after which reads and writes may
fail; the deadlines appear as the fairness that makes them fail in the end.
Nothing in the repository calls `Broadcast` yet; `Broadcasters` stands for the
subsystems `API.Hub` says it is for.

The refinement of `Feed` numbers the broadcasts. A client is a member from `add`
until it is dropped or removed, is owed then what its channel and its pump still
hold, and has ended once its pump has. `Feed` lets a member be cut off only if it
is gone or more than `Cap` messages behind, lets it end only after everything it
is owed was delivered (or it is gone), and demands that a member that is behind
catches up or ends.

## 3. What TLC checks

| Run | Question | Result |
|---|---|---|
| `Provisioning_faults` | a setup, two invites, two racing redemptions, any failure: who has an account, who is told so, do the tables agree, is `InviteOnce` implemented | holds |
| `Provisioning_time` | can a call that arrives too late (a spent or expired invite, an instance already set up) make an account; does an account made from an invite consume it, when nothing fails | no; yes |
| `Provisioning_single_use` | is an invite single-use (`invite.go:16`) | violated |
| `Provisioning_bootstrap` | can only one setup succeed (`account.go:32-33`) | violated |
| `Sessions_faults` | is a guarded request served only as the owner of its token, refused only for a cause, and not served after expiry or a cookie's logout, whatever fails; is `SessionLife` implemented | yes |
| `Sessions_bearer_logout` | does logging out with a bearer token remove the session | violated |
| `Startup_starters` | an old server, a new one and a setup started together, with failures and deaths: is the schema always whole migrations in order, is it complete for who serves, does a start alone always succeed, does every start and every shutdown settle | yes |
| `Startup_key` | does production run only with a key the vault accepts (`vault.go:21-22`) | violated |
| `AuthStore_tab` | does a tab show whom the server serves, stay signed in through lost answers, and get to a screen but for two named causes | yes |
| `ServiceWorker_deploys` | deployments, rollbacks, outages and stopped workers under two open tabs: is an active worker's version wholly cached, does a tab miss a chunk only for a cause, does the browser end with the deployed version | yes |
| `Hub_one_broadcaster` | panics and gaps with one broadcaster; does a broadcast end, are connections released, is `Feed` implemented | holds |
| `Hub_two_broadcasters` | does dropping a slow client stay harmless with two broadcasters | violated |

The five violations are disagreements between the code and its own text:

- **An invite can make two accounts.** Validity is tested on a row read before
  the account is created, and the invite is credited after. Two redemptions of
  an invite that names no email both create accounts; one of them is told it
  failed. What does hold, and is proved, is weaker: at most one redemption is
  *answered* "created", and an invite bound to an email makes one account.
- **Two setups can both create an admin**, when they count before either
  inserts. A setup that starts after the first account exists never does.
- **Two concurrent broadcasts can panic or abort**, since the slow-client path
  closes a channel and writes the map under the read lock. With one broadcaster
  the hub is sound.
- **Logout ignores a bearer token**, though the middleware accepts one.
- **Production starts with a key that is no key.** `Validate` asks only that
  `SECRET_KEY` is not empty, and `run` ignores the error of `NewVault`. The value
  in `.env.example` is accepted this way.

`AuthStore` shows two behaviours that no text of the repository excludes, and
that its properties therefore leave out by name: a login and a redemption in
flight together can leave the cookie of one and the user of the other, and a
redemption whose automatic login failed is shown as signed in, on top of
whatever cookie a lost logout left behind.

`ScreenSettles` names two more as its exceptions. A tab loaded with
`?next=//host` passes the test of the `(auth)` layout, which asks for a leading
slash only (`(auth)/+layout.svelte:10`); SvelteKit's `goto` rejects the URL of another
origin, and the layout shows nothing to a user who is signed in: the tab stays
blank until it is loaded again. And `theme.init()` runs before the `try` around
refresh (`routes/+layout.svelte:10`): where reading `localStorage` throws, refresh is
never sent and the spinner stays. The run shows that nothing else keeps a tab
from a screen.

`Sessions` shows that a statement that fails while a token is resolved is answered
401, as if there were no session (`middleware.go:88`): `RefusedForCause` leaves such
a request out.

`ServiceWorker` shows four behaviours that no text of the repository excludes or
that a property names as its exception:

- `activate` deletes every cache but its own (`service-worker.ts:28`), that of a newer
  version which is installing at that moment included: the newer worker then
  becomes active without a precache, and works from the network.
- The server moves while a version installs (`service-worker.ts:19`). Where unknown
  paths are answered with the shell, the shell is stored under the name of a
  chunk and served from the cache for as long as that version lives.
- A tab that is taken over by a newer worker asks for chunks of its own version
  that neither the new cache nor the new server has. It has to be reloaded.
- No page is in `build` or `files`, and `fetch` stores nothing, so a navigation
  without a network fails although the file is introduced as an "Offline-capable
  app shell" (`service-worker.ts:4`). `CachedBy` has no entry for `Shell` for this
  reason.

### Bounds

- Two redemptions and one or two invites are enough for the races: a
  redemption touches only its own account and one invite, and the emails
  include one identity spelled in two ways, one more for the second invitee,
  one for the admin, one without `@`, and none. `Provisioning_time` has two
  setups: one that succeeds and one that starts before, during or after it. It
  has no failures, which its liveness property excludes; its two other
  properties are proved with them (section 4).
- The clock needs to pass one expiry: `DefaultTTL`, `Hour` and `Second` are 4, 2
  and 2 ticks, the largest duration 7, so that 5 hours wraps to a negative
  lifetime. `MaxTime` bounds the clock. The runs that do not ask about time fix one
  lifetime and a short clock. What depends on neither bound is proved (section 4).
- Three session requests are a login, a logout and a request between them, or
  two logins of different users and a request. A login at an odd tick, or a `TTL`
  that is not a multiple of `Second`, makes the truncation matter.
- `Cap` is the channel capacity, 1 with 3 messages: a client can fill its channel
  while its pump is writing and be dropped with both outstanding, drain it, or
  register late; one more broadcast can follow. `MaxMsgs` bounds the broadcasts.
- Three processes of two builds and three starts are enough for two that race
  and one that finds what they left, or for one that dies and two that race
  after it. The files are `0001` to `0003`: one with two statements, one that
  only the new build has, one that both have. `MaxStarts` bounds the starts.
- Two calls in flight are the least that overlap; two tokens allow a sign-in
  as each of two users; two page loads allow one to meet what a former page
  left. `Tokens`, `Calls` and `MaxLoads` are the bounds. A `?next=` is `/` or
  another host: one of the forms would be followed by a second redirect to `/`.
- Two versions, one with a chunk that the other lacks and a static file that both
  have, and two moves of the server: a deployment and the rollback to a version
  whose worker is still known. Two tabs can run different versions. `MaxDeploys`
  and `MaxFailures` are the bounds.

A `Quiet` step in the modules whose instances end stands for that end, so TLC's
deadlock check, which every run leaves on, still finds a process that is stuck.
In `AuthStore` it stands for a tab that only another load would get going again.

### Fairness

- `Provisioning`: weak fairness of each redemption's steps, i.e. the Go
  scheduler runs a request to its answer. Nothing is assumed of other calls or
  of the clock, and the run has no faults: with a crash the property is false,
  as the comment at `account.go:91-92` says.
- `Hub`: the goroutines of a broadcast and of a connection run when they can,
  and `sync.RWMutex` lets a waiting writer in. A read or write to a peer that is
  gone fails in the end because of the deadlines (`pongWait`, `writeWait`).
  Nothing obliges a peer to read or to hang up. A broadcast does not complete
  thanks to the pumps: the channel of a connection whose pump has ended stays
  full, and a broadcast that waited for it (the variant `DropWaits`) would stay.
- `Startup`: a process that can take a step of `run` does. Nothing is assumed of
  the operator, of failures or of deaths; a statement that is locked out may
  wait as long as the lock is held. The deadline of `Shutdown` passes; a request
  need not end.
- `AuthStore`: every request is answered or fails, which the browser sees to
  although the client sets no timeout, and the router follows a redirect.
- `ServiceWorker`: the browser runs a handler it dispatched to its end or stops it,
  looks for an update while a tab is open, and an outage ends. `FollowsServer`
  asks for a tab that stays open; nobody has to open, reload or close one.
- `Sessions` states no liveness: its requests are short sequences without a
  wait on one another.

## 4. What is proved

Every safety property of every passing run is a theorem, for every value of the
constants: each `*_proofs` module states those of its component, from the
inductive invariants at its head. TLC checked each of these on the instance of
the component's run before it was proved.

| Module | Proves | Rests on |
|---|---|---|
| `Provisioning_proofs` | `TypeOK`, `OneSuccessPerInvite`, `SuccessMeansCredited`, `NoDanglingReference`, `InviteOnly`, `OneAccountPerIdentity`, `BoundInviteOneAccount`, `CreditIsFinal`, `SpentInviteAdmitsNobody`, `NoRebootstrap`; implements `InviteOnce` | `Inductive`, `ShutOut`, `LockedOut` |
| `Sessions_proofs` | `TypeOK`, `ServedAsOwner`, `NeverServedLate`, `RefusedForCause`; implements `SessionLife` | `Typed`, `Provenance`, `Ended`, `MissingForCause` |
| `Startup_proofs` | `TypeOK`, `SchemaMatchesRecord`, `RunsOnFullSchema`, `SoloStartMigrates`, `ProductionHasKey`; implements `SchemaHistory` | `InOrder`, `Separate`, `Transactions`, `Consistent`, `Complete`, `Alone`, `Configured` |
| `Hub_proofs` | `TypeOK`; with one broadcaster `NeverPanics`, `GapFree`, and that it implements `Feed!Safe` | `Typed`, `Registration`, `Broadcasting`, `Streams`, `Connections`, `Bounds` |
| `AuthStore_proofs` | `TypeOK`, `RefreshAlone`, `SignedInStaysIn`, `NoMixup`, `ShownIsServed` | `Typed`, `Alone`, `Issued`, `Stays`, `Single`, `Agrees`, `Exact` |
| `ServiceWorker_proofs` | `TypeOK`, `PrecacheWhole`, `LossExplained` | `Typed`, `Installs` |

### Provisioning

The theorems hold for any sets of calls, emails and lifetimes, with failures and
crashes. The assumptions: the three kinds of call are
disjoint, `Null` is none of the values, normalization is idempotent, fixes the
empty email and neither adds nor removes an `@`, and times are natural numbers.
No assumption is made on the clock's bound or on how lifetimes wrap.

No property is inductive alone. `OneSuccessPerInvite` needs that whoever was
answered holds the credit, hence that the credit precedes the answer
(`CreditFirst`); the credit is meaningful because the account was made on the
invite's terms (`InviteOnly`), and that step writes what the call *remembers* of
the invite, so the memory must agree with the row (`SnapshotsAgree`). It does so
in role and email, which no step changes, and not in `redeemedBy`: this is
exactly the stale column behind the violation of `SingleUse`. Accounts and
invites must not appear before their call's insert (`AccountsInStep`,
`InvitesInStep`), or an insert could overwrite one. `Inductive` is their
conjunction with `TypeOK`, `NoDanglingReference` and `OneAccountPerIdentity`.

The proof does not look at every action for every conjunct. It first proves what
any step does to each table and each call (`UserEffect`, `InviteEffect`,
`RequestEffect`, `RedeemEffect`, `OtherEffect`), one case per action; the
conjuncts are then preserved by the effects. For the refinement, `MintInvite` is
`Issue`, `RedeemMark` is `Claim`, `RedeemLogin` is `Admit`, and every other step
is a stutter.

A property of the form "once this, never that" is proved from a state predicate
that the first half establishes and every step keeps. `ShutOut`: the invite is
spent, which a final credit and a clock that only advances keep true, and the
redemption has not read it, or holds a copy that its check refuses, or was
refused. `LockedOut`: the instance has an account, and the setup is not past its
check. `Count` counts a finite table because every step adds one row at most
(`FiniteTable`), although the sets of calls may be infinite.

### Sessions

Assumed: the routes in use are routes, `Null` is none of the values, every user
has a role, and the second and the lifetime are positive. The proofs cover
failures and bearer tokens, which `Faults` and `Bearers` switch.

`Provenance` follows a token from its login: a client has only a token that was
issued, a row belongs to who asked for it, and the row and user that a request
holds are those of its token. `ServedAsOwner` follows from it. `NeverServedLate`
needs that no step brings an ended session back (`Ended`): the row of a cookie that was
logged out is gone, and a request that arrived late holds nothing of it that its
own check would not refuse. `MissingForCause` is the converse for
`RefusedForCause`: a row is missing only for a cause. The refinement reads the
table as the set of tokens alive; `GetSelect` is where a request sees its token, and
the eviction, the purge, the logout and the clock end tokens.

### Startup

Assumed: setups and servers are different and finitely many, a build has a prefix of the
list of files, and of the files (`FilesAssumption`) that each statement creates
one object, that a file creates what its statements do, and that no two files
create the same object nor any of them `schema_migrations`. This is what the
files in `migrations/` are: lists of CREATE statements. The prover takes of
`SplitStatements` no more than that; TLC evaluates it, and the assumption, on the
files of the runs.

What is recorded is a prefix of the list, as is what a process read of it
(`InOrder`). Of the open transactions, one at most has written to any object
(`Separate`), and each has written exactly what its process has executed so far
(`Transactions`); so `Commit` moves record and schema together. With
`SchemaMatchesRecord` itself, these are `Consistent`, which is inductive.
`Complete` says that what a process relied on when it left `Migrate` stays
recorded. `Alone` says that what a process that nobody raced with has read is all that
is recorded, so it meets neither a conflict nor a lock.

### Hub

`TypeOK` is proved for any number of broadcasters. The others assume one
(`OneBroadcaster`): with two, `NeverPanics` is false, which is what
`Hub_two_broadcasters` shows, and after a panic nothing is promised. Nothing in
the repository calls `Broadcast` yet, so the hypothesis describes what a single
subsystem may rely on. Capacity, clients and messages are arbitrary.

`Broadcasting` says where the one broadcaster's slow client is between the
close and the deletion; hence no channel is closed twice or sent to after
its close. For `GapFree`, what is written, held and buffered for a client, one
behind the other, count up from the number of broadcasts at its registration
(`Streams`), and a registered client lacks only the broadcast under way. The
arithmetic of three adjoining sequences is in lemmas of its own (`LaidReceive`,
`LaidWrite`, `LaidSend`). `Bounds` is where the refinement mapping of a client that
is leaving points. `Feed` is split into `Safe` and the promise `CatchesUp`; the
theorem is about the former, TLC checks both.

### AuthStore

Assumed: request slots are numbers, of which there are finitely many, and the markers
`None`, `"ended"` and `"keep"` are none of the values and not one another, `/` is a
possible `?next=`, and the external one is none of the tab's own paths. The
numbers of users, tokens, overlapping calls and page loads are arbitrary.

The invariants build on one another. `Alone` keeps refresh alone in its page.
`Issued`: a cookie, in the jar or in an answer on its way, is of a session that
was opened, so no later login brings it back to life; `SessionChange` and `StaysOpened`
are the lemmas about that. `Stays` follows the cookie a page was loaded with
through its refresh: only the end of the session makes an answer 401. `Single`
says that as long as nothing crossed one call runs at a time; then its answer,
at each of its stages, agrees with the cookie it goes with (`Agrees`, through
`Matches`), and is exact if nothing at all was missed (`Exact`, through `Tells`).
`Exact` needs all the others.

### ServiceWorker

Assumed: versions and files are finitely many, a version has files among them, the shell is
none, and the markers are no content. `Installs` says of the installing, the
waiting and the active worker what its cache may be trusted for: every entry
under a file's name is that file's, unless the server moved (`mixed`), and none is
missing unless another worker deleted caches meanwhile (`overlapped`).

### Only model-checked

- Liveness and fairness, which is out of the prover's reach: `AccountConsumesInvite`,
  `BroadcastCompletes`, `NoLeak`, the `CatchesUp` part of `ImplementsFeed`,
  `StartsSettle`, `ScreenSettles`, `FollowsServer`. The theorems are stated of `Spec`;
  the fairness that these need is in `FairSpec`, which implies it.
- What `SplitStatements` makes of a text, which is a computation over data.
- The five violations, which are counterexamples and need no proof.

## 5. What is not modelled

The text of answers, logging, `/health` and `/api/version`, the recovery of panics
in HTTP handlers (none panics), cookie attributes other than the expiry,
`ListActive`, which nothing calls, and the order of lists, bcrypt and AES
themselves, static files, and layout. Bodies that are not valid JSON are refused
before any statement; the model has them for the login only. Deleting or changing
accounts does not exist in the code. Of the start: the prompts of `--setup`, the
`--addr` override, the text of the DSN and the numbering of placeholders
(`rebind`). Of the shutdown: what a request does while the server drains, which is
the same as before, or `ServerCrash` in `Provisioning` if it is cut off. WebSocket
connections are not waited for and break when the process ends, which `Hub` has
as a peer that is gone. Of the front end: the dashboard, and the theme but for its reading. Of the
service worker: the methods, origins and paths that it leaves to the browser.

## 6. Plan

1. Proofs: what holds beside the violations, as theorems with the hypothesis that
   excludes them, as is done for the hub: one setup makes one admin, redemptions that do
   not overlap keep an invite single-use.
2. `rebind` and `splitStatements` as pure operators against the descriptions in
   their comments.
