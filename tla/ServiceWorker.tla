---------------------------- MODULE ServiceWorker ----------------------------
(***************************************************************************)
(* The service worker of the web app (frontend/src/service-worker.ts) in   *)
(* one browser: the install, activate and fetch handlers of the workers of *)
(* successive versions, the caches they fill and delete, and the tabs they *)
(* control, while the server moves from version to version and back.       *)
(*                                                                         *)
(* The browser runs the handlers as the Service Worker standard says.  A   *)
(* registration has one installing, one waiting and one active worker; a   *)
(* script is installed when it differs from the newest of them; a waiting  *)
(* worker that called skipWaiting becomes active once the active one       *)
(* answers no fetch, and controls from then on what that one controlled; a *)
(* fetch waits until the activate handler has ended.  So no handler of     *)
(* another worker runs in the middle of a fetch handler, which is one step *)
(* here, while installation and activation are one step per await.         *)
(***************************************************************************)
EXTENDS FiniteSets, Naturals

CONSTANTS
    Versions,    \* the builds of the frontend
    First,       \* the one the server starts with
    Paths,       \* the paths of built and static files
    Assets,      \* ASSETS: the paths each version precaches
    Static,      \* of them, those whose name does not name their content
    Shell,       \* the path of a page
    Tabs,        \* the tabs of the browser
    Null,        \* no version, no body
    NotFound,    \* a response that is not ok
    Failed,      \* no response
    MaxDeploys,  \* bound on the moves of the server
    MaxFailures  \* bound on the outages and the handlers that are stopped

ASSUME AssetsAssumption ==
    /\ First \in Versions /\ IsFiniteSet(Versions) /\ IsFiniteSet(Paths)
    /\ Assets \in [Versions -> SUBSET Paths]
    /\ Static \subseteq Paths
    /\ Shell \notin Paths
ASSUME BoundAssumption == MaxDeploys \in Nat /\ MaxFailures \in Nat

\* A hashed name names the content; any other file is its version's.
Body(v, p) == IF p \in Paths \ Static THEN <<p>> ELSE <<p, v>>
Bodies == {Body(v, p) : v \in Versions, p \in Paths \cup {Shell}}
NoEntries == [p \in Paths |-> Null]

ASSUME NullAssumption ==
    /\ Null \notin Versions /\ Null \notin Bodies
    /\ NotFound \notin Bodies /\ Failed \notin Bodies

VARIABLES
    online,      \* the browser reaches the server
    deployed,    \* the version the server has
    fallback,    \* the server answers an unknown path with the shell
    opened,      \* the names of the caches that exist
    cache,       \* what each of them holds
    installing, waiting, active,  \* the workers of the registration
    fetched,     \* what the addAll of the installing worker has got so far
    detached,    \* the cache it opened has been deleted
    activation,  \* how far the activate handler of the active worker is
    doomed,      \* the keys it is still to delete
    shell,       \* the version each tab runs, Null if it shows none
    ctrl,        \* the worker that controls each tab
    lost,        \* the tabs that asked for a chunk and did not get it
    deploys, failures,  \* so far
    overlapped,  \* history: versions that began an install behind another worker
    mixed,       \* history: versions the server left during an install of theirs
    cut          \* history: the last activation was cut off

server == <<online, deployed, fallback, deploys>>
caches == <<opened, cache>>
registration == <<installing, waiting, active, fetched, detached, activation, doomed>>
tabs == <<shell, ctrl, lost>>
history == <<failures, overlapped, mixed, cut>>
vars == <<server, caches, registration, tabs, history>>

Fails == failures < MaxFailures /\ failures' = failures + 1

-----------------------------------------------------------------------------
(* The server, and the way to it. *)

Respond(p) ==
    IF ~online THEN Failed
    ELSE IF p \in Assets[deployed] \cup {Shell} THEN Body(deployed, p)
    ELSE IF fallback THEN Body(deployed, Shell)
    ELSE NotFound

Deploy(v) ==
    /\ v # deployed /\ deploys < MaxDeploys
    /\ deployed' = v /\ deploys' = deploys + 1
    /\ mixed' = IF installing = Null THEN mixed ELSE mixed \cup {installing}
    /\ UNCHANGED <<online, fallback, caches, registration, tabs, failures, overlapped, cut>>

GoOffline ==
    /\ online /\ Fails
    /\ online' = FALSE
    /\ UNCHANGED <<deployed, fallback, deploys, caches, registration, tabs,
                   overlapped, mixed, cut>>

GoOnline ==
    /\ ~online
    /\ online' = TRUE
    /\ UNCHANGED <<deployed, fallback, deploys, caches, registration, tabs, history>>

-----------------------------------------------------------------------------
(* The install handler. *)

\* Registration or update: the browser finds a script that is not the newest
\* worker's and dispatches install to it, which opens its cache.
Newest == IF waiting # Null THEN waiting ELSE active

Update ==
    /\ online /\ \E t \in Tabs : shell[t] # Null
    /\ installing = Null /\ Newest # deployed
    /\ installing' = deployed
    /\ opened' = opened \cup {deployed}
    /\ UNCHANGED <<fetched, detached>>
    /\ overlapped' = IF waiting # Null \/ activation # "none"
                     THEN overlapped \cup {deployed} ELSE overlapped
    /\ UNCHANGED <<server, cache, waiting, active, activation, doomed, tabs,
                   failures, mixed, cut>>

\* The install handler has ended.
InstallEnds == installing' = Null /\ fetched' = NoEntries /\ detached' = FALSE

Missing == {p \in Assets[installing] : fetched[p] = Null}

\* addAll fetches every asset; one that fails or is not ok rejects it all, and
\* the install with it.
FetchAsset(p) ==
    /\ installing # Null /\ p \in Missing
    /\ IF Respond(p) \in Bodies
       THEN /\ fetched' = [fetched EXCEPT ![p] = Respond(p)]
            /\ UNCHANGED <<installing, detached>>
       ELSE InstallEnds
    /\ UNCHANGED <<server, caches, waiting, active, activation, doomed, tabs, history>>

\* The browser stops the worker: the install has failed.
InstallFails ==
    /\ installing # Null
    /\ Fails /\ InstallEnds
    /\ UNCHANGED <<server, caches, waiting, active, activation, doomed, tabs,
                   overlapped, mixed, cut>>

\* addAll is awaited, and a variant in which it is not.
NotAwaited == TRUE
Awaited == Missing = {}

\* addAll stores everything at once, in the cache that was opened; the variant
\* in whatever has its name.
Stored(v) == [cache EXCEPT ![v] = [p \in Paths |->
                 IF fetched[p] # Null THEN fetched[p] ELSE @[p]]]
AddAllByName(v) == cache' = Stored(v)
AddAll(v) == cache' = IF detached THEN cache ELSE Stored(v)

\* skipWaiting, and the end of the install: the worker waits, and replaces the
\* one that was waiting.
Installed ==
    /\ installing # Null /\ Awaited
    /\ AddAll(installing)
    /\ waiting' = installing /\ InstallEnds
    /\ UNCHANGED <<server, opened, active, activation, doomed, tabs, history>>

-----------------------------------------------------------------------------
(* The activate handler. *)

\* What activation waits for after skipWaiting, and without it.
TabsClosed == \A t \in Tabs : ctrl[t] = Null
Skipped == TRUE

Activate ==
    /\ waiting # Null /\ activation = "none" /\ Skipped
    /\ active' = waiting /\ waiting' = Null
    /\ ctrl' = [t \in Tabs |-> IF ctrl[t] # Null THEN waiting ELSE Null]
    /\ activation' = "keys" /\ cut' = FALSE
    /\ UNCHANGED <<server, caches, installing, fetched, detached, doomed, shell,
                   lost, failures, overlapped, mixed>>

\* The keys that are not CACHE.
OtherKeys == opened \ {active}

Keys ==
    /\ activation = "keys"
    /\ activation' = "delete" /\ doomed' = OtherKeys
    /\ UNCHANGED <<server, caches, installing, waiting, active, fetched, detached,
                   tabs, history>>

\* caches.delete, one after the other.  A worker that has the cache open keeps
\* a cache that no name leads to.
Delete(k) ==
    /\ activation = "delete" /\ k \in doomed
    /\ opened' = opened \ {k} /\ cache' = [cache EXCEPT ![k] = NoEntries]
    /\ detached' = (detached \/ k = installing)
    /\ doomed' = doomed \ {k}
    /\ UNCHANGED <<server, installing, waiting, active, fetched, activation, tabs,
                   history>>

\* clients.claim: every tab of the app is controlled.
Claim ==
    /\ activation = "delete" /\ doomed = {}
    /\ ctrl' = [t \in Tabs |-> IF shell[t] # Null THEN active ELSE ctrl[t]]
    /\ activation' = "none"
    /\ UNCHANGED <<server, caches, installing, waiting, active, fetched, detached,
                   doomed, shell, lost, history>>

\* The handler throws or is stopped; the worker counts as activated.
ActivationFails ==
    /\ activation # "none"
    /\ Fails
    /\ activation' = "none" /\ doomed' = {} /\ cut' = TRUE
    /\ UNCHANGED <<server, caches, installing, waiting, active, fetched, detached,
                   tabs, overlapped, mixed>>

-----------------------------------------------------------------------------
(* The fetch handler. *)

CachedBy(v, p) == IF p \in Paths THEN cache[v][p] ELSE Null

\* The answer of worker v to a GET of a page or a file: an asset from its cache
\* first, anything else from the cache if the network fails, and what the
\* network answers otherwise.  (It leaves other methods, other origins, /api,
\* /ws and /health to the browser.)  The variant does not ask the network for
\* an asset.
CacheOnly(v, p) ==
    IF p \in Assets[v]
    THEN IF CachedBy(v, p) # Null THEN CachedBy(v, p) ELSE NotFound
    ELSE Respond(p)
FetchHandler(v, p) ==
    IF CachedBy(v, p) # Null /\ (p \in Assets[v] \/ Respond(p) = Failed)
    THEN CachedBy(v, p)
    ELSE Respond(p)

Answer(v, p) == IF v = Null THEN Respond(p) ELSE FetchHandler(v, p)

\* A request goes through its worker, whose activate handler has ended and
\* whose fetch handler opens its cache by name: one that is gone is created.
Through(v) ==
    /\ v # Null => activation = "none"
    /\ opened' = IF v = Null THEN opened ELSE opened \cup {v}
    /\ UNCHANGED cache

\* A page is opened or reloaded, through the active worker.
Navigate(t) ==
    /\ Through(active)
    /\ \/ \E v \in Versions :
             /\ Answer(active, Shell) = Body(v, Shell)
             /\ shell' = [shell EXCEPT ![t] = v]
             /\ ctrl' = [ctrl EXCEPT ![t] = active]
       \/ /\ Answer(active, Shell) \notin Bodies
          /\ shell' = [shell EXCEPT ![t] = Null]
          /\ ctrl' = [ctrl EXCEPT ![t] = Null]
    /\ lost' = lost \ {t}
    /\ UNCHANGED <<server, registration, history>>

\* The page asks for a chunk of the version it runs.
Load(t) ==
    /\ shell[t] # Null
    /\ \E p \in Assets[shell[t]] \ Static :
          /\ Through(ctrl[t])
          /\ lost' = IF Answer(ctrl[t], p) = Body(shell[t], p) THEN lost ELSE lost \cup {t}
    /\ UNCHANGED <<server, registration, shell, ctrl, history>>

CloseTab(t) ==
    /\ shell[t] # Null
    /\ shell' = [shell EXCEPT ![t] = Null] /\ ctrl' = [ctrl EXCEPT ![t] = Null]
    /\ lost' = lost \ {t}
    /\ UNCHANGED <<server, caches, registration, history>>

-----------------------------------------------------------------------------

Init ==
    /\ online = TRUE
    /\ deployed = First /\ fallback \in BOOLEAN /\ deploys = 0
    /\ opened = {} /\ cache = [v \in Versions |-> NoEntries]
    /\ installing = Null /\ waiting = Null /\ active = Null
    /\ fetched = NoEntries /\ detached = FALSE
    /\ activation = "none" /\ doomed = {}
    /\ shell = [t \in Tabs |-> Null] /\ ctrl = [t \in Tabs |-> Null]
    /\ lost = {}
    /\ failures = 0 /\ overlapped = {} /\ mixed = {} /\ cut = FALSE

InstallStep == (\E p \in Paths : FetchAsset(p)) \/ Installed
ActivateStep == Activate \/ Keys \/ (\E k \in Versions : Delete(k)) \/ Claim

Next ==
    \/ \E v \in Versions : Deploy(v)
    \/ GoOffline \/ GoOnline
    \/ Update \/ InstallStep \/ InstallFails
    \/ ActivateStep \/ ActivationFails
    \/ \E t \in Tabs : Navigate(t) \/ Load(t) \/ CloseTab(t)

Spec == Init /\ [][Next]_vars

\* The browser runs the handlers to their end and, while a tab is open, looks
\* for a new script from time to time; an outage ends.
FairSpec ==
    /\ Spec
    /\ WF_vars(GoOnline) /\ WF_vars(Update)
    /\ WF_vars(InstallStep) /\ WF_vars(ActivateStep)

-----------------------------------------------------------------------------
(* Properties. *)

Entries == Bodies \cup {Null}
Workers == Versions \cup {Null}

TypeOK ==
    /\ online \in BOOLEAN /\ deployed \in Versions /\ fallback \in BOOLEAN
    /\ opened \subseteq Versions
    /\ cache \in [Versions -> [Paths -> Entries]]
    /\ \A v \in Versions \ opened : cache[v] = NoEntries
    /\ {installing, waiting, active} \subseteq Workers
    /\ fetched \in [Paths -> Entries] /\ detached \in BOOLEAN
    /\ activation \in {"none", "keys", "delete"}
    /\ doomed \subseteq Versions \ {active}
    /\ shell \in [Tabs -> Workers] /\ ctrl \in [Tabs -> {active, Null}]
    /\ lost \subseteq Tabs
    /\ deploys \in 0..MaxDeploys /\ failures \in 0..MaxFailures
    /\ overlapped \subseteq Versions /\ mixed \subseteq Versions
    /\ cut \in BOOLEAN

\* Whatever fails in between and however the server moves, an active worker has
\* every asset of its version in its cache, and no other content under its
\* name ("On install we precache the built assets and static files",
\* service-worker.ts:5-6), unless during its install another worker was about
\* to delete caches, or the server moved.
PrecacheWhole ==
    active # Null /\ active \notin overlapped \cup mixed =>
        \A p \in Assets[active] : cache[active][p] = Body(active, p)

\* A tab does not get a chunk of the version it runs only if the server, or the
\* way to it, is not there to ask and the worker that controls the tab is not
\* that version's own, or lost its cache; or if that worker was installed
\* while the server moved and answered with the shell what it no longer had.
LossExplained ==
    [][\A t \in lost' \ lost :
          \/ /\ ctrl[t] # shell[t] \/ ctrl[t] \in overlapped
             /\ ~online \/ deployed # shell[t]
          \/ ctrl[t] \in mixed /\ fallback]_vars

\* The browser follows the server: it ends with the worker of the deployed
\* version in control of every tab and, unless its activate handler was
\* stopped, with no entry cached for another (skipWaiting, activate, claim).
Followed ==
    /\ active = deployed
    /\ cut \/ /\ \A t \in Tabs : shell[t] # Null => ctrl[t] = deployed
              /\ \A v \in Versions \ {deployed} : cache[v] = NoEntries

FollowsServer ==
    <>[](\E t \in Tabs : shell[t] # Null) => <>[]Followed
=============================================================================
