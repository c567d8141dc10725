------------------------- MODULE ServiceWorker_proofs -------------------------
(* Theorems about ServiceWorker, for every value of its constants. *)
EXTENDS ServiceWorker, TLAPS

-----------------------------------------------------------------------------
(* Contents. *)

\* A version serves bodies, and a hashed file has one content in all of them.
LEMMA BodyFacts ==
    /\ \A v \in Versions, p \in Paths \cup {Shell} : Body(v, p) \in Bodies
    /\ \A v, w \in Versions, p \in Paths \ Static : Body(v, p) = Body(w, p)
BY DEF Body, Bodies

\* What the server answers, when it is a body.
LEMMA RespondFacts ==
    ASSUME deployed \in Versions, NEW p \in Paths
    PROVE  /\ online /\ p \in Assets[deployed] => Respond(p) = Body(deployed, p)
           /\ Respond(p) \in Bodies /\ p \notin Assets[deployed] => fallback
           /\ Respond(p) \in Bodies => online
BY BodyFacts, NullAssumption, AssetsAssumption DEF Respond

-----------------------------------------------------------------------------
(* Type correctness. *)

\* Nothing is left of an install that has ended, or of an activation; an install
\* that is not cut off from its cache has one that exists.
Tidy ==
    /\ installing = Null => fetched = NoEntries /\ ~detached
    /\ installing # Null /\ ~detached => installing \in opened
    /\ activation # "delete" => doomed = {}
    /\ activation # "none" => active # Null

Typed == TypeOK /\ Tidy

\* The browser starts without a worker.
LEMMA TypeInit == Init => Typed
<1> SUFFICES ASSUME Init PROVE Typed
  OBVIOUS
<1>1. deploys \in 0..MaxDeploys /\ failures \in 0..MaxFailures
  BY BoundAssumption DEF Init
<1>2. /\ online \in BOOLEAN /\ fallback \in BOOLEAN /\ detached \in BOOLEAN /\ cut \in BOOLEAN
      /\ ~detached
  BY Zenon DEF Init
<1>3. /\ cache \in [Versions -> [Paths -> Entries]] /\ fetched \in [Paths -> Entries]
      /\ fetched = NoEntries /\ \A v \in Versions : cache[v] = NoEntries
  BY DEF Init, NoEntries, Entries
<1>4. /\ deployed \in Versions /\ opened = {} /\ {installing, waiting, active} \subseteq Workers
      /\ installing = Null /\ active = Null /\ activation = "none" /\ doomed = {}
      /\ shell \in [Tabs -> Workers] /\ ctrl \in [Tabs -> {active, Null}]
      /\ lost = {} /\ overlapped = {} /\ mixed = {}
  BY AssetsAssumption DEF Init, Workers
<1> QED BY <1>1, <1>2, <1>3, <1>4 DEF Typed, TypeOK, Tidy

\* Every step of a handler, of the server and of the tabs keeps the types.
LEMMA TypeStep == Typed /\ [Next]_vars => Typed'
<1> SUFFICES ASSUME Typed, [Next]_vars
             PROVE  Typed'
  OBVIOUS
<1> USE AssetsAssumption, NullAssumption, BoundAssumption
    DEF Typed, TypeOK, Tidy, Workers, Entries, NoEntries, server, caches, registration,
        tabs, history
<1>0. Fails => failures' \in 0..MaxFailures
  BY DEF Fails
<1>1. ASSUME NEW v \in Versions, Deploy(v) PROVE Typed'
  BY <1>1 DEF Deploy
<1>2. CASE GoOffline
  BY <1>0, <1>2 DEF GoOffline
<1>3. CASE GoOnline
  BY <1>3 DEF GoOnline
<1>4. CASE Update
  BY <1>4 DEF Update
<1>5. ASSUME NEW p \in Paths, FetchAsset(p) PROVE Typed'
  BY <1>5 DEF FetchAsset, InstallEnds
<1>6. CASE Installed
  <2>1. installing \in Versions /\ InstallEnds /\ UNCHANGED opened
    BY <1>6 DEF Installed
  <2>2. /\ cache' \in [Versions -> [Paths -> Entries]]
        /\ \A v \in Versions \ opened : cache'[v] = NoEntries
    BY <1>6, <2>1 DEF Installed, AddAll, Stored
  <2> QED BY <1>6, <2>1, <2>2 DEF Installed, InstallEnds
<1>7. CASE InstallFails
  BY <1>0, <1>7 DEF InstallFails, InstallEnds
<1>8. CASE Activate
  BY <1>8 DEF Activate
<1>9. CASE Keys
  BY <1>9 DEF Keys, OtherKeys
<1>10. ASSUME NEW k \in Versions, Delete(k) PROVE Typed'
  BY <1>10 DEF Delete
<1>11. CASE Claim
  BY <1>11 DEF Claim
<1>12. CASE ActivationFails
  BY <1>0, <1>12 DEF ActivationFails
<1>13. ASSUME NEW t \in Tabs, Navigate(t) PROVE Typed'
  BY <1>13 DEF Navigate, Through
<1>14. ASSUME NEW t \in Tabs, Load(t) PROVE Typed'
  BY <1>14 DEF Load, Through
<1>15. ASSUME NEW t \in Tabs, CloseTab(t) PROVE Typed'
  BY <1>15 DEF CloseTab
<1>16. CASE UNCHANGED vars
  BY <1>16 DEF vars
<1> QED BY <1>1, <1>2, <1>3, <1>4, <1>5, <1>6, <1>7, <1>8, <1>9, <1>10, <1>11,
           <1>12, <1>13, <1>14, <1>15, <1>16 DEF Next, InstallStep, ActivateStep

\* The registration, the caches and the tabs keep their types.
THEOREM TypeCorrect == Spec => []TypeOK
<1>1. Typed => TypeOK
  BY DEF Typed
<1> QED BY <1>1, TypeInit, TypeStep, PTL DEF Spec

-----------------------------------------------------------------------------
(* The inductive invariant. *)

\* An install that began behind no other worker stays alone until it has ended:
\* nothing waits, nothing deletes, its cache has its name; and as long as the
\* server has not moved, it has the version that is being installed.
InstallAlone ==
    installing # Null =>
        /\ installing \notin overlapped =>
              waiting = Null /\ activation = "none" /\ ~detached
        /\ installing \in mixed \/ installing = deployed
        /\ installing # Newest

\* No activate handler runs while such a worker waits.
WaitsInPeace == waiting # Null /\ waiting \notin overlapped => activation = "none"

\* e is what version v has under path p, or nothing; but for an install during
\* which the server moved, and then only where a name does not name the content
\* or the shell is the answer to any name.
Trusted(v, p, e) ==
    e \in {Null, Body(v, p)} \/ (v \in mixed /\ (fallback \/ p \in Static))

EntriesTrusted ==
    /\ \A v \in Versions, p \in Paths : Trusted(v, p, cache[v][p])
    /\ installing # Null => \A p \in Paths : Trusted(installing, p, fetched[p])

\* A worker that was alone has something for each of its assets.
NothingMissing ==
    \A v \in {waiting, active} \ ({Null} \cup overlapped) :
        \A p \in Assets[v] : cache[v][p] # Null

Installs == InstallAlone /\ WaitsInPeace /\ EntriesTrusted /\ NothingMissing

\* The caches of Init are empty.
LEMMA InstallsInit == Init => Installs
BY NullAssumption
   DEF Init, Installs, InstallAlone, WaitsInPeace, EntriesTrusted, Trusted,
       NothingMissing, NoEntries

\* The steps of one worker's install and activation keep what is known of every
\* other's, in whatever order the browser takes them.
LEMMA InstallsStep == Typed /\ Installs /\ [Next]_vars => Installs'
<1> SUFFICES ASSUME Typed, Installs, [Next]_vars
             PROVE  Installs'
  OBVIOUS
<1> USE AssetsAssumption, NullAssumption
    DEF Typed, TypeOK, Tidy, Workers, Entries, NoEntries, server, caches, registration,
        tabs, history, Installs, InstallAlone, WaitsInPeace, EntriesTrusted, Trusted,
        NothingMissing, Newest
<1>1. ASSUME NEW v \in Versions, Deploy(v) PROVE Installs'
  BY <1>1 DEF Deploy
<1>2. CASE GoOffline
  BY <1>2 DEF GoOffline
<1>3. CASE GoOnline
  BY <1>3 DEF GoOnline
<1>4. CASE Update
  BY <1>4 DEF Update
<1>5. ASSUME NEW p \in Paths, FetchAsset(p) PROVE Installs'
  <2>1. installing \in Versions /\ p \in Assets[installing]
    BY <1>5 DEF FetchAsset, Missing
  <2>2. CASE Respond(p) \in Bodies
    <3>1. online /\ (p \in Assets[deployed] => Respond(p) = Body(deployed, p))
          /\ (p \notin Assets[deployed] => fallback)
      BY <2>2, RespondFacts
    <3>2. Trusted(installing, p, Respond(p))
      BY <2>1, <3>1, BodyFacts
    <3>3. fetched' = [fetched EXCEPT ![p] = Respond(p)]
          /\ UNCHANGED <<installing, detached, server, caches, waiting, active, activation, history>>
      BY <1>5, <2>2 DEF FetchAsset
    <3> HIDE DEF Trusted
    <3>4. \A q \in Paths : Trusted(installing, q, fetched'[q])
      BY <2>1, <3>2, <3>3
    <3> USE DEF Trusted
    <3> QED BY <3>3, <3>4
  <2>3. CASE Respond(p) \notin Bodies
    BY <1>5, <2>3 DEF FetchAsset, InstallEnds
  <2> QED BY <2>2, <2>3
<1>6. CASE Installed
  BY <1>6 DEF Installed, InstallEnds, AddAll, Stored, Awaited, Missing
<1>7. CASE InstallFails
  BY <1>7 DEF InstallFails, InstallEnds
<1>8. CASE Activate
  BY <1>8 DEF Activate
<1>9. CASE Keys
  BY <1>9 DEF Keys
<1>10. ASSUME NEW k \in Versions, Delete(k) PROVE Installs'
  BY <1>10 DEF Delete
<1>11. CASE Claim
  BY <1>11 DEF Claim
<1>12. CASE ActivationFails
  BY <1>12 DEF ActivationFails
<1>13. ASSUME NEW t \in Tabs, Navigate(t) PROVE Installs'
  BY <1>13 DEF Navigate, Through
<1>14. ASSUME NEW t \in Tabs, Load(t) PROVE Installs'
  BY <1>14 DEF Load, Through
<1>15. ASSUME NEW t \in Tabs, CloseTab(t) PROVE Installs'
  BY <1>15 DEF CloseTab
<1>16. CASE UNCHANGED vars
  BY <1>16 DEF vars
<1> QED BY <1>1, <1>2, <1>3, <1>4, <1>5, <1>6, <1>7, <1>8, <1>9, <1>10, <1>11,
           <1>12, <1>13, <1>14, <1>15, <1>16 DEF Next, InstallStep, ActivateStep

\* An active worker that was alone and whose server stood still during its install
\* has every asset of its version, with the content of that version.
THEOREM PrecacheWholeAlways == Spec => []PrecacheWhole
<1>1. Typed /\ Installs => PrecacheWhole
  BY AssetsAssumption DEF Typed, TypeOK, Workers, Installs, EntriesTrusted, Trusted, NothingMissing, PrecacheWhole
<1> QED BY <1>1, TypeInit, TypeStep, InstallsInit, InstallsStep, PTL DEF Spec

-----------------------------------------------------------------------------
(* Chunks are lost for a reason. *)

\* A tab that does not get a chunk of its version runs behind a worker that is not
\* its own, or was not left alone, when the server cannot help; or behind one
\* that stored the shell under the name of the chunk.
LEMMA LossStep ==
    ASSUME Typed, Installs, [Next]_vars, NEW t \in lost' \ lost
    PROVE  \/ /\ ctrl[t] # shell[t] \/ ctrl[t] \in overlapped
              /\ ~online \/ deployed # shell[t]
           \/ ctrl[t] \in mixed /\ fallback
<1>1. t \in Tabs /\ Load(t)
  BY DEF Next, InstallStep, ActivateStep, vars, tabs, registration, Deploy, GoOffline, GoOnline, Update, FetchAsset,
     Installed, InstallFails, Activate, Keys, Delete, Claim, ActivationFails,
     Navigate, Load, CloseTab, history
<1>2. PICK p \in Assets[shell[t]] \ Static : Answer(ctrl[t], p) # Body(shell[t], p)
  BY <1>1 DEF Load
<1>3. shell[t] \in Versions /\ p \in Paths \ Static
  BY <1>1, <1>2, AssetsAssumption DEF Load, Typed, TypeOK, Workers
<1>4. Respond(p) # Body(shell[t], p) => ~online \/ deployed # shell[t]
  BY <1>2, <1>3, RespondFacts DEF Typed, TypeOK
<1>5. CASE ctrl[t] = Null
  BY <1>2, <1>3, <1>4, <1>5, NullAssumption DEF Answer
<1>6. CASE ctrl[t] # Null
  <2>1. ctrl[t] = active /\ active \in Versions
    BY <1>1, <1>6 DEF Typed, TypeOK, Workers
  <2>2. CASE Answer(ctrl[t], p) = cache[active][p] /\ cache[active][p] # Null
    <3>1. cache[active][p] # Body(active, p)
      BY <1>2, <1>3, <2>1, <2>2, BodyFacts
    <3> QED BY <1>3, <2>1, <2>2, <3>1 DEF Installs, EntriesTrusted, Trusted
  <2>3. CASE Answer(ctrl[t], p) = Respond(p)
              /\ (cache[active][p] = Null \/ p \notin Assets[active])
    <3>1. ctrl[t] # shell[t] \/ ctrl[t] \in overlapped
      BY <1>2, <2>1, <2>3, NullAssumption DEF Installs, NothingMissing
    <3> QED BY <1>2, <1>4, <2>3, <3>1
  <2> QED BY <1>3, <1>6, <2>1, <2>2, <2>3 DEF Answer, FetchHandler, CachedBy
<1> QED BY <1>5, <1>6

\* No tab loses a chunk for any other reason, at any time.
THEOREM LossExplainedAlways == Spec => LossExplained
<1>1. Typed /\ Installs /\ [Next]_vars =>
         [\A t \in lost' \ lost :
          \/ /\ ctrl[t] # shell[t] \/ ctrl[t] \in overlapped
             /\ ~online \/ deployed # shell[t]
          \/ ctrl[t] \in mixed /\ fallback]_vars
  BY LossStep
<1> QED BY <1>1, TypeInit, TypeStep, InstallsInit, InstallsStep, PTL DEF Spec, LossExplained
=============================================================================
