------------------------------- MODULE Startup -------------------------------
(***************************************************************************)
(* The start of EchoBoard's processes on one database: main.run, db.Open,  *)
(* DB.Migrate and serve.  Processes of different builds may start together *)
(* (a server, --setup, the server that replaces it), fail, die and be      *)
(* started again.  A migration is a transaction; while it is open, what it *)
(* wrote locks others out (SQLite: the whole database, Postgres: the       *)
(* object).  A statement that is locked out waits, or fails as busy.       *)
(***************************************************************************)
EXTENDS Config, Sequences, SequencesExt, FiniteSets

CONSTANTS Servers, Setups,   \* the processes: server and --setup
          Names,             \* the embedded files, in name order
          Body,              \* the tokens of each file
          Embedded,          \* how many of the files a process's build has
          Envs,              \* environments a deployment may have
          MaxStarts          \* bound on the starts

Procs == Servers \cup Setups
Versions == Range(Names)
MigrationsTable == "schema_migrations"

ASSUME StartupAssumption ==
    /\ Servers \cap Setups = {} /\ IsFiniteSet(Procs)
    /\ Names \in Seq(DOMAIN Body) /\ IsInjective(Names)
    /\ Embedded \in [Procs -> 0..Len(Names)]
    /\ MaxStarts \in Nat

(* A file is a sequence of tokens: "--" for a comment line, ";", and one    *)
(* token for the rest of a statement, the name of what it creates.          *)

\* strings.Split at every semicolon.
Parts(body) ==
    LET ends == SetToSortSeq({i \in DOMAIN body : body[i] = ";"} \cup {Len(body) + 1}, <)
    IN  [k \in DOMAIN ends |->
            SubSeq(body, IF k = 1 THEN 1 ELSE ends[k - 1] + 1, ends[k] - 1)]

StripComments(part) == SelectSeq(part, LAMBDA t : t # "--")

SplitStatements(body) ==
    LET stripped == [k \in DOMAIN Parts(body) |-> StripComments(Parts(body)[k])]
    IN  SelectSeq(stripped, LAMBDA s : s # <<>>)

\* What is executed of each file.
Statements == [v \in Versions |-> SplitStatements(Body[v])]

\* What a file is there to create.
Creates(v) == Range(Body[v]) \ {"--", ";"}
Objects == {MigrationsTable} \cup UNION {Creates(v) : v \in Versions}

\* The statements that create one of these.
CreateStatements(S) == {<<x>> : x \in S}

\* The embedded files: each is a list of CREATE statements, of which no two files
\* share one, and none creates schema_migrations.
ASSUME FilesAssumption ==
    /\ \A v \in Versions :
          /\ Statements[v] \in Seq(CreateStatements(Creates(v)))
          /\ \A x \in Creates(v) : \E i \in DOMAIN Statements[v] : Statements[v][i] = <<x>>
    /\ \A v, w \in Versions : v # w => Creates(v) \cap Creates(w) = {}
    /\ \A v \in Versions : MigrationsTable \notin Creates(v)
    /\ Versions \cap Objects = {}

VARIABLES
    env,        \* the environment of the deployment
    recorded,   \* the versions in schema_migrations
    objects,    \* the committed tables and indexes
    at,         \* the step a process is at, "down" if it does not run
    applied,    \* the map of applied versions a process read
    stmts,      \* the statements left of the migration it applies
    tx,         \* what its open transaction wrote
    conns,      \* connections it has taken from its pool
    requests,   \* the processes whose HTTP server has requests to answer
    cause,      \* why it last ended
    raced,      \* history: processes that migrated while others did
    starts      \* starts so far

database == <<env, recorded, objects>>
vars == <<database, at, applied, stmts, tx, conns, requests, cause, raced, starts>>

cfg == Load(env)

\* SetMaxOpenConns.
PoolSize == IF cfg.DBDriver = "sqlite" THEN 1 ELSE 10

InTransaction == {"exec", "record", "commit"}
Migrating == {"ensure", "read", "next"} \cup InTransaction
Running == {"listen", "serving", "draining"}
Steps == {"down", "open", "setup"} \cup Migrating \cup Running
Causes == {"none", "config", "fault", "busy", "conflict", "listen", "done", "timeout",
           "killed"}

Init ==
    /\ env \in Envs
    /\ recorded = {} /\ objects = {}
    /\ at = [p \in Procs |-> "down"]
    /\ applied = [p \in Procs |-> {}]
    /\ stmts = [p \in Procs |-> <<>>]
    /\ tx = [p \in Procs |-> {}]
    /\ conns = [p \in Procs |-> 0]
    /\ requests = {}
    /\ cause = [p \in Procs |-> "none"]
    /\ raced = {} /\ starts = 0

Goto(p, step) == at' = [at EXCEPT ![p] = step]

\* The process ends, its transaction is rolled back and its locks are free.
Exit(p, why) ==
    /\ at' = [at EXCEPT ![p] = "down"]
    /\ applied' = [applied EXCEPT ![p] = {}]
    /\ stmts' = [stmts EXCEPT ![p] = <<>>]
    /\ tx' = [tx EXCEPT ![p] = {}]
    /\ conns' = [conns EXCEPT ![p] = 0]
    /\ requests' = requests \ {p}
    /\ cause' = [cause EXCEPT ![p] = why]
    /\ UNCHANGED <<database, raced, starts>>

Elsewhere(p, steps) == \E q \in Procs \ {p} : at[q] \in steps

\* Another transaction keeps p from writing x.
Locked(p, x) ==
    \E q \in Procs \ {p} :
        IF cfg.DBDriver = "sqlite" THEN tx[q] # {} ELSE x \in tx[q]

\* run: the configuration is loaded and validated before anything is opened.
Start(p) ==
    /\ at[p] = "down" /\ starts < MaxStarts
    /\ starts' = starts + 1
    /\ IF Loads(env) /\ Validate(cfg)
       THEN Goto(p, "open") /\ cause' = [cause EXCEPT ![p] = "none"]
       ELSE cause' = [cause EXCEPT ![p] = "config"] /\ UNCHANGED at
    /\ UNCHANGED <<database, applied, stmts, tx, conns, requests, raced>>

\* Open: the driver is resolved and the connection answers the ping.
Open(p) ==
    /\ at[p] = "open"
    /\ Goto(p, "ensure")
    /\ raced' = IF Elsewhere(p, Migrating)
                THEN raced \cup {p} \cup {q \in Procs : at[q] \in Migrating}
                ELSE raced \ {p}
    /\ UNCHANGED <<database, applied, stmts, tx, conns, requests, cause, starts>>

\* ensureMigrationsTable: CREATE TABLE IF NOT EXISTS, committed at once.
EnsureMigrationsTable(p) ==
    /\ at[p] = "ensure"
    /\ objects' = objects \cup {MigrationsTable}
    /\ Goto(p, "read")
    /\ UNCHANGED <<env, recorded, applied, stmts, tx, conns, requests, cause, raced, starts>>

\* The query of appliedVersions; its connection is back when the rows are
\* closed.  Variant: the file names are looked up with their suffix, so that
\* none is ever found.
ReadNothing(p) == applied' = [applied EXCEPT ![p] = {}] /\ UNCHANGED conns
ReadVersions(p) == applied' = [applied EXCEPT ![p] = recorded] /\ UNCHANGED conns

AppliedVersions(p) ==
    /\ at[p] = "read"
    /\ ReadVersions(p)
    /\ Goto(p, "next")
    /\ UNCHANGED <<database, stmts, tx, requests, cause, raced, starts>>

\* The positions of the files of p's build that are not applied.
Pending(p) == {i \in 1..Embedded[p] : Names[i] \notin applied[p]}

\* The loop of Migrate: the next file that is not applied, in name order.
\* Variant: unsorted, the newest first.
NewestPending(p) == Names[Max(Pending(p))]
NextVersion(p) == Names[Min(Pending(p))]

\* BeginTx takes a connection and no lock yet.
Begin(p) ==
    /\ at[p] = "next" /\ Pending(p) # {}
    /\ conns[p] < PoolSize /\ conns' = [conns EXCEPT ![p] = @ + 1]
    /\ stmts' = [stmts EXCEPT ![p] = Statements[NextVersion(p)]]
    /\ Goto(p, "exec")
    /\ UNCHANGED <<database, applied, tx, requests, cause, raced, starts>>

\* One statement of the file: CREATE ... IF NOT EXISTS.  One that exists is
\* not written.  Variant: outside the transaction, committed at once.
ExecDirectly(p, x) == objects' = objects \cup {x} /\ UNCHANGED tx
ExecInTx(p, x) ==
    /\ tx' = IF x \in objects THEN tx ELSE [tx EXCEPT ![p] = @ \cup {x}]
    /\ UNCHANGED objects

Exec(p) ==
    /\ at[p] = "exec" /\ stmts[p] # <<>>
    /\ LET x == Head(Head(stmts[p]))
       IN  /\ x \notin objects => ~Locked(p, x)
           /\ ExecInTx(p, x)
    /\ stmts' = [stmts EXCEPT ![p] = Tail(@)]
    /\ UNCHANGED <<env, recorded, at, applied, conns, requests, cause, raced, starts>>

Executed(p) ==
    /\ at[p] = "exec" /\ stmts[p] = <<>>
    /\ Goto(p, "record")
    /\ UNCHANGED <<database, applied, stmts, tx, conns, requests, cause, raced, starts>>

\* INSERT INTO schema_migrations; its primary key refuses a version that
\* another process recorded in the meantime, and Migrate returns the error.
\* Variants: run ignores the error; Migrate goes on without a rollback.
ConflictIgnored(p) ==
    /\ Goto(p, IF p \in Setups THEN "setup" ELSE "listen")
    /\ tx' = [tx EXCEPT ![p] = {}] /\ conns' = [conns EXCEPT ![p] = 0]
    /\ UNCHANGED <<database, applied, stmts, requests, cause, raced, starts>>
ConflictSkipped(p) ==
    /\ Goto(p, "next")
    /\ applied' = [applied EXCEPT ![p] = @ \cup {NextVersion(p)}]
    /\ UNCHANGED <<database, stmts, tx, conns, requests, cause, raced, starts>>
Conflict(p) == Exit(p, "conflict")

Record(p) ==
    /\ at[p] = "record"
    /\ ~Locked(p, NextVersion(p))
    /\ IF NextVersion(p) \in recorded
       THEN Conflict(p)
       ELSE /\ tx' = [tx EXCEPT ![p] = @ \cup {NextVersion(p)}]
            /\ Goto(p, "commit")
            /\ UNCHANGED <<database, applied, stmts, conns, requests, cause, raced, starts>>

\* Commit, with its effect on the database.
Committed(p) ==
    /\ recorded' = recorded \cup (tx[p] \cap Versions)
    /\ objects' = objects \cup (tx[p] \ Versions)

Commit(p) ==
    /\ at[p] = "commit"
    /\ Committed(p)
    /\ applied' = [applied EXCEPT ![p] = @ \cup {NextVersion(p)}]
    /\ tx' = [tx EXCEPT ![p] = {}]
    /\ conns' = [conns EXCEPT ![p] = @ - 1]
    /\ Goto(p, "next")
    /\ UNCHANGED <<env, stmts, requests, cause, raced, starts>>

\* Migrate is done: run goes on to the setup or to listen.
Migrated(p) ==
    /\ at[p] = "next" /\ Pending(p) = {}
    /\ Goto(p, IF p \in Setups THEN "setup" ELSE "listen")
    /\ UNCHANGED <<database, applied, stmts, tx, conns, requests, cause, raced, starts>>

\* runSetup ends (its statements are in Provisioning).
SetupEnds(p) == at[p] = "setup" /\ Exit(p, "done")

\* serve: ListenAndServe fails if another server has the address.
Listen(p) ==
    /\ at[p] = "listen"
    /\ IF Elsewhere(p, {"serving"})
       THEN Exit(p, "listen")
       ELSE Goto(p, "serving")
            /\ UNCHANGED <<database, applied, stmts, tx, conns, requests, cause,
                           raced, starts>>

\* Requests arrive while the server listens, and are answered in their time.
Request(p) ==
    /\ \/ at[p] = "serving" /\ requests' = requests \cup {p}
       \/ at[p] \in {"serving", "draining"} /\ requests' = requests \ {p}
    /\ UNCHANGED <<database, at, applied, stmts, tx, conns, cause, raced, starts>>

\* An interrupt: Shutdown closes the listener, and another server may have the
\* address from then on.
Signal(p) ==
    /\ at[p] = "serving"
    /\ Goto(p, "draining")
    /\ UNCHANGED <<database, applied, stmts, tx, conns, requests, cause, raced, starts>>

\* Shutdown returns when nothing is left to answer, or with an error at its
\* deadline.  The variant has no deadline.
DrainForever(p) == at[p] = "draining" /\ p \notin requests /\ Exit(p, "done")
Drain(p) ==
    /\ at[p] = "draining"
    /\ IF p \in requests THEN Exit(p, "timeout") ELSE Exit(p, "done")

\* A statement that is locked out fails: the busy timeout is over or there is
\* none, or Postgres finds the object created by the other transaction.
\* SQLite's commit waits in the same way for readers to leave.
Busy(p) ==
    /\ \/ at[p] = "ensure" /\ Elsewhere(p, {"ensure"})
       \/ /\ at[p] = "exec" /\ stmts[p] # <<>>
          /\ Head(Head(stmts[p])) \notin objects /\ Locked(p, Head(Head(stmts[p])))
       \/ at[p] = "record" /\ Locked(p, NextVersion(p))
       \/ at[p] = "commit" /\ cfg.DBDriver = "sqlite" /\ Elsewhere(p, InTransaction)
    /\ Exit(p, "busy")

\* A statement, the ping or the listener fails for a reason of its own.
Fault(p) ==
    /\ at[p] \in ({"open", "listen", "serving"} \cup Migrating) \ {"next"}
    /\ Exit(p, "fault")

\* The commit takes effect and its answer is lost.
CommitLost(p) ==
    /\ at[p] = "commit"
    /\ Committed(p)
    /\ at' = [at EXCEPT ![p] = "down"]
    /\ applied' = [applied EXCEPT ![p] = {}]
    /\ tx' = [tx EXCEPT ![p] = {}]
    /\ conns' = [conns EXCEPT ![p] = 0]
    /\ cause' = [cause EXCEPT ![p] = "fault"]
    /\ UNCHANGED <<env, stmts, requests, raced, starts>>

\* The process is killed, at any point.
Killed(p) == at[p] # "down" /\ Exit(p, "killed")

Step(p) ==
    \/ Open(p) \/ EnsureMigrationsTable(p) \/ AppliedVersions(p)
    \/ Begin(p) \/ Exec(p) \/ Executed(p) \/ Record(p) \/ Commit(p)
    \/ Migrated(p) \/ Listen(p) \/ Drain(p) \/ Busy(p)

Environment(p) ==
    \/ Start(p) \/ SetupEnds(p) \/ Request(p) \/ Signal(p)
    \/ Fault(p) \/ CommitLost(p) \/ Killed(p)

\* The end of a bounded instance.
Quiet ==
    /\ starts = MaxStarts /\ \A p \in Procs : at[p] = "down"
    /\ UNCHANGED vars

Next == (\E p \in Procs : Step(p) \/ Environment(p)) \/ Quiet

Spec == Init /\ [][Next]_vars

\* A process that can go on does, and a deadline passes; nothing obliges it to
\* start, to be interrupted, to answer a request, to fail or to die.
FairSpec == Spec /\ \A p \in Procs : WF_vars(Step(p))
-----------------------------------------------------------------------------

TypeOK ==
    /\ env \in Envs
    /\ recorded \subseteq Versions
    /\ objects \subseteq Objects
    /\ at \in [Procs -> Steps]
    /\ applied \in [Procs -> SUBSET Versions]
    /\ stmts \in [Procs -> Seq(CreateStatements(Objects))]
    /\ tx \in [Procs -> SUBSET (Objects \cup Versions)]
    /\ conns \in [Procs -> 0..1]
    /\ \A p \in Procs :
        /\ at[p] \notin InTransaction => tx[p] = {}
        /\ conns[p] = IF at[p] \in InTransaction THEN 1 ELSE 0
    /\ requests \subseteq {p \in Procs : at[p] \in {"serving", "draining"}}
    /\ cause \in [Procs -> Causes]
    /\ raced \subseteq Procs
    /\ starts \in 0..MaxStarts

\* Whatever fails and whoever else migrates, schema_migrations and the schema
\* agree: a version is recorded exactly when all that its file creates exists,
\* and none of it exists otherwise (applyMigration's transaction).
SchemaMatchesRecord ==
    \A v \in Versions :
        IF v \in recorded THEN Creates(v) \subseteq objects
                          ELSE Creates(v) \cap objects = {}

\* A process gets to the setup or to serving, and answers its last request, only
\* on a database that has every migration of its own build, whichever process
\* applied it and whichever replaces it already (run, serve).
RunsOnFullSchema ==
    \A p \in Procs : at[p] \in {"setup"} \cup Running =>
        \A i \in 1..Embedded[p] : Names[i] \in recorded /\ Creates(Names[i]) \subseteq objects

\* A start that no other start overlaps is never refused by what the database
\* holds: after any sequence of failures, deaths and older or newer builds the
\* next start resumes ("It is safe to call on every startup", migrate.go:17).
SoloStartMigrates ==
    \A p \in Procs : cause[p] \in {"conflict", "busy"} => p \in raced

\* No server runs in production, however it is spelled, with a key that does
\* not survive a restart (Validate and NewVault).
ProductionHasKey ==
    \A p \in Procs : at[p] \in {"serving", "draining"} /\ env.APP_ENV \in {"production", "Production"}
        => NewVault(cfg.SecretKey) # "ephemeral"

History == INSTANCE SchemaHistory WITH created <- objects \ {MigrationsTable}

\* Any number of processes implement the abstract history of the schema.
ImplementsSchemaHistory == History!Spec

\* Processes that migrate together do not wait on each other for ever: every
\* start ends up serving, at the operator's prompt, or down; and a server that
\* was interrupted ends, although a request of it does not (serve).
StartsSettle ==
    \A p \in Procs :
        at[p] \in Migrating \cup {"draining"} ~> at[p] \in {"setup", "serving", "down"}

\* "Callers should require a real key in production (config.Validate enforces
\* this)" (vault.go:21-22): a server in production has a key NewVault accepts.
RealKeyInProduction ==
    \A p \in Procs : at[p] = "serving" /\ IsProduction(cfg) => NewVault(cfg.SecretKey) = "durable"
=============================================================================
