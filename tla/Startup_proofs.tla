---------------------------- MODULE Startup_proofs ----------------------------
(* Theorems about Startup, for every value of its constants. *)
EXTENDS Startup, SequenceTheorems, TLAPS

-----------------------------------------------------------------------------
(* The list of files. *)

\* The first k files.
Upto(k) == {Names[i] : i \in 1..k}

\* Files have one position each, and the versions are those of the files.
LEMMA NamesFacts ==
    /\ Len(Names) \in Nat
    /\ \A i \in 1..Len(Names) : Names[i] \in Versions
    /\ \A i, j \in 1..Len(Names) : Names[i] = Names[j] => i = j
    /\ \A v \in Versions : \E i \in 1..Len(Names) : v = Names[i]
<1>1. Len(Names) \in Nat /\ DOMAIN Names = 1..Len(Names)
  BY StartupAssumption, LenProperties
<1> QED BY <1>1, StartupAssumption DEF Versions, Range, IsInjective

\* A file is among the first k when its position is.
LEMMA UptoFacts ==
    ASSUME NEW k \in 0..Len(Names)
    PROVE  /\ Upto(k) \subseteq Versions
           /\ \A i \in 1..Len(Names) : Names[i] \in Upto(k) <=> i <= k
           /\ k < Len(Names) => Upto(k + 1) = Upto(k) \cup {Names[k + 1]}
<1>1. Upto(k) \subseteq Versions
  BY NamesFacts DEF Upto
<1>2. \A i \in 1..Len(Names) : Names[i] \in Upto(k) <=> i <= k
  BY NamesFacts DEF Upto
<1>3. ASSUME k < Len(Names) PROVE Upto(k + 1) = Upto(k) \cup {Names[k + 1]}
  <2>1. 1..(k + 1) = (1..k) \cup {k + 1}
    BY NamesFacts
  <2> QED BY <2>1 DEF Upto
<1> QED BY <1>1, <1>2, <1>3

\* Prefixes of the list are in the order of their lengths.
LEMMA UptoOrder ==
    ASSUME NEW j \in 0..Len(Names), NEW k \in 0..Len(Names), Upto(j) \subseteq Upto(k)
    PROVE  j <= k
<1>1. CASE j = 0
  BY <1>1, NamesFacts
<1>2. CASE j # 0
  BY <1>2, UptoFacts, NamesFacts
<1> QED BY <1>1, <1>2

\* What is applied being a prefix, the pending files are those behind it, and the
\* next one is the first of them.
LEMMA NextFacts ==
    ASSUME NEW p \in Procs, NEW j \in 0..Len(Names), applied[p] = Upto(j)
    PROVE  /\ Pending(p) = (j + 1)..Embedded[p]
           /\ Pending(p) # {} =>
                 j < Len(Names) /\ NextVersion(p) = Names[j + 1]
<1>1. Embedded[p] \in 0..Len(Names) /\ Len(Names) \in Nat
  BY NamesFacts, StartupAssumption
<1>2. Pending(p) = (j + 1)..Embedded[p]
  BY <1>1, UptoFacts DEF Pending
<1>3. ASSUME Pending(p) # {} PROVE NextVersion(p) = Names[j + 1]
  <2>1. j + 1 \in Pending(p) /\ \A i \in Pending(p) : j + 1 <= i
    BY <1>1, <1>2, <1>3
  <2>2. \A m \in Pending(p) : m \in Int
    BY <1>1, <1>2
  <2>3. Min(Pending(p)) = j + 1
    <3> HIDE DEF Pending
    <3> QED BY <1>1, <2>1, <2>2 DEF Min
  <2> QED BY <2>3 DEF NextVersion
<1> QED BY <1>1, <1>2, <1>3

-----------------------------------------------------------------------------
(* The files. *)

\* What a file creates is among the objects, and none of it is a version.
LEMMA ObjectFacts ==
    /\ MigrationsTable \in Objects
    /\ \A v \in Versions : Creates(v) \subseteq Objects \ {MigrationsTable}
    /\ Versions \cap Objects = {}
BY FilesAssumption DEF Objects

\* A list of statements that is not at its end starts with one that creates one
\* object, and the others follow.
LEMMA StatementFacts ==
    ASSUME NEW S, NEW s \in Seq(CreateStatements(S))
    PROVE  s # <<>> =>
              /\ Head(Head(s)) \in S
              /\ Tail(s) \in Seq(CreateStatements(S))
              /\ \A i \in 1..Len(s) : s[i] = Head(s) \/ \E j \in 1..Len(Tail(s)) : Tail(s)[j] = s[i]
              /\ Head(s) = <<Head(Head(s))>>
<1> SUFFICES ASSUME s # <<>>
             PROVE  /\ Head(Head(s)) \in S
                    /\ Tail(s) \in Seq(CreateStatements(S))
                    /\ \A i \in 1..Len(s) : s[i] = Head(s) \/ \E j \in 1..Len(Tail(s)) : Tail(s)[j] = s[i]
                    /\ Head(s) = <<Head(Head(s))>>
  OBVIOUS
<1>1. /\ Head(s) \in CreateStatements(S)
      /\ Tail(s) \in Seq(CreateStatements(S))
      /\ Len(s) \in Nat
      /\ Len(Tail(s)) = Len(s) - 1
      /\ Head(s) = s[1]
      /\ \A j \in 1..Len(Tail(s)) : Tail(s)[j] = s[j + 1]
  BY HeadTailProperties, LenProperties
<1>2. PICK x \in S : Head(s) = <<x>>
  BY <1>1 DEF CreateStatements
<1>3. Head(Head(s)) = x
  BY <1>2
<1>4. ASSUME NEW i \in 1..Len(s), i # 1
      PROVE  \E j \in 1..Len(Tail(s)) : Tail(s)[j] = s[i]
  <2>1. i - 1 \in 1..Len(Tail(s)) /\ (i - 1) + 1 = i
    BY <1>1, <1>4
  <2> QED BY <1>1, <2>1
<1> QED BY <1>1, <1>2, <1>3, <1>4

\* The files' own statements are among those of all objects.
LEMMA FileStatements ==
    ASSUME NEW v \in Versions
    PROVE  Statements[v] \in Seq(CreateStatements(Objects))
<1>1. CreateStatements(Creates(v)) \subseteq CreateStatements(Objects)
  BY ObjectFacts DEF CreateStatements
<1> QED BY <1>1, FilesAssumption

-----------------------------------------------------------------------------------------------------------------------------------------------
(* The inductive invariants, in the order in which they rest on each other. *)

\* What is recorded is a prefix of the files, and what a process believes to be
\* applied is a prefix of that.
InOrder ==
    \E k \in 0..Len(Names) :
        /\ recorded = Upto(k)
        /\ \A p \in Procs : \E j \in 0..k : applied[p] = Upto(j)

\* No two open transactions have written the same thing.
Separate == \A p, q \in Procs : p # q => tx[p] \cap tx[q] = {}

\* A transaction writes what its file creates, all of it by the time it records
\* the version, and nobody else records the version once it has.
TransactionOf(p) ==
    /\ Pending(p) # {}
    /\ tx[p] \subseteq Creates(NextVersion(p)) \cup {NextVersion(p)}
    /\ NextVersion(p) \in tx[p] <=> at[p] = "commit"
    /\ at[p] = "commit" => NextVersion(p) \notin recorded
    /\ stmts[p] \in Seq(CreateStatements(Creates(NextVersion(p))))
    /\ \A x \in Creates(NextVersion(p)) :
          \/ x \in objects \cup tx[p]
          \/ at[p] = "exec" /\ \E i \in 1..Len(stmts[p]) : stmts[p][i] = <<x>>

Transactions == \A p \in Procs : at[p] \in InTransaction => TransactionOf(p)

\* What a process relied on when it left Migrate is recorded.
Complete ==
    \A p \in Procs : at[p] \in {"setup"} \cup Running =>
        \A i \in 1..Embedded[p] : Names[i] \in recorded

\* A process that no other overlaps migrates alone, on what it read.
Alone ==
    \A p \in Procs :
        /\ at[p] \in Migrating /\ p \notin raced =>
              \A q \in Procs \ {p} : at[q] \notin Migrating
        /\ at[p] \in {"next"} \cup InTransaction /\ p \notin raced => applied[p] = recorded
        /\ at[p] # "down" => cause[p] = "none"

\* A process that runs passed the checks of its configuration.
Configured == \A p \in Procs : at[p] # "down" => Loads(env) /\ Validate(cfg)

-----------------------------------------------------------------------------
(* Types. *)

\* The sets that the steps of a process are named in.
USE DEF Procs, InTransaction, Migrating, Running, Steps, Causes, database, vars, Goto

\* The next file of a process that has one pending is a file.
LEMMA NextIsVersion ==
    ASSUME InOrder, NEW p \in Procs, Pending(p) # {}
    PROVE  NextVersion(p) \in Versions
<1>1. PICK j \in 0..Len(Names) : applied[p] = Upto(j)
  BY NamesFacts DEF InOrder
<1>2. j < Len(Names) /\ NextVersion(p) = Names[j + 1]
  BY <1>1, NextFacts
<1> QED BY <1>2, NamesFacts

LEMMA BoundOnStarts == MaxStarts \in Nat
BY StartupAssumption

LEMMA TypeInit == Init => TypeOK
BY EmptySeq, BoundOnStarts DEF Init, TypeOK

\* Every step keeps the types, takes at most one connection and leaves nothing
\* behind outside of a transaction.
LEMMA TypeStep == TypeOK /\ InOrder /\ Transactions /\ [Next]_vars => TypeOK'
<1> SUFFICES ASSUME TypeOK, InOrder, Transactions, [Next]_vars
             PROVE  TypeOK'
  OBVIOUS
<1>working. ASSUME NEW p \in Procs, at[p] \in InTransaction PROVE NextVersion(p) \in Versions
  BY <1>working, NextIsVersion DEF Transactions, TransactionOf
<1> USE DEF TypeOK
<1>1. ASSUME NEW p \in Procs, NEW why \in Causes, Exit(p, why) PROVE TypeOK'
  BY <1>1, EmptySeq DEF Exit
<1>2. CASE UNCHANGED vars
  BY <1>2
<1>3. CASE Quiet
  BY <1>3 DEF Quiet
<1>4. ASSUME NEW p \in Procs, Start(p) PROVE TypeOK'
  <2>1. starts' \in 0..MaxStarts
    BY <1>4, BoundOnStarts DEF Start
  <2>2. CASE Loads(env) /\ Validate(cfg)
    BY <1>4, <2>1, <2>2 DEF Start
  <2>3. CASE ~(Loads(env) /\ Validate(cfg))
    BY <1>4, <2>1, <2>3 DEF Start
  <2> QED BY <2>2, <2>3
<1>5. ASSUME NEW p \in Procs, Open(p) PROVE TypeOK'
  BY <1>5 DEF Open
<1>6. ASSUME NEW p \in Procs, EnsureMigrationsTable(p) PROVE TypeOK'
  BY <1>6, ObjectFacts DEF EnsureMigrationsTable
<1>7. ASSUME NEW p \in Procs, AppliedVersions(p) PROVE TypeOK'
  BY <1>7 DEF AppliedVersions, ReadVersions
<1>8. ASSUME NEW p \in Procs, Begin(p) PROVE TypeOK'
  BY <1>8, FileStatements, NextIsVersion DEF Begin
<1>9. ASSUME NEW p \in Procs, Exec(p) PROVE TypeOK'
  BY <1>9, StatementFacts DEF Exec, ExecInTx
<1>10. ASSUME NEW p \in Procs, Executed(p) PROVE TypeOK'
  BY <1>10 DEF Executed
<1>11. ASSUME NEW p \in Procs, Record(p) PROVE TypeOK'
  <2>1. CASE NextVersion(p) \in recorded
    BY <1>11, <1>1, <2>1 DEF Record, Conflict
  <2>2. CASE NextVersion(p) \notin recorded
    <3>1. PICK v \in Versions : v = NextVersion(p)
      BY <1>11, <1>working DEF Record
    <3>2. /\ at[p] = "record" /\ at' = [at EXCEPT ![p] = "commit"]
          /\ tx' = [tx EXCEPT ![p] = @ \cup {v}]
          /\ UNCHANGED <<database, applied, stmts, conns, requests, cause, raced, starts>>
      BY <1>11, <2>2, <3>1 DEF Record
    <3> QED BY <3>2
  <2> QED BY <2>1, <2>2
<1>12. ASSUME NEW p \in Procs, Commit(p) PROVE TypeOK'
  BY <1>12, <1>working DEF Commit, Committed
<1>13. ASSUME NEW p \in Procs, Migrated(p) PROVE TypeOK'
  BY <1>13 DEF Migrated
<1>14. ASSUME NEW p \in Procs, SetupEnds(p) \/ Drain(p) \/ Busy(p) \/ Fault(p) \/ Killed(p)
       PROVE TypeOK'
  BY <1>14, <1>1 DEF SetupEnds, Drain, Busy, Fault, Killed
<1>15. ASSUME NEW p \in Procs, Listen(p) PROVE TypeOK'
  BY <1>15, <1>1 DEF Listen
<1>16. ASSUME NEW p \in Procs, Request(p) PROVE TypeOK'
  BY <1>16 DEF Request
<1>17. ASSUME NEW p \in Procs, Signal(p) PROVE TypeOK'
  BY <1>17 DEF Signal
<1>18. ASSUME NEW p \in Procs, CommitLost(p) PROVE TypeOK'
  BY <1>18 DEF CommitLost, Committed
<1> QED BY <1>2, <1>3, <1>4, <1>5, <1>6, <1>7, <1>8, <1>9, <1>10, <1>11, <1>12, <1>13,
           <1>14, <1>15, <1>16, <1>17, <1>18 DEF Next, Step, Environment

-----------------------------------------------------------------------------
(* What the steps do to the database. *)

\* Nothing but a commit changes what is recorded or the schema, and what a process
\* has read changes to what is recorded, or is forgotten.
LEMMA OnlyCommits ==
    ASSUME TypeOK, [Next]_vars
    PROVE  \/ \E p \in Procs : Commit(p) \/ CommitLost(p)
           \/ /\ recorded' = recorded
              /\ objects' \ {MigrationsTable} = objects \ {MigrationsTable}
              /\ \A p \in Procs : applied'[p] \in {applied[p], {}, recorded}
<1> DEFINE Kept == /\ recorded' = recorded
                   /\ objects' \ {MigrationsTable} = objects \ {MigrationsTable}
                   /\ \A p \in Procs : applied'[p] \in {applied[p], {}, recorded}
<1> USE DEF TypeOK
<1>1. ASSUME NEW p \in Procs, NEW why, Exit(p, why) PROVE Kept
  BY <1>1 DEF Exit
<1>2. CASE UNCHANGED vars
  BY <1>2
<1>3. CASE Quiet
  BY <1>3 DEF Quiet
<1>4. ASSUME NEW p \in Procs,
             \/ SetupEnds(p) \/ Drain(p) \/ Busy(p) \/ Fault(p) \/ Killed(p)
             \/ Record(p) \/ Listen(p)
      PROVE  Kept
  BY <1>4, <1>1 DEF SetupEnds, Drain, Busy, Fault, Killed, Record, Conflict, Listen
<1>5. ASSUME NEW p \in Procs,
             \/ Start(p) \/ Open(p) \/ EnsureMigrationsTable(p) \/ AppliedVersions(p)
             \/ Begin(p) \/ Exec(p) \/ Executed(p) \/ Migrated(p) \/ Request(p) \/ Signal(p)
      PROVE  Kept
  BY <1>5 DEF Start, Open, EnsureMigrationsTable, AppliedVersions, ReadVersions, Begin, Exec,
              ExecInTx, Executed, Migrated, Request, Signal
<1> QED BY <1>2, <1>3, <1>4, <1>5 DEF Next, Step, Environment

\* A commit records the next file of the list and creates what it is to create.
LEMMA CommitEffect ==
    ASSUME TypeOK, InOrder, Transactions,
           NEW p \in Procs, at[p] = "commit", Committed(p)
    PROVE  \E k \in 0..(Len(Names) - 1) :
              /\ recorded = Upto(k) /\ applied[p] = recorded
              /\ NextVersion(p) = Names[k + 1]
              /\ recorded' = Upto(k + 1)
              /\ recorded' = recorded \cup {Names[k + 1]}
              /\ Names[k + 1] \in Versions \ recorded
              /\ objects' = objects \cup Creates(Names[k + 1])
<1>1. PICK k \in 0..Len(Names) :
         /\ recorded = Upto(k)
         /\ \A q \in Procs : \E j \in 0..k : applied[q] = Upto(j)
  BY DEF InOrder
<1>2. PICK j \in 0..k : applied[p] = Upto(j)
  BY <1>1
<1>3. j \in 0..Len(Names) /\ k \in 0..Len(Names) /\ Len(Names) \in Nat
  BY <1>1, NamesFacts
<1>4. Pending(p) # {} /\ NextVersion(p) \in tx[p] /\ NextVersion(p) \notin recorded
  BY DEF Transactions, TransactionOf
<1>5. j < Len(Names) /\ NextVersion(p) = Names[j + 1]
  BY <1>2, <1>3, <1>4, NextFacts
<1>6. j = k
  BY <1>1, <1>3, <1>4, <1>5, UptoFacts
<1>7. PICK v \in Versions : v = Names[k + 1]
  BY <1>3, <1>5, <1>6, NamesFacts
<1>8. recorded' = recorded \cup {v}
  <2>1. tx[p] \subseteq Creates(v) \cup {v} /\ v \in tx[p]
    BY <1>5, <1>6, <1>7, <1>4 DEF Transactions, TransactionOf
  <2>2. Creates(v) \cap Versions = {}
    BY ObjectFacts
  <2> QED BY <2>1, <2>2 DEF Committed
<1>9. objects' = objects \cup Creates(v)
  <2>1. tx[p] \subseteq Creates(v) \cup {v} /\ Creates(v) \subseteq objects \cup tx[p]
    BY <1>5, <1>6, <1>7 DEF Transactions, TransactionOf
  <2>2. Creates(v) \cap Versions = {}
    BY ObjectFacts
  <2> QED BY <2>1, <2>2 DEF Committed
<1>10. Upto(k + 1) = recorded \cup {v}
  BY <1>1, <1>3, <1>5, <1>6, <1>7, UptoFacts
<1> QED BY <1>1, <1>2, <1>3, <1>4, <1>5, <1>6, <1>7, <1>8, <1>9, <1>10

-----------------------------------------------------------------------------
(* The invariants are inductive. *)

\* A version is recorded after those in front of it.
LEMMA InOrderStep ==
    ASSUME TypeOK, InOrder, Transactions, [Next]_vars
    PROVE  InOrder'
<1>1. PICK k \in 0..Len(Names) :
         /\ recorded = Upto(k)
         /\ \A q \in Procs : \E j \in 0..k : applied[q] = Upto(j)
  BY DEF InOrder
<1>2. k \in Nat /\ 0 \in 0..k /\ k \in 0..k /\ Upto(0) = {}
  BY <1>1, NamesFacts DEF Upto
<1>3. CASE /\ recorded' = recorded
           /\ \A p \in Procs : applied'[p] \in {applied[p], {}, recorded}
  BY <1>1, <1>2, <1>3 DEF InOrder
<1>4. ASSUME NEW p \in Procs, Commit(p) \/ CommitLost(p) PROVE InOrder'
  <2>1. at[p] = "commit" /\ Committed(p)
    BY <1>4 DEF Commit, CommitLost
  <2>2. PICK l \in 0..(Len(Names) - 1) :
           /\ recorded = Upto(l) /\ applied[p] = recorded
           /\ recorded' = Upto(l + 1) /\ NextVersion(p) = Names[l + 1]
           /\ recorded' = recorded \cup {Names[l + 1]}
    BY <2>1, CommitEffect
  <2>3. l \in 0..Len(Names) /\ l + 1 \in 0..Len(Names) /\ l = k
    <3>1. l \in 0..Len(Names) /\ l + 1 \in 0..Len(Names)
      BY <2>2, NamesFacts
    <3>2. l <= k /\ k <= l
      BY <1>1, <2>2, <3>1, UptoOrder
    <3> QED BY <1>2, <3>1, <3>2
  <2>4. applied'[p] \in {recorded', {}} /\ \A q \in Procs \ {p} : applied'[q] = applied[q]
    BY <1>4, <2>2 DEF Commit, CommitLost, TypeOK
  <2>5. \A q \in Procs : \E j \in 0..(l + 1) : applied'[q] = Upto(j)
    <3>1. \E j \in 0..(l + 1) : applied'[p] = Upto(j)
      <4>1. 0 \in 0..(l + 1) /\ l + 1 \in 0..(l + 1)
        BY <2>3
      <4> QED BY <1>2, <2>2, <2>4, <4>1
    <3>2. ASSUME NEW q \in Procs \ {p} PROVE \E j \in 0..(l + 1) : applied'[q] = Upto(j)
      <4>1. PICK j \in 0..k : applied[q] = Upto(j)
        BY <1>1
      <4>2. j \in 0..(l + 1)
        BY <1>2, <2>3
      <4> QED BY <2>4, <4>1, <4>2
    <3> QED BY <3>1, <3>2
  <2> QED BY <2>2, <2>3, <2>5 DEF InOrder
<1> QED BY <1>3, <1>4, OnlyCommits

\* What another transaction wrote is locked.
LEMMA SeparateStep ==
    ASSUME TypeOK, Separate, [Next]_vars
    PROVE  Separate'
<1> USE DEF TypeOK, Separate
<1>1. ASSUME NEW p \in Procs, NEW why, Exit(p, why) PROVE Separate'
  BY <1>1 DEF Exit
<1>2. CASE UNCHANGED vars \/ Quiet
  BY <1>2 DEF Quiet
<1>3. ASSUME NEW p \in Procs,
             \/ SetupEnds(p) \/ Drain(p) \/ Busy(p) \/ Fault(p) \/ Killed(p) \/ Listen(p)
      PROVE  Separate'
  BY <1>3, <1>1 DEF SetupEnds, Drain, Busy, Fault, Killed, Listen
<1>4. ASSUME NEW p \in Procs,
             \/ Start(p) \/ Open(p) \/ EnsureMigrationsTable(p) \/ AppliedVersions(p)
             \/ Begin(p) \/ Executed(p) \/ Migrated(p) \/ Request(p) \/ Signal(p)
      PROVE  Separate'
  BY <1>4 DEF Start, Open, EnsureMigrationsTable, AppliedVersions, Begin,
              Executed, Migrated, Request, Signal
<1>5. ASSUME NEW p \in Procs, NEW x, ~Locked(p, x) PROVE \A q \in Procs \ {p} : x \notin tx[q]
  BY <1>5 DEF Locked
<1>6. ASSUME NEW p \in Procs, Exec(p) PROVE Separate'
  BY <1>5, <1>6 DEF Exec, ExecInTx
<1>7. ASSUME NEW p \in Procs, Record(p) PROVE Separate'
  <2>1. CASE NextVersion(p) \in recorded
    BY <1>1, <1>7, <2>1 DEF Record, Conflict
  <2>2. ASSUME NEW v, v = NextVersion(p), v \notin recorded PROVE Separate'
    <3>1. ~Locked(p, v) /\ tx' = [tx EXCEPT ![p] = @ \cup {v}]
      BY <1>7, <2>2 DEF Record
    <3> QED BY <1>5, <3>1
  <2> QED BY <2>1, <2>2
<1>8. ASSUME NEW p \in Procs, Commit(p) \/ CommitLost(p) PROVE Separate'
  <2>1. tx' = [tx EXCEPT ![p] = {}]
    BY <1>8 DEF Commit, CommitLost
  <2> QED BY <2>1
<1> QED BY <1>2, <1>3, <1>4, <1>6, <1>7, <1>8 DEF Next, Step, Environment

\* A transaction is as it was when its process did not move, the schema lost nothing
\* and nobody recorded its version.
LEMMA Undisturbed ==
    ASSUME NEW p \in Procs, TransactionOf(p),
           at'[p] = at[p], applied'[p] = applied[p], tx'[p] = tx[p], stmts'[p] = stmts[p],
           objects \subseteq objects', at[p] = "commit" => NextVersion(p) \notin recorded'
    PROVE  TransactionOf(p)'
<1>1. Pending(p)' = Pending(p)
  BY DEF Pending
<1>2. NextVersion(p)' = NextVersion(p)
  BY <1>1 DEF NextVersion
<1> QED BY <1>1, <1>2 DEF TransactionOf

\* A transaction executes its file, records it and commits, whatever others do.
LEMMA TransactionsStep ==
    ASSUME TypeOK, InOrder, Separate, Transactions, [Next]_vars
    PROVE  Transactions'
<1> DEFINE Same(p) == /\ at'[p] = at[p] /\ applied'[p] = applied[p]
                      /\ tx'[p] = tx[p] /\ stmts'[p] = stmts[p]
<1> USE DEF TypeOK
<1>1. ASSUME NEW p \in Procs,
             \A q \in Procs \ {p} : Same(q),
             at'[p] \in InTransaction => TransactionOf(p)',
             objects \subseteq objects', recorded' = recorded
      PROVE  Transactions'
  <2>1. ASSUME NEW q \in Procs \ {p}, at'[q] \in InTransaction PROVE TransactionOf(q)'
    <3>1. TransactionOf(q) /\ (at[q] = "commit" => NextVersion(q) \notin recorded')
      BY <1>1, <2>1 DEF Transactions, TransactionOf
    <3> QED BY <1>1, <3>1, Undisturbed
  <2> QED BY <1>1, <2>1 DEF Transactions
<1>2. CASE UNCHANGED vars \/ Quiet
  <2>1. \A p \in Procs : Same(p)
    BY <1>2 DEF Quiet
  <2>2. objects' = objects /\ recorded' = recorded
    BY <1>2 DEF Quiet
  <2> QED BY <2>1, <2>2, Undisturbed DEF Transactions, TransactionOf
<1>3. ASSUME NEW p \in Procs, NEW why, Exit(p, why) PROVE Transactions'
  <2>1. /\ \A q \in Procs \ {p} : Same(q)
        /\ at'[p] \notin InTransaction
        /\ objects' = objects /\ recorded' = recorded
    BY <1>3 DEF Exit
  <2> QED BY <1>1, <2>1
<1>4. ASSUME NEW p \in Procs,
             \/ SetupEnds(p) \/ Drain(p) \/ Busy(p) \/ Fault(p) \/ Killed(p)
      PROVE  Transactions'
  BY <1>4, <1>3 DEF SetupEnds, Drain, Busy, Fault, Killed
<1>5. ASSUME NEW p \in Procs,
             \/ Start(p) \/ Open(p) \/ EnsureMigrationsTable(p) \/ AppliedVersions(p)
             \/ Migrated(p) \/ Request(p) \/ Signal(p) \/ (Listen(p) /\ ~Elsewhere(p, {"serving"}))
      PROVE  Transactions'
  <2>1. /\ \A q \in Procs \ {p} : Same(q)
        /\ at'[p] \notin InTransaction
        /\ objects \subseteq objects' /\ recorded' = recorded
    BY <1>5 DEF Start, Open, EnsureMigrationsTable, AppliedVersions, ReadVersions, Migrated,
                Request, Signal, Listen
  <2> QED BY <1>1, <2>1
<1>6. ASSUME NEW p \in Procs, Listen(p) PROVE Transactions'
  BY <1>6, <1>3, <1>5 DEF Listen
<1>7. ASSUME NEW p \in Procs, Begin(p) PROVE Transactions'
  <2>1. /\ \A q \in Procs \ {p} : Same(q)
        /\ objects' = objects /\ recorded' = recorded
        /\ at[p] = "next" /\ Pending(p) # {}
        /\ at'[p] = "exec" /\ applied'[p] = applied[p] /\ tx'[p] = {}
    BY <1>7 DEF Begin
  <2>2. stmts'[p] = Statements[NextVersion(p)]
    BY <1>7 DEF Begin
  <2>3. Pending(p)' = Pending(p)
    BY <2>1 DEF Pending
  <2>4. NextVersion(p)' = NextVersion(p)
    BY <2>3 DEF NextVersion
  <2>5. PICK v \in Versions : v = NextVersion(p)
    BY <2>1, NextIsVersion
  <2>6. /\ Statements[v] \in Seq(CreateStatements(Creates(v)))
        /\ \A x \in Creates(v) : \E i \in 1..Len(Statements[v]) : Statements[v][i] = <<x>>
    <3>1. Statements[v] \in Seq(CreateStatements(Creates(v)))
      BY FilesAssumption
    <3>2. DOMAIN Statements[v] = 1..Len(Statements[v])
      BY <3>1, LenProperties
    <3> QED BY <3>1, <3>2, FilesAssumption
  <2>7. v \notin tx'[p] /\ tx'[p] \subseteq Creates(v) \cup {v}
    BY <2>1
  <2>8. TransactionOf(p)'
    <3> HIDE DEF TypeOK
    <3> QED BY <2>1, <2>2, <2>3, <2>4, <2>5, <2>6, <2>7 DEF TransactionOf
  <2> QED BY <1>1, <2>1, <2>8
<1>8. ASSUME NEW p \in Procs, Exec(p) PROVE Transactions'
  <2>1. /\ \A q \in Procs \ {p} : Same(q)
        /\ objects' = objects /\ recorded' = recorded
        /\ at[p] = "exec" /\ at'[p] = "exec" /\ applied'[p] = applied[p]
        /\ stmts[p] # <<>> /\ stmts'[p] = Tail(stmts[p])
    BY <1>8 DEF Exec, ExecInTx
  <2>2. LET x == Head(Head(stmts[p])) IN tx'[p] = IF x \in objects THEN tx[p] ELSE tx[p] \cup {x}
    BY <1>8 DEF Exec, ExecInTx
  <2>3. TransactionOf(p)
    BY <2>1 DEF Transactions
  <2>4. Pending(p)' = Pending(p)
    BY <2>1 DEF Pending
  <2>5. NextVersion(p)' = NextVersion(p)
    BY <2>4 DEF NextVersion
  <2>6. PICK v \in Versions : v = NextVersion(p)
    BY <2>1, <2>3, NextIsVersion DEF TransactionOf
  <2>7. PICK x : x = Head(Head(stmts[p]))
    OBVIOUS
  <2>8. /\ x \in Creates(v) /\ Tail(stmts[p]) \in Seq(CreateStatements(Creates(v)))
        /\ \A i \in 1..Len(stmts[p]) :
              \/ stmts[p][i] = <<x>>
              \/ \E j \in 1..Len(Tail(stmts[p])) : Tail(stmts[p])[j] = stmts[p][i]
    BY <2>1, <2>3, <2>6, <2>7, StatementFacts DEF TransactionOf
  <2>9. x # v
    BY <2>8, ObjectFacts
  <2>10. \A y \in Creates(v) :
            \/ y \in objects \cup tx'[p]
            \/ \E j \in 1..Len(Tail(stmts[p])) : Tail(stmts[p])[j] = <<y>>
    <3> SUFFICES ASSUME NEW y \in Creates(v), y \notin objects \cup tx'[p]
                 PROVE  \E j \in 1..Len(Tail(stmts[p])) : Tail(stmts[p])[j] = <<y>>
      OBVIOUS
    <3>1. x \in objects \cup tx'[p] /\ y \notin objects \cup tx[p]
      BY <2>1, <2>2, <2>7
    <3>2. PICK i \in 1..Len(stmts[p]) : stmts[p][i] = <<y>>
      BY <2>3, <2>6, <3>1 DEF TransactionOf
    <3>3. <<y>> # <<x>>
      BY <3>1
    <3> QED BY <2>8, <3>2, <3>3
  <2>11. TransactionOf(p)'
    <3> HIDE DEF TypeOK
    <3> QED BY <2>1, <2>2, <2>3, <2>4, <2>5, <2>6, <2>7, <2>8, <2>9, <2>10 DEF TransactionOf
  <2> QED BY <1>1, <2>1, <2>11
<1>9. ASSUME NEW p \in Procs, Executed(p) PROVE Transactions'
  <2>1. /\ \A q \in Procs \ {p} : Same(q)
        /\ objects' = objects /\ recorded' = recorded
        /\ at[p] = "exec" /\ at'[p] = "record" /\ applied'[p] = applied[p]
        /\ stmts[p] = <<>> /\ stmts'[p] = stmts[p] /\ tx'[p] = tx[p]
    BY <1>9 DEF Executed
  <2>2. TransactionOf(p)
    BY <2>1 DEF Transactions
  <2>3. Pending(p)' = Pending(p)
    BY <2>1 DEF Pending
  <2>4. NextVersion(p)' = NextVersion(p)
    BY <2>3 DEF NextVersion
  <2>5. \A i \in 1..Len(stmts[p]) : FALSE
    BY <2>1
  <2>6. TransactionOf(p)'
    BY <2>1, <2>2, <2>3, <2>4, <2>5 DEF TransactionOf
  <2> QED BY <1>1, <2>1, <2>6
<1>10. ASSUME NEW p \in Procs, Record(p) PROVE Transactions'
  <2>1. CASE NextVersion(p) \in recorded
    BY <1>10, <1>3, <2>1 DEF Record, Conflict
  <2>2. CASE NextVersion(p) \notin recorded
    <3>1. PICK v : v = NextVersion(p)
      OBVIOUS
    <3>2. /\ at[p] = "record" /\ at' = [at EXCEPT ![p] = "commit"]
          /\ tx' = [tx EXCEPT ![p] = @ \cup {v}]
          /\ UNCHANGED <<database, applied, stmts, conns, requests, cause, raced, starts>>
      BY <1>10, <2>2, <3>1 DEF Record
    <3>3. /\ \A q \in Procs \ {p} : Same(q)
          /\ at'[p] = "commit" /\ tx'[p] = tx[p] \cup {v}
          /\ stmts'[p] = stmts[p] /\ applied'[p] = applied[p]
      BY <3>2
    <3>4. TransactionOf(p)
      BY <3>2 DEF Transactions
    <3>5. Pending(p)' = Pending(p)
      BY <3>3 DEF Pending
    <3>6. NextVersion(p)' = NextVersion(p)
      BY <3>5 DEF NextVersion
    <3>7. TransactionOf(p)'
      BY <2>2, <3>1, <3>2, <3>3, <3>4, <3>5, <3>6 DEF TransactionOf
    <3> QED BY <1>1, <3>2, <3>3, <3>7
  <2> QED BY <2>1, <2>2
<1>11. ASSUME NEW p \in Procs, Commit(p) \/ CommitLost(p) PROVE Transactions'
  <2>1. /\ at[p] = "commit" /\ Committed(p)
        /\ \A q \in Procs \ {p} : Same(q)
        /\ at'[p] \notin InTransaction
    BY <1>11 DEF Commit, CommitLost
  <2>2. /\ objects \subseteq objects' /\ recorded' \subseteq recorded \cup tx[p]
    BY <2>1 DEF Committed
  <2>3. ASSUME NEW q \in Procs \ {p}, at[q] = "commit" PROVE NextVersion(q) \notin recorded'
    <3>1. NextVersion(q) \in tx[q] /\ NextVersion(q) \notin recorded
      BY <2>3 DEF Transactions, TransactionOf
    <3> QED BY <2>2, <3>1 DEF Separate
  <2> QED BY <2>1, <2>2, <2>3, Undisturbed DEF Transactions
<1> QED BY <1>2, <1>4, <1>5, <1>6, <1>7, <1>8, <1>9, <1>10, <1>11 DEF Next, Step, Environment

\* All that concerns the database.
Consistent == TypeOK /\ InOrder /\ Separate /\ Transactions /\ SchemaMatchesRecord

LEMMA ConsistentInit == Init => Consistent
<1> SUFFICES ASSUME Init PROVE Consistent
  OBVIOUS
<1>1. InOrder
  <2>1. 0 \in 0..Len(Names) /\ 0 \in 0..0 /\ Upto(0) = {}
    BY NamesFacts DEF Upto
  <2> QED BY <2>1 DEF Init, InOrder
<1>2. Separate /\ Transactions /\ SchemaMatchesRecord
  BY DEF Init, Separate, Transactions, SchemaMatchesRecord
<1> QED BY TypeInit, <1>1, <1>2 DEF Consistent

LEMMA ConsistentStep == Consistent /\ [Next]_vars => Consistent'
<1> SUFFICES ASSUME Consistent, [Next]_vars
             PROVE  Consistent'
  OBVIOUS
<1>1. TypeOK /\ InOrder /\ Separate /\ Transactions /\ SchemaMatchesRecord
  BY DEF Consistent
<1>2. ASSUME recorded' = recorded,
             objects' \ {MigrationsTable} = objects \ {MigrationsTable}
      PROVE  SchemaMatchesRecord'
  BY <1>1, <1>2, ObjectFacts DEF SchemaMatchesRecord
<1>3. ASSUME NEW p \in Procs, Commit(p) \/ CommitLost(p) PROVE SchemaMatchesRecord'
  <2>1. at[p] = "commit" /\ Committed(p)
    BY <1>3 DEF Commit, CommitLost
  <2>2. PICK v \in Versions : /\ recorded' = recorded \cup {v}
                              /\ objects' = objects \cup Creates(v)
    BY <1>1, <2>1, CommitEffect
  <2>3. \A w \in Versions : w # v => Creates(w) \cap Creates(v) = {}
    BY FilesAssumption
  <2> QED BY <1>1, <2>2, <2>3 DEF SchemaMatchesRecord
<1>4. SchemaMatchesRecord'
  BY <1>1, <1>2, <1>3, OnlyCommits
<1> QED BY <1>1, <1>4, TypeStep, InOrderStep, SeparateStep, TransactionsStep DEF Consistent

\* The type invariant holds, whatever is started, fails or dies.
THEOREM TypeCorrect == Spec => []TypeOK
<1>1. Consistent => TypeOK
  BY DEF Consistent
<1> QED BY <1>1, ConsistentInit, ConsistentStep, PTL DEF Spec

\* Whatever fails and whoever else migrates, a version is recorded exactly when all
\* that its file creates exists, and none of it exists otherwise.
THEOREM SchemaMatchesRecordAlways == Spec => []SchemaMatchesRecord
<1>1. Consistent => SchemaMatchesRecord
  BY DEF Consistent
<1> QED BY <1>1, ConsistentInit, ConsistentStep, PTL DEF Spec

-----------------------------------------------------------------------------
(* Processes that serve. *)

\* A process gets to the setup or to listening from the end of Migrate only.
LEMMA MigratedFirst ==
    ASSUME TypeOK, [Next]_vars, NEW p \in Procs, at'[p] \in {"setup"} \cup Running
    PROVE  at[p] \in {"setup"} \cup Running \/ Migrated(p)
<1> USE DEF TypeOK
<1>1. ASSUME NEW q \in Procs, NEW why, Exit(q, why)
      PROVE  at[p] \in {"setup"} \cup Running
  BY <1>1 DEF Exit
<1>2. CASE UNCHANGED vars \/ Quiet
  BY <1>2 DEF Quiet
<1>3. ASSUME NEW q \in Procs,
             \/ SetupEnds(q) \/ Drain(q) \/ Busy(q) \/ Fault(q) \/ Killed(q) \/ Listen(q)
      PROVE  at[p] \in {"setup"} \cup Running
  BY <1>3, <1>1 DEF SetupEnds, Drain, Busy, Fault, Killed, Listen
<1>4. ASSUME NEW q \in Procs,
             \/ Open(q) \/ EnsureMigrationsTable(q) \/ AppliedVersions(q)
             \/ Begin(q) \/ Exec(q) \/ Executed(q) \/ Request(q) \/ Signal(q)
             \/ Commit(q) \/ CommitLost(q)
      PROVE  at[p] \in {"setup"} \cup Running
  BY <1>4 DEF Open, EnsureMigrationsTable, AppliedVersions, Begin, Exec, Executed, Request,
              Signal, Commit, CommitLost
<1>5. ASSUME NEW q \in Procs, Start(q) PROVE at[p] \in {"setup"} \cup Running
  BY <1>5 DEF Start
<1>6. ASSUME NEW q \in Procs, Record(q) PROVE at[p] \in {"setup"} \cup Running
  BY <1>6, <1>1 DEF Record, Conflict
<1>7. ASSUME NEW q \in Procs, Migrated(q) PROVE at[p] \in {"setup"} \cup Running \/ Migrated(p)
  BY <1>7 DEF Migrated
<1> QED BY <1>2, <1>3, <1>4, <1>5, <1>6, <1>7 DEF Next, Step, Environment

LEMMA CompleteStep == Consistent /\ Complete /\ [Next]_vars => Complete'
<1> SUFFICES ASSUME Consistent, Complete, [Next]_vars,
                    NEW p \in Procs, at'[p] \in {"setup"} \cup Running,
                    NEW i \in 1..Embedded[p]
             PROVE  Names[i] \in recorded'
  BY DEF Complete
<1>1. TypeOK /\ InOrder /\ Transactions
  BY DEF Consistent
<1>2. recorded \subseteq recorded'
  BY <1>1, OnlyCommits, CommitEffect DEF Commit, CommitLost
<1>3. CASE Migrated(p)
  <2>1. Names[i] \in applied[p]
    BY <1>3 DEF Migrated, Pending
  <2>2. applied[p] \subseteq recorded
    BY <1>1, NamesFacts DEF InOrder, Upto
  <2> QED BY <1>2, <2>1, <2>2
<1> QED BY <1>1, <1>2, <1>3, MigratedFirst DEF Complete

\* A process that asks for the first administrator, serves or answers its last
\* request does so on every migration of its own build.
THEOREM RunsOnFullSchemaAlways == Spec => []RunsOnFullSchema
<1>1. Init => Complete
  BY DEF Init, Complete
<1>2. Consistent /\ Complete => RunsOnFullSchema
  <2> SUFFICES ASSUME Consistent, Complete, NEW p \in Procs, at[p] \in {"setup"} \cup Running,
                      NEW i \in 1..Embedded[p]
               PROVE  Names[i] \in recorded /\ Creates(Names[i]) \subseteq objects
    BY DEF RunsOnFullSchema
  <2>1. Names[i] \in recorded
    BY DEF Complete
  <2> QED BY <2>1 DEF Consistent, TypeOK, SchemaMatchesRecord
<1> QED BY <1>1, <1>2, ConsistentInit, ConsistentStep, CompleteStep, PTL DEF Spec

-----------------------------------------------------------------------------
(* Starts that no other overlaps. *)

\* Only those that migrate keep the others out.
LEMMA LockedByMigrating ==
    ASSUME TypeOK, NEW p \in Procs, NEW x, Locked(p, x)
    PROVE  Elsewhere(p, Migrating)
BY DEF Locked, Elsewhere, TypeOK

\* A process that migrates alone is not refused: there is nobody to wait for, and the
\* next file is not recorded.
LEMMA AloneNotRefused ==
    ASSUME Consistent, Alone, NEW p \in Procs, p \notin raced
    PROVE  ~Busy(p) /\ ~(at[p] = "record" /\ NextVersion(p) \in recorded)
<1>1. TypeOK /\ InOrder /\ Transactions
  BY DEF Consistent
<1>2. ASSUME Busy(p) PROVE FALSE
  <2>1. at[p] \in Migrating /\ Elsewhere(p, Migrating)
    BY <1>1, <1>2, LockedByMigrating DEF Busy, Elsewhere
  <2> QED BY <2>1 DEF Alone, Elsewhere
<1>3. ASSUME at[p] = "record", NextVersion(p) \in recorded PROVE FALSE
  <2>1. Pending(p) # {} /\ applied[p] = recorded
    BY <1>1, <1>3 DEF Alone, Transactions, TransactionOf
  <2>2. PICK j \in 0..Len(Names) : applied[p] = Upto(j)
    BY <1>1, NamesFacts DEF InOrder
  <2>3. j < Len(Names) /\ NextVersion(p) = Names[j + 1]
    BY <2>1, <2>2, NextFacts
  <2>4. j + 1 \in 1..Len(Names) /\ ~(j + 1 <= j)
    BY <2>2, <2>3, NamesFacts
  <2> QED BY <1>3, <2>1, <2>2, <2>3, <2>4, UptoFacts
<1> QED BY <1>2, <1>3

LEMMA AloneStep == Consistent /\ Alone /\ [Next]_vars => Alone'
<1> SUFFICES ASSUME Consistent, Alone, [Next]_vars
             PROVE  Alone'
  OBVIOUS
<1> USE DEF TypeOK, Alone
<1>typed. TypeOK /\ InOrder /\ Transactions
  BY DEF Consistent
<1>1. ASSUME NEW p \in Procs, NEW why, Exit(p, why) PROVE Alone'
  BY <1>typed, <1>1 DEF Exit
<1>2. CASE UNCHANGED vars \/ Quiet
  BY <1>typed, <1>2 DEF Quiet
<1>3. ASSUME NEW p \in Procs,
             \/ SetupEnds(p) \/ Drain(p) \/ Busy(p) \/ Fault(p) \/ Killed(p)
      PROVE  Alone'
  BY <1>3, <1>1 DEF SetupEnds, Drain, Busy, Fault, Killed
<1>4. ASSUME NEW p \in Procs, Listen(p) PROVE Alone'
  <2>1. CASE Elsewhere(p, {"serving"})
    BY <1>4, <1>1, <2>1 DEF Listen
  <2>2. CASE ~Elsewhere(p, {"serving"})
    BY <1>typed, <1>4, <2>2 DEF Listen
  <2> QED BY <2>1, <2>2
<1>5. ASSUME NEW p \in Procs, Record(p) PROVE Alone'
  BY <1>typed, <1>5, <1>1 DEF Record, Conflict
<1>6. ASSUME NEW p \in Procs, Start(p) PROVE Alone'
  BY <1>typed, <1>6 DEF Start
<1>7. ASSUME NEW p \in Procs, Open(p) PROVE Alone'
  BY <1>typed, <1>7 DEF Open, Elsewhere
<1>8. ASSUME NEW p \in Procs,
             EnsureMigrationsTable(p) \/ Begin(p) \/ Executed(p) \/ Migrated(p) \/ Signal(p)
      PROVE  Alone'
  BY <1>typed, <1>8 DEF EnsureMigrationsTable, Begin, Executed, Migrated, Signal
<1>9. ASSUME NEW p \in Procs, AppliedVersions(p) PROVE Alone'
  BY <1>typed, <1>9 DEF AppliedVersions, ReadVersions
<1>10. ASSUME NEW p \in Procs, Commit(p) PROVE Alone'
  BY <1>typed, <1>10, CommitEffect DEF Commit
<1>11. ASSUME NEW p \in Procs, CommitLost(p) PROVE Alone'
  BY <1>typed, <1>11 DEF CommitLost
<1>12. ASSUME NEW p \in Procs, Exec(p) \/ Request(p) PROVE Alone'
  <2>1. UNCHANGED <<recorded, at, applied, cause, raced>>
    BY <1>12 DEF Exec, Request
  <2> QED BY <1>typed, <2>1
<1> QED BY <1>2, <1>3, <1>4, <1>5, <1>6, <1>7, <1>8, <1>9, <1>10, <1>11, <1>12
        DEF Next, Step, Environment

LEMMA SoloStep == Consistent /\ Alone /\ SoloStartMigrates /\ [Next]_vars => SoloStartMigrates'
<1> SUFFICES ASSUME Consistent, Alone, SoloStartMigrates, [Next]_vars
             PROVE  SoloStartMigrates'
  OBVIOUS
<1> USE DEF TypeOK, SoloStartMigrates
<1>typed. TypeOK
  BY DEF Consistent
<1>1. ASSUME NEW p \in Procs, NEW why \in Causes, Exit(p, why),
             why \in {"conflict", "busy"} => p \in raced
      PROVE  SoloStartMigrates'
  BY <1>typed, <1>1 DEF Exit
<1>2. CASE UNCHANGED vars \/ Quiet
  BY <1>typed, <1>2 DEF Quiet
<1>3. ASSUME NEW p \in Procs, SetupEnds(p) \/ Drain(p) \/ Fault(p) \/ Killed(p)
      PROVE  SoloStartMigrates'
  BY <1>3, <1>1 DEF SetupEnds, Drain, Fault, Killed
<1>4. ASSUME NEW p \in Procs, Busy(p) PROVE SoloStartMigrates'
  BY <1>4, <1>1, AloneNotRefused DEF Busy
<1>5. ASSUME NEW p \in Procs, Record(p) PROVE SoloStartMigrates'
  <2>1. CASE NextVersion(p) \in recorded
    BY <1>5, <1>1, <2>1, AloneNotRefused DEF Record, Conflict
  <2>2. CASE NextVersion(p) \notin recorded
    BY <1>typed, <1>5, <2>2 DEF Record
  <2> QED BY <2>1, <2>2
<1>6. ASSUME NEW p \in Procs, Start(p) PROVE SoloStartMigrates'
  BY <1>typed, <1>6 DEF Start
<1>7. ASSUME NEW p \in Procs, Open(p) PROVE SoloStartMigrates'
  BY <1>typed, <1>7 DEF Open, Alone
<1>8. ASSUME NEW p \in Procs, Listen(p) PROVE SoloStartMigrates'
  BY <1>typed, <1>8, <1>1 DEF Listen
<1>9. ASSUME NEW p \in Procs,
             \/ EnsureMigrationsTable(p) \/ AppliedVersions(p) \/ Begin(p) \/ Exec(p)
             \/ Executed(p) \/ Commit(p) \/ Migrated(p) \/ Request(p) \/ Signal(p)
      PROVE  SoloStartMigrates'
  <2>1. UNCHANGED <<cause, raced>>
    BY <1>9 DEF EnsureMigrationsTable, AppliedVersions, Begin, Exec, Executed, Commit,
                Migrated, Request, Signal
  <2> QED BY <2>1
<1>10. ASSUME NEW p \in Procs, CommitLost(p) PROVE SoloStartMigrates'
  BY <1>typed, <1>10 DEF CommitLost
<1> QED BY <1>2, <1>3, <1>4, <1>5, <1>6, <1>7, <1>8, <1>9, <1>10 DEF Next, Step, Environment

\* A start that no other start overlaps is never refused by what the database holds,
\* whatever failed or died before it.
THEOREM SoloStartMigratesAlways == Spec => []SoloStartMigrates
<1>1. Init => Alone /\ SoloStartMigrates
  BY DEF Init, Alone, SoloStartMigrates
<1> QED BY <1>1, ConsistentInit, ConsistentStep, AloneStep, SoloStep, PTL DEF Spec

-----------------------------------------------------------------------------
(* Configuration. *)

LEMMA ConfiguredStep == TypeOK /\ Configured /\ [Next]_vars => Configured'
<1> SUFFICES ASSUME TypeOK, Configured, [Next]_vars
             PROVE  Configured'
  OBVIOUS
<1>1. env' = env
  BY DEF Next, Step, Environment, Exit, SetupEnds, Drain, Busy, Fault, Killed, Record, Conflict,
         Listen, Start, Open, EnsureMigrationsTable, AppliedVersions, Begin, Exec, Executed,
         Migrated, Request, Signal, Commit, CommitLost, Quiet
<1>2. ASSUME NEW p \in Procs, at'[p] # "down", at[p] = "down" PROVE Loads(env) /\ Validate(cfg)
  BY <1>2 DEF TypeOK, Next, Step, Environment, Exit, SetupEnds, Drain, Busy, Fault, Killed,
         Record, Conflict, Listen, Start, Open, EnsureMigrationsTable, AppliedVersions, Begin,
         Exec, Executed, Migrated, Request, Signal, Commit, CommitLost, Quiet
<1>3. cfg' = cfg
  BY <1>1 DEF cfg
<1> QED BY <1>1, <1>2, <1>3 DEF Configured

\* Validate asks for a key in production, however production is spelled.
LEMMA ValidKey ==
    ASSUME NEW e, Validate(Load(e)), e.APP_ENV \in {"production", "Production"}
    PROVE  NewVault(Load(e).SecretKey) # "ephemeral"
<1>1. Load(e).AppEnv = e.APP_ENV
  BY UnsetAssumption, Zenon DEF Load
<1>2. ToLower(e.APP_ENV) = "production"
  BY DEF ToLower
<1>3. IsProduction(Load(e))
  BY <1>1, <1>2 DEF IsProduction
<1>4. Load(e).SecretKey # Empty
  BY <1>3 DEF Validate
<1> QED BY <1>4 DEF NewVault

\* No server runs in production with a key that does not survive a restart.
THEOREM ProductionHasKeyAlways == Spec => []ProductionHasKey
<1>1. Init => Configured
  BY Zenon DEF Init, Configured
<1>2. Configured => ProductionHasKey
  BY ValidKey DEF Configured, ProductionHasKey, cfg
<1> QED BY <1>1, <1>2, ConfiguredStep, TypeCorrect, PTL DEF Spec

-----------------------------------------------------------------------------
(* The abstract history. *)

\* Any number of processes, whatever they do and suffer, take the schema through the
\* abstract history: their commits are its steps, all else leaves it as it is.
THEOREM Implementation == Spec => ImplementsSchemaHistory
<1>1. Init => History!Init
  BY DEF Init, History!Init
<1>2. Consistent /\ [Next]_vars => [History!Next]_<<recorded, objects \ {MigrationsTable}>>
  <2> SUFFICES ASSUME Consistent, [Next]_vars
               PROVE  [History!Next]_<<recorded, objects \ {MigrationsTable}>>
    OBVIOUS
  <2>1. TypeOK /\ InOrder /\ Transactions
    BY DEF Consistent
  <2>2. ASSUME NEW p \in Procs, Commit(p) \/ CommitLost(p) PROVE History!Next
    <3>1. at[p] = "commit" /\ Committed(p)
      BY <2>2 DEF Commit, CommitLost
    <3>2. PICK k \in 0..(Len(Names) - 1) :
             /\ recorded = Upto(k) /\ recorded' = Upto(k + 1)
             /\ Names[k + 1] \in Versions
             /\ objects' = objects \cup Creates(Names[k + 1])
      BY <2>1, <3>1, CommitEffect
    <3>3. PICK n \in 1..Len(Names) : n = k + 1 /\ k = n - 1
      BY <3>2, NamesFacts
    <3>4. MigrationsTable \notin Creates(Names[n])
      BY <3>2, <3>3, FilesAssumption
    <3>5. History!Apply(n)
      BY <3>2, <3>3, <3>4 DEF History!Apply, History!Upto, Upto
    <3> QED BY <3>5 DEF History!Next
  <2> QED BY <2>1, <2>2, OnlyCommits
<1> QED BY <1>1, <1>2, ConsistentInit, ConsistentStep, PTL
        DEF Spec, ImplementsSchemaHistory, History!Spec
=============================================================================
