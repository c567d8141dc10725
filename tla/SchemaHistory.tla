---------------------------- MODULE SchemaHistory ----------------------------
(***************************************************************************)
(* What migrating promises of a database: whoever runs it, the schema only *)
(* moves forward, one whole migration at a time and in file order, and     *)
(* schema_migrations says how far it is.                                   *)
(***************************************************************************)
EXTENDS Sequences, Integers

CONSTANTS Names,         \* the migrations, in file order
          Creates(_)     \* what a migration creates

VARIABLES recorded,      \* the versions in schema_migrations
          created        \* what exists of the application's schema

Upto(k) == {Names[i] : i \in 1..k}

Init == recorded = {} /\ created = {}

\* The first migration that is not recorded is applied, as a whole.
Apply(k) ==
    /\ recorded = Upto(k - 1)
    /\ recorded' = Upto(k)
    /\ created' = created \cup Creates(Names[k])

Next == \E k \in 1..Len(Names) : Apply(k)

Spec == Init /\ [][Next]_<<recorded, created>>
=============================================================================
