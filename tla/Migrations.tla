----------------------------- MODULE Migrations -----------------------------
(***************************************************************************)
(* migrations.py: services that share one schema, each with tables it      *)
(* declares and a version table of its own.  A revision is generated by    *)
(* comparing the declared tables with those Alembic reflects, and run when *)
(* its release is deployed, which may be after others have been.           *)
(***************************************************************************)
EXTENDS Integers

CONSTANTS
  Services,
  Releases,      \* number of releases of each service
  Tables,
  Declares,      \* tables the metadata of each release of each service declares
  VersionTable   \* version_table of each service

ASSUME MigrationAssumption ==
  /\ Releases \in Nat
  /\ Declares \in [Services -> [1..Releases -> SUBSET Tables]]
  /\ \A s \in Services : VersionTable[s] \notin Tables
  /\ \A s, u \in Services : VersionTable[s] = VersionTable[u] => s = u

VARIABLES
  tables,    \* the tables of the schema
  release,   \* per service: the release that is deployed, 0 before the first
  revision   \* per service: the generated next revision, <<>> for none

migrationVars == <<tables, release, revision>>

Revisions == [creates : SUBSET Tables, drops : SUBSET (Tables \cup {VersionTable[s] : s \in Services})]

MigrationsTyped ==
  /\ tables \subseteq Tables \cup {VersionTable[s] : s \in Services}
  /\ release \in [Services -> 0..Releases]
  /\ revision \in [Services -> Revisions \cup {<<>>}]

\* A bug the code does not have: everything in the schema is compared.
IncludeEverything(s, t) == t # VersionTable[s]

\* own_tables_only: names that the metadata declares (Alembic leaves its own version
\* table out by itself).
IncludeName(s, t) == t \in Declares[s][release[s] + 1]

Reflected(s) == {t \in tables : IncludeName(s, t)}

\* Autogenerate, of the next release against the schema as it is now.
Autogenerate(s) ==
  /\ release[s] < Releases /\ revision[s] = <<>>
  /\ LET declared == Declares[s][release[s] + 1]
     IN  revision' = [revision EXCEPT ![s] =
           [creates |-> declared \ Reflected(s), drops |-> Reflected(s) \ declared]]
  /\ UNCHANGED <<tables, release>>

Overtaken(s) == revision[s].creates \cap tables # {}

\* run_migrations, in one transaction.
RunMigrations(s) ==
  /\ revision[s] # <<>> /\ ~Overtaken(s)
  /\ tables' = ((tables \cup revision[s].creates) \ revision[s].drops) \cup {VersionTable[s]}
  /\ release' = [release EXCEPT ![s] = @ + 1]
  /\ revision' = [revision EXCEPT ![s] = <<>>]

\* A table that exists meanwhile cannot be created: everything is rolled back, and
\* the revision has to be generated again.
FailMigrations(s) ==
  /\ revision[s] # <<>> /\ Overtaken(s)
  /\ revision' = [revision EXCEPT ![s] = <<>>]
  /\ UNCHANGED <<tables, release>>

MigrationsInit ==
  /\ tables = {}
  /\ release = [s \in Services |-> 0]
  /\ revision = [s \in Services |-> <<>>]

MigrationsNext == \E s \in Services : Autogenerate(s) \/ RunMigrations(s) \/ FailMigrations(s)
MigrationsSpec == MigrationsInit /\ [][MigrationsNext]_migrationVars

-----------------------------------------------------------------------------
\* A deployed release finds every table it declares.
TablesThere == \A s \in Services : release[s] > 0 => Declares[s][release[s]] \subseteq tables

\* And no deploy drops a table: neither one another service declares or keeps its
\* history in, nor one that moved from one service to another.
TablesKept == []TablesThere /\ [][tables \subseteq tables']_migrationVars

\* Inductive: what was generated drops nothing, and creates whatever its release
\* declares and is not there, whenever it is run.
MigrationsInv ==
  /\ MigrationsTyped
  /\ \A s \in Services : revision[s] # <<>> =>
       /\ release[s] < Releases /\ revision[s].drops = {}
       /\ Declares[s][release[s] + 1] \subseteq tables \cup revision[s].creates
  /\ TablesThere
=============================================================================
