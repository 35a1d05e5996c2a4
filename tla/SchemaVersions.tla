---------------------------- MODULE SchemaVersions ----------------------------
(***************************************************************************)
(* One SQLite file that several modules open, each with a schema and       *)
(* migrations of its own but with one table of versions between them       *)
(* (cpost/core/db.py; the migrations are those of core/runs.py and         *)
(* core/library.py).  Any number of processes open the file at once; each  *)
(* migration is a transaction, and nothing else is.                        *)
(***************************************************************************)
EXTENDS Naturals

CONSTANTS
    Owners,      \* the modules with tables in the file
    Columns,     \* of each: the columns its tables have now
    Created,     \* of each: the columns that each of its CREATE TABLEs gives
    Migrations,  \* of each: its migrations, <<version, columns added>>
    Indexed,     \* of each: the columns its indexes are on
    OldFiles,    \* what an earlier release may have left: columns and versions
    Openers,     \* processes that open the file
    NoOwner

VersionOf(m, i) == Migrations[m][i][1]
Added(m, i)   == Migrations[m][i][2]

(* Some other module has a version above that migration among vs.          *)
OvertakenIn(m, i, vs) ==
    \E n \in Owners \ {m} : \E k \in DOMAIN Migrations[n] :
        VersionOf(n, k) > VersionOf(m, i) /\ VersionOf(n, k) \in vs

(* No two migrations have one version.  What a module's CREATE TABLEs do   *)
(* not give, its migrations add.  An earlier release left tables that lack *)
(* no more than migrations add, and a version for what it had migrated.    *)
ASSUME SchemaAssumption ==
    /\ NoOwner \notin Owners
    /\ \A m, n \in Owners : \A i \in DOMAIN Migrations[m], k \in DOMAIN Migrations[n] :
           Migrations[m][i][1] = Migrations[n][k][1] => m = n /\ i = k
    /\ \A m \in Owners :
        /\ \A i \in DOMAIN Migrations[m] : Added(m, i) \subseteq Columns[m]
        /\ \A t, u \in Created[m] :
               t # {} /\ t \subseteq Columns[m] /\ (t # u => t \cap u = {})
        /\ \A c \in Columns[m] \ UNION Created[m] : \E i \in DOMAIN Migrations[m] : c \in Added(m, i)
    /\ \A f \in OldFiles :
        /\ DOMAIN f.tables = Owners
        /\ \A m \in Owners :
            /\ f.tables[m] \subseteq Columns[m]
            /\ \A t \in Created[m] : t \cap f.tables[m] # {} =>
                   \A c \in t \ f.tables[m] : \E i \in DOMAIN Migrations[m] : c \in Added(m, i)
            /\ \A i \in DOMAIN Migrations[m] :
                   Migrations[m][i][1] \in f.versions => Added(m, i) \subseteq f.tables[m]

(* A module's migrations are listed by their versions, and an earlier      *)
(* release applied them in that order, but for those that it took for      *)
(* applied because of another module's version.                            *)
ASSUME VersionAssumption ==
    /\ \A m \in Owners :
        /\ DOMAIN Migrations[m] \subseteq Nat
        /\ \A i, k \in DOMAIN Migrations[m] :
              VersionOf(m, i) \in Nat /\ (i < k => VersionOf(m, i) < VersionOf(m, k))
    /\ \A f \in OldFiles :
        /\ \A v \in f.versions :
              \E m \in Owners : \E i \in DOMAIN Migrations[m] : v = VersionOf(m, i)
        /\ \A m \in Owners : \A i, k \in DOMAIN Migrations[m] :
              i < k /\ VersionOf(m, k) \in f.versions =>
                  VersionOf(m, i) \in f.versions \/ OvertakenIn(m, i, f.versions)

VARIABLES
    tables,      \* of each module: the columns of the tables it has in the file
    versions,    \* the rows of _schema_meta
    openers,     \* where each process is in connect
    hidden       \* (history) modules of which a migration was taken for applied

schemaVars == <<tables, versions, openers, hidden>>

NotOpen == [pc |-> "closed", owner |-> NoOwner, todo |-> {}]

SchemaInit ==
    /\ \E f \in OldFiles : tables = f.tables /\ versions = f.versions
    /\ openers = [o \in Openers |-> NotOpen]
    /\ hidden = {}

GoesOn(o, pc, ms) == openers' = [openers EXCEPT ![o].pc = pc, ![o].todo = ms]

(* A table is there when one of its columns is.                            *)
MissingTables(m) == {t \in Created[m] : t \cap tables[m] = {}}

(* CREATE TABLE IF NOT EXISTS: a table that is there is left as it is, and *)
(* a new one has the columns of its statement, not yet those of migrations.*)
CreateTables(o, m) ==
    /\ openers[o].pc = "closed"
    /\ tables' = [tables EXCEPT ![m] = @ \cup UNION MissingTables(m)]
    /\ openers' = [openers EXCEPT ![o] = [pc |-> "versions", owner |-> m, todo |-> {}]]
    /\ UNCHANGED <<versions, hidden>>

(* Each statement of the script is committed by itself: a process that     *)
(* dies in it has created a table and not the next.                        *)
DieCreating(o, m) ==
    /\ openers[o].pc = "closed"
    /\ \E t \in MissingTables(m) : tables' = [tables EXCEPT ![m] = @ \cup t]
    /\ UNCHANGED <<versions, openers, hidden>>

(* The highest version of all modules is the current one; the migrations   *)
(* above it, by their place in the list.                                   *)
Pending(m) == {i \in DOMAIN Migrations[m] : \A v \in versions : v < Migrations[m][i][1]}

IsRecorded(m, i) == Migrations[m][i][1] \in versions

ReadVersion(o) ==
    /\ openers[o].pc = "versions"
    /\ LET m == openers[o].owner
       IN  /\ GoesOn(o, "migrate", Pending(m))
           /\ hidden' = IF \E i \in DOMAIN Migrations[m] \ Pending(m) :
                            ~IsRecorded(m, i) /\ ~(Added(m, i) \subseteq tables[m])
                        THEN hidden \cup {m} ELSE hidden
    /\ UNCHANGED <<tables, versions>>

(* The next migration that process o has to apply.                         *)
IsNext(o, i) == i \in openers[o].todo /\ \A k \in openers[o].todo : i <= k

(* Mutant of Migrate: a column that is there skips the whole migration.    *)
MigrateOrSkip(o) ==
    /\ openers[o].pc = "migrate"
    /\ \E i \in openers[o].todo :
        LET m == openers[o].owner
        IN  /\ IsNext(o, i)
            /\ tables' = IF Added(m, i) \cap tables[m] # {} THEN tables
                         ELSE [tables EXCEPT ![m] = @ \cup Added(m, i)]
            /\ versions' = versions \cup {Migrations[m][i][1]}
            /\ GoesOn(o, "migrate", openers[o].todo \ {i})
    /\ UNCHANGED hidden

(* One migration: a statement whose column is there is skipped, its        *)
(* siblings run, and the version is recorded with them.                    *)
Migrate(o) ==
    /\ openers[o].pc = "migrate"
    /\ \E i \in openers[o].todo :
        LET m == openers[o].owner
        IN  /\ IsNext(o, i)
            /\ tables' = [tables EXCEPT ![m] = @ \cup Added(m, i)]
            /\ versions' = versions \cup {Migrations[m][i][1]}
            /\ GoesOn(o, "migrate", openers[o].todo \ {i})
    /\ UNCHANGED hidden

(* The indexes; one on a column that is not there fails the connect.       *)
CreateIndexes(o) ==
    /\ openers[o].pc = "migrate" /\ openers[o].todo = {}
    /\ IF Indexed[openers[o].owner] \subseteq tables[openers[o].owner]
       THEN GoesOn(o, "open", {}) ELSE GoesOn(o, "failed", {})
    /\ UNCHANGED <<tables, versions, hidden>>

(* The process is done with it, or dies, or another error ends the connect:*)
(* what of the transaction in hand was not committed is gone.              *)
Close(o) ==
    /\ openers[o].pc # "closed"
    /\ openers' = [openers EXCEPT ![o] = NotOpen]
    /\ UNCHANGED <<tables, versions, hidden>>

SchemaNext ==
    \E o \in Openers :
        \/ \E m \in Owners : CreateTables(o, m) \/ DieCreating(o, m)
        \/ ReadVersion(o) \/ Migrate(o) \/ CreateIndexes(o) \/ Close(o)

SchemaSpec == SchemaInit /\ [][SchemaNext]_schemaVars

-----------------------------------------------------------------------------
(* A version stands for its columns: whoever migrated beside whom, and     *)
(* wherever a process died, a recorded migration was applied in full.      *)
RecordedIsApplied ==
    \A m \in Owners : \A i \in DOMAIN Migrations[m] :
        IsRecorded(m, i) => Added(m, i) \subseteq tables[m]

(* Whoever got the file open finds every column it uses, unless another    *)
(* module's higher version hid its migration; and a module whose missing   *)
(* columns are indexed is refused, not handed a table it cannot use.       *)
OpenIsCurrent ==
    \A o \in Openers : openers[o].pc = "open" =>
        /\ openers[o].owner \notin hidden => tables[openers[o].owner] = Columns[openers[o].owner]
        /\ Indexed[openers[o].owner] \subseteq tables[openers[o].owner]

(* Only versions below another module's are hidden: those of runs.py by    *)
(* those of library.py ("versions are offset by 100 to avoid collisions"), *)
(* and only in a file that was not opened as runs since it was updated.    *)
HighestIsNeverHidden ==
    \A m \in hidden : \E i \in DOMAIN Migrations[m] : OvertakenIn(m, i, versions)

(* The three above: a version is never ahead of its columns, and who gets  *)
(* the file open can use it.                                               *)
SchemasAreCurrent == RecordedIsApplied /\ OpenIsCurrent /\ HighestIsNeverHidden
=============================================================================
