----------------------------- MODULE Migration -----------------------------
(***************************************************************************)
(* Bringing a database to the schema of this build.  The server and every  *)
(* command that opens the store run Migrate, which may be stopped between  *)
(* any two statements and run again, and may run in several processes at   *)
(* once: nothing but the single statement, and the transaction that        *)
(* converts the timestamps, is atomic.                                     *)
(*                                                                         *)
(* One table stands for each foreign key the build wants: the table either *)
(* is missing or is of an older build, with time stamps without a zone and *)
(* foreign keys that may have the wrong delete rule, a name of their own,  *)
(* a duplicate, or the wanted name on another column.                      *)
(***************************************************************************)
EXTENDS Naturals, Sequences, FiniteSets, Functions

CONSTANTS
    Migrators,      \* processes that open the store
    KeyList,        \* the foreign keys wanted, in the order they are ensured
    MaxKills        \* bound: how often a process is stopped or restarted

\* Some process starts, and each foreign key is wanted once.
ASSUME MigrationAssumption ==
    /\ Migrators # {}
    /\ Len(KeyList) \in Nat \ {0} /\ DOMAIN KeyList = 1 .. Len(KeyList)
    /\ \A i, j \in 1 .. Len(KeyList) : KeyList[i] = KeyList[j] => i = j
    /\ MaxKills \in Nat

Keys == Range(KeyList)

\* A foreign key: under the wanted name or another, with the wanted delete
\* rule or another, on the wanted column or another.
FK == [preferred : BOOLEAN, right : BOOLEAN, here : BOOLEAN]
ForeignKey(preferred, right, here) == [preferred |-> preferred, right |-> right, here |-> here]
Wanted == ForeignKey(TRUE, TRUE, TRUE)
Renamed == ForeignKey(FALSE, TRUE, TRUE)

\* What an older build or an interrupted repair may have left behind.
Drifts == {{}, {Wanted}, {Renamed}, {ForeignKey(TRUE, FALSE, TRUE)},
           {Wanted, ForeignKey(FALSE, FALSE, TRUE)}, {ForeignKey(TRUE, TRUE, FALSE)}}

VARIABLES
    tables,     \* the tables that exist
    fks,        \* the foreign keys of each table
    stamps,     \* its time stamps: "wall" clock, "tz" or "shifted"
    adminRole,  \* the role of an administrator: "none" without the column
    nullable,   \* permissions.granted_by may be null
    zone,       \* the zone of the old time stamps can be told
    sameZone,   \* it is the zone of the database's sessions too
    mig,        \* each migration: where it is and what it has read
    kills,      \* stops and restarts so far
    raced       \* a migration listed columns that another was converting

migVars == <<tables, fks, stamps, adminRole, nullable, zone, sameZone, mig, kills, raced>>

\* A migration that has read nothing yet, at a place and a key.
Fresh(at, i) == [at |-> at, i |-> i, cols |-> {}, found |-> {}]

\* Every variable keeps its type.
MigrationTypeOK ==
    /\ tables \subseteq Keys
    /\ fks \in [Keys -> SUBSET FK]
    /\ stamps \in [Keys -> {"wall", "tz", "shifted"}]
    /\ adminRole \in {"none", "user", "admin"}
    /\ nullable \in BOOLEAN /\ zone \in BOOLEAN /\ sameZone \in BOOLEAN /\ raced \in BOOLEAN
    /\ mig \in [Migrators -> [at : {"idle", "columns", "roles", "stamps", "convert", "nullable", "list", "drop",
                                    "add", "ok", "failed"},
                              i : 1 .. Len(KeyList), cols : SUBSET Keys, found : SUBSET FK]]
    /\ kills \in 0 .. MaxKills

MigrationInit ==
    /\ tables \in {{}, Keys}
    /\ IF tables = {} THEN fks = [k \in Keys |-> {}] /\ adminRole = "none"
       ELSE fks \in [Keys -> Drifts] /\ adminRole \in {"none", "admin"}
    /\ stamps = [k \in Keys |-> "wall"]
    /\ nullable = FALSE /\ zone \in BOOLEAN /\ sameZone \in BOOLEAN
    /\ mig = [p \in Migrators |-> Fresh("idle", 1)] /\ kills = 0 /\ raced = FALSE

Go(p, to) == mig' = [mig EXCEPT ![p].at = to]

-----------------------------------------------------------------------------
(* The list of statements.  Each is a no-op when its object exists.         *)

createTables(p) ==
    /\ mig[p].at = "idle"
    /\ tables' = Keys
    /\ fks' = [k \in Keys |-> IF k \in tables THEN fks[k] ELSE {Wanted}]
    /\ stamps' = [k \in Keys |-> IF k \in tables THEN stamps[k] ELSE "tz"]
    /\ nullable' = (nullable \/ tables = {})
    /\ Go(p, "columns")
    /\ UNCHANGED <<adminRole, zone, raced>>

\* The role column arrives with the default 'user' on every row.
addColumns(p) ==
    /\ mig[p].at = "columns"
    /\ adminRole' = IF adminRole = "none" THEN "user" ELSE adminRole
    /\ Go(p, "roles")
    /\ UNCHANGED <<tables, fks, stamps, nullable, zone, raced>>

repairRoles(p) ==
    /\ mig[p].at = "roles"
    /\ adminRole' = "admin"
    /\ Go(p, "stamps")
    /\ UNCHANGED <<tables, fks, stamps, nullable, zone, raced>>

-----------------------------------------------------------------------------
(* The conversion of time stamps. *)

legacyTimestampColumns == {k \in Keys : stamps[k] = "wall"}

\* The columns are listed outside the transaction that converts them.  The
\* migration fails when the zone they were written in cannot be told.
migrateTimestampsToTZ(p) ==
    /\ mig[p].at = "stamps"
    /\ mig' = [mig EXCEPT ![p].cols = legacyTimestampColumns,
                          ![p].at = IF legacyTimestampColumns = {} THEN "nullable"
                                    ELSE IF zone THEN "convert" ELSE "failed"]
    /\ raced' = (raced \/ \E q \in Migrators \ {p} : mig[q].at = "convert")
    /\ UNCHANGED <<tables, fks, stamps, adminRole, nullable, zone>>

\* One transaction under exclusive locks.  A column that has a zone already is
\* turned into the wall clock of the old zone and read back in the zone of the
\* session: the same instant only when the two zones are the same.
convertLegacyTimestamps(p) ==
    /\ mig[p].at = "convert"
    /\ stamps' = [k \in Keys |->
          IF k \notin mig[p].cols THEN stamps[k]
          ELSE IF stamps[k] = "wall" \/ sameZone THEN "tz" ELSE "shifted"]
    /\ mig' = [mig EXCEPT ![p].at = "nullable", ![p].cols = {}]
    /\ UNCHANGED <<tables, fks, adminRole, nullable, zone, raced>>

-----------------------------------------------------------------------------
(* The repair of nullability and of the foreign keys. *)

ensureColumnNullable(p) ==
    /\ mig[p].at = "nullable"
    /\ nullable' = TRUE
    /\ Go(p, "list")
    /\ UNCHANGED <<tables, fks, stamps, adminRole, zone, raced>>

Key(p) == KeyList[mig[p].i]

listForeignKeys(k) == {f \in fks[k] : f.here}

\* Mutant: a key with another delete rule is taken for the wanted one.
InOrder_AnyRule(found) == \E f \in found : found = {f}

\* One key on the column, with the wanted delete rule.
InOrder(found) == \E f \in found : found = {f} /\ f.right

\* On to the next key, or done.
nextKey(p) ==
    mig' = [mig EXCEPT ![p] = IF @.i = Len(KeyList) THEN Fresh("ok", 1) ELSE Fresh("list", @.i + 1)]

inspect(p) ==
    /\ mig[p].at = "list"
    /\ LET found == listForeignKeys(Key(p)) IN
       IF InOrder(found) THEN nextKey(p)
       ELSE mig' = [mig EXCEPT ![p].at = "drop", ![p].found = found]
    /\ UNCHANGED fks

\* DROP CONSTRAINT IF EXISTS, one statement for each key that was found.
dropFound(p) ==
    /\ mig[p].at = "drop" /\ mig[p].found # {}
    /\ \E f \in mig[p].found :
          /\ fks' = [fks EXCEPT ![Key(p)] = {g \in @ : g.preferred # f.preferred}]
          /\ mig' = [mig EXCEPT ![p].found = @ \ {f}]

\* Mutant: the wanted name is taken to be free.
dropPreferred_Skip(p) ==
    /\ mig[p].at = "drop" /\ mig[p].found = {}
    /\ Go(p, "add") /\ UNCHANGED fks

\* The wanted name too, in case it is on another column.
dropPreferred(p) ==
    /\ mig[p].at = "drop" /\ mig[p].found = {}
    /\ fks' = [fks EXCEPT ![Key(p)] = {g \in @ : ~g.preferred}]
    /\ Go(p, "add")

\* The name is taken when another migration got there first.
addKey(p) ==
    /\ mig[p].at = "add"
    /\ IF \E g \in fks[Key(p)] : g.preferred
       THEN Go(p, "failed") /\ UNCHANGED fks
       ELSE fks' = [fks EXCEPT ![Key(p)] = @ \cup {Wanted}] /\ nextKey(p)

ensureForeignKey(p) ==
    /\ inspect(p) \/ dropFound(p) \/ dropPreferred(p) \/ addKey(p)
    /\ UNCHANGED <<tables, stamps, adminRole, nullable, zone, raced>>

repairSchema(p) == ensureColumnNullable(p) \/ ensureForeignKey(p)

Migrate(p) ==
    /\ \/ createTables(p) \/ addColumns(p) \/ repairRoles(p)
       \/ migrateTimestampsToTZ(p) \/ convertLegacyTimestamps(p)
       \/ repairSchema(p)
    /\ UNCHANGED <<sameZone, kills>>

-----------------------------------------------------------------------------
(* The processes and the operator. *)

\* A process that could not migrate exits and is started again.
startAgain(p) ==
    /\ mig[p].at = "failed"
    /\ mig' = [mig EXCEPT ![p] = Fresh("idle", 1)]
    /\ UNCHANGED <<tables, fks, stamps, adminRole, nullable, zone, sameZone, kills, raced>>

\* Stopped, or cut off from the database, between two statements.
killed(p) ==
    /\ mig[p].at # "failed" /\ kills < MaxKills
    /\ mig' = [mig EXCEPT ![p] = Fresh("failed", 1)]
    /\ kills' = kills + 1
    /\ UNCHANGED <<tables, fks, stamps, adminRole, nullable, zone, sameZone, raced>>

\* The operator sets the variable that the error names.
setZone ==
    /\ ~zone
    /\ zone' = TRUE
    /\ UNCHANGED <<tables, fks, stamps, adminRole, nullable, sameZone, mig, kills, raced>>

MigrationNext ==
    \/ \E p \in Migrators : Migrate(p) \/ startAgain(p) \/ killed(p)
    \/ setZone

MigrateSteps(p) == Migrate(p) \/ startAgain(p)

\* A process that has begun goes on, and is started again when it fails.
MigrationSpec ==
    /\ MigrationInit /\ [][MigrationNext]_migVars
    /\ \A p \in Migrators : WF_migVars(MigrateSteps(p))

-----------------------------------------------------------------------------
(* Once every migration that started has returned without an error, the    *)
(* schema is the wanted one, whatever was left behind before and however    *)
(* the migrations were stopped and interleaved: each table has exactly its *)
(* foreign key, the column may be null and an administrator has the role.  *)
MigratedSchema ==
    (\A p \in Migrators : mig[p].at = "ok") =>
        /\ \A k \in Keys : {f \in fks[k] : f.here} \in {{Wanted}, {Renamed}}
        /\ nullable /\ adminRole = "admin"

(* A stored time is converted once, unless two migrations overlapped: a    *)
(* restart after the conversion finds nothing to do.                       *)
RewrittenOnceUnlessRaced == ~raced => \A k \in Keys : stamps[k] # "shifted"

(* What the comment of migrateTimestampsToTZ says: each table is rewritten *)
(* once, and later starts find nothing to do.                              *)
RewrittenOnce == \A k \in Keys : stamps[k] # "shifted"

(* The schema is the wanted one and no time was rewritten twice, except by *)
(* migrations that overlapped.                                             *)
MigrationIsSafe == MigrationTypeOK /\ MigratedSchema /\ RewrittenOnceUnlessRaced

(* Every migration gets through in the end, once the zone can be told: a   *)
(* name that another migration took fails one start, never all of them.    *)
MigrationFinishes == <>zone => <>[](\A p \in Migrators : mig[p].at = "ok")
=============================================================================
