---------------------------- MODULE ServerStores ----------------------------
(***************************************************************************)
(* serve.New: how a start of the server brings up its stores, on a file    *)
(* that earlier starts may have left anywhere: the schema migrations, the  *)
(* user store, the subscriptions, the roles and the first administrator;   *)
(* then the stores at work, until the process is killed.  (The study store *)
(* opens between users and subscriptions; it has its own module.)          *)
(*                                                                         *)
(* The service manager restarts a server that has ended (Restart=always).  *)
(***************************************************************************)
EXTENDS UserStore, FiniteSetsExt

CONSTANTS
    Pairs, SubFile,
    RolesFile,      \* roles.json
    MaxEnds         \* bound on kills and failed starts

\* The first role of roles.json is admin.
ASSUME StoresAssumption ==
    /\ SubFile \subseteq Pairs
    /\ RolesFile # <<>> /\ RolesFile \in Seq(Range(RolesFile)) /\ RolesFile[1] = "admin"
    /\ MaxEnds \in Nat

VARIABLES
    subTable, subs, seed, subUnsaved,
    applied,        \* migrations whose tables or columns are there
    versions,       \* rows of schema_version
    roles,          \* the table roles
    start,          \* where serve.New is
    current,        \* the schema version that Migrate has read
    pending,        \* the migrations it has still to look at
    todoRoles,      \* roles that Bootstrap has still to insert
    ends            \* kills and failed starts so far

Subs == INSTANCE SubscriptionStore

subVars    == <<subTable, subs, seed, subUnsaved>>
schemaVars == <<applied, versions, current, pending>>
roleVars   == <<roles, todoRoles>>
vars == <<userVars, subVars, schemaVars, roleVars, start, ends>>

Migrations == <<2, 3, 4, 6>>
MigrationSet == Range(Migrations)

Phases == {"down", "migrate", "users", "sync", "subs", "seed", "roles", "insert", "admin", "up"}

Newest(vs) == IF vs = {} THEN 0 ELSE Max(vs)

\* A step of New returns an error, or the process is killed: what is committed
\* stays, memory goes.
EndsHere ==
    /\ start' = "down"
    /\ Forget
    /\ Subs!Forget
    /\ todoRoles' = <<>>
    /\ current' = 0 /\ pending' = <<>>
    /\ UNCHANGED <<applied, versions, roles>>

-----------------------------------------------------------------------------
(* schema.Migrate *)

\* schema_version is created, and read once.
ReadVersion ==
    /\ start = "down"
    /\ current' = Newest(versions)
    /\ pending' = Migrations
    /\ start' = "migrate"
    /\ UNCHANGED <<userVars, subVars, applied, versions, roleVars, ends>>

\* migrateToV2 and the others: tables, columns and version in one transaction.
MigrateTo(v) ==
    /\ applied' = applied \cup {v}
    /\ versions' = versions \cup {v}

\* Version 6 runs at every start: a column that exists and a version that is
\* recorded are no errors.
Due(v) == current < v \/ v = 6

Migrate ==
    /\ start = "migrate"
    /\ LET v == Head(pending) IN
        IF Due(v) THEN MigrateTo(v) ELSE UNCHANGED <<applied, versions>>
    /\ pending' = Tail(pending)
    /\ start' = IF pending' = <<>> THEN "users" ELSE start
    /\ UNCHANGED <<userVars, subVars, current, roleVars, ends>>

-----------------------------------------------------------------------------
(* The stores, one after the other *)

OpenUsers ==
    /\ start = "users"
    /\ Open
    /\ start' = "sync"
    /\ UNCHANGED <<subVars, schemaVars, roleVars, ends>>

SyncUsers ==
    /\ start = "sync"
    /\ \/ \E ok \in BOOLEAN : SyncOne(ok) /\ UNCHANGED start
       \/ sync = <<>> /\ start' = "subs" /\ UNCHANGED userVars
    /\ UNCHANGED <<subVars, schemaVars, roleVars, ends>>

OpenSubscriptions ==
    /\ start = "subs"
    /\ Subs!OpenSubs
    /\ start' = "seed"
    /\ UNCHANGED <<userVars, schemaVars, roleVars, ends>>

SeedSubscriptions ==
    /\ start = "seed"
    /\ \/ \E p \in seed, ok \in BOOLEAN : Subs!SeedOne(p, ok) /\ UNCHANGED start
       \/ seed = {} /\ start' = "roles" /\ UNCHANGED subVars
    /\ UNCHANGED <<userVars, schemaVars, roleVars, ends>>

\* Mutant: roles are taken from the file when one of them is missing.
CountRolesAll ==
    /\ start = "roles"
    /\ todoRoles' = IF Cardinality(roles) >= Len(RolesFile) THEN <<>> ELSE RolesFile
    /\ start' = "insert"
    /\ UNCHANGED <<userVars, subVars, schemaVars, roles, ends>>

\* roles.Bootstrap reads the file only while the table is empty.
CountRoles ==
    /\ start = "roles"
    /\ todoRoles' = IF roles # {} THEN <<>> ELSE RolesFile
    /\ start' = "insert"
    /\ UNCHANGED <<userVars, subVars, schemaVars, roles, ends>>

\* Each role is a statement of its own; a role that exists is an error.
InsertRole ==
    /\ start = "insert"
    /\ IF todoRoles = <<>>
       THEN start' = "admin" /\ UNCHANGED <<userVars, subVars, schemaVars, roleVars>>
       ELSE IF Head(todoRoles) \notin roles
       THEN /\ roles' = roles \cup {Head(todoRoles)}
            /\ todoRoles' = Tail(todoRoles)
            /\ UNCHANGED <<start, userVars, subVars, schemaVars>>
       ELSE EndsHere
    /\ UNCHANGED ends

\* Bootstrap needs the admin role only when there are no users.
BootstrapAdmin ==
    /\ start = "admin"
    /\ IF all = <<>> /\ "admin" \notin roles
       THEN EndsHere
       ELSE /\ Bootstrap(TRUE)
            /\ start' = "up"
            /\ UNCHANGED <<subVars, schemaVars, roleVars>>
    /\ UNCHANGED ends

\* The process is killed, or a statement of the start fails and New returns.
Killed ==
    /\ start # "down"
    /\ ends < MaxEnds
    /\ ends' = ends + 1
    /\ EndsHere

-----------------------------------------------------------------------------

StartStep ==
    \/ ReadVersion
    \/ Migrate
    \/ OpenUsers \/ SyncUsers
    \/ OpenSubscriptions \/ SeedSubscriptions
    \/ CountRoles \/ InsertRole
    \/ BootstrapAdmin

Serve ==
    /\ start = "up"
    /\ \/ UserRequest /\ UNCHANGED subVars
       \/ Subs!Request /\ UNCHANGED userVars
    /\ UNCHANGED <<schemaVars, roleVars, start, ends>>

Init ==
    /\ UsersInit
    /\ Subs!Init
    /\ \E n \in 0..Len(Migrations) : applied = {Migrations[i] : i \in 1..n}
    /\ versions = applied
    /\ roles = {}
    /\ start = "down"
    /\ current = 0 /\ pending = <<>>
    /\ todoRoles = <<>>
    /\ ends = 0

Next == StartStep \/ Serve \/ Killed

\* The start runs on by itself, and after its end the service manager repeats it.
Spec == Init /\ [][Next]_vars /\ WF_vars(StartStep)

-----------------------------------------------------------------------------

TypeOK ==
    /\ UsersTypeOK
    /\ Subs!TypeOK
    /\ applied \subseteq MigrationSet /\ versions \subseteq MigrationSet
    /\ roles \subseteq Range(RolesFile)
    /\ start \in Phases
    /\ current \in MigrationSet \cup {0}

\* The two copies of the users, and of the subscriptions, agree from the
\* moment they are loaded, whatever statement failed and wherever a start was
\* cut off (UserStore!MemoryIsTable, SubscriptionStore!SubsAgree).
CopiesAgree ==
    /\ start \notin {"down", "migrate", "users"} => MemoryIsTable
    /\ start \notin {"down", "migrate", "users", "sync", "subs"} => Subs!SubsAgree

\* "SetRole changes a user's role" and "mutate applies fn to the stored user
\* and persists" (user.go); "Bootstrap creates default admin user"
\* (bootstrap.go): the role in which a saved user acts is the stored one.
RolePersists ==
    start = "up" => \A id \in UserIds \ (unsaved \cup hidden) :
                        byID[id] # NoUser => table[id].role = byID[id].role

\* However often starts were cut off, a server that comes up has the whole
\* schema, at least one user and the role admin.  (The user may be one of the
\* file that is disabled or has no password: Bootstrap only counts.)
UpIsUsable ==
    [][start' = "up" /\ start # "up" =>
          applied = MigrationSet /\ all' # <<>> /\ "admin" \in roles]_vars

\* A start that is not cut off comes up: no state that an interrupted start
\* leaves behind keeps the next ones from coming up.
StartCompletes == []<>(start = "up")
=============================================================================
