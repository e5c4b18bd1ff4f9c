----------------------------- MODULE UserStore -----------------------------
(***************************************************************************)
(* internal/user.Store: the users, once in memory (a list and an index)    *)
(* and once in the table users of the SQLite file, filled at the first     *)
(* start from a JSONL file, and the API handlers that change them.         *)
(*                                                                         *)
(* Store.mu is held through every method, so a method is a step; a handler *)
(* such as UpdateUser is one method per field, and other handlers run in   *)
(* between.  A SQL statement may fail at any point.                        *)
(*                                                                         *)
(* Of a user the model keeps role and role_id, the password (a salted      *)
(* hash, a legacy hash, none), pro (stands for tier and groups, which have *)
(* no column) and off (stands for disabled, name and the NLP settings,     *)
(* which have).                                                            *)
(***************************************************************************)
EXTENDS Listing

CONSTANTS
    UserIds,    \* ids, ordered as SQL orders them
    Admin,      \* the id that bootstrap creates
    Files,      \* contents the JSONL file may have
    NewUsers,   \* records that CreateUser, signup and import bring
    Changes,    \* [id, field, value] that the handlers set
    MaxAll      \* bound on the length of the list

Roles  == {"user", "admin"}
NoRole == ""

User == [id : UserIds, role : Roles, roleID : Roles \cup {NoRole},
         pass : {"hash", "legacy", "none"}, pro : BOOLEAN, off : BOOLEAN]
Row  == [role : Roles, pass : BOOLEAN, off : BOOLEAN]

Fields == <<"pass", "pro", "role", "off">>    \* in the order of UpdateUser
Values == [pass |-> {"hash"}, pro |-> BOOLEAN, role |-> Roles, off |-> BOOLEAN]

ASSUME UserStoreAssumption ==
    /\ UserIds \subseteq Nat \ {0} /\ IsFiniteSet(UserIds) /\ Admin \in UserIds
    /\ Files \subseteq Seq(User)
    /\ NewUsers \subseteq User
    /\ \A c \in Changes :
          c.id \in UserIds /\ c.field \in DOMAIN Values /\ c.value \in Values[c.field]
    /\ MaxAll \in Nat

NoUser == [id |-> 0]
NoRow  == [role |-> "none"]
NoUpd  == [id |-> 0, todo |-> {}]

VARIABLES
    file,       \* the JSONL file, never written
    table,      \* the table users
    all, byID,  \* Store.all, Store.byID
    sync,       \* users that Open has still to write to the table
    upd,        \* the UpdateUser request in progress
    unsaved,    \* history: ids whose last write failed
    half,       \* history: ids whose DELETE failed
    hidden,     \* history: ids with a row that the last Open left out
    twice       \* history: ids that the last Open has put into the list twice

storeVars == <<table, all, byID, sync, unsaved, half, hidden, twice>>
userVars  == <<file, storeVars, upd>>

-----------------------------------------------------------------------------
(* Between memory and table *)

\* saveToSQL: role_id wins over the role; a legacy hash has no column.
RowOf(u) ==
    [role |-> IF u.roleID # NoRole THEN u.roleID ELSE u.role, pass |-> u.pass = "hash", off |-> u.off]

\* Mutant: only RoleID is filled.
FromRowNoRole(id, r) ==
    [id |-> id, role |-> "", roleID |-> r.role,
     pass |-> IF r.pass THEN "hash" ELSE "none", pro |-> FALSE, off |-> r.off]

\* loadFromSQL: both come from the column role_id; tier and groups are empty.
FromRow(id, r) ==
    [id |-> id, role |-> r.role, roleID |-> r.role,
     pass |-> IF r.pass THEN "hash" ELSE "none", pro |-> FALSE, off |-> r.off]

Rows == {id \in UserIds : table[id] # NoRow}

\* What loadFromSQL finds under each id.
Loaded == [id \in UserIds |-> IF id \in Rows THEN FromRow(id, table[id]) ELSE NoUser]

Ids(us) == {us[i].id : i \in DOMAIN us}

IsLast(us, i) == \A j \in DOMAIN us : us[j].id = us[i].id => j <= i

\* Store.byID after loading the list us: nothing keeps a file from having an id
\* on several lines, and the last of them counts.
Indexed(us) ==
    [id \in UserIds |-> IF id \in Ids(us)
                        THEN us[CHOOSE i \in DOMAIN us : us[i].id = id /\ IsLast(us, i)]
                        ELSE NoUser]

Repeated(us) == {us[i].id : i \in {j \in DOMAIN us : ~IsLast(us, j)}}

\* INSERT OR REPLACE, or its failure.
SaveToSQL(u, ok) ==
    /\ table' = IF ok THEN [table EXCEPT ![u.id] = RowOf(u)] ELSE table
    /\ unsaved' = IF ok THEN unsaved \ {u.id} ELSE unsaved \cup {u.id}
    /\ hidden' = hidden \ {u.id}

-----------------------------------------------------------------------------
(* OpenStoreWithDB *)

\* SQL alone is enough when it has users and each has a password.
SQLSuffices == Rows # {} /\ \A id \in Rows : table[id].pass

OpenFromSQL ==
    /\ SQLSuffices
    /\ all' \in InOrder(Loaded, Rows)
    /\ byID' = Loaded
    /\ sync' = <<>>
    /\ unsaved' = {} /\ half' = {} /\ hidden' = {} /\ twice' = {}
    /\ UNCHANGED <<file, table, upd>>

\* Otherwise, and when the query fails, the file replaces what was loaded; its
\* users are then written back.  (A server always has a path: SCANNER_USERS_PATH
\* or a default.)
OpenFromFile ==
    /\ all' = file
    /\ byID' = Indexed(file)
    /\ sync' = file
    /\ unsaved' = {} /\ half' = {}
    /\ hidden' = Rows \ Ids(file)
    /\ twice' = Repeated(file)
    /\ UNCHANGED <<file, table, upd>>

Open == OpenFromSQL \/ OpenFromFile

\* One of the writes back; its error is dropped.
SyncOne(ok) ==
    /\ sync # <<>>
    /\ SaveToSQL(Head(sync), ok)
    /\ sync' = Tail(sync)
    /\ UNCHANGED <<file, all, byID, upd, half, twice>>

\* The memory of the process is lost.
Forget ==
    /\ all' = <<>>
    /\ byID' = [id \in UserIds |-> NoUser]
    /\ sync' = <<>>
    /\ upd' = NoUpd
    /\ unsaved' = {} /\ half' = {} /\ hidden' = {} /\ twice' = {}
    /\ UNCHANGED <<file, table>>

-----------------------------------------------------------------------------
(* The methods *)

\* Mutant: the index is only written once the row is.
CreateIndexLate(u, ok) ==
    /\ byID[u.id] = NoUser
    /\ Len(all) < MaxAll
    /\ all' = Append(all, u)
    /\ byID' = IF ok THEN [byID EXCEPT ![u.id] = u] ELSE byID
    /\ SaveToSQL(u, ok)
    /\ UNCHANGED <<file, sync, half, twice>>

\* Create, of an id that the index does not have.
Create(u, ok) ==
    /\ byID[u.id] = NoUser
    /\ Len(all) < MaxAll
    /\ all' = Append(all, u)
    /\ byID' = [byID EXCEPT ![u.id] = u]
    /\ SaveToSQL(u, ok)
    /\ UNCHANGED <<file, sync, half, twice>>

Listed(id) == \E i \in DOMAIN all : all[i].id = id

IsFirst(i, id) == all[i].id = id /\ \A j \in 1..(i - 1) : all[j].id # id

\* Mutant: the user is saved as it was before fn.
MutateSavesOld(id, f, v, ok) ==
    /\ \E i \in DOMAIN all : LET u == [all[i] EXCEPT ![f] = v] IN
        /\ IsFirst(i, id)
        /\ all' = [all EXCEPT ![i] = u]
        /\ byID' = [byID EXCEPT ![id] = u]
        /\ SaveToSQL(all[i], ok)
    /\ UNCHANGED <<file, sync, half, twice>>

\* mutate: the first entry of the list, then the index, then the table.
Mutate(id, f, v, ok) ==
    /\ \E i \in DOMAIN all : LET u == [all[i] EXCEPT ![f] = v] IN
        /\ IsFirst(i, id)
        /\ all' = [all EXCEPT ![i] = u]
        /\ byID' = [byID EXCEPT ![id] = u]
        /\ SaveToSQL(u, ok)
    /\ UNCHANGED <<file, sync, half, twice>>

\* Delete: the index, then the table, then the list.  The DELETE fails also
\* while user_limits references the row.
Delete(id, ok) ==
    /\ byID[id] # NoUser
    /\ byID' = [byID EXCEPT ![id] = NoUser]
    /\ IF ok
       THEN /\ table' = [table EXCEPT ![id] = NoRow]
            /\ all' \in InOrder(all, {i \in DOMAIN all : all[i].id # id})
            /\ unsaved' = unsaved \ {id} /\ half' = half \ {id} /\ twice' = twice \ {id}
       ELSE /\ unsaved' = unsaved \cup {id} /\ half' = half \cup {id}
            /\ UNCHANGED <<table, all, twice>>
    /\ hidden' = hidden \ {id}
    /\ UNCHANGED <<file, sync>>

-----------------------------------------------------------------------------
(* The handlers *)

\* The administrator's CreateUser gives no role_id; handleSignup makes a plain
\* user; both set a password.  An imported user (ImportJSON: one at a time, one
\* that fails is passed over) is taken as it is.
CreateUser == \E u \in NewUsers, ok \in BOOLEAN :
    Create([u EXCEPT !.pass = "hash", !.roleID = NoRole], ok) /\ UNCHANGED upd

Signup == \E u \in NewUsers, ok \in BOOLEAN :
    Create([u EXCEPT !.pass = "hash", !.role = "user", !.roleID = "user"], ok) /\ UNCHANGED upd

ImportUser == \E u \in NewUsers, ok \in BOOLEAN : Create(u, ok) /\ UNCHANGED upd

\* A password is set: by a user who gave the current one, through the API or on
\* the profile page, and by an administrator.  Who may and whether the new one
\* is good enough is checked before, on a copy of the user.
SetPassword(id, ok) == Mutate(id, "pass", "hash", ok) /\ UNCHANGED upd

HandleChangePassword(id, ok) == SetPassword(id, ok)
HandleProfile(id, ok)        == SetPassword(id, ok)
ResetPassword(id, ok)        == SetPassword(id, ok)

\* PUT /users/{id} with some fields; they are set one by one, the first error
\* ends it.
UpdateUser(id) ==
    /\ upd = NoUpd
    /\ \E c \in SUBSET {d \in Changes : d.id = id} :
          /\ c # {}
          /\ \A a, b \in c : a.field = b.field => a = b
          /\ upd' = [id |-> id, todo |-> c]
    /\ UNCHANGED <<file, storeVars>>

\* c comes before the other fields that are left.
IsNext(c) ==
    \A d \in upd.todo :
        \E i, j \in DOMAIN Fields : i <= j /\ Fields[i] = c.field /\ Fields[j] = d.field

UpdateField(ok) ==
    /\ upd # NoUpd
    /\ \E c \in upd.todo :
          /\ IsNext(c)
          /\ Mutate(upd.id, c.field, c.value, ok)
          /\ upd' = IF ok /\ upd.todo # {c} THEN [upd EXCEPT !.todo = @ \ {c}] ELSE NoUpd

UpdateNotFound ==
    /\ upd # NoUpd
    /\ ~Listed(upd.id)
    /\ upd' = NoUpd
    /\ UNCHANGED <<file, storeVars>>

DeleteUser == \E id \in UserIds, ok \in BOOLEAN : Delete(id, ok) /\ UNCHANGED upd

\* bootstrap.Bootstrap: role_id is given, the role is not, and Create makes an
\* empty role "user".
AdminUser ==
    [id |-> Admin, role |-> "user", roleID |-> "admin", pass |-> "hash", pro |-> FALSE, off |-> FALSE]

\* Mutant: the table is asked instead of the list.
BootstrapByTable(ok) ==
    IF Rows # {} THEN UNCHANGED userVars ELSE Create(AdminUser, ok) /\ UNCHANGED upd

Bootstrap(ok) ==
    IF all # <<>> THEN UNCHANGED userVars ELSE Create(AdminUser, ok) /\ UNCHANGED upd

UsersInit ==
    /\ file \in Files
    /\ table = [id \in UserIds |-> NoRow]
    /\ all = <<>>
    /\ byID = [id \in UserIds |-> NoUser]
    /\ sync = <<>>
    /\ upd = NoUpd
    /\ unsaved = {} /\ half = {} /\ hidden = {} /\ twice = {}

\* What the handlers of a running server do.
UserRequest ==
    \/ CreateUser \/ Signup \/ ImportUser
    \/ DeleteUser
    \/ \E id \in UserIds : UpdateUser(id)
    \/ \E ok \in BOOLEAN : UpdateField(ok)
    \/ \E id \in UserIds, ok \in BOOLEAN :
          HandleChangePassword(id, ok) \/ HandleProfile(id, ok) \/ ResetPassword(id, ok)
    \/ UpdateNotFound

-----------------------------------------------------------------------------

UsersTypeOK ==
    /\ file \in Files
    /\ table \in [UserIds -> Row \cup {NoRow}]
    /\ all \in Seq(User)
    /\ byID \in [UserIds -> User \cup {NoUser}]
    /\ sync \in Seq(User)
    /\ unsaved \subseteq UserIds /\ half \subseteq UserIds /\ hidden \subseteq UserIds
    /\ twice \subseteq UserIds

\* List and index hold the same users, except for ids whose DELETE failed:
\* methods that search the one and methods that search the other (mutate,
\* Delete) see one set of users.  What the index has of a user is an entry of
\* the list, and the only one, unless the file has the id on several lines.
ListIsIndex ==
    \A id \in UserIds \ half :
        LET at == {i \in DOMAIN all : all[i].id = id} IN
        IF byID[id] = NoUser THEN at = {}
        ELSE \E i \in at : all[i] = byID[id] /\ (at = {i} \/ id \in twice)

\* What memory says of a user is what a restart would find in the table, as far
\* as the table has columns for it, except for ids whose last write was
\* answered with an error, lines of the file that Open has yet to write, and
\* rows the last start left out.
MemoryIsTable ==
    \A id \in UserIds \ (unsaved \cup hidden \cup Ids(sync)) :
        IF byID[id] = NoUser THEN table[id] = NoRow
        ELSE /\ table[id] # NoRow
             /\ table[id].off = byID[id].off
             /\ table[id].pass <=> byID[id].pass = "hash"
             /\ byID[id].roleID # NoRole => table[id].role = byID[id].roleID
=============================================================================
