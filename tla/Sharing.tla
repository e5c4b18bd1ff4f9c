------------------------------ MODULE Sharing ------------------------------
(***************************************************************************)
(* Saved results and who may see them: internal/results, internal/groups,  *)
(* internal/permissions and their API handlers, over the tables that       *)
(* internal/schema creates in the one SQLite file.                         *)
(*                                                                         *)
(* The pool has one connection, so a SQL statement is a step; a handler is *)
(* several statements, and between two of them other handlers run.  The    *)
(* connection is opened with PRAGMA foreign_keys = ON: the FOREIGN KEY     *)
(* clauses of the schema are enforced, with their ON DELETE actions.       *)
(*                                                                         *)
(* Permission bits are sets of "r" (4), "w" (2), "x" (1).  A result is     *)
(* abstracted to its owner, what it is of (study and day), its bits and    *)
(* its group.                                                              *)
(***************************************************************************)
EXTENDS Integers, FiniteSets

CONSTANTS
    Users,
    Groups,
    Items,      \* study_id and snapshot_date of a result
    Conns,      \* API requests served at a time
    Requests,   \* what the clients send on each connection
    Edited,     \* users whose rows the user store writes while requests run
    MaxResults  \* bound on the results ever saved

Actions == {"r", "w", "x"}

Null    == "NULL"   \* SQL NULL in group_id
NoGroup == ""       \* group_id omitted in a request
NoUser  == ""
NoRow   == [owner |-> NoUser]
NoACL   == {"none"}

Ids == 1..MaxResults

Kinds == {"save", "get", "delete", "chmod", "chown", "addacl", "rmacl", "import",
          "newgroup", "importgroup", "rmgroup", "addmember", "rmmember"}

AllRequests ==
    [kind : Kinds, by : Users, admin : BOOLEAN, id : Ids, user : Users,
     group : Groups \cup {NoGroup}, item : Items, role : {"member", "leader"},
     owner : SUBSET Actions, grp : SUBSET Actions, all : SUBSET Actions]

ASSUME SharingAssumption ==
    /\ Requests \in [Conns -> SUBSET AllRequests]
    /\ Edited \subseteq Users
    /\ MaxResults \in Nat
    /\ IsFiniteSet(Users) /\ IsFiniteSet(Groups)
    /\ NoUser \notin Users /\ NoGroup \notin Groups /\ Null \notin Groups

VARIABLES
    users,      \* role_id of each row of users, "none" without a row
    groups,     \* owner_id of each row of groups
    members,    \* role of each row of group_members
    results,    \* rows of saved_results
    nextId,     \* its AUTOINCREMENT counter
    acls,       \* permission of each row of result_acls
    limited,    \* users with a row in user_limits
    req,        \* the request each connection serves
    phase,      \* its next statement
    seen,       \* what its permission check has read so far
    saves,      \* history: number of INSERTs into saved_results
    calm,       \* history: checked requests during which no table changed
    allowed,    \* history: those that the rule allowed at some moment so far
    edited,     \* history: of the others, those whose result's row has changed
    turned      \* history: and those whose requester has become or ceased to be
                \* the result's owner, or joined or left a group

tables  == <<users, groups, members, results, nextId, acls, limited>>
reqVars == <<req, phase, seen>>
history == <<calm, allowed, edited, turned>>
vars == <<tables, reqVars, saves, history>>

-----------------------------------------------------------------------------
(* Foreign keys *)

Exists(id) == results[id] # NoRow

\* Rows of saved_results and result_acls that go with the results in gone
\* (ON DELETE CASCADE of result_acls.result_id) and the users in left.
DropResults(gone) == results' = [i \in Ids |-> IF i \in gone THEN NoRow ELSE results[i]]
DropACLs(gone, left) ==
    acls' = [p \in Ids \X Users |-> IF p[1] \in gone \/ p[2] \in left THEN NoACL ELSE acls[p]]

Owned(u) == {i \in Ids : Exists(i) /\ results[i].owner = u}

\* Mutant: foreign keys are not enforced.
CascadeUserOff(u) == UNCHANGED <<results, acls>>

\* A row of users goes: saved_results and result_acls cascade.
CascadeUser(u) ==
    /\ DropResults(Owned(u))
    /\ DropACLs(Owned(u), {u})

\* Mutant: group_id is set to "" as the requests do.
CascadeGroupBlank(g) ==
    /\ members' = [p \in Groups \X Users |-> IF p[1] = g THEN "none" ELSE members[p]]
    /\ results' = [i \in Ids |-> IF Exists(i) /\ results[i].group = g
                                 THEN [results[i] EXCEPT !.group = NoGroup] ELSE results[i]]

\* A row of groups goes: group_members cascades, saved_results.group_id is SET NULL.
CascadeGroup(g) ==
    /\ members' = [p \in Groups \X Users |-> IF p[1] = g THEN "none" ELSE members[p]]
    /\ results' = [i \in Ids |-> IF Exists(i) /\ results[i].group = g
                                 THEN [results[i] EXCEPT !.group = Null] ELSE results[i]]

\* May group_id hold g?
GroupRef(g) == g \in Groups /\ groups[g] # NoUser

-----------------------------------------------------------------------------
(* The rule of permissions.Checker.CanAccess, at one moment:               *)
(* "Priority: Admin > ACL > Owner > Group > All".                          *)

Readable(id) == Exists(id) /\ results[id].group # Null

IsOwner(u, id) == Exists(id) /\ results[id].owner = u

IsMember(u, g) == members[<<g, u>>] # "none"

CanAccess(u, id, action) ==
    \/ users[u] = "admin"
    \/ action \in acls[<<id, u>>]
    \/ /\ Readable(id)
       /\ IF IsOwner(u, id)
          THEN action \in results[id].pOwner
          ELSE \/ IsMember(u, results[id].group) /\ action \in results[id].pGroup
               \/ action \in results[id].pAll

-----------------------------------------------------------------------------
(* Serving a request *)

NoReq  == [kind |-> "none"]
NoSeen == [grp |-> {}, all |-> {}, group |-> NoGroup, serial |-> 0]

Busy(c) == phase[c] # "idle"
At(c, ph) == phase[c] = ph

GoTo(c, ph) == phase' = [phase EXCEPT ![c] = ph] /\ UNCHANGED req
Finish(c) ==
    /\ req' = [req EXCEPT ![c] = NoReq]
    /\ phase' = [phase EXCEPT ![c] = "idle"]
    /\ seen' = [seen EXCEPT ![c] = NoSeen]

\* The handlers that ask CanAccess.
Checked == {"get", "delete", "chmod", "addacl", "rmacl"}

Needs(kind) == CASE kind = "get" -> "r" [] kind = "delete" -> "x" [] OTHER -> "w"

First(kind) ==
    CASE kind \in {"get", "chown"} -> "fetch"
      [] kind \in {"delete", "chmod", "addacl", "rmacl"} -> "admin"
      [] kind = "import" -> "lookup"
      [] kind \in {"rmgroup", "addmember", "rmmember"} -> "group"
      [] OTHER -> "write"

\* requireAuth has found the user; its in-memory Role may differ from
\* users.role_id either way, so r.admin is the client's choice.  SaveResult
\* replaces permission 0 of the owner by 7.
Arrive(c, r) ==
    /\ ~Busy(c)
    /\ users[r.by] # "none"
    /\ req' = [req EXCEPT ![c] =
          IF r.kind = "save" /\ r.owner = {} THEN [r EXCEPT !.owner = Actions] ELSE r]
    /\ phase' = [phase EXCEPT ![c] = First(r.kind)]
    /\ UNCHANGED <<tables, seen, saves>>

\* results.Get: scanning a NULL group_id into a string is an error.  Only the
\* owner or an admin may chown.
Fetch(c) ==
    /\ At(c, "fetch")
    /\ LET id == req[c].id IN
        \/ /\ ~Readable(id)
           /\ Finish(c)
        \/ /\ Readable(id) /\ req[c].kind = "get"
           /\ GoTo(c, "admin") /\ UNCHANGED seen
        \/ /\ Readable(id) /\ req[c].kind = "chown"
           /\ IF results[id].owner = req[c].by \/ req[c].admin
              THEN /\ GoTo(c, "write")
                   /\ seen' = [seen EXCEPT ![c].serial = results[id].serial]
              ELSE Finish(c)
    /\ UNCHANGED <<tables, saves>>

\* CanAccess, statement by statement.
CheckAdmin(c) ==
    /\ At(c, "admin")
    /\ GoTo(c, IF users[req[c].by] = "admin" THEN "write" ELSE "acl")
    /\ UNCHANGED <<tables, seen, saves>>

CheckACL(c) ==
    /\ At(c, "acl")
    /\ LET id == req[c].id IN
        IF Needs(req[c].kind) \in acls[<<id, req[c].by>>]
        THEN /\ GoTo(c, "write")
             /\ seen' = [seen EXCEPT ![c].serial = results[id].serial]
        ELSE GoTo(c, "owner") /\ UNCHANGED seen
    /\ UNCHANGED <<tables, saves>>

CheckOwner(c) ==
    /\ At(c, "owner")
    /\ GoTo(c, IF IsOwner(req[c].by, req[c].id) THEN "ownerbits" ELSE "bits")
    /\ UNCHANGED <<tables, seen, saves>>

\* The owner's bits decide alone.
CheckOwnerBits(c) ==
    /\ At(c, "ownerbits")
    /\ LET id == req[c].id IN
        IF Readable(id) /\ Needs(req[c].kind) \in results[id].pOwner
        THEN GoTo(c, "write") /\ seen' = [seen EXCEPT ![c].serial = results[id].serial]
        ELSE GoTo(c, "refused") /\ UNCHANGED seen
    /\ UNCHANGED <<tables, saves>>

ReadBits(c) ==
    /\ At(c, "bits")
    /\ LET id == req[c].id IN
        IF Readable(id)
        THEN /\ GoTo(c, "member")
             /\ seen' = [seen EXCEPT ![c] = [grp |-> results[id].pGroup, all |-> results[id].pAll,
                                             group |-> results[id].group, serial |-> results[id].serial]]
        ELSE GoTo(c, "refused") /\ UNCHANGED seen
    /\ UNCHANGED <<tables, saves>>

\* Mutant: the public bits are taken for the group's.
CheckMemberSwapped(c) ==
    /\ At(c, "member")
    /\ LET a == Needs(req[c].kind) IN
        GoTo(c, IF IsMember(req[c].by, seen[c].group) \/ a \in seen[c].grp
                THEN "write" ELSE "refused")
    /\ UNCHANGED <<tables, seen, saves>>

\* Mutant: the group's bits decide alone for its members.
CheckMemberAlone(c) ==
    /\ At(c, "member")
    /\ LET a == Needs(req[c].kind) IN
        GoTo(c, IF a \in (IF IsMember(req[c].by, seen[c].group) THEN seen[c].grp ELSE seen[c].all)
                THEN "write" ELSE "refused")
    /\ UNCHANGED <<tables, seen, saves>>

CheckMember(c) ==
    /\ At(c, "member")
    /\ LET a == Needs(req[c].kind) IN
        GoTo(c, IF \/ IsMember(req[c].by, seen[c].group) /\ a \in seen[c].grp
                   \/ a \in seen[c].all
                THEN "write" ELSE "refused")
    /\ UNCHANGED <<tables, seen, saves>>

\* The handler answers 403, or 500 when CanAccess found no bits to read (the
\* result is gone, or its group_id is NULL).
Refuse(c) ==
    /\ At(c, "refused")
    /\ Finish(c)
    /\ UNCHANGED <<tables, saves>>

\* A statement fails and the handler answers with the error; what earlier
\* statements of the request have written stays.
StatementFails(c) ==
    /\ Busy(c) /\ ~At(c, "refused")
    /\ Finish(c)
    /\ UNCHANGED <<tables, saves>>

-----------------------------------------------------------------------------
(* The writes *)

Writing(c, kind) == At(c, "write") /\ req[c].kind = kind

\* Mutant: INTEGER PRIMARY KEY without AUTOINCREMENT: the largest id is used again.
FreshIdReused ==
    IF \E i \in Ids : Exists(i)
    THEN (CHOOSE i \in Ids : Exists(i) /\ \A j \in Ids : Exists(j) => j <= i) + 1
    ELSE 1

\* AUTOINCREMENT: an id is never given twice.
FreshId == nextId

\* INSERT INTO saved_results; user_id and group_id must reference rows.
Insert(c, owner) ==
    IF users[owner] # "none" /\ GroupRef(req[c].group)
    THEN /\ saves < MaxResults
         /\ FreshId \in Ids
         /\ results' = [results EXCEPT ![FreshId] =
               [owner |-> owner, item |-> req[c].item, pOwner |-> req[c].owner, pGroup |-> req[c].grp,
                pAll |-> req[c].all, group |-> req[c].group, serial |-> saves + 1]]
         /\ nextId' = FreshId + 1
         /\ saves' = saves + 1
         /\ Finish(c)
    ELSE Finish(c) /\ UNCHANGED <<results, nextId, saves>>

SaveResult(c) ==
    /\ Writing(c, "save")
    /\ Insert(c, req[c].by)
    /\ UNCHANGED <<users, groups, members, acls, limited>>

\* Import takes the owner from the file, not from the session, and skips what
\* that owner has already of the study and day.
ImportLookup(c) ==
    /\ At(c, "lookup")
    /\ IF \E i \in Owned(req[c].user) : results[i].item = req[c].item
       THEN Finish(c)
       ELSE GoTo(c, "write") /\ UNCHANGED seen
    /\ UNCHANGED <<tables, saves>>

ImportResult(c) ==
    /\ Writing(c, "import")
    /\ Insert(c, req[c].user)
    /\ UNCHANGED <<users, groups, members, acls, limited>>

GetResult(c) ==
    /\ Writing(c, "get")
    /\ Finish(c)
    /\ UNCHANGED <<tables, saves>>

\* DELETE FROM saved_results WHERE id = ?
DeleteRow(id) == DropResults({id}) /\ DropACLs({id}, {})

DeleteResult(c) ==
    /\ Writing(c, "delete")
    /\ DeleteRow(req[c].id)
    /\ Finish(c)
    /\ UNCHANGED <<users, groups, members, nextId, limited, saves>>

\* UPDATE saved_results ... WHERE id = ?: no such row, or a group_id that
\* references nothing, is an error.
UpdateRow(c, row) ==
    IF Exists(req[c].id) /\ GroupRef(req[c].group) /\ users[row.owner] # "none"
    THEN results' = [results EXCEPT ![req[c].id] = row] /\ Finish(c)
    ELSE UNCHANGED results /\ Finish(c)

UpdateResultPermissions(c) ==
    /\ Writing(c, "chmod")
    /\ LET r == req[c] row == results[r.id] IN
        IF row = NoRow THEN Finish(c) /\ UNCHANGED results
        ELSE UpdateRow(c, [row EXCEPT !.pOwner = r.owner, !.pGroup = r.grp, !.pAll = r.all, !.group = r.group])
    /\ UNCHANGED <<users, groups, members, nextId, acls, limited, saves>>

ChangeResultOwner(c) ==
    /\ Writing(c, "chown")
    /\ LET r == req[c] row == results[r.id] IN
        IF row = NoRow THEN Finish(c) /\ UNCHANGED results
        ELSE UpdateRow(c, [row EXCEPT !.owner = r.user, !.group = r.group])
    /\ UNCHANGED <<users, groups, members, nextId, acls, limited, saves>>

\* INSERT OR REPLACE INTO result_acls; both references must hold.
AddACL(id, u, permission) ==
    acls' = IF Exists(id) /\ users[u] # "none"
            THEN [acls EXCEPT ![<<id, u>>] = permission] ELSE acls

AddResultACL(c) ==
    /\ Writing(c, "addacl")
    /\ AddACL(req[c].id, req[c].user, req[c].grp)
    /\ Finish(c)
    /\ UNCHANGED <<users, groups, members, results, nextId, limited, saves>>

\* DELETE FROM result_acls: no such row is an error, and nothing changes.
RemoveACL(id, u) == acls' = [acls EXCEPT ![<<id, u>>] = NoACL]

RemoveResultACL(c) ==
    /\ Writing(c, "rmacl")
    /\ RemoveACL(req[c].id, req[c].user)
    /\ Finish(c)
    /\ UNCHANGED <<users, groups, members, results, nextId, limited, saves>>

\* INSERT INTO groups.
MayCreate(g) == g \in Groups /\ groups[g] = NoUser
InsertGroup(g, u) == groups' = [groups EXCEPT ![g] = u]

\* The group (an error when the id is taken), then its owner as leader.
CreateGroup(c) ==
    /\ Writing(c, "newgroup")
    /\ IF MayCreate(req[c].group)
       THEN InsertGroup(req[c].group, req[c].by) /\ GoTo(c, "lead") /\ UNCHANGED seen
       ELSE Finish(c) /\ UNCHANGED groups
    /\ UNCHANGED <<users, members, results, nextId, acls, limited, saves>>

\* A group of an imported file: it gets no member, and one whose id is taken is
\* passed over.  (An empty id, which the file may have, is not in Groups.)
ImportGroup(c) ==
    /\ Writing(c, "importgroup")
    /\ IF MayCreate(req[c].group) THEN InsertGroup(req[c].group, req[c].user) ELSE UNCHANGED groups
    /\ Finish(c)
    /\ UNCHANGED <<users, members, results, nextId, acls, limited, saves>>

\* INSERT INTO group_members: the group must exist, the member must be new;
\* user_id references nothing.
AddMember(c, g, u, role) ==
    IF GroupRef(g) /\ members[<<g, u>>] = "none"
    THEN members' = [members EXCEPT ![<<g, u>>] = role] /\ Finish(c)
    ELSE UNCHANGED members /\ Finish(c)

AddLeader(c) ==
    /\ At(c, "lead")
    /\ AddMember(c, req[c].group, req[c].by, "leader")
    /\ UNCHANGED <<users, groups, results, nextId, acls, limited, saves>>

\* groups.Get, then GetMember: the owner (or an admin) deletes the group, a
\* leader (or an admin) changes its members.
FindGroup(c) ==
    /\ At(c, "group")
    /\ LET r == req[c] IN
        \/ ~GroupRef(r.group) /\ Finish(c)
        \/ /\ GroupRef(r.group) /\ r.kind # "rmgroup"
           /\ GoTo(c, "leader") /\ UNCHANGED seen
        \/ /\ GroupRef(r.group) /\ r.kind = "rmgroup"
           /\ IF groups[r.group] = r.by \/ r.admin
              THEN GoTo(c, "write") /\ UNCHANGED seen
              ELSE Finish(c)
    /\ UNCHANGED <<tables, saves>>

CheckLeader(c) ==
    /\ At(c, "leader")
    /\ IF members[<<req[c].group, req[c].by>>] = "leader" \/ req[c].admin
       THEN GoTo(c, "write") /\ UNCHANGED seen
       ELSE Finish(c)
    /\ UNCHANGED <<tables, saves>>

\* DELETE FROM groups WHERE id = ?
RemoveGroup(g) == groups' = [groups EXCEPT ![g] = NoUser] /\ CascadeGroup(g)

DeleteGroup(c) ==
    /\ Writing(c, "rmgroup")
    /\ RemoveGroup(req[c].group)
    /\ Finish(c)
    /\ UNCHANGED <<users, nextId, acls, limited, saves>>

AddGroupMember(c) ==
    /\ Writing(c, "addmember")
    /\ AddMember(c, req[c].group, req[c].user, req[c].role)
    /\ UNCHANGED <<users, groups, results, nextId, acls, limited, saves>>

\* DELETE FROM group_members: no such row is an error, and nothing changes.
RemoveMember(g, u) == members' = [members EXCEPT ![<<g, u>>] = "none"]

RemoveGroupMember(c) ==
    /\ Writing(c, "rmmember")
    /\ RemoveMember(req[c].group, req[c].user)
    /\ Finish(c)
    /\ UNCHANGED <<users, groups, results, nextId, acls, limited, saves>>

-----------------------------------------------------------------------------
(* The user store, as far as its table goes *)

\* saveToSQL of a new user.
CreateUser(u) ==
    /\ users[u] = "none"
    /\ \E role \in {"user", "admin"} : users' = [users EXCEPT ![u] = role]
    /\ UNCHANGED <<groups, members, results, nextId, acls, limited, reqVars, saves>>

\* saveToSQL of a user that exists: INSERT OR REPLACE deletes the row first, and
\* the cascades of its deletion fire.
SaveUser(u) ==
    /\ users[u] # "none"
    /\ \E role \in {"user", "admin"} : users' = [users EXCEPT ![u] = role]
    /\ CascadeUser(u)
    /\ UNCHANGED <<groups, members, nextId, limited, reqVars, saves>>

\* DELETE FROM users fails while user_limits references the row.
DeleteUser(u) ==
    /\ users[u] # "none"
    /\ u \notin limited
    /\ users' = [users EXCEPT ![u] = "none"]
    /\ CascadeUser(u)
    /\ UNCHANGED <<groups, members, nextId, limited, reqVars, saves>>

\* throttle.SetUserLimits: an upsert that must reference a user.
SetUserLimits(u) ==
    /\ users[u] # "none"
    /\ limited' = limited \cup {u}
    /\ UNCHANGED <<users, groups, members, results, nextId, acls, reqVars, saves>>

-----------------------------------------------------------------------------

Init ==
    /\ users = [u \in Users |-> "user"]
    /\ groups = [g \in Groups |-> NoUser]
    /\ members = [p \in Groups \X Users |-> "none"]
    /\ results = [i \in Ids |-> NoRow]
    /\ nextId = 1
    /\ acls = [p \in Ids \X Users |-> NoACL]
    /\ limited = {}
    /\ req = [c \in Conns |-> NoReq]
    /\ phase = [c \in Conns |-> "idle"]
    /\ seen = [c \in Conns |-> NoSeen]
    /\ saves = 0
    /\ calm = {} /\ allowed = {} /\ edited = {} /\ turned = {}

Check(c) ==
    \/ Fetch(c) \/ CheckAdmin(c) \/ CheckACL(c) \/ CheckOwner(c)
    \/ CheckOwnerBits(c) \/ ReadBits(c) \/ CheckMember(c)
    \/ Refuse(c) \/ StatementFails(c)

Write(c) ==
    \/ SaveResult(c) \/ ImportLookup(c) \/ ImportResult(c) \/ GetResult(c) \/ DeleteResult(c)
    \/ UpdateResultPermissions(c) \/ ChangeResultOwner(c) \/ AddResultACL(c) \/ RemoveResultACL(c)
    \/ CreateGroup(c) \/ ImportGroup(c) \/ AddLeader(c) \/ FindGroup(c) \/ CheckLeader(c) \/ DeleteGroup(c)
    \/ AddGroupMember(c) \/ RemoveGroupMember(c)

Serve == \E c \in Conns : Check(c) \/ Write(c) \/ \E r \in Requests[c] : Arrive(c, r)

EditUsers == \E u \in Edited : CreateUser(u) \/ SaveUser(u) \/ DeleteUser(u) \/ SetUserLimits(u)

\* The request of c asks CanAccess; the rule would allow it now.
Asks(c) == req[c].kind \in Checked
Rule(c) == Asks(c) /\ CanAccess(req[c].by, req[c].id, Needs(req[c].kind))

Edits(c) == results'[req[c].id] # results[req[c].id]
Turns(c) ==
    \/ IsOwner(req[c].by, req[c].id)' # IsOwner(req[c].by, req[c].id)
    \/ \E h \in Groups : IsMember(req[c].by, h)' # IsMember(req[c].by, h)

\* Bookkeeping of the histories, which end with the request.
Observe ==
    LET waits == {c \in Conns : Asks(c) /\ Asks(c)' /\ c \notin allowed'} IN
    /\ calm'    = {c \in Conns : Asks(c)' /\ (Busy(c) => c \in calm /\ tables' = tables)}
    /\ allowed' = {c \in Conns : Rule(c)' \/ (c \in allowed /\ Asks(c)')}
    /\ edited'  = {c \in waits : c \in edited \/ Edits(c)}
    /\ turned'  = {c \in waits : c \in turned \/ Turns(c)}

Next == (Serve \/ EditUsers) /\ Observe

Spec == Init /\ [][Next]_vars

-----------------------------------------------------------------------------

ResultRow ==
    [owner : Users, item : Items, pOwner : SUBSET Actions, pGroup : SUBSET Actions,
     pAll : SUBSET Actions, group : Groups \cup {Null}, serial : Nat]

\* Types of the tables and of the requests in progress.
TypeOK ==
    /\ users \in [Users -> {"none", "user", "admin"}]
    /\ groups \in [Groups -> Users \cup {NoUser}]
    /\ members \in [Groups \X Users -> {"none", "member", "leader"}]
    /\ results \in [Ids -> ResultRow \cup {NoRow}]
    /\ nextId \in 1..(MaxResults + 1)
    /\ acls \in [Ids \X Users -> (SUBSET Actions) \cup {NoACL}]
    /\ limited \subseteq Users
    /\ req \in [Conns -> AllRequests \cup {NoReq}]
    /\ saves \in 0..MaxResults

\* What is shared hangs together whatever the order of deletions and late
\* writes: no result without its owner, no grant without its result and user,
\* no member of a group that is gone, no limits of a user that is gone.
Referential ==
    /\ \A i \in Ids : Exists(i) =>
          /\ users[results[i].owner] # "none"
          /\ results[i].group # Null => groups[results[i].group] # NoUser
    /\ \A i \in Ids : \A u \in Users : acls[<<i, u>>] # NoACL => Exists(i) /\ users[u] # "none"
    /\ \A g \in Groups : \A u \in Users : members[<<g, u>>] # "none" => groups[g] # NoUser
    /\ \A u \in limited : users[u] # "none"

\* The statement-by-statement check of a request during which nothing changed
\* decides as the rule does at one moment: it grants what the rule allows and
\* refuses what it does not.
CheckIsTheRule ==
    \A c \in calm : /\ phase[c] = "write"   => Rule(c)
                    /\ phase[c] = "refused" => ~Rule(c)

\* A check reads the tables at up to five moments.  What it grants, the rule
\* allowed at one moment of the request: answers of different moments add up to
\* a grant that was never right only when the result was edited and, in the same
\* request, the requester's standing (ownership, membership) changed.
GrantWasRight ==
    \A c \in Conns :
        Asks(c) /\ phase[c] = "write" => c \in allowed \/ (c \in edited /\ c \in turned)

\* A change lands on the result that was checked, or nowhere: a result deleted
\* between check and write is not confused with one saved since.
SameResult ==
    \A c \in Conns :
        phase[c] = "write" /\ seen[c].serial # 0 /\ Exists(req[c].id)
            => results[req[c].id].serial = seen[c].serial

\* "SetName changes a user's display name" (user.go), as do SetTier and the
\* others: saving a user leaves the results of everyone where they are.
SaveUserKeepsResults == [][\A u \in Users : SaveUser(u) => results' = results]_vars

=============================================================================
