------------------------------- MODULE Usage -------------------------------
(***************************************************************************)
(* What a user may do and what is counted of what they did: throttle with  *)
(* its tables rate_limits, usage_tracking and user_limits, and the roles.  *)
(*                                                                         *)
(* api.trackUsage calls TrackAPIUsage after it has served a request: three *)
(* statements with the time taken once, before the first.  The statements  *)
(* of the requests interleave, any of them may fail, and the process may   *)
(* end between two.  CheckRateLimit reads the same tables; it is part of   *)
(* the package, and no handler calls it yet.                               *)
(*                                                                         *)
(* Rows of users are written by the user store; here they only come, go    *)
(* and change their role.                                                  *)
(***************************************************************************)
EXTENDS Integers, FiniteSets, Functions

CONSTANTS
    Users,
    Conns,          \* requests in flight
    RoleIDs,
    RoleValues,     \* roles as [limits, admin, bypass]
    UserLimitsSets, \* limits an administrator may set for a user
    DefaultLimits,  \* the limits of a user whose role is not in the table
    Protected,      \* role IDs DeleteRole refuses
    Minute, Hour,   \* windows
    DayLength,      \* seconds of a day
    MaxNow,         \* bound on the clock
    MaxCalls,       \* bound on the calls tracked
    MaxStudies,     \* bound on the studies counted in a day
    MaxEdits        \* bound on changes of roles, users and limits

None == "none"

ASSUME UsageAssumption ==
    /\ {Minute, Hour, DayLength, MaxNow} \subseteq Nat \ {0}
    /\ Minute <= Hour
    /\ MaxCalls \in Nat /\ MaxStudies \in Nat /\ MaxEdits \in Nat
    /\ IsFiniteSet(Conns)
    /\ Protected \subseteq RoleIDs /\ None \notin RoleIDs

Time == 0..MaxNow
Date(t) == t \div DayLength
Dates == 0..Date(MaxNow)
NoLimits == << >>

VARIABLES
    now,
    rateLimits,     \* rate_limits: rows of a user by timestamp
    usage,          \* usage_tracking: the row of a user and a date, or NoRow
    roles,          \* roles: the rows by ID (partial)
    roleOf,         \* users.role_id, None without a row of users
    userLimits,     \* user_limits.limits_json, NoLimits without a row
    pc, who, at,    \* where a request is, its user, the time it has taken
    lim,            \* the limits a check has read
    edits,
    tracked,        \* history: calls recorded, by user and timestamp
    cut             \* history: calls recorded whose day was never counted

conn == <<pc, who, at, lim>>
admin == <<roles, roleOf, userLimits, edits>>
history == <<tracked, cut>>
vars == <<now, rateLimits, usage, admin, conn, history>>

\* The rows with a timestamp in S: <<t, k>> is the k-th with timestamp t.
RowsOf(rows, S) == UNION {{t} \X (1..rows[t]) : t \in S}

Within(rows, from) == Cardinality(RowsOf(rows, {t \in Time : t > from}))
OnDate(rows, d) == Cardinality(RowsOf(rows, {t \in Time : Date(t) = d}))

NoRow == [api_calls |-> 0, studies_created |-> 0, there |-> FALSE]
Zeros == [u \in Users |-> [t \in Time |-> 0]]

Init ==
    /\ now = 0
    /\ rateLimits = Zeros
    /\ usage = [u \in Users |-> [d \in Dates |-> NoRow]]
    /\ roles \in [Protected -> RoleValues]
    /\ roleOf \in [Users -> Protected]
    /\ userLimits = [u \in Users |-> NoLimits]
    /\ pc = [c \in Conns |-> "idle"]
    /\ who \in [Conns -> Users]
    /\ at = [c \in Conns |-> 0]
    /\ lim = [c \in Conns |-> NoLimits]
    /\ edits = 0
    /\ tracked = Zeros
    /\ cut = [u \in Users |-> [d \in Dates |-> 0]]

\* A request that ends keeps nothing.
Goto(c, label) ==
    /\ pc' = [pc EXCEPT ![c] = label]
    /\ at' = IF label = "idle" THEN [at EXCEPT ![c] = 0] ELSE at
    /\ lim' = IF label = "idle" THEN [lim EXCEPT ![c] = NoLimits] ELSE lim

-----------------------------------------------------------------------------
\* TrackAPIUsage.

Calls(u) == Cardinality(RowsOf(tracked[u], Time))

TrackStart(c, u) ==
    /\ pc[c] = "idle"
    /\ Calls(u) + Cardinality({d \in Conns : pc[d] = "insert"}) < MaxCalls
    /\ who' = [who EXCEPT ![c] = u]
    /\ at' = [at EXCEPT ![c] = now]
    /\ pc' = [pc EXCEPT ![c] = "insert"]
    /\ UNCHANGED <<now, rateLimits, usage, admin, lim, history>>

InsertRow(c) ==
    /\ pc[c] = "insert"
    /\ rateLimits' = [rateLimits EXCEPT ![who[c]][at[c]] = @ + 1]
    /\ tracked' = [tracked EXCEPT ![who[c]][at[c]] = @ + 1]
    /\ Goto(c, "upsert")
    /\ UNCHANGED <<now, usage, admin, who, cut>>

\* The error ends the tracking: nothing further is counted.
InsertFails(c) ==
    /\ pc[c] = "insert"
    /\ Goto(c, "idle")
    /\ UNCHANGED <<now, rateLimits, usage, admin, who, history>>

\* INSERT ... ON CONFLICT DO UPDATE SET column = column + 1.
Bump(u, d, calls, studies) ==
    usage' = [usage EXCEPT ![u][d] = [api_calls |-> @.api_calls + calls,
                                      studies_created |-> @.studies_created + studies,
                                      there |-> TRUE]]

\* MUTANT: the date is taken at the statement.
UpsertCallsToday(c) ==
    /\ pc[c] = "upsert"
    /\ Bump(who[c], Date(now), 1, 0)
    /\ Goto(c, "cleanup")
    /\ UNCHANGED <<now, rateLimits, admin, who, history>>

UpsertCalls(c) ==
    /\ pc[c] = "upsert"
    /\ Bump(who[c], Date(at[c]), 1, 0)
    /\ Goto(c, "cleanup")
    /\ UNCHANGED <<now, rateLimits, admin, who, history>>

UpsertFails(c) ==
    /\ pc[c] = "upsert"
    /\ cut' = [cut EXCEPT ![who[c]][Date(at[c])] = @ + 1]
    /\ Goto(c, "idle")
    /\ UNCHANGED <<now, rateLimits, usage, admin, who, tracked>>

\* MUTANT: rows at the edge of the window go as well.
CleanupEdge(c) ==
    /\ pc[c] = "cleanup"
    /\ rateLimits' = [u \in Users |-> [t \in Time |->
                         IF t <= at[c] - Hour THEN 0 ELSE rateLimits[u][t]]]
    /\ Goto(c, "idle")
    /\ UNCHANGED <<now, usage, admin, who, history>>

\* DELETE of the rows of all users; its error is ignored.
Cleanup(c) ==
    /\ pc[c] = "cleanup"
    /\ \/ rateLimits' = [u \in Users |-> [t \in Time |->
                            IF t < at[c] - Hour THEN 0 ELSE rateLimits[u][t]]]
       \/ UNCHANGED rateLimits
    /\ Goto(c, "idle")
    /\ UNCHANGED <<now, usage, admin, who, history>>

\* TrackResourceUsage: one statement; its error is returned and not read.
TrackResourceUsage(u) ==
    /\ usage[u][Date(now)].studies_created < MaxStudies
    /\ Bump(u, Date(now), 0, 1)
    /\ UNCHANGED <<now, rateLimits, admin, conn, history>>

-----------------------------------------------------------------------------
\* roles.Get of a user's role finds a row.
HasRole(u) == roleOf[u] \in DOMAIN roles

\* Overrides first, the role's limits next, and defaults when the role is not
\* in the table; NoLimits is the error, for a user without a row.  Its queries
\* are taken at one moment.
GetEffectiveLimits(u) ==
    IF userLimits[u] # NoLimits THEN userLimits[u]
    ELSE IF roleOf[u] = None THEN NoLimits
    ELSE IF ~HasRole(u) THEN DefaultLimits
    ELSE roles[roleOf[u]].limits

\* CheckRateLimit: role, limits, then the time and a query for each window.
\* Any refusal or error ends it.
CheckStart(c, u) ==
    /\ pc[c] = "idle"
    /\ who' = [who EXCEPT ![c] = u]
    /\ Goto(c, IF HasRole(u) /\ ~roles[roleOf[u]].bypass
               THEN "limits" ELSE "idle")
    /\ UNCHANGED <<now, rateLimits, usage, admin, history>>

CheckLimits(c) ==
    LET l == GetEffectiveLimits(who[c]) IN
    /\ pc[c] = "limits"
    /\ IF l = NoLimits
       THEN Goto(c, "idle")
       ELSE /\ pc' = [pc EXCEPT ![c] = "minute"]
            /\ at' = [at EXCEPT ![c] = now]
            /\ lim' = [lim EXCEPT ![c] = l]
    /\ UNCHANGED <<now, rateLimits, usage, admin, who, history>>

\* The two queries on rate_limits: rows after at - window.
CountWithin(c, window) == Within(rateLimits[who[c]], at[c] - window)

CheckMinute(c) ==
    /\ pc[c] = "minute"
    /\ Goto(c, IF CountWithin(c, Minute) >= lim[c].minute THEN "idle" ELSE "hour")
    /\ UNCHANGED <<now, rateLimits, usage, admin, who, history>>

CheckHour(c) ==
    /\ pc[c] = "hour"
    /\ Goto(c, IF CountWithin(c, Hour) >= lim[c].hour THEN "idle" ELSE "day")
    /\ UNCHANGED <<now, rateLimits, usage, admin, who, history>>

\* The last query, on the day's row, decides the answer and ends the check.
CheckDay(c) ==
    /\ pc[c] = "day"
    /\ Goto(c, "idle")
    /\ UNCHANGED <<now, rateLimits, usage, admin, who, history>>

\* A query of the check fails (of the limits or of a window): the error is the
\* answer.
CheckFails(c) ==
    /\ pc[c] \in {"limits", "minute", "hour", "day"}
    /\ Goto(c, "idle")
    /\ UNCHANGED <<now, rateLimits, usage, admin, who, history>>

-----------------------------------------------------------------------------
\* Roles, by a caller whose role has "system.admin"; users and their limits.

HasCapability(u) == HasRole(u) /\ roles[roleOf[u]].admin

Edit ==
    /\ edits < MaxEdits
    /\ edits' = edits + 1
    /\ UNCHANGED <<now, rateLimits, usage, conn, history>>

\* roles.Create: the ID must be new.
InsertRole(id, v) ==
    /\ id \notin DOMAIN roles
    /\ roles' = [r \in DOMAIN roles \union {id} |-> IF r = id THEN v ELSE roles[r]]
    /\ UNCHANGED <<roleOf, userLimits>>

CreateRole(u, id, v) ==
    /\ Edit
    /\ HasCapability(u)
    /\ InsertRole(id, v)

\* Each role of a file; one that fails is passed over.  Any signed-in user.
ImportRole(u, id, v) ==
    /\ Edit
    /\ roleOf[u] # None
    /\ InsertRole(id, v)

\* roles.Update: of an ID that is not there it changes nothing and succeeds.
ReplaceRole(id, v) ==
    /\ id \in DOMAIN roles
    /\ roles' = [roles EXCEPT ![id] = v]
    /\ UNCHANGED <<roleOf, userLimits>>

UpdateRole(u, id, v) ==
    /\ Edit
    /\ HasCapability(u)
    /\ ReplaceRole(id, v)

\* roles.Delete: a role may go while users have it.
RemoveRole(id) ==
    /\ roles' = Restrict(roles, DOMAIN roles \ {id})
    /\ UNCHANGED <<roleOf, userLimits>>

DeleteRole(u, id) ==
    /\ Edit
    /\ HasCapability(u)
    /\ id \notin Protected
    /\ RemoveRole(id)

\* SetUserLimits: an upsert; user_limits references users.
SetUserLimits(u, v, l) ==
    /\ Edit
    /\ HasCapability(u)
    /\ roleOf[v] # None
    /\ userLimits' = [userLimits EXCEPT ![v] = l]
    /\ UNCHANGED <<roles, roleOf>>

\* The user store writes a row, with any role ID: there is no foreign key.
SaveUserRow(u, id) ==
    /\ Edit
    /\ roleOf' = [roleOf EXCEPT ![u] = id]
    /\ UNCHANGED <<roles, userLimits>>

\* MUTANT: a row goes though user_limits refers to it.
DeleteUserRowUnchecked(u) ==
    /\ Edit
    /\ roleOf' = [roleOf EXCEPT ![u] = None]
    /\ UNCHANGED <<roles, userLimits>>

\* A row goes, unless user_limits refers to it: the statement fails then.
DeleteUserRow(u) ==
    /\ Edit
    /\ userLimits[u] = NoLimits
    /\ roleOf' = [roleOf EXCEPT ![u] = None]
    /\ UNCHANGED <<roles, userLimits>>

-----------------------------------------------------------------------------
Tick ==
    /\ now < MaxNow
    /\ now' = now + 1
    /\ UNCHANGED <<rateLimits, usage, admin, conn, history>>

\* The process ends between two statements of any request.
Restart ==
    /\ pc' = [c \in Conns |-> "idle"]
    /\ at' = [c \in Conns |-> 0]
    /\ lim' = [c \in Conns |-> NoLimits]
    /\ cut' = [u \in Users |-> [d \in Dates |-> cut[u][d] +
                 Cardinality({c \in Conns : pc[c] = "upsert" /\ who[c] = u /\ Date(at[c]) = d})]]
    /\ UNCHANGED <<now, rateLimits, usage, admin, who, tracked>>

TrackStep(c) ==
    \/ InsertRow(c) \/ InsertFails(c) \/ UpsertCalls(c) \/ UpsertFails(c) \/ Cleanup(c)

CheckStep(c) ==
    CheckLimits(c) \/ CheckMinute(c) \/ CheckHour(c) \/ CheckDay(c) \/ CheckFails(c)

Administer ==
    \/ \E u \in Users, id \in RoleIDs, v \in RoleValues :
          CreateRole(u, id, v) \/ ImportRole(u, id, v) \/ UpdateRole(u, id, v)
    \/ \E u \in Users, id \in RoleIDs : DeleteRole(u, id) \/ SaveUserRow(u, id)
    \/ \E u, v \in Users, l \in UserLimitsSets : SetUserLimits(u, v, l)
    \/ \E u \in Users : DeleteUserRow(u)

Next ==
    \/ \E c \in Conns, u \in Users : TrackStart(c, u) \/ CheckStart(c, u)
    \/ \E c \in Conns : TrackStep(c) \/ CheckStep(c)
    \/ \E u \in Users : TrackResourceUsage(u)
    \/ Administer
    \/ Tick
    \/ Restart

Spec == Init /\ [][Next]_vars

-----------------------------------------------------------------------------
PCs == {"idle", "insert", "upsert", "cleanup",
        "limits", "minute", "hour", "day"}

\* Tables and requests are well formed, and an override belongs to a user.
TypeOK ==
    /\ now \in Time
    /\ rateLimits \in [Users -> [Time -> Nat]]
    /\ \A u \in Users, d \in Dates :
          /\ usage[u][d].api_calls \in 0..MaxCalls
          /\ usage[u][d].studies_created \in 0..MaxStudies
          /\ usage[u][d] # NoRow <=> usage[u][d].there
    /\ DOMAIN roles \subseteq RoleIDs /\ Range(roles) \subseteq RoleValues
    /\ roleOf \in [Users -> RoleIDs \union {None}]
    /\ \A u \in Users : userLimits[u] = NoLimits \/ userLimits[u] \in UserLimitsSets
    /\ \A u \in Users : userLimits[u] # NoLimits => roleOf[u] # None
    /\ pc \in [Conns -> PCs]
    /\ who \in [Conns -> Users]
    /\ at \in [Conns -> 0..now]

\* usage_tracking counts every call of a day that rate_limits has recorded,
\* but for those being recorded and those an error or the end of the process
\* cut off after the first statement: neither the creation of a study on the
\* same row nor midnight between two statements loses or moves a call.
DayCountsCalls ==
    \A u \in Users, d \in Dates :
        usage[u][d].api_calls + cut[u][d]
            + Cardinality({c \in Conns : pc[c] = "upsert" /\ who[c] = u /\ Date(at[c]) = d})
        = OnDate(tracked[u], d)

\* The cleanup by one request leaves every row a check of another counts: the
\* check's two windows hold all calls recorded, unless a call has been
\* recorded more than a second after the check took its time.
WindowKept ==
    \A c \in Conns, window \in {Minute, Hour} :
        /\ pc[c] \in {"minute", "hour"}
        /\ \A u \in Users, t \in Time : tracked[u][t] > 0 => t <= at[c] + 1
        => CountWithin(c, window) = Within(tracked[who[c]], at[c] - window)
=============================================================================
