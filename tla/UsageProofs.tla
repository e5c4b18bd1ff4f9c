---------------------------- MODULE UsageProofs ----------------------------
(***************************************************************************)
(* Proofs about the tracking of calls and the windows that are counted,    *)
(* for every set of users and requests, every length of the windows and of *)
(* a day, and every bound.                                                 *)
(***************************************************************************)
EXTENDS Usage, TLAPS, FiniteSetTheorems

\* Requests between the first statement of TrackAPIUsage and the second, and
\* requests before the first.
Upserting(u, d) == {c \in Conns : pc[c] = "upsert" /\ who[c] = u /\ Date(at[c]) = d}
Inserting(u) == {c \in Conns : pc[c] = "insert" /\ who[c] = u}

DayRow == [api_calls : Nat, studies_created : Nat, there : BOOLEAN]

\* The types of the tables and requests, but for the bound on the calls.
BaseOK ==
    /\ now \in Time
    /\ rateLimits \in [Users -> [Time -> Nat]]
    /\ usage \in [Users -> [Dates -> DayRow]]
    /\ \A u \in Users, d \in Dates :
          /\ usage[u][d].studies_created <= MaxStudies
          /\ ~usage[u][d].there => usage[u][d] = NoRow
    /\ DOMAIN roles \subseteq RoleIDs /\ Range(roles) \subseteq RoleValues
    /\ roleOf \in [Users -> RoleIDs \union {None}]
    /\ userLimits \in [Users -> UserLimitsSets \union {NoLimits}]
    /\ \A u \in Users : userLimits[u] # NoLimits => roleOf[u] # None
    /\ pc \in [Conns -> PCs]
    /\ who \in [Conns -> Users]
    /\ at \in [Conns -> 0..now]
    /\ tracked \in [Users -> [Time -> Nat]]
    /\ cut \in [Users -> [Dates -> Nat]]

\* The calls recorded and about to be recorded are within the bound.
CallsBound ==
    \A u \in Users :
        /\ IsFiniteSet(RowsOf(tracked[u], Time))
        /\ Calls(u) + Cardinality(Inserting(u)) <= MaxCalls

\* A row is gone from rate_limits only when a call has been recorded more than
\* an hour after it.
Kept ==
    \A u \in Users, t \in Time :
        \/ rateLimits[u][t] = tracked[u][t]
        \/ \E v \in Users, s \in Time : tracked[v][s] > 0 /\ t < s - Hour

\* A request past the first statement has recorded its call.
Recorded ==
    \A c \in Conns : pc[c] \in {"upsert", "cleanup"} => tracked[who[c]][at[c]] > 0

IInv == BaseOK /\ CallsBound /\ DayCountsCalls /\ Kept /\ Recorded

-----------------------------------------------------------------------------
LEMMA Bounds ==
    /\ Minute \in Nat /\ Hour \in Nat /\ Minute <= Hour
    /\ DayLength \in Nat /\ DayLength >= 1
    /\ MaxNow \in Nat /\ MaxCalls \in Nat /\ MaxStudies \in Nat /\ MaxEdits \in Nat
    /\ IsFiniteSet(Conns)
    /\ Protected \subseteq RoleIDs /\ None \notin RoleIDs
    /\ Time \subseteq Nat
BY UsageAssumption DEF Time

\* A later time is not on an earlier day.
LEMMA DivMono ==
    ASSUME NEW a \in Nat, NEW b \in Nat, a <= b, NEW k \in Nat, k >= 1
    PROVE  a \div k \in Nat /\ a \div k <= b \div k
<1>1. /\ a \div k \in Int /\ b \div k \in Int
      /\ a = k * (a \div k) + (a % k) /\ 0 <= a % k /\ a % k < k
      /\ b = k * (b \div k) + (b % k) /\ 0 <= b % k /\ b % k < k
  OBVIOUS
<1> QED BY <1>1

LEMMA DateOK == \A t \in Time : Date(t) \in Dates
<1> SUFFICES ASSUME NEW t \in Time PROVE Date(t) \in Dates
  OBVIOUS
<1>1. t \in Nat /\ t <= MaxNow /\ MaxNow \in Nat /\ DayLength \in Nat /\ DayLength >= 1
  BY Bounds DEF Time
<1>2. t \div DayLength \in Nat /\ t \div DayLength <= MaxNow \div DayLength
  BY <1>1, DivMono
<1>3. MaxNow \div DayLength \in Nat
  BY <1>1, DivMono
<1> QED BY <1>2, <1>3 DEF Date, Dates

LEMMA RowsOfDef ==
    ASSUME NEW f, NEW S
    PROVE  \A p : p \in RowsOf(f, S) <=> \E t \in S : \E k \in 1..f[t] : p = <<t, k>>
BY DEF RowsOf

LEMMA RowsOfSubset ==
    ASSUME NEW f, NEW S, NEW T, S \subseteq T
    PROVE  RowsOf(f, S) \subseteq RowsOf(f, T)
BY RowsOfDef

LEMMA RowsOfSame ==
    ASSUME NEW f, NEW g, NEW S, \A t \in S : f[t] = g[t]
    PROVE  RowsOf(f, S) = RowsOf(g, S)
<1>1. \A p : p \in RowsOf(f, S) <=> p \in RowsOf(g, S)
  BY RowsOfDef
<1> QED BY <1>1

\* INSERT INTO rate_limits adds one row to the times that include its own.
LEMMA RowsOfAdd ==
    ASSUME NEW f \in [Time -> Nat], NEW g, NEW S \in SUBSET Time, NEW s \in Time,
           g[s] = f[s] + 1, \A t \in Time \ {s} : g[t] = f[t]
    PROVE  /\ s \in S => /\ RowsOf(g, S) = RowsOf(f, S) \cup {<<s, f[s] + 1>>}
                         /\ <<s, f[s] + 1>> \notin RowsOf(f, S)
           /\ s \notin S => RowsOf(g, S) = RowsOf(f, S)
<1>1. g[s] = f[s] + 1 /\ f[s] \in Nat
  OBVIOUS
<1>3. \A k : k \in 1..g[s] <=> k \in 1..f[s] \/ k = f[s] + 1
  BY <1>1
<1>4. f[s] + 1 \notin 1..f[s]
  BY <1>1
<1>5. ASSUME s \notin S PROVE RowsOf(g, S) = RowsOf(f, S)
  BY <1>5, RowsOfSame
<1>6. ASSUME s \in S
      PROVE  /\ RowsOf(g, S) = RowsOf(f, S) \cup {<<s, f[s] + 1>>}
             /\ <<s, f[s] + 1>> \notin RowsOf(f, S)
  <2>1. ASSUME NEW p PROVE p \in RowsOf(g, S) <=> p \in RowsOf(f, S) \/ p = <<s, f[s] + 1>>
    <3>1. ASSUME NEW t \in S
          PROVE  (\E k \in 1..g[t] : p = <<t, k>>)
                   <=> (\E k \in 1..f[t] : p = <<t, k>>) \/ (t = s /\ p = <<s, f[s] + 1>>)
      BY <1>3
    <3> QED BY <1>6, <3>1, RowsOfDef
  <2>2. <<s, f[s] + 1>> \notin RowsOf(f, S)
    BY <1>4, RowsOfDef
  <2> QED BY <2>1, <2>2
<1> QED BY <1>5, <1>6

\* The count of a set of times, after one more row.
LEMMA CountAdd ==
    ASSUME NEW f \in [Time -> Nat], IsFiniteSet(RowsOf(f, Time)), NEW g,
           NEW S \in SUBSET Time, NEW s \in Time,
           g[s] = f[s] + 1, \A t \in Time \ {s} : g[t] = f[t]
    PROVE  /\ IsFiniteSet(RowsOf(g, S))
           /\ Cardinality(RowsOf(f, S)) \in Nat
           /\ s \in S => Cardinality(RowsOf(g, S)) = Cardinality(RowsOf(f, S)) + 1
           /\ s \notin S => RowsOf(g, S) = RowsOf(f, S)
<1>1. IsFiniteSet(RowsOf(f, S)) /\ Cardinality(RowsOf(f, S)) \in Nat
  <2>1. RowsOf(f, S) \in SUBSET RowsOf(f, Time)
    BY RowsOfSubset
  <2> QED BY <2>1, FS_Subset, FS_CardinalityType
<1>2. /\ s \in S => /\ RowsOf(g, S) = RowsOf(f, S) \cup {<<s, f[s] + 1>>}
                    /\ <<s, f[s] + 1>> \notin RowsOf(f, S)
      /\ s \notin S => RowsOf(g, S) = RowsOf(f, S)
  BY RowsOfAdd
<1>3. CASE s \in S
  <2>1. /\ IsFiniteSet(RowsOf(g, S))
        /\ Cardinality(RowsOf(g, S)) = Cardinality(RowsOf(f, S)) + 1
    BY <1>1, <1>2, <1>3, FS_AddElement
  <2> QED BY <1>1, <1>3, <2>1
<1>4. CASE s \notin S
  BY <1>1, <1>2, <1>4
<1> QED BY <1>3, <1>4

-----------------------------------------------------------------------------
LEMMA GotoFacts ==
    ASSUME BaseOK, NEW c \in Conns, NEW l \in PCs, Goto(c, l)
    PROVE  /\ pc' \in [Conns -> PCs]
           /\ at' \in [Conns -> 0..now]
           /\ pc'[c] = l
           /\ \A d \in Conns \ {c} : pc'[d] = pc[d] /\ at'[d] = at[d]
           /\ l # "idle" => at' = at
<1>1. 0 \in 0..now
  BY Bounds DEF BaseOK
<1> QED BY <1>1 DEF Goto, BaseOK

\* The requests alone.
ConnOK ==
    /\ pc \in [Conns -> PCs]
    /\ who \in [Conns -> Users]
    /\ at \in [Conns -> 0..now]

LEMMA BaseConn ==
    ASSUME BaseOK, ConnOK', UNCHANGED <<now, rateLimits, usage, admin, history>>
    PROVE  BaseOK'
BY DEF BaseOK, ConnOK, admin, history

\* The roles, the users' roles and their limits alone.
AdminOK ==
    /\ DOMAIN roles \subseteq RoleIDs /\ Range(roles) \subseteq RoleValues
    /\ roleOf \in [Users -> RoleIDs \union {None}]
    /\ userLimits \in [Users -> UserLimitsSets \union {NoLimits}]
    /\ \A u \in Users : userLimits[u] # NoLimits => roleOf[u] # None

LEMMA BaseAdmin ==
    ASSUME BaseOK, Administer
    PROVE  BaseOK' /\ UNCHANGED <<now, rateLimits, usage, conn, history>>
<1>0. UNCHANGED <<now, rateLimits, usage, conn, history>>
  BY DEF Administer, Edit, CreateRole, ImportRole, UpdateRole, DeleteRole, SaveUserRow,
         SetUserLimits, DeleteUserRow
<1> SUFFICES AdminOK'
  BY <1>0 DEF BaseOK, AdminOK, conn, history
<1>1. AdminOK
  BY DEF BaseOK, AdminOK
<1>2. ASSUME NEW id \in RoleIDs, NEW v \in RoleValues, InsertRole(id, v) PROVE AdminOK'
  BY <1>1, <1>2 DEF InsertRole, AdminOK, Range
<1>3. ASSUME NEW id \in RoleIDs, NEW v \in RoleValues, ReplaceRole(id, v) PROVE AdminOK'
  BY <1>1, <1>3 DEF ReplaceRole, AdminOK, Range
<1>4. ASSUME NEW id \in RoleIDs, RemoveRole(id) PROVE AdminOK'
  BY <1>1, <1>4 DEF RemoveRole, AdminOK, Range, Restrict
<1>5. ASSUME NEW u \in Users, NEW id \in RoleIDs, SaveUserRow(u, id) PROVE AdminOK'
  BY <1>1, <1>5, Bounds DEF SaveUserRow, AdminOK
<1>6. ASSUME NEW u \in Users, NEW v \in Users, NEW l \in UserLimitsSets, SetUserLimits(u, v, l)
      PROVE  AdminOK'
  BY <1>1, <1>6 DEF SetUserLimits, AdminOK
<1>7. ASSUME NEW u \in Users, DeleteUserRow(u) PROVE AdminOK'
  BY <1>1, <1>7 DEF DeleteUserRow, AdminOK
<1> QED BY <1>2, <1>3, <1>4, <1>5, <1>6, <1>7
    DEF Administer, CreateRole, ImportRole, UpdateRole, DeleteRole

\* What one more of a column does to usage_tracking.
LEMMA BumpFacts ==
    ASSUME BaseOK, NEW u \in Users, NEW d \in Dates, NEW i \in Nat, NEW j \in Nat,
           Bump(u, d, i, j)
    PROVE  /\ usage' \in [Users -> [Dates -> DayRow]]
           /\ usage'[u][d].api_calls = usage[u][d].api_calls + i
           /\ usage'[u][d].studies_created = usage[u][d].studies_created + j
           /\ usage'[u][d].there
           /\ \A v \in Users, e \in Dates : v # u \/ e # d => usage'[v][e] = usage[v][e]
<1> DEFINE row == [api_calls |-> usage[u][d].api_calls + i,
                   studies_created |-> usage[u][d].studies_created + j, there |-> TRUE]
<1>1. usage \in [Users -> [Dates -> DayRow]] /\ row \in DayRow
  BY DEF BaseOK, DayRow
<1>2. usage' = [usage EXCEPT ![u][d] = row]
  BY DEF Bump
<1>3. /\ row.api_calls = usage[u][d].api_calls + i
      /\ row.studies_created = usage[u][d].studies_created + j
      /\ row.there
  OBVIOUS
<1> HIDE DEF row
<1>4. usage' \in [Users -> [Dates -> DayRow]] /\ usage'[u][d] = row
  BY <1>1, <1>2
<1>5. \A v \in Users, e \in Dates : v # u \/ e # d => usage'[v][e] = usage[v][e]
  BY <1>1, <1>2
<1> QED BY <1>3, <1>4, <1>5

\* Every step keeps the types.
LEMMA BaseStep == BaseOK /\ Next => BaseOK'
<1> SUFFICES ASSUME BaseOK, Next PROVE BaseOK'
  OBVIOUS
<1>0. ConnOK /\ now \in Time /\ \A c \in Conns : at[c] \in Time
  BY Bounds DEF BaseOK, ConnOK, Time
<1>1. ASSUME NEW c \in Conns, NEW u \in Users, TrackStart(c, u) PROVE BaseOK'
  <2>1. now \in 0..now
    BY <1>0, Bounds
  <2>2. ConnOK'
    BY <1>0, <1>1, <2>1 DEF TrackStart, ConnOK, PCs
  <2> QED BY <1>1, <2>2, BaseConn DEF TrackStart
<1>2. ASSUME NEW c \in Conns, NEW l \in PCs, Goto(c, l), UNCHANGED <<now, who>> PROVE ConnOK'
  BY <1>0, <1>2, GotoFacts DEF ConnOK
<1>3. ASSUME NEW c \in Conns, NEW l \in PCs, Goto(c, l), UNCHANGED who,
             UNCHANGED <<now, rateLimits, usage, admin, history>>
      PROVE  BaseOK'
  BY <1>2, <1>3, BaseConn
<1>4. ASSUME NEW c \in Conns, NEW u \in Users, CheckStart(c, u) PROVE BaseOK'
  <2>1. ConnOK'
    <3>1. PICK l \in {"limits", "idle"} : Goto(c, l)
      BY <1>4 DEF CheckStart
    <3> QED BY <1>0, <1>4, <3>1, GotoFacts DEF CheckStart, ConnOK, PCs
  <2> QED BY <1>4, <2>1, BaseConn DEF CheckStart
<1>5. ASSUME NEW c \in Conns, InsertRow(c) PROVE BaseOK'
  <2>1. ConnOK'
    BY <1>2, <1>5 DEF InsertRow, PCs
  <2>2. who[c] \in Users /\ at[c] \in Time
    BY <1>0 DEF ConnOK
  <2>3. rateLimits' \in [Users -> [Time -> Nat]] /\ tracked' \in [Users -> [Time -> Nat]]
    BY <1>5, <2>2 DEF InsertRow, BaseOK
  <2> QED BY <1>5, <2>1, <2>3 DEF InsertRow, BaseOK, ConnOK, admin
<1>6. ASSUME NEW c \in Conns, InsertFails(c) PROVE BaseOK'
  BY <1>3, <1>6 DEF InsertFails, PCs
<1>7. ASSUME NEW c \in Conns, UpsertCalls(c) PROVE BaseOK'
  <2>1. ConnOK'
    BY <1>2, <1>7 DEF UpsertCalls, PCs
  <2>2. who[c] \in Users /\ Date(at[c]) \in Dates
    BY <1>0, DateOK DEF ConnOK
  <2>3. Bump(who[c], Date(at[c]), 1, 0)
    BY <1>7 DEF UpsertCalls
  <2>4. /\ usage' \in [Users -> [Dates -> DayRow]]
        /\ \A v \in Users, e \in Dates :
              \/ usage'[v][e] = usage[v][e]
              \/ /\ usage'[v][e].studies_created = usage[v][e].studies_created + 0
                 /\ usage'[v][e].there
    BY <2>2, <2>3, BumpFacts
  <2>5. \A u \in Users, d \in Dates :
          /\ usage'[u][d].studies_created <= MaxStudies
          /\ ~usage'[u][d].there => usage'[u][d] = NoRow
    <3>1. \A u \in Users, d \in Dates : usage[u][d].studies_created \in Nat
      BY DEF BaseOK, DayRow
    <3>2. \A u \in Users, d \in Dates :
            /\ usage[u][d].studies_created <= MaxStudies
            /\ ~usage[u][d].there => usage[u][d] = NoRow
      BY DEF BaseOK
    <3> SUFFICES ASSUME NEW u \in Users, NEW d \in Dates
                 PROVE  /\ usage'[u][d].studies_created <= MaxStudies
                        /\ ~usage'[u][d].there => usage'[u][d] = NoRow
      OBVIOUS
    <3>3. CASE usage'[u][d] = usage[u][d]
      BY <3>2, <3>3
    <3>4. CASE /\ usage'[u][d].studies_created = usage[u][d].studies_created + 0
               /\ usage'[u][d].there
      BY <3>1, <3>2, <3>4
    <3> QED BY <2>4, <3>3, <3>4
  <2> QED BY <1>7, <2>1, <2>4, <2>5 DEF UpsertCalls, BaseOK, ConnOK, admin, history
<1>8. ASSUME NEW c \in Conns, UpsertFails(c) PROVE BaseOK'
  <2>1. ConnOK'
    BY <1>2, <1>8 DEF UpsertFails, PCs
  <2>2. who[c] \in Users /\ Date(at[c]) \in Dates
    BY <1>0, DateOK DEF ConnOK
  <2>3. cut' \in [Users -> [Dates -> Nat]]
    BY <1>8, <2>2 DEF UpsertFails, BaseOK
  <2> QED BY <1>8, <2>1, <2>3 DEF UpsertFails, BaseOK, ConnOK, admin
<1>9. ASSUME NEW c \in Conns, Cleanup(c) PROVE BaseOK'
  <2>1. ConnOK'
    BY <1>2, <1>9 DEF Cleanup, PCs
  <2>2. rateLimits' \in [Users -> [Time -> Nat]]
    <3>1. \A u \in Users : \A t \in Time : rateLimits[u][t] \in Nat
      BY DEF BaseOK
    <3> DEFINE kept(u) == [t \in Time |-> IF t < at[c] - Hour THEN 0 ELSE rateLimits[u][t]]
    <3>2. \A u \in Users : kept(u) \in [Time -> Nat]
      BY <3>1
    <3>3. rateLimits' = [u \in Users |-> kept(u)] \/ rateLimits' = rateLimits
      BY <1>9 DEF Cleanup
    <3> HIDE DEF kept
    <3> QED BY <3>2, <3>3 DEF BaseOK
  <2> QED BY <1>9, <2>1, <2>2 DEF Cleanup, BaseOK, ConnOK, admin, history
<1>10. ASSUME NEW u \in Users, TrackResourceUsage(u) PROVE BaseOK'
  <2>1. Date(now) \in Dates /\ usage[u][Date(now)].studies_created < MaxStudies
    BY <1>0, <1>10, DateOK DEF TrackResourceUsage
  <2>2. Bump(u, Date(now), 0, 1)
    BY <1>10 DEF TrackResourceUsage
  <2>3. /\ usage' \in [Users -> [Dates -> DayRow]]
        /\ \A v \in Users, e \in Dates :
              \/ usage'[v][e] = usage[v][e]
              \/ /\ v = u /\ e = Date(now)
                 /\ usage'[v][e].studies_created = usage[v][e].studies_created + 1
                 /\ usage'[v][e].there
    BY <2>1, <2>2, BumpFacts
  <2>4. \A v \in Users, d \in Dates :
          /\ usage'[v][d].studies_created <= MaxStudies
          /\ ~usage'[v][d].there => usage'[v][d] = NoRow
    <3>1. \A v \in Users, d \in Dates : usage[v][d].studies_created \in Nat
      BY DEF BaseOK, DayRow
    <3> QED BY <2>1, <2>3, <3>1, Bounds DEF BaseOK
  <2> QED BY <1>10, <2>3, <2>4 DEF TrackResourceUsage, BaseOK, conn, admin, history
<1>11. ASSUME NEW c \in Conns, CheckLimits(c) PROVE BaseOK'
  <2>1. ConnOK'
    <3>1. CASE Goto(c, "idle")
      BY <1>2, <1>11, <3>1 DEF CheckLimits, PCs
    <3>2. CASE pc' = [pc EXCEPT ![c] = "minute"] /\ at' = [at EXCEPT ![c] = now]
      <4>1. now \in 0..now
        BY <1>0, Bounds
      <4> QED BY <1>0, <1>11, <3>2, <4>1 DEF CheckLimits, ConnOK, PCs
    <3> QED BY <1>11, <3>1, <3>2 DEF CheckLimits
  <2> QED BY <1>11, <2>1, BaseConn DEF CheckLimits
<1>12. ASSUME NEW c \in Conns, CheckMinute(c) PROVE BaseOK'
  BY <1>3, <1>12 DEF CheckMinute, PCs
<1>13. ASSUME NEW c \in Conns, CheckHour(c) PROVE BaseOK'
  BY <1>3, <1>13 DEF CheckHour, PCs
<1>14. ASSUME NEW c \in Conns, CheckDay(c) \/ CheckFails(c) PROVE BaseOK'
  BY <1>3, <1>14 DEF CheckDay, CheckFails, PCs
<1>15. CASE Tick
  <2>1. now' \in Time /\ \A t \in 0..now : t \in 0..now'
    BY <1>0, <1>15, Bounds DEF Tick, Time
  <2> QED BY <1>15, <2>1 DEF Tick, BaseOK, conn, admin, history
<1>16. CASE Restart
  <2>1. \A u \in Users, d \in Dates : Cardinality(Upserting(u, d)) \in Nat
    <3>1. \A u \in Users, d \in Dates : Upserting(u, d) \in SUBSET Conns
      BY DEF Upserting
    <3> QED BY <3>1, Bounds, FS_Subset, FS_CardinalityType
  <2>2. cut' \in [Users -> [Dates -> Nat]]
    <3> DEFINE more(u) == [d \in Dates |-> cut[u][d] + Cardinality(Upserting(u, d))]
    <3>1. \A u \in Users : more(u) \in [Dates -> Nat]
      BY <2>1 DEF BaseOK
    <3>2. cut' = [u \in Users |-> more(u)]
      BY <1>16 DEF Restart, Upserting
    <3> HIDE DEF more
    <3> QED BY <3>1, <3>2
  <2>3. ConnOK'
    BY <1>0, <1>16, Bounds DEF Restart, ConnOK, PCs
  <2> QED BY <1>16, <2>2, <2>3 DEF Restart, BaseOK, ConnOK, admin
<1> QED BY <1>1, <1>4, <1>5, <1>6, <1>7, <1>8, <1>9, <1>10, <1>11, <1>12, <1>13, <1>14,
           <1>15, <1>16, BaseAdmin DEF Next, TrackStep, CheckStep

-----------------------------------------------------------------------------
\* Sets of requests are finite, counts are numbers.
LEMMA ConnSets ==
    ASSUME BaseOK, NEW u, NEW d
    PROVE  /\ IsFiniteSet(Upserting(u, d)) /\ Cardinality(Upserting(u, d)) \in Nat
           /\ IsFiniteSet(Inserting(u)) /\ Cardinality(Inserting(u)) \in Nat
<1>1. Upserting(u, d) \in SUBSET Conns /\ Inserting(u) \in SUBSET Conns
  BY DEF Upserting, Inserting
<1> QED BY <1>1, Bounds, FS_Subset, FS_CardinalityType

LEMMA DayDef ==
    DayCountsCalls <=> \A u \in Users, d \in Dates :
        usage[u][d].api_calls + cut[u][d] + Cardinality(Upserting(u, d)) = OnDate(tracked[u], d)
BY DEF DayCountsCalls, Upserting

LEMMA DayDefPrime ==
    DayCountsCalls' <=> \A u \in Users, d \in Dates :
        usage'[u][d].api_calls + cut'[u][d] + Cardinality(Upserting(u, d)') = OnDate(tracked'[u], d)
BY DEF DayCountsCalls, Upserting, OnDate, RowsOf

\* No call is recorded, counted or given up, and no tracking starts.
Quiet ==
    /\ UNCHANGED <<tracked, cut>>
    /\ \A u \in Users, d \in Dates : usage'[u][d].api_calls = usage[u][d].api_calls
    /\ \A c \in Conns : pc'[c] \in {"insert", "upsert", "cleanup"} =>
          pc'[c] = pc[c] /\ who'[c] = who[c] /\ at'[c] = at[c]
    /\ \A c \in Conns : pc[c] = "upsert" => pc'[c] = "upsert"

LEMMA QuietKeeps ==
    ASSUME BaseOK, BaseOK', Quiet, CallsBound, DayCountsCalls, Recorded
    PROVE  CallsBound' /\ DayCountsCalls' /\ Recorded'
<1>1. ASSUME NEW u \in Users PROVE Cardinality(Inserting(u)') <= Cardinality(Inserting(u))
  <2>1. Inserting(u)' \in SUBSET Inserting(u)
    BY DEF Quiet, Inserting
  <2> QED BY <2>1, ConnSets, FS_Subset
<1>2. CallsBound'
  <2> SUFFICES ASSUME NEW u \in Users
               PROVE  /\ IsFiniteSet(RowsOf(tracked'[u], Time))
                      /\ Cardinality(RowsOf(tracked'[u], Time)) + Cardinality(Inserting(u)') <= MaxCalls
    BY DEF CallsBound, Calls, RowsOf
  <2>1. tracked' = tracked
    BY DEF Quiet
  <2>2. /\ IsFiniteSet(RowsOf(tracked[u], Time))
        /\ Cardinality(RowsOf(tracked[u], Time)) + Cardinality(Inserting(u)) <= MaxCalls
    BY DEF CallsBound, Calls
  <2>3. Cardinality(RowsOf(tracked[u], Time)) \in Nat
    BY <2>2, FS_CardinalityType
  <2>4. Cardinality(Inserting(u)') \in Nat /\ Cardinality(Inserting(u)) \in Nat
    <3>1. Inserting(u)' \in SUBSET Conns
      BY DEF Inserting
    <3> QED BY <3>1, ConnSets, Bounds, FS_Subset, FS_CardinalityType
  <2> QED BY <1>1, <2>1, <2>2, <2>3, <2>4, Bounds
<1>3. DayCountsCalls'
  <2>1. ASSUME NEW u \in Users, NEW d \in Dates PROVE Upserting(u, d)' = Upserting(u, d)
    BY DEF Quiet, Upserting, Date
  <2> QED BY <2>1, DayDef, DayDefPrime DEF Quiet
<1>4. Recorded'
  BY DEF Quiet, Recorded
<1> QED BY <1>2, <1>3, <1>4

\* Kept stays while no row goes from rate_limits.
LEMMA KeptKept ==
    ASSUME Kept, UNCHANGED <<rateLimits, tracked>>
    PROVE  Kept'
BY DEF Kept

\* The steps that are quiet.
LEMMA QuietSteps ==
    ASSUME BaseOK, Next
    PROVE  \/ Quiet /\ UNCHANGED rateLimits
           \/ \E c \in Conns, u \in Users : TrackStart(c, u)
           \/ \E c \in Conns : InsertRow(c) \/ UpsertCalls(c) \/ UpsertFails(c) \/ Cleanup(c)
           \/ Restart
<1> USE DEF history
<1>0. ASSUME NEW c \in Conns, NEW l \in {"idle", "limits", "minute", "hour", "day"}, Goto(c, l),
             pc[c] # "upsert", UNCHANGED <<tracked, cut, usage>>,
             \A d \in Conns \ {c} : who'[d] = who[d]
      PROVE  Quiet
  <2>1. l \in PCs
    BY DEF PCs
  <2> QED BY <1>0, <2>1, GotoFacts DEF Quiet
<1>1. ASSUME NEW c \in Conns, NEW u \in Users, CheckStart(c, u) PROVE Quiet /\ UNCHANGED rateLimits
  <2>1. PICK l \in {"limits", "idle"} : Goto(c, l)
    BY <1>1 DEF CheckStart
  <2>2. \A d \in Conns \ {c} : who'[d] = who[d]
    BY <1>1 DEF CheckStart, BaseOK
  <2> QED BY <1>0, <1>1, <2>1, <2>2 DEF CheckStart
<1>2. ASSUME NEW c \in Conns, InsertFails(c) PROVE Quiet /\ UNCHANGED rateLimits
  BY <1>0, <1>2 DEF InsertFails
<1>3. ASSUME NEW u \in Users, TrackResourceUsage(u) PROVE Quiet /\ UNCHANGED rateLimits
  <2>1. Date(now) \in Dates /\ Bump(u, Date(now), 0, 1)
    BY <1>3, DateOK DEF TrackResourceUsage, BaseOK
  <2>2. \A v \in Users, e \in Dates :
           usage'[v][e] = usage[v][e] \/ usage'[v][e].api_calls = usage[v][e].api_calls + 0
    BY <2>1, BumpFacts
  <2>3. \A v \in Users, e \in Dates : usage[v][e].api_calls \in Nat
    BY DEF BaseOK, DayRow
  <2> QED BY <1>3, <2>2, <2>3 DEF TrackResourceUsage, conn, Quiet
<1>4. ASSUME NEW c \in Conns, CheckLimits(c) PROVE Quiet /\ UNCHANGED rateLimits
  <2>1. CASE Goto(c, "idle")
    BY <1>0, <1>4, <2>1 DEF CheckLimits
  <2>2. CASE pc' = [pc EXCEPT ![c] = "minute"] /\ at' = [at EXCEPT ![c] = now]
    BY <1>4, <2>2 DEF CheckLimits, Quiet, BaseOK
  <2> QED BY <1>4, <2>1, <2>2 DEF CheckLimits
<1>5. ASSUME NEW c \in Conns, CheckMinute(c) PROVE Quiet /\ UNCHANGED rateLimits
  BY <1>0, <1>5 DEF CheckMinute
<1>6. ASSUME NEW c \in Conns, CheckHour(c) PROVE Quiet /\ UNCHANGED rateLimits
  BY <1>0, <1>6 DEF CheckHour
<1>7. ASSUME NEW c \in Conns, CheckDay(c) \/ CheckFails(c) PROVE Quiet /\ UNCHANGED rateLimits
  BY <1>0, <1>7 DEF CheckDay, CheckFails
<1>8. CASE Administer
  BY <1>8, BaseAdmin DEF conn, Quiet
<1>9. CASE Tick
  BY <1>9 DEF Tick, conn, Quiet
<1> QED BY <1>1, <1>2, <1>3, <1>4, <1>5, <1>6, <1>7, <1>8, <1>9 DEF Next, TrackStep, CheckStep

LEMMA TrackStartKeeps ==
    ASSUME BaseOK, BaseOK', CallsBound, DayCountsCalls, Kept, Recorded,
           NEW c \in Conns, NEW u \in Users, TrackStart(c, u)
    PROVE  CallsBound' /\ DayCountsCalls' /\ Kept' /\ Recorded'
<1>1. /\ UNCHANGED <<tracked, cut, usage, rateLimits>>
      /\ pc[c] = "idle" /\ pc'[c] = "insert" /\ who'[c] = u
      /\ \A d \in Conns \ {c} : pc'[d] = pc[d] /\ who'[d] = who[d] /\ at'[d] = at[d]
  BY DEF TrackStart, history, BaseOK
<1>2. CallsBound'
  <2> SUFFICES ASSUME NEW v \in Users
               PROVE  /\ IsFiniteSet(RowsOf(tracked'[v], Time))
                      /\ Cardinality(RowsOf(tracked'[v], Time)) + Cardinality(Inserting(v)') <= MaxCalls
    BY DEF CallsBound, Calls, RowsOf
  <2>1. /\ IsFiniteSet(RowsOf(tracked[v], Time))
        /\ Cardinality(RowsOf(tracked[v], Time)) + Cardinality(Inserting(v)) <= MaxCalls
    BY DEF CallsBound, Calls
  <2>2. Cardinality(RowsOf(tracked[v], Time)) \in Nat
    BY <2>1, FS_CardinalityType
  <2>3. CASE v = u
    <3> DEFINE all == {d \in Conns : pc[d] = "insert"}
    <3>1. Cardinality(RowsOf(tracked[u], Time)) + Cardinality(all) < MaxCalls
      BY DEF TrackStart, Calls
    <3>2. Inserting(u)' = Inserting(u) \cup {c} /\ c \notin Inserting(u)
      BY <1>1 DEF Inserting
    <3>3. Cardinality(Inserting(u)') = Cardinality(Inserting(u)) + 1
      BY <3>2, ConnSets, FS_AddElement
    <3>4. /\ Cardinality(Inserting(u)) <= Cardinality(all)
          /\ Cardinality(all) \in Nat /\ Cardinality(Inserting(u)) \in Nat
      <4>1. all \in SUBSET Conns
        OBVIOUS
      <4>2. IsFiniteSet(all) /\ Inserting(u) \in SUBSET all
        BY <4>1, Bounds, FS_Subset DEF Inserting
      <4> QED BY <4>2, FS_Subset, FS_CardinalityType
    <3> HIDE DEF all
    <3> QED BY <1>1, <2>1, <2>2, <2>3, <3>1, <3>3, <3>4, Bounds
  <2>4. CASE v # u
    <3>1. Inserting(v)' = Inserting(v)
      BY <1>1, <2>4 DEF Inserting
    <3> QED BY <1>1, <2>1, <3>1
  <2> QED BY <2>3, <2>4
<1>3. DayCountsCalls'
  <2>1. ASSUME NEW v \in Users, NEW d \in Dates PROVE Upserting(v, d)' = Upserting(v, d)
    BY <1>1 DEF Upserting, Date
  <2> QED BY <1>1, <2>1, DayDef, DayDefPrime
<1>4. Kept'
  BY <1>1, KeptKept
<1>5. Recorded'
  BY <1>1 DEF Recorded
<1> QED BY <1>2, <1>3, <1>4, <1>5

\* The first statement: the call is recorded, and waits to be counted.
LEMMA InsertRowKeeps ==
    ASSUME BaseOK, BaseOK', CallsBound, DayCountsCalls, Kept, Recorded,
           NEW c \in Conns, InsertRow(c)
    PROVE  CallsBound' /\ DayCountsCalls' /\ Kept' /\ Recorded'
<1>u. PICK u \in Users : u = who[c]
  BY DEF BaseOK
<1>s. PICK s \in Time : s = at[c]
  BY Bounds DEF BaseOK, Time
<1>0. u \in Users /\ s \in Time /\ Date(s) \in Dates
  BY DateOK
<1>1. /\ UNCHANGED <<cut, usage, who, at>>
      /\ pc[c] = "insert" /\ pc'[c] = "upsert"
      /\ \A d \in Conns \ {c} : pc'[d] = pc[d]
      /\ tracked' = [tracked EXCEPT ![u][s] = @ + 1]
      /\ rateLimits' = [rateLimits EXCEPT ![u][s] = @ + 1]
  <2>1. "upsert" \in PCs
    BY DEF PCs
  <2> QED BY <1>u, <1>s, <2>1, GotoFacts DEF InsertRow
<1>2. /\ \A v \in Users \ {u} : tracked'[v] = tracked[v] /\ rateLimits'[v] = rateLimits[v]
      /\ tracked'[u][s] = tracked[u][s] + 1
      /\ rateLimits'[u][s] = rateLimits[u][s] + 1
      /\ \A t \in Time \ {s} : tracked'[u][t] = tracked[u][t] /\ rateLimits'[u][t] = rateLimits[u][t]
      /\ tracked[u] \in [Time -> Nat]
      /\ \A v \in Users, t \in Time : tracked[v][t] \in Nat /\ rateLimits[v][t] \in Nat
  BY <1>0, <1>1 DEF BaseOK
<1>3. ASSUME NEW S \in SUBSET Time
      PROVE  /\ IsFiniteSet(RowsOf(tracked'[u], S))
             /\ Cardinality(RowsOf(tracked[u], S)) \in Nat
             /\ s \in S => Cardinality(RowsOf(tracked'[u], S)) = Cardinality(RowsOf(tracked[u], S)) + 1
             /\ s \notin S => RowsOf(tracked'[u], S) = RowsOf(tracked[u], S)
  <2>1. IsFiniteSet(RowsOf(tracked[u], Time))
    BY <1>0 DEF CallsBound
  <2> DEFINE f == tracked[u]
             g == tracked'[u]
  <2>2. /\ f \in [Time -> Nat] /\ IsFiniteSet(RowsOf(f, Time))
        /\ g[s] = f[s] + 1 /\ \A t \in Time \ {s} : g[t] = f[t]
    BY <1>2, <2>1
  <2> HIDE DEF f, g
  <2>3. /\ IsFiniteSet(RowsOf(g, S))
        /\ Cardinality(RowsOf(f, S)) \in Nat
        /\ s \in S => Cardinality(RowsOf(g, S)) = Cardinality(RowsOf(f, S)) + 1
        /\ s \notin S => RowsOf(g, S) = RowsOf(f, S)
    BY <2>2, CountAdd
  <2> QED BY <2>3 DEF f, g
<1>4. CallsBound'
  <2> SUFFICES ASSUME NEW v \in Users
               PROVE  /\ IsFiniteSet(RowsOf(tracked'[v], Time))
                      /\ Cardinality(RowsOf(tracked'[v], Time)) + Cardinality(Inserting(v)') <= MaxCalls
    BY DEF CallsBound, Calls, RowsOf
  <2>1. /\ IsFiniteSet(RowsOf(tracked[v], Time))
        /\ Cardinality(RowsOf(tracked[v], Time)) + Cardinality(Inserting(v)) <= MaxCalls
    BY DEF CallsBound, Calls
  <2>2. CASE v = u
    <3>1. Inserting(u)' = Inserting(u) \ {c} /\ c \in Inserting(u)
      BY <1>u, <1>1 DEF Inserting
    <3>2. /\ Cardinality(Inserting(u)') = Cardinality(Inserting(u)) - 1
          /\ Cardinality(Inserting(u)) \in Nat
      BY <3>1, ConnSets, FS_RemoveElement
    <3>3. /\ IsFiniteSet(RowsOf(tracked'[u], Time))
          /\ Cardinality(RowsOf(tracked[u], Time)) \in Nat
          /\ Cardinality(RowsOf(tracked'[u], Time)) = Cardinality(RowsOf(tracked[u], Time)) + 1
      BY <1>0, <1>3
    <3> QED BY <2>1, <2>2, <3>2, <3>3, Bounds
  <2>3. CASE v # u
    <3>1. Inserting(v)' = Inserting(v)
      BY <1>u, <1>1, <2>3 DEF Inserting
    <3> QED BY <1>2, <2>1, <2>3, <3>1
  <2> QED BY <2>2, <2>3
<1>5. DayCountsCalls'
  <2> SUFFICES ASSUME NEW v \in Users, NEW d \in Dates
               PROVE  usage'[v][d].api_calls + cut'[v][d] + Cardinality(Upserting(v, d)')
                        = OnDate(tracked'[v], d)
    BY DayDefPrime
  <2>1. usage[v][d].api_calls + cut[v][d] + Cardinality(Upserting(v, d)) = OnDate(tracked[v], d)
    BY DayDef
  <2>2. usage[v][d].api_calls \in Nat /\ cut[v][d] \in Nat
    BY DEF BaseOK, DayRow
  <2>3. CASE v = u /\ d = Date(s)
    <3>1. Upserting(v, d)' = Upserting(v, d) \cup {c} /\ c \notin Upserting(v, d)
      BY <1>u, <1>s, <1>1, <2>3 DEF Upserting, Date
    <3>2. /\ Cardinality(Upserting(v, d)') = Cardinality(Upserting(v, d)) + 1
          /\ Cardinality(Upserting(v, d)) \in Nat
      BY <3>1, ConnSets, FS_AddElement
    <3>3. OnDate(tracked'[v], d) = OnDate(tracked[v], d) + 1
      BY <1>0, <1>3, <2>3 DEF OnDate
    <3> QED BY <1>1, <2>1, <2>2, <3>2, <3>3
  <2>4. CASE ~(v = u /\ d = Date(s))
    <3>1. Upserting(v, d)' = Upserting(v, d)
      BY <1>u, <1>s, <1>1, <2>4 DEF Upserting, Date
    <3>2. OnDate(tracked'[v], d) = OnDate(tracked[v], d)
      BY <1>0, <1>2, <1>3, <2>4 DEF OnDate
    <3> QED BY <1>1, <2>1, <3>1, <3>2
  <2> QED BY <2>3, <2>4
<1>6. Kept'
  <2> SUFFICES ASSUME NEW v \in Users, NEW t \in Time
               PROVE  \/ rateLimits'[v][t] = tracked'[v][t]
                      \/ \E w \in Users, x \in Time : tracked'[w][x] > 0 /\ t < x - Hour
    BY DEF Kept
  <2>1. \A w \in Users, x \in Time : tracked[w][x] > 0 => tracked'[w][x] > 0
    BY <1>0, <1>2
  <2>2. rateLimits[v][t] = tracked[v][t] => rateLimits'[v][t] = tracked'[v][t]
    BY <1>0, <1>2
  <2> QED BY <2>1, <2>2 DEF Kept
<1>7. Recorded'
  <2> SUFFICES ASSUME NEW d \in Conns, pc'[d] \in {"upsert", "cleanup"}
               PROVE  tracked'[who'[d]][at'[d]] > 0
    BY DEF Recorded
  <2>1. CASE d = c
    BY <1>u, <1>s, <1>1, <1>2, <2>1
  <2>2. CASE d # c
    <3>1. who[d] \in Users /\ at[d] \in Time
      BY Bounds DEF BaseOK, Time
    <3>2. tracked[who[d]][at[d]] > 0
      BY <1>1, <2>2 DEF Recorded
    <3> QED BY <1>0, <1>1, <1>2, <3>1, <3>2
  <2> QED BY <2>1, <2>2
<1> QED BY <1>4, <1>5, <1>6, <1>7

\* A request leaves the second statement: nothing changes but its own day.
LEMMA LeavesUpsert ==
    ASSUME BaseOK, BaseOK', CallsBound, DayCountsCalls, Recorded,
           NEW c \in Conns, NEW u \in Users, NEW e \in Dates, u = who[c], e = Date(at[c]),
           pc[c] = "upsert", pc'[c] \in {"idle", "cleanup"},
           pc'[c] = "cleanup" => at'[c] = at[c],
           \A d \in Conns \ {c} : pc'[d] = pc[d] /\ at'[d] = at[d],
           UNCHANGED <<who, tracked>>,
           usage'[u][e].api_calls + cut'[u][e] = usage[u][e].api_calls + cut[u][e] + 1,
           \A v \in Users, d \in Dates : v # u \/ d # e =>
              usage'[v][d].api_calls = usage[v][d].api_calls /\ cut'[v][d] = cut[v][d]
    PROVE  CallsBound' /\ DayCountsCalls' /\ Recorded'
<1>1. CallsBound'
  <2> SUFFICES ASSUME NEW v \in Users
               PROVE  /\ IsFiniteSet(RowsOf(tracked[v], Time))
                      /\ Cardinality(RowsOf(tracked[v], Time)) + Cardinality(Inserting(v)') <= MaxCalls
    BY DEF CallsBound, Calls, RowsOf
  <2>1. Inserting(v)' = Inserting(v)
    BY DEF Inserting
  <2> QED BY <2>1 DEF CallsBound, Calls
<1>2. DayCountsCalls'
  <2> SUFFICES ASSUME NEW v \in Users, NEW d \in Dates
               PROVE  usage'[v][d].api_calls + cut'[v][d] + Cardinality(Upserting(v, d)')
                        = OnDate(tracked[v], d)
    BY DayDefPrime
  <2>1. usage[v][d].api_calls + cut[v][d] + Cardinality(Upserting(v, d)) = OnDate(tracked[v], d)
    BY DayDef
  <2>2. CASE v = u /\ d = e
    <3>1. Upserting(v, d)' = Upserting(v, d) \ {c} /\ c \in Upserting(v, d)
      BY <2>2 DEF Upserting, Date
    <3>2. /\ Cardinality(Upserting(v, d)') = Cardinality(Upserting(v, d)) - 1
          /\ Cardinality(Upserting(v, d)) \in Nat
      BY <3>1, ConnSets, FS_RemoveElement
    <3>3. /\ usage[v][d].api_calls \in Nat /\ cut[v][d] \in Nat
          /\ usage'[v][d].api_calls \in Nat /\ cut'[v][d] \in Nat
      BY DEF BaseOK, DayRow
    <3> QED BY <2>1, <2>2, <3>2, <3>3
  <2>3. CASE v # u \/ d # e
    <3>1. Upserting(v, d)' = Upserting(v, d)
      BY <2>3 DEF Upserting, Date
    <3> QED BY <2>1, <2>3, <3>1
  <2> QED BY <2>2, <2>3
<1>3. Recorded'
  BY DEF Recorded
<1> QED BY <1>1, <1>2, <1>3

LEMMA UpsertKeeps ==
    ASSUME BaseOK, BaseOK', CallsBound, DayCountsCalls, Kept, Recorded,
           NEW c \in Conns, UpsertCalls(c) \/ UpsertFails(c)
    PROVE  CallsBound' /\ DayCountsCalls' /\ Kept' /\ Recorded'
<1>1. PICK u \in Users : u = who[c]
  BY DEF BaseOK
<1>2. PICK e \in Dates : e = Date(at[c])
  <2>1. at[c] \in Time
    BY Bounds DEF BaseOK, Time
  <2> QED BY <2>1, DateOK
<1>3. /\ usage[u][e].api_calls \in Nat /\ cut[u][e] \in Nat
      /\ cut \in [Users -> [Dates -> Nat]]
  BY DEF BaseOK, DayRow
<1>4. "idle" \in PCs /\ "cleanup" \in PCs
  BY DEF PCs
<1>5. CASE UpsertCalls(c)
  <2>1. /\ pc[c] = "upsert" /\ Goto(c, "cleanup")
        /\ UNCHANGED <<who, tracked, cut, rateLimits>>
        /\ Bump(u, e, 1, 0)
    BY <1>1, <1>2, <1>5 DEF UpsertCalls, history
  <2>2. /\ pc'[c] = "cleanup" /\ at' = at
        /\ \A d \in Conns \ {c} : pc'[d] = pc[d] /\ at'[d] = at[d]
    BY <1>4, <2>1, GotoFacts
  <2>3. /\ usage'[u][e].api_calls = usage[u][e].api_calls + 1
        /\ \A v \in Users, d \in Dates : v # u \/ d # e => usage'[v][d] = usage[v][d]
    BY <2>1, BumpFacts
  <2>4. usage'[u][e].api_calls + cut'[u][e] = usage[u][e].api_calls + cut[u][e] + 1
    BY <1>3, <2>1, <2>3
  <2>5. CallsBound' /\ DayCountsCalls' /\ Recorded'
    <3>1. \A v \in Users, d \in Dates : v # u \/ d # e =>
             usage'[v][d].api_calls = usage[v][d].api_calls /\ cut'[v][d] = cut[v][d]
      BY <2>1, <2>3
    <3>2. /\ pc[c] = "upsert" /\ pc'[c] \in {"idle", "cleanup"}
          /\ pc'[c] = "cleanup" => at'[c] = at[c]
          /\ UNCHANGED <<who, tracked>>
      BY <2>1, <2>2
    <3> QED BY <1>1, <1>2, <2>2, <2>4, <3>1, <3>2, LeavesUpsert
  <2> QED BY <2>1, <2>5, KeptKept
<1>6. CASE UpsertFails(c)
  <2>1. /\ pc[c] = "upsert" /\ Goto(c, "idle")
        /\ UNCHANGED <<who, tracked, usage, rateLimits>>
        /\ cut' = [cut EXCEPT ![u][e] = @ + 1]
    BY <1>1, <1>2, <1>6 DEF UpsertFails
  <2>2. /\ pc'[c] = "idle"
        /\ \A d \in Conns \ {c} : pc'[d] = pc[d] /\ at'[d] = at[d]
    BY <1>4, <2>1, GotoFacts
  <2>3. /\ cut'[u][e] = cut[u][e] + 1
        /\ \A v \in Users, d \in Dates : v # u \/ d # e => cut'[v][d] = cut[v][d]
    BY <1>3, <2>1
  <2>4. usage'[u][e].api_calls + cut'[u][e] = usage[u][e].api_calls + cut[u][e] + 1
    BY <1>3, <2>1, <2>3
  <2>5. CallsBound' /\ DayCountsCalls' /\ Recorded'
    <3>1. \A v \in Users, d \in Dates : v # u \/ d # e =>
             usage'[v][d].api_calls = usage[v][d].api_calls /\ cut'[v][d] = cut[v][d]
      BY <2>1, <2>3
    <3>2. /\ pc[c] = "upsert" /\ pc'[c] \in {"idle", "cleanup"}
          /\ pc'[c] = "cleanup" => at'[c] = at[c]
          /\ UNCHANGED <<who, tracked>>
      BY <2>1, <2>2
    <3> QED BY <1>1, <1>2, <2>2, <2>4, <3>1, <3>2, LeavesUpsert
  <2> QED BY <2>1, <2>5, KeptKept
<1> QED BY <1>5, <1>6

\* The third statement takes only rows more than an hour older than the call
\* its own request has recorded.
LEMMA CleanupKeeps ==
    ASSUME BaseOK, BaseOK', CallsBound, DayCountsCalls, Kept, Recorded,
           NEW c \in Conns, Cleanup(c)
    PROVE  CallsBound' /\ DayCountsCalls' /\ Kept' /\ Recorded'
<1>1. /\ pc[c] = "cleanup" /\ Goto(c, "idle") /\ UNCHANGED <<usage, who, tracked, cut>>
      /\ \A u \in Users, t \in Time :
            rateLimits'[u][t] = rateLimits[u][t] \/ t < at[c] - Hour
  BY DEF Cleanup, history
<1>2. Quiet
  <2>1. "idle" \in PCs
    BY DEF PCs
  <2> QED BY <1>1, <2>1, GotoFacts DEF Quiet
<1>3. Kept'
  <2> SUFFICES ASSUME NEW u \in Users, NEW t \in Time
               PROVE  \/ rateLimits'[u][t] = tracked[u][t]
                      \/ \E v \in Users, s \in Time : tracked[v][s] > 0 /\ t < s - Hour
    BY <1>1 DEF Kept
  <2>1. who[c] \in Users /\ at[c] \in Time /\ tracked[who[c]][at[c]] > 0
    BY <1>1, Bounds DEF BaseOK, Time, Recorded
  <2> QED BY <1>1, <2>1 DEF Kept
<1> QED BY <1>2, <1>3, QuietKeeps

\* The end of the process gives up the calls that waited to be counted.
LEMMA RestartKeeps ==
    ASSUME BaseOK, BaseOK', CallsBound, DayCountsCalls, Kept, Recorded, Restart
    PROVE  CallsBound' /\ DayCountsCalls' /\ Kept' /\ Recorded'
<1>1. UNCHANGED <<tracked, usage, rateLimits>> /\ \A c \in Conns : pc'[c] = "idle"
  BY DEF Restart
<1>2. CallsBound'
  <2> SUFFICES ASSUME NEW v \in Users
               PROVE  /\ IsFiniteSet(RowsOf(tracked[v], Time))
                      /\ Cardinality(RowsOf(tracked[v], Time)) + Cardinality(Inserting(v)') <= MaxCalls
    BY <1>1 DEF CallsBound, Calls, RowsOf
  <2>1. Inserting(v)' = {}
    BY <1>1 DEF Inserting
  <2>2. /\ IsFiniteSet(RowsOf(tracked[v], Time))
        /\ Cardinality(RowsOf(tracked[v], Time)) + Cardinality(Inserting(v)) <= MaxCalls
    BY DEF CallsBound, Calls
  <2>3. Cardinality(RowsOf(tracked[v], Time)) \in Nat /\ Cardinality(Inserting(v)) \in Nat
    BY <2>2, ConnSets, FS_CardinalityType
  <2> QED BY <2>1, <2>2, <2>3, FS_EmptySet, Bounds
<1>3. DayCountsCalls'
  <2> SUFFICES ASSUME NEW u \in Users, NEW d \in Dates
               PROVE  usage'[u][d].api_calls + cut'[u][d] + Cardinality(Upserting(u, d)')
                        = OnDate(tracked'[u], d)
    BY DayDefPrime
  <2>1. usage[u][d].api_calls + cut[u][d] + Cardinality(Upserting(u, d)) = OnDate(tracked[u], d)
    BY DayDef
  <2>2. cut'[u][d] = cut[u][d] + Cardinality(Upserting(u, d))
    BY DEF Restart, Upserting
  <2>3. Upserting(u, d)' = {}
    BY <1>1 DEF Upserting
  <2>4. usage[u][d].api_calls \in Nat /\ cut[u][d] \in Nat /\ Cardinality(Upserting(u, d)) \in Nat
    BY ConnSets DEF BaseOK, DayRow
  <2> QED BY <1>1, <2>1, <2>2, <2>3, <2>4, FS_EmptySet
<1>4. Kept' /\ Recorded'
  BY <1>1, KeptKept DEF Recorded
<1> QED BY <1>2, <1>3, <1>4

-----------------------------------------------------------------------------
LEMMA InitIInv == Init => IInv
<1> SUFFICES ASSUME Init PROVE IInv
  OBVIOUS
<1>1. BaseOK
  <2>1. 0 \in Time /\ NoRow \in DayRow
    BY Bounds DEF Time, NoRow, DayRow
  <2>2. /\ usage \in [Users -> [Dates -> DayRow]]
        /\ \A u \in Users, d \in Dates : usage[u][d] = NoRow
    BY <2>1 DEF Init
  <2>3. /\ rateLimits \in [Users -> [Time -> Nat]] /\ tracked \in [Users -> [Time -> Nat]]
        /\ cut \in [Users -> [Dates -> Nat]]
    BY DEF Init, Zeros
  <2>4. AdminOK
    BY Bounds DEF Init, AdminOK, Range
  <2>5. ConnOK
    BY DEF Init, ConnOK, PCs
  <2>6. NoRow.studies_created = 0 /\ 0 <= MaxStudies
    BY Bounds DEF NoRow
  <2>7. now \in Time
    BY <2>1 DEF Init
  <2> QED BY <2>2, <2>3, <2>4, <2>5, <2>6, <2>7 DEF BaseOK, AdminOK, ConnOK
<1>2. \A u \in Users : \A S \in SUBSET Time : RowsOf(tracked[u], S) = {}
  <2>1. \A u \in Users : \A t \in Time : tracked[u][t] = 0
    BY DEF Init, Zeros
  <2> QED BY <2>1, RowsOfDef
<1>3. \A u : Inserting(u) = {} /\ \A d : Upserting(u, d) = {}
  BY DEF Init, Inserting, Upserting
<1>4. CallsBound
  <2>1. \A u \in Users : RowsOf(tracked[u], Time) = {}
    BY <1>2
  <2>2. IsFiniteSet({}) /\ Cardinality({}) = 0 /\ 0 + 0 <= MaxCalls
    BY FS_EmptySet, Bounds
  <2> QED BY <1>3, <2>1, <2>2 DEF CallsBound, Calls
<1>5. DayCountsCalls
  <2> SUFFICES ASSUME NEW u \in Users, NEW d \in Dates
               PROVE  usage[u][d].api_calls + cut[u][d] + Cardinality(Upserting(u, d))
                        = OnDate(tracked[u], d)
    BY DayDef
  <2>1. usage[u][d].api_calls = 0 /\ cut[u][d] = 0
    BY DEF Init, NoRow
  <2>2. OnDate(tracked[u], d) = 0
    <3>1. {t \in Time : Date(t) = d} \in SUBSET Time
      OBVIOUS
    <3> QED BY <1>2, <3>1, FS_EmptySet DEF OnDate
  <2> QED BY <1>3, <2>1, <2>2, FS_EmptySet
<1>6. Kept /\ Recorded
  BY DEF Init, Zeros, Kept, Recorded
<1> QED BY <1>1, <1>4, <1>5, <1>6 DEF IInv

LEMMA NextIInv == IInv /\ [Next]_vars => IInv'
<1> SUFFICES ASSUME IInv, [Next]_vars PROVE IInv'
  OBVIOUS
<1>1. CASE UNCHANGED vars
  <2>1. BaseOK'
    BY <1>1 DEF IInv, BaseOK, vars, conn, admin, history
  <2>2. Quiet /\ UNCHANGED <<rateLimits, tracked>>
    BY <1>1 DEF Quiet, vars, conn, history
  <2> QED BY <2>1, <2>2, QuietKeeps, KeptKept DEF IInv
<1>2. CASE Next
  <2>1. BaseOK'
    BY <1>2, BaseStep DEF IInv
  <2>2. Quiet /\ UNCHANGED rateLimits => Kept'
    BY KeptKept DEF IInv, Quiet
  <2>3. BaseOK /\ CallsBound /\ DayCountsCalls /\ Kept /\ Recorded
    BY DEF IInv
  <2> HIDE DEF IInv
  <2> QED BY <1>2, <2>3, <2>1, <2>2, QuietSteps, QuietKeeps, TrackStartKeeps, InsertRowKeeps,
             UpsertKeeps, CleanupKeeps, RestartKeeps DEF IInv
<1> QED BY <1>1, <1>2

\* The strengthening holds: rate_limits, usage_tracking and the requests that
\* stand between the three statements of TrackAPIUsage fit together.
THEOREM Invariance == Spec => []IInv
BY InitIInv, NextIInv, PTL DEF Spec

\* The tables are well formed, and no day's row counts more calls than were
\* made.
THEOREM TypeCorrect == Spec => []TypeOK
<1>1. IInv => TypeOK
  <2> SUFFICES ASSUME IInv PROVE TypeOK
    OBVIOUS
  <2>1. BaseOK /\ CallsBound /\ DayCountsCalls
    BY DEF IInv
  <2>2. ASSUME NEW u \in Users, NEW d \in Dates
        PROVE  /\ usage[u][d].api_calls \in 0..MaxCalls
               /\ usage[u][d].studies_created \in 0..MaxStudies
               /\ usage[u][d] # NoRow <=> usage[u][d].there
    <3>1. /\ usage[u][d].api_calls \in Nat /\ cut[u][d] \in Nat
          /\ usage[u][d].studies_created \in Nat
          /\ usage[u][d].studies_created <= MaxStudies
      BY <2>1 DEF BaseOK, DayRow
    <3>2. usage[u][d].api_calls + cut[u][d] + Cardinality(Upserting(u, d)) = OnDate(tracked[u], d)
      BY <2>1, DayDef
    <3>3. /\ OnDate(tracked[u], d) <= Calls(u)
          /\ OnDate(tracked[u], d) \in Nat /\ Calls(u) \in Nat
      <4>1. RowsOf(tracked[u], {t \in Time : Date(t) = d}) \in SUBSET RowsOf(tracked[u], Time)
        BY RowsOfSubset
      <4> QED BY <2>1, <4>1, FS_Subset, FS_CardinalityType DEF CallsBound, OnDate, Calls
    <3>4. Calls(u) + Cardinality(Inserting(u)) <= MaxCalls
      BY <2>1 DEF CallsBound
    <3>5. Cardinality(Upserting(u, d)) \in Nat /\ Cardinality(Inserting(u)) \in Nat
      BY <2>1, ConnSets
    <3>6. usage[u][d].api_calls \in 0..MaxCalls /\ usage[u][d].studies_created \in 0..MaxStudies
      BY <3>1, <3>2, <3>3, <3>4, <3>5, Bounds
    <3>7. ~NoRow.there
      BY DEF NoRow
    <3>8. ~usage[u][d].there => usage[u][d] = NoRow
      BY <2>1 DEF BaseOK
    <3> QED BY <3>6, <3>7, <3>8
  <2>3. \A u \in Users : userLimits[u] = NoLimits \/ userLimits[u] \in UserLimitsSets
    BY <2>1 DEF BaseOK
  <2> QED BY <2>1, <2>2, <2>3 DEF BaseOK, TypeOK
<1> QED BY <1>1, Invariance, PTL

\* However the statements of requests interleave, fail or are cut off, and
\* whatever midnight falls between them, the row of a day counts the calls
\* recorded for it but for those in between and those cut off.
THEOREM DayIsCounted == Spec => []DayCountsCalls
<1>1. IInv => DayCountsCalls
  BY DEF IInv
<1> QED BY <1>1, Invariance, PTL

\* The cleanup of any request leaves the rows every window of a check counts.
THEOREM WindowIsKept == Spec => []WindowKept
<1>1. IInv => WindowKept
  <2> SUFFICES ASSUME IInv, NEW c \in Conns, NEW window \in {Minute, Hour},
                      \A u \in Users, t \in Time : tracked[u][t] > 0 => t <= at[c] + 1
               PROVE  CountWithin(c, window) = Within(tracked[who[c]], at[c] - window)
    BY DEF WindowKept
  <2>1. who[c] \in Users /\ at[c] \in Nat /\ window \in Nat /\ window <= Hour /\ Hour \in Nat
    BY Bounds DEF IInv, BaseOK
  <2> DEFINE S == {t \in Time : t > at[c] - window}
  <2>2. ASSUME NEW t \in S PROVE rateLimits[who[c]][t] = tracked[who[c]][t]
    <3>1. t \in Nat /\ t \in Time /\ t > at[c] - window
      BY Bounds
    <3>2. ASSUME NEW v \in Users, NEW s \in Time, tracked[v][s] > 0, t < s - Hour PROVE FALSE
      <4>1. s \in Nat /\ s <= at[c] + 1
        BY <3>2, Bounds
      <4> QED BY <2>1, <3>1, <3>2, <4>1
    <3> QED BY <2>1, <3>1, <3>2 DEF IInv, Kept
  <2>3. RowsOf(rateLimits[who[c]], S) = RowsOf(tracked[who[c]], S)
    <3> HIDE DEF S
    <3> QED BY <2>2, RowsOfSame
  <2> QED BY <2>3 DEF CountWithin, Within
<1> QED BY <1>1, Invariance, PTL

=============================================================================
