---------------------------- MODULE LoginProofs ----------------------------
(***************************************************************************)
(* Proofs about signing in, for every set of accounts, requests and        *)
(* tokens and every setting of the limits.                                 *)
(***************************************************************************)
EXTENDS Login, TLAPS, FiniteSetTheorems

\* Requests that have passed the client's brake and may still add to its list.
Past == {c \in Conns : pc[c] \in {"guard", "verify", "append"}}

\* The limit is exceeded by less than one failure for each request; the ones
\* past the check are counted before they fail.
RateInv ==
    /\ IsFiniteSet(Noted)
    /\ Recent + Cardinality(Past) <= RateMax + Cardinality(Conns) - 1

Writing(c, u) == pc[c] = "write" /\ who[c] = u

\* While recordings of u do not overlap, at most one request is between the two
\* statements of RecordFailure, and what it has read is the row.
AloneInv ==
    \A u \in apart :
        /\ \A c \in Conns : Writing(c, u) => seen[c] = failures[u]
        /\ \A c, d \in Conns : Writing(c, u) /\ Writing(d, u) => c = d

\* Neither the row nor what a request has read of it is above the failures
\* ever recorded.
CauseInv ==
    /\ \A u \in Accounts : failures[u] <= ever[u]
    /\ \A c \in Conns : pc[c] = "write" => seen[c] <= ever[who[c]]

\* A request between the two statements that is not behind has read the row as
\* it is, and a locked row counts enough failures.
RowInv ==
    /\ \A c \in Conns \ behind : pc[c] = "write" => seen[c] = failures[who[c]]
    /\ \A u \in Accounts : lock[u] > 0 => failures[u] >= MaxFailures

IInv ==
    /\ TypeOK
    /\ RateInv
    /\ RowInv
    /\ AloneInv /\ AloneIsExact
    /\ CauseInv /\ LockHasCause

-----------------------------------------------------------------------------
LEMMA Limits ==
    /\ RateMax \in Nat /\ RateMax >= 1
    /\ Window \in Nat /\ Window >= 1
    /\ MaxFailures \in Nat /\ MaxFailures >= 1
    /\ Lockout \in Nat /\ Lockout >= 1
    /\ SessTTL \in Nat /\ SessTTL >= 1
    /\ Cap \in Nat /\ Cap > MaxFailures
    /\ MaxFaults \in Nat
    /\ IsFiniteSet(Conns)
    /\ 0 \in Ages
BY LoginAssumption DEF Ages

\* The bound on the counts does not hide the limit.
LEMMA UptoFacts ==
    ASSUME NEW n \in Nat
    PROVE  /\ Upto(n) \in 0..Cap
           /\ Upto(n) <= n
           /\ n >= MaxFailures <=> Upto(n) >= MaxFailures
           /\ \A m \in Nat : m <= n => Upto(m) <= Upto(n)
BY Limits DEF Upto

\* A step that changes nothing.
LEMMA Stutter == IInv /\ UNCHANGED vars => IInv'
<1> SUFFICES ASSUME IInv, UNCHANGED vars
             PROVE  IInv'
  OBVIOUS
<1>1. TypeOK'
  BY DEF IInv, TypeOK, vars, guardVars, connVars, history
<1>2. RateInv'
  BY DEF IInv, RateInv, Noted, Recent, Past, vars, guardVars, connVars, history
<1>3. AloneInv' /\ AloneIsExact'
  BY DEF IInv, AloneInv, AloneIsExact, Writing, vars, guardVars, connVars, history
<1>4. CauseInv' /\ LockHasCause'
  BY DEF IInv, CauseInv, LockHasCause, vars, guardVars, connVars, history
<1>5. RowInv'
  BY DEF IInv, RowInv, vars, guardVars, connVars, history
<1> QED BY <1>1, <1>2, <1>3, <1>4, <1>5 DEF IInv

LEMMA InitType == Init => TypeOK
<1> SUFFICES ASSUME Init PROVE TypeOK
  OBVIOUS
<1>1. DOMAIN sessions = {}
  BY DEF Init
<1> QED BY <1>1, Limits DEF Init, TypeOK, PCs

-----------------------------------------------------------------------------
\* What a step does to the sessions keeps their type.

SessOK(s) == DOMAIN s \subseteq Tokens /\ \A t \in DOMAIN s : s[t] \in 0..SessTTL

LEMMA PutOK ==
    ASSUME SessOK(sessions), NEW t \in Tokens, Put(t)
    PROVE  SessOK(sessions')
BY Limits DEF Put, SessOK

LEMMA DropOK ==
    ASSUME SessOK(sessions), NEW t, Drop(t)
    PROVE  SessOK(sessions')
BY DEF Drop, SessOK, Restrict

LEMMA GetOK ==
    ASSUME SessOK(sessions), NEW t \in Tokens, Get(t)
    PROVE  SessOK(sessions')
<1>1. CASE Alive(t)
  BY <1>1 DEF Get, SessOK
<1>2. CASE ~Alive(t)
  BY <1>2, DropOK DEF Get
<1> QED BY <1>1, <1>2

\* Every step keeps the type.
LEMMA TypeStep == TypeOK /\ Next => TypeOK'
<1> SUFFICES ASSUME TypeOK, Next PROVE TypeOK'
  OBVIOUS
<1> USE Limits DEF guardVars, connVars, history
<1>0. SessOK(sessions)
  BY DEF SessOK, TypeOK
<1>1. ASSUME NEW c \in Conns, NEW u \in Accounts, Post(c, u) PROVE TypeOK'
  BY <1>1 DEF Post, Goto, TypeOK, PCs
<1>2. ASSUME NEW c \in Conns, RateCheck(c) PROVE TypeOK'
  BY <1>2 DEF RateCheck, Goto, TypeOK, PCs
<1>3. ASSUME NEW c \in Conns, GuardCheck(c) PROVE TypeOK'
  BY <1>3 DEF GuardCheck, Goto, TypeOK, PCs
<1>4. ASSUME NEW c \in Conns, Verify(c) PROVE TypeOK'
  BY <1>4 DEF Verify, Goto, TypeOK, PCs
<1>5. ASSUME NEW c \in Conns, AppendAttempt(c) PROVE TypeOK'
  BY <1>5 DEF AppendAttempt, Goto, TypeOK, PCs
<1>6. ASSUME NEW c \in Conns, SelectFailures(c) PROVE TypeOK'
  BY <1>6 DEF SelectFailures, Goto, TypeOK, PCs
<1>7. ASSUME NEW c \in Conns, RecordFailure(c) PROVE TypeOK'
  <2>1. /\ who[c] \in Accounts /\ seen[c] \in 0..Cap
        /\ Upto(seen[c] + 1) \in 0..Cap
        /\ LockFor(seen[c] + 1) \in 0..Lockout
        /\ \A u \in Accounts : Upto(since[u] + 1) \in 0..Cap /\ Upto(ever[u] + 1) \in 0..Cap
    BY UptoFacts DEF TypeOK, LockFor
  <2>2. CASE InsertFailure(c)
    BY <1>7, <2>1, <2>2 DEF RecordFailure, InsertFailure, OthersWriting, Goto, TypeOK, PCs
  <2>3. CASE InsertFails(c)
    BY <1>7, <2>1, <2>3 DEF RecordFailure, InsertFails, Goto, TypeOK, PCs
  <2> QED BY <1>7, <2>2, <2>3 DEF RecordFailure
<1>8. ASSUME NEW c \in Conns, RecordSuccess(c) PROVE TypeOK'
  BY <1>8 DEF RecordSuccess, OthersWriting, Goto, TypeOK, PCs
<1>9. ASSUME NEW c \in Conns, OpenSession(c) PROVE TypeOK'
  <2>1. SessOK(sessions')
    BY <1>0, <1>9, PutOK DEF OpenSession, Free
  <2> QED BY <1>9, <2>1 DEF OpenSession, Goto, TypeOK, PCs, SessOK
<1>10. ASSUME NEW t \in Tokens, Logout(t) \/ UseSession(t)
       PROVE  TypeOK'
  <2>1. SessOK(sessions')
    BY <1>0, <1>10, DropOK, GetOK DEF Logout, UseSession
  <2> QED BY <1>10, <2>1 DEF Logout, UseSession, TypeOK, SessOK
<1>11. CASE Signup
  <2>1. SessOK(sessions')
    BY <1>0, <1>11, PutOK DEF Signup, Free
  <2> QED BY <1>11, <2>1 DEF Signup, TypeOK, SessOK
<1>12. CASE Tick
  <2>1. SessOK(sessions')
    BY <1>0, <1>12 DEF Tick, SessOK, Less
  <2>2. attempts' \in [Ages -> Nat]
    BY <1>12 DEF Tick, Ages, TypeOK
  <2>3. lock' \in [Accounts -> 0..Lockout]
    BY <1>12 DEF Tick, Less, TypeOK
  <2> QED BY <1>12, <2>1, <2>2, <2>3 DEF Tick, TypeOK, SessOK
<1>13. CASE Restart
  <2>1. DOMAIN sessions' = {}
    BY <1>13 DEF Restart
  <2> QED BY <1>13, <2>1 DEF Restart, TypeOK, PCs
<1> QED BY <1>1, <1>2, <1>3, <1>4, <1>5, <1>6, <1>7, <1>8, <1>9, <1>10, <1>11,
           <1>12, <1>13 DEF Next, LoginStep
-----------------------------------------------------------------------------
\* The client's list of failures, for a given function of counts by age.
Points(f) == UNION {{a} \X (1..f[a]) : a \in Ages}

LEMMA PointsDef ==
    ASSUME NEW f
    PROVE  \A p : p \in Points(f) <=> \E a \in Ages : \E k \in 1..f[a] : p = <<a, k>>
BY DEF Points

LEMMA NoPoints == Points([a \in Ages |-> 0]) = {}
BY PointsDef

\* AppendAttempt adds one time to the list.
LEMMA PointsAppend ==
    ASSUME NEW f \in [Ages -> Nat]
    PROVE  Points([f EXCEPT ![0] = @ + 1]) = Points(f) \cup {<<0, f[0] + 1>>}
<1> DEFINE g == [f EXCEPT ![0] = @ + 1]
<1>1. 0 \in Ages /\ g[0] = f[0] + 1 /\ f[0] \in Nat
  BY Limits
<1>2. \A a \in Ages \ {0} : g[a] = f[a]
  OBVIOUS
<1>3. \A k : k \in 1..g[0] <=> k \in 1..f[0] \/ k = f[0] + 1
  BY <1>1
<1> HIDE DEF g
<1>4. ASSUME NEW p PROVE p \in Points(g) <=> p \in Points(f) \/ p = <<0, f[0] + 1>>
  <2>1. ASSUME NEW a \in Ages
        PROVE  (\E k \in 1..g[a] : p = <<a, k>>)
                 <=> (\E k \in 1..f[a] : p = <<a, k>>) \/ (a = 0 /\ p = <<0, f[0] + 1>>)
    BY <1>2, <1>3
  <2> QED BY <1>1, <2>1, PointsDef
<1> QED BY <1>4 DEF g

\* The clock takes times out of the list and adds none.
LEMMA PointsTick ==
    ASSUME NEW f \in [Ages -> Nat], IsFiniteSet(Points(f))
    PROVE  LET g == [a \in Ages |-> IF a = 0 THEN 0 ELSE f[a - 1]]
           IN  /\ IsFiniteSet(Points(g))
               /\ Cardinality(Points(g)) <= Cardinality(Points(f))
<1> DEFINE g == [a \in Ages |-> IF a = 0 THEN 0 ELSE f[a - 1]]
           shift == [p \in Points(g) |-> <<p[1] - 1, p[2]>>]
<1>1. ASSUME NEW p \in Points(g)
      PROVE  /\ p[1] \in Int /\ p = <<p[1], p[2]>>
             /\ <<p[1] - 1, p[2]>> \in Points(f)
  <2>1. PICK a \in Ages : \E k \in 1..g[a] : p = <<a, k>>
    BY PointsDef
  <2>0. PICK k \in 1..g[a] : p = <<a, k>>
    BY <2>1
  <2>2. a # 0 /\ a - 1 \in Ages /\ k \in 1..f[a - 1] /\ a \in Int
    BY <2>0, Limits DEF Ages
  <2>3. p[1] = a /\ p[2] = k
    BY <2>0
  <2> QED BY <2>0, <2>2, <2>3, PointsDef
<1> HIDE DEF g
<1>2. shift \in [Points(g) -> Points(f)]
  BY <1>1
<1>3. ASSUME NEW p \in Points(g), NEW q \in Points(g), shift[p] = shift[q]
      PROVE  p = q
  <2>0. shift[p] = <<p[1] - 1, p[2]>> /\ shift[q] = <<q[1] - 1, q[2]>>
    BY Zenon
  <2>1. p[1] - 1 = q[1] - 1 /\ p[2] = q[2]
    BY <1>1, <1>3, <2>0
  <2>3. p[1] \in Int /\ q[1] \in Int
    BY <1>1
  <2>2. p[1] = q[1]
    <3> HIDE DEF shift
    <3> QED BY <2>1, <2>3
  <2> QED BY <1>1, <2>1, <2>2
<1>4. shift \in Injection(Points(g), Points(f))
  <2> HIDE DEF shift
  <2> QED BY <1>2, <1>3 DEF Injection, IsInjective
<1> QED BY <1>4, FS_Injection DEF g

-----------------------------------------------------------------------------
LEMMA NotedIsPoints == Noted = Points(attempts) /\ Noted' = Points(attempts')
BY DEF Noted, Points

LEMMA PastFacts ==
    ASSUME TypeOK
    PROVE  /\ IsFiniteSet(Past) /\ Cardinality(Past) \in Nat
           /\ Cardinality(Past) <= Cardinality(Conns)
           /\ Cardinality(Conns) \in Nat
<1>1. Past \in SUBSET Conns
  BY DEF Past
<1> QED BY <1>1, Limits, FS_Subset, FS_CardinalityType

\* No request passes the brake and the list does not grow.
LEMMA RateKept ==
    ASSUME TypeOK, TypeOK', RateInv, IsFiniteSet(Noted'),
           Cardinality(Noted') <= Cardinality(Noted), Past' \subseteq Past
    PROVE  RateInv'
<1>1. /\ Cardinality(Past) \in Nat /\ Cardinality(Past') \in Nat
      /\ Cardinality(Conns) \in Nat
      /\ Cardinality(Past') <= Cardinality(Past)
  <2>1. IsFiniteSet(Past) /\ Past' \in SUBSET Past
    BY PastFacts
  <2> QED BY <2>1, PastFacts, FS_Subset, FS_CardinalityType
<1>2. Cardinality(Noted) \in Nat /\ Cardinality(Noted') \in Nat
  BY FS_CardinalityType DEF RateInv
<1> QED BY <1>1, <1>2, Limits DEF RateInv, Recent

LEMMA RateStep == TypeOK /\ TypeOK' /\ RateInv /\ Next => RateInv'
<1> SUFFICES ASSUME TypeOK, TypeOK', RateInv, Next PROVE RateInv'
  OBVIOUS
<1>0. /\ IsFiniteSet(Noted) /\ Cardinality(Noted) \in Nat
      /\ Cardinality(Conns) \in Nat
      /\ Cardinality(Past) \in Nat /\ IsFiniteSet(Past)
      /\ Recent + Cardinality(Past) <= RateMax + Cardinality(Conns) - 1
  BY PastFacts, FS_CardinalityType DEF RateInv
<1>1. ASSUME UNCHANGED attempts, Past' \subseteq Past PROVE RateInv'
  <2>1. Noted' = Noted
    BY <1>1, NotedIsPoints
  <2> QED BY <1>0, <1>1, <2>1, RateKept
<1>2. ASSUME NEW c \in Conns, NEW u \in Accounts, Post(c, u) PROVE RateInv'
  BY <1>1, <1>2 DEF Post, Goto, Past, TypeOK
<1>3. ASSUME NEW c \in Conns, RateCheck(c) PROVE RateInv'
  <2>1. CASE Recent >= RateMax
    BY <1>1, <1>3, <2>1 DEF RateCheck, Goto, Past, TypeOK
  <2>2. CASE ~(Recent >= RateMax)
    <3>1. Noted' = Noted
      BY <1>3, NotedIsPoints DEF RateCheck
    <3>2. /\ Past' \in SUBSET Conns
          /\ Cardinality(Past') \in Nat /\ Cardinality(Past') <= Cardinality(Conns)
      <4>1. Past' \in SUBSET Conns
        BY DEF Past
      <4> QED BY <4>1, Limits, FS_Subset, FS_CardinalityType
    <3> QED BY <1>0, <2>2, <3>1, <3>2, Limits DEF RateInv, Recent
  <2> QED BY <2>1, <2>2
<1>4. ASSUME NEW c \in Conns, GuardCheck(c) PROVE RateInv'
  BY <1>1, <1>4 DEF GuardCheck, Goto, Past, TypeOK
<1>5. ASSUME NEW c \in Conns, Verify(c) PROVE RateInv'
  BY <1>1, <1>5 DEF Verify, Goto, Past, TypeOK
<1>6. ASSUME NEW c \in Conns, AppendAttempt(c) PROVE RateInv'
  <2>1. Noted' = Noted \cup {<<0, attempts[0] + 1>>}
    BY <1>6, NotedIsPoints, PointsAppend DEF AppendAttempt, TypeOK
  <2>2. /\ IsFiniteSet(Noted') /\ Cardinality(Noted') \in Nat
        /\ Cardinality(Noted') <= Cardinality(Noted) + 1
    <3>1. IsFiniteSet(Noted') /\ (Cardinality(Noted') = Cardinality(Noted)
                                   \/ Cardinality(Noted') = Cardinality(Noted) + 1)
      BY <1>0, <2>1, FS_AddElement
    <3> QED BY <1>0, <3>1
  <2>3. c \in Past /\ Past' = Past \ {c}
    BY <1>6 DEF AppendAttempt, Goto, Past, TypeOK
  <2>4. Cardinality(Past') = Cardinality(Past) - 1
    BY <1>0, <2>3, FS_RemoveElement
  <2> QED BY <1>0, <2>2, <2>4, Limits DEF RateInv, Recent
<1>7. ASSUME NEW c \in Conns, SelectFailures(c) PROVE RateInv'
  BY <1>1, <1>7 DEF SelectFailures, Goto, Past, TypeOK
<1>8. ASSUME NEW c \in Conns, RecordFailure(c) PROVE RateInv'
  BY <1>1, <1>8 DEF RecordFailure, Goto, Past, TypeOK
<1>9. ASSUME NEW c \in Conns, RecordSuccess(c) PROVE RateInv'
  BY <1>1, <1>9 DEF RecordSuccess, Goto, Past, TypeOK
<1>10. ASSUME NEW c \in Conns, OpenSession(c) PROVE RateInv'
  BY <1>1, <1>10 DEF OpenSession, Goto, Past, TypeOK
<1>11. ASSUME NEW t \in Tokens, Logout(t) \/ UseSession(t)
       PROVE  RateInv'
  BY <1>1, <1>11 DEF Logout, UseSession, connVars, Past
<1>12. CASE Signup
  BY <1>1, <1>12 DEF Signup, connVars, Past
<1>13. CASE Tick
  <2>1. IsFiniteSet(Noted') /\ Cardinality(Noted') <= Cardinality(Noted)
    BY <1>0, <1>13, NotedIsPoints, PointsTick DEF Tick, TypeOK
  <2>2. Past' = Past
    BY <1>13 DEF Tick, connVars, Past
  <2> QED BY <2>1, <2>2, RateKept
<1>14. CASE Restart
  <2>1. Noted' = {} /\ Past' = {}
    BY <1>14, NotedIsPoints, NoPoints DEF Restart, Past
  <2> QED BY <1>0, <2>1, FS_EmptySet, Limits DEF RateInv, Recent
<1> QED BY <1>2, <1>3, <1>4, <1>5, <1>6, <1>7, <1>8, <1>9, <1>10, <1>11,
           <1>12, <1>13, <1>14 DEF Next, LoginStep

-----------------------------------------------------------------------------
\* What a step of anything but a recording leaves alone: the rows, and the
\* requests between the two statements.
Quiet ==
    /\ UNCHANGED <<failures, since, ever, apart>>
    /\ behind' \in {behind, {}}
    /\ \A u \in Accounts : lock'[u] > 0 => lock[u] > 0
    /\ \A c \in Conns : pc'[c] = "write" =>
          pc[c] = "write" /\ who'[c] = who[c] /\ seen'[c] = seen[c] /\ behind' = behind

LEMMA QuietKeeps ==
    ASSUME TypeOK, Quiet, AloneInv, AloneIsExact, CauseInv, LockHasCause, RowInv
    PROVE  AloneInv' /\ AloneIsExact' /\ CauseInv' /\ LockHasCause' /\ RowInv'
<1>1. AloneInv'
  BY DEF Quiet, AloneInv, Writing
<1>2. AloneIsExact'
  BY DEF Quiet, AloneIsExact, TypeOK
<1>3. CauseInv'
  BY DEF Quiet, CauseInv
<1>4. LockHasCause'
  BY DEF Quiet, LockHasCause
<1>5. RowInv'
  BY DEF Quiet, RowInv
<1> QED BY <1>1, <1>2, <1>3, <1>4, <1>5

\* Every step but the two statements of RecordFailure and RecordSuccess is
\* quiet.
LEMMA QuietSteps ==
    ASSUME TypeOK, Next
    PROVE  \/ Quiet
           \/ \E c \in Conns : SelectFailures(c) \/ RecordFailure(c) \/ RecordSuccess(c)
<1> USE DEF guardVars, connVars, history
<1>1. ASSUME NEW c \in Conns, NEW u \in Accounts, Post(c, u) PROVE Quiet
  BY <1>1 DEF Post, Goto, TypeOK, Quiet
<1>2. ASSUME NEW c \in Conns, RateCheck(c) PROVE Quiet
  BY <1>2 DEF RateCheck, Goto, TypeOK, Quiet
<1>3. ASSUME NEW c \in Conns, GuardCheck(c) PROVE Quiet
  BY <1>3 DEF GuardCheck, Goto, TypeOK, Quiet
<1>4. ASSUME NEW c \in Conns, Verify(c) PROVE Quiet
  BY <1>4 DEF Verify, Goto, TypeOK, Quiet
<1>5. ASSUME NEW c \in Conns, AppendAttempt(c) PROVE Quiet
  BY <1>5 DEF AppendAttempt, Goto, TypeOK, Quiet
<1>6. ASSUME NEW c \in Conns, OpenSession(c) PROVE Quiet
  BY <1>6 DEF OpenSession, Goto, TypeOK, Quiet
<1>7. ASSUME NEW t \in Tokens, Logout(t) \/ UseSession(t)
      PROVE  Quiet
  BY <1>7 DEF Logout, UseSession, Quiet
<1>8. CASE Signup
  BY <1>8 DEF Signup, Quiet
<1>9. CASE Tick
  BY <1>9 DEF Tick, Less, TypeOK, Quiet
<1>10. CASE Restart
  BY <1>10 DEF Restart, Quiet
<1> QED BY <1>1, <1>2, <1>3, <1>4, <1>5, <1>6, <1>7, <1>8, <1>9, <1>10 DEF Next, LoginStep

LEMMA SelectKeeps ==
    ASSUME TypeOK, AloneInv, AloneIsExact, CauseInv, LockHasCause,
           NEW c \in Conns, SelectFailures(c)
    PROVE  AloneInv' /\ AloneIsExact' /\ CauseInv' /\ LockHasCause'
<1> DEFINE u == who[c]
<1> USE DEF guardVars
<1>1. /\ u \in Accounts
      /\ UNCHANGED <<failures, lock, since, ever, who>>
      /\ pc' = [pc EXCEPT ![c] = "write"]
      /\ pc[c] = "select"
      /\ apart' \subseteq apart
      /\ \A d \in Conns \ {c} : pc'[d] = pc[d] /\ seen'[d] = seen[d]
      /\ pc'[c] = "write"
  BY DEF SelectFailures, Goto, TypeOK
<1>2. seen'[c] = failures[u] \/ seen'[c] = 0
  BY DEF SelectFailures, TypeOK
<1>3. u \in apart' => /\ seen'[c] = failures[u]
                      /\ \A d \in Conns \ {c} : ~Writing(d, u)
  BY DEF SelectFailures, TypeOK, OthersWriting, Writing
<1> HIDE DEF u
<1>4. \A d \in Conns : \A v \in Accounts :
         Writing(d, v)' => (d # c /\ Writing(d, v)) \/ (d = c /\ v = u)
  BY <1>1 DEF Writing, u
<1>5. AloneInv'
  <2> SUFFICES ASSUME NEW v \in apart'
               PROVE  /\ \A d \in Conns : Writing(d, v)' => seen'[d] = failures'[v]
                      /\ \A d, e \in Conns : Writing(d, v)' /\ Writing(e, v)' => d = e
    BY DEF AloneInv
  <2>1. v \in apart /\ v \in Accounts
    BY <1>1 DEF TypeOK
  <2>2. /\ \A d \in Conns : Writing(d, v) => seen[d] = failures[v]
        /\ \A d, e \in Conns : Writing(d, v) /\ Writing(e, v) => d = e
    BY <2>1 DEF AloneInv
  <2> HIDE DEF SelectFailures
  <2> QED BY <1>1, <1>3, <1>4, <2>1, <2>2
<1>6. AloneIsExact' /\ LockHasCause'
  BY <1>1 DEF AloneIsExact, LockHasCause
<1>7. CauseInv'
  <2>1. failures[u] \in Nat /\ ever[u] \in Nat /\ failures[u] <= ever[u]
    BY <1>1, Limits DEF TypeOK, CauseInv
  <2>2. seen'[c] <= ever'[who'[c]]
    BY <1>1, <1>2, <2>1 DEF u
  <2> QED BY <1>1, <2>2 DEF CauseInv
<1> QED BY <1>5, <1>6, <1>7

LEMMA SuccessKeeps ==
    ASSUME TypeOK, AloneInv, AloneIsExact, CauseInv, LockHasCause,
           NEW c \in Conns, RecordSuccess(c)
    PROVE  AloneInv' /\ AloneIsExact' /\ CauseInv' /\ LockHasCause'
<1> DEFINE u == who[c]
<1>1. /\ u \in Accounts
      /\ UNCHANGED <<who, seen, ever>>
      /\ \A d \in Conns : pc'[d] = "write" => pc[d] = "write" /\ d # c
  BY DEF RecordSuccess, Goto, TypeOK
<1>2. CASE /\ failures' = [failures EXCEPT ![u] = 0]
           /\ lock' = [lock EXCEPT ![u] = 0]
           /\ since' = [since EXCEPT ![u] = 0]
           /\ apart' = IF OthersWriting(c, u) # {} THEN apart \ {u} ELSE apart \union {u}
  <2>1. /\ failures'[u] = 0 /\ lock'[u] = 0 /\ since'[u] = 0
        /\ \A v \in Accounts \ {u} :
              failures'[v] = failures[v] /\ lock'[v] = lock[v] /\ since'[v] = since[v]
        /\ apart' \subseteq apart \cup {u}
    <3> HIDE DEF u, RecordSuccess
    <3> QED BY <1>1, <1>2 DEF TypeOK
  <2>2. u \in apart' => \A d \in Conns : ~(pc'[d] = "write" /\ who'[d] = u)
    BY <1>1, <1>2 DEF OthersWriting, Writing
  <2> HIDE DEF u
  <2>3. AloneInv'
    <3> SUFFICES ASSUME NEW v \in apart'
                 PROVE  /\ \A d \in Conns : Writing(d, v)' => seen'[d] = failures'[v]
                        /\ \A d, e \in Conns : Writing(d, v)' /\ Writing(e, v)' => d = e
      BY DEF AloneInv
    <3>1. CASE v = u
      BY <2>2, <3>1 DEF Writing
    <3>2. CASE v # u
      <4>1. v \in apart /\ v \in Accounts
        BY <2>1, <3>2 DEF TypeOK
      <4> QED BY <1>1, <2>1, <3>2, <4>1 DEF AloneInv, Writing
    <3> QED BY <3>1, <3>2
  <2>4. AloneIsExact'
    BY <1>1, <2>1 DEF AloneIsExact, TypeOK
  <2>5. CauseInv' /\ LockHasCause'
    BY <1>1, <2>1, Limits DEF CauseInv, LockHasCause, TypeOK
  <2> QED BY <2>3, <2>4, <2>5
<1>3. CASE UNCHANGED <<failures, lock, since>> /\ apart' \subseteq apart
  BY <1>1, <1>3 DEF AloneInv, AloneIsExact, CauseInv, LockHasCause, Writing
<1> QED BY <1>2, <1>3 DEF RecordSuccess

LEMMA FailureKeeps ==
    ASSUME TypeOK, AloneInv, AloneIsExact, CauseInv, LockHasCause,
           NEW c \in Conns, RecordFailure(c)
    PROVE  AloneInv' /\ AloneIsExact' /\ CauseInv' /\ LockHasCause'
<1> DEFINE u == who[c]
<1>1. /\ u \in Accounts
      /\ pc[c] = "write" /\ Writing(c, u)
      /\ UNCHANGED who
      /\ \A d \in Conns : pc'[d] = "write" => pc[d] = "write" /\ d # c /\ seen'[d] = seen[d]
  BY DEF RecordFailure, InsertFailure, InsertFails, Goto, TypeOK, Writing
<1>2. CASE InsertFailure(c)
  <2> DEFINE n == seen[c]
  <2>1. /\ failures'[u] = Upto(n + 1)
        /\ lock'[u] = LockFor(n + 1)
        /\ since'[u] = Upto(since[u] + 1)
        /\ ever'[u] = Upto(ever[u] + 1)
        /\ \A v \in Accounts \ {u} :
              /\ failures'[v] = failures[v] /\ lock'[v] = lock[v]
              /\ since'[v] = since[v] /\ ever'[v] = ever[v]
        /\ apart' = apart
    BY <1>1, <1>2 DEF InsertFailure, TypeOK
  <2>2. /\ n \in Nat /\ n <= ever[u] /\ n + 1 \in Nat
        /\ ever[u] \in 0..Cap /\ since[u] \in Nat /\ ever[u] + 1 \in Nat
        /\ u \in apart => n = failures[u] /\ failures[u] = since[u]
    BY <1>1, Limits DEF TypeOK, CauseInv, AloneInv, AloneIsExact
  <2>3. /\ Upto(n + 1) <= Upto(ever[u] + 1)
        /\ Upto(ever[u] + 1) >= ever[u]
        /\ lock'[u] > 0 => n + 1 >= MaxFailures
        /\ n + 1 >= MaxFailures => Upto(n + 1) >= MaxFailures
        /\ n + 1 >= MaxFailures => Upto(ever[u] + 1) >= MaxFailures
    <3> HIDE DEF u, n
    <3> QED BY <2>1, <2>2, Limits DEF LockFor, Upto
  <2> HIDE DEF u, n, RecordFailure
  <2>4. AloneInv'
    <3> SUFFICES ASSUME NEW v \in apart'
                 PROVE  /\ \A d \in Conns : Writing(d, v)' => seen'[d] = failures'[v]
                        /\ \A d, e \in Conns : Writing(d, v)' /\ Writing(e, v)' => d = e
      BY DEF AloneInv
    <3>0. v \in apart /\ v \in Accounts
      BY <2>1 DEF TypeOK
    <3>1. CASE v = u
      BY <1>1, <3>0, <3>1 DEF AloneInv, Writing
    <3>2. CASE v # u
      BY <1>1, <2>1, <3>0, <3>2 DEF AloneInv, Writing
    <3> QED BY <3>1, <3>2
  <2>5. AloneIsExact'
    BY <2>1, <2>2, <2>3 DEF AloneIsExact, TypeOK
  <2>6. CauseInv'
    <3>1. \A v \in Accounts : ever'[v] >= ever[v] /\ ever[v] \in Int /\ ever'[v] \in Int
      <4>1. \A v \in Accounts : ever[v] \in Int
        BY Limits DEF TypeOK
      <4>2. ever'[u] \in Int
        BY <2>1, <2>2, UptoFacts, Limits
      <4> QED BY <1>1, <2>1, <2>3, <4>1, <4>2
    <3>2. ASSUME NEW d \in Conns, pc'[d] = "write" PROVE seen'[d] <= ever'[who'[d]]
      <4>1. /\ seen'[d] = seen[d] /\ seen[d] <= ever[who[d]]
            /\ who'[d] = who[d] /\ who[d] \in Accounts /\ seen[d] \in Int
        BY <1>1, <3>2, Limits DEF CauseInv, TypeOK
      <4> QED BY <3>1, <4>1
    <3>3. \A v \in Accounts : failures'[v] <= ever'[v]
      BY <1>1, <2>1, <2>3 DEF CauseInv
    <3> QED BY <3>2, <3>3 DEF CauseInv
  <2>7. LockHasCause'
    BY <1>1, <2>1, <2>3 DEF LockHasCause
  <2> QED BY <2>4, <2>5, <2>6, <2>7
<1>3. CASE InsertFails(c)
  <2>1. UNCHANGED <<failures, lock, since, ever>> /\ apart' \subseteq apart
    BY <1>3 DEF InsertFails, guardVars
  <2> HIDE DEF u, RecordFailure
  <2> QED BY <1>1, <2>1 DEF AloneInv, AloneIsExact, CauseInv, LockHasCause, Writing
<1> QED BY <1>2, <1>3 DEF RecordFailure

\* The two statements of RecordFailure and the one of RecordSuccess leave no
\* request with an outdated count that is not behind.
LEMMA RowKeeps ==
    ASSUME TypeOK, RowInv, NEW c \in Conns,
           SelectFailures(c) \/ RecordFailure(c) \/ RecordSuccess(c)
    PROVE  RowInv'
<1> USE DEF guardVars
<1>0. PICK u \in Accounts : u = who[c]
  BY DEF TypeOK
<1>1. CASE SelectFailures(c)
  <2>1. /\ UNCHANGED <<failures, lock, who>> /\ behind \subseteq behind'
        /\ \A d \in Conns \ {c} : pc'[d] = pc[d] /\ seen'[d] = seen[d]
        /\ c \in behind' \/ seen'[c] = failures[who[c]]
    BY <1>1 DEF SelectFailures, Goto, TypeOK
  <2> QED BY <2>1 DEF RowInv
<1>2. ASSUME UNCHANGED who, behind' = (behind \ {c}) \cup OthersWriting(c, u),
             \A d \in Conns \ {c} : pc'[d] = pc[d] /\ seen'[d] = seen[d], pc'[c] # "write",
             \A v \in Accounts \ {u} : failures'[v] = failures[v] /\ lock'[v] = lock[v],
             lock'[u] > 0 => failures'[u] >= MaxFailures
      PROVE  RowInv'
  <2>1. ASSUME NEW d \in Conns \ behind', pc'[d] = "write" PROVE seen'[d] = failures'[who'[d]]
    <3>1. d # c /\ d \notin behind /\ pc[d] = "write" /\ who[d] \in Accounts \ {u}
      BY <1>2, <2>1 DEF OthersWriting, TypeOK
    <3>2. seen[d] = failures[who[d]]
      BY <3>1 DEF RowInv
    <3> QED BY <1>2, <3>1, <3>2
  <2>2. ASSUME NEW v \in Accounts, lock'[v] > 0 PROVE failures'[v] >= MaxFailures
    BY <1>2, <2>2 DEF RowInv
  <2> QED BY <2>1, <2>2 DEF RowInv
<1>3. CASE RecordFailure(c)
  <2>1. /\ UNCHANGED who /\ pc'[c] # "write"
        /\ \A d \in Conns \ {c} : pc'[d] = pc[d] /\ seen'[d] = seen[d]
    BY <1>3 DEF RecordFailure, Goto, TypeOK
  <2>2. CASE InsertFailure(c)
    <3>1. PICK n \in Nat : n = seen[c] + 1
      BY Limits DEF TypeOK
    <3>2. failures'[u] = Upto(n) /\ lock'[u] = LockFor(n)
      BY <1>0, <2>2, <3>1 DEF InsertFailure, TypeOK
    <3>3. lock'[u] > 0 => failures'[u] >= MaxFailures
      BY <3>2, UptoFacts, Limits DEF LockFor
    <3>4. /\ behind' = (behind \ {c}) \cup OthersWriting(c, u)
          /\ \A v \in Accounts \ {u} : failures'[v] = failures[v] /\ lock'[v] = lock[v]
      BY <1>0, <2>2 DEF InsertFailure, TypeOK
    <3> QED BY <1>2, <2>1, <3>3, <3>4
  <2>3. CASE InsertFails(c)
    <3>1. UNCHANGED <<failures, lock>> /\ behind' = behind \ {c}
      BY <2>3 DEF InsertFails
    <3> QED BY <2>1, <3>1 DEF RowInv
  <2> QED BY <1>3, <2>2, <2>3 DEF RecordFailure
<1>4. CASE RecordSuccess(c)
  <2>1. /\ UNCHANGED <<who, seen>> /\ pc[c] # "write" /\ pc'[c] # "write"
        /\ \A d \in Conns \ {c} : pc'[d] = pc[d]
    BY <1>4 DEF RecordSuccess, Goto, TypeOK
  <2>2. CASE UNCHANGED <<failures, lock, behind>>
    BY <2>1, <2>2 DEF RowInv
  <2>3. CASE /\ failures' = [failures EXCEPT ![u] = 0] /\ lock' = [lock EXCEPT ![u] = 0]
             /\ behind' = behind \cup OthersWriting(c, u)
    <3>1. /\ lock'[u] = 0
          /\ \A v \in Accounts \ {u} : failures'[v] = failures[v] /\ lock'[v] = lock[v]
      BY <2>3 DEF TypeOK
    <3>2. ASSUME NEW d \in Conns \ behind', pc'[d] = "write" PROVE seen'[d] = failures'[who'[d]]
      <4>1. d # c /\ d \notin behind /\ pc[d] = "write" /\ who[d] \in Accounts \ {u}
        BY <2>1, <2>3, <3>2 DEF OthersWriting, TypeOK
      <4>2. seen[d] = failures[who[d]]
        BY <4>1 DEF RowInv
      <4> QED BY <2>1, <3>1, <4>1, <4>2
    <3>3. ASSUME NEW v \in Accounts, lock'[v] > 0 PROVE failures'[v] >= MaxFailures
      BY <3>1, <3>3 DEF RowInv
    <3> QED BY <3>2, <3>3 DEF RowInv
  <2> QED BY <1>0, <1>4, <2>2, <2>3 DEF RecordSuccess
<1> QED BY <1>1, <1>3, <1>4

-----------------------------------------------------------------------------
LEMMA InitIInv == Init => IInv
<1> SUFFICES ASSUME Init PROVE IInv
  OBVIOUS
<1>1. TypeOK
  BY InitType
<1>2. RateInv
  <2>1. Noted = {} /\ Past = {}
    BY NotedIsPoints, NoPoints DEF Init, Past
  <2>2. Cardinality(Conns) \in Nat
    BY Limits, FS_CardinalityType
  <2> QED BY <2>1, <2>2, FS_EmptySet, Limits DEF RateInv, Recent
<1>3. AloneInv /\ AloneIsExact /\ CauseInv /\ LockHasCause /\ RowInv
  BY DEF Init, AloneInv, AloneIsExact, CauseInv, LockHasCause, RowInv, Writing
<1> QED BY <1>1, <1>2, <1>3 DEF IInv

LEMMA NextIInv == IInv /\ [Next]_vars => IInv'
<1> SUFFICES ASSUME IInv, Next PROVE IInv'
  BY Stutter
<1>1. TypeOK'
  BY TypeStep DEF IInv
<1>2. RateInv'
  BY <1>1, RateStep DEF IInv
<1>3. AloneInv' /\ AloneIsExact' /\ CauseInv' /\ LockHasCause' /\ RowInv'
  BY QuietKeeps, QuietSteps, SelectKeeps, FailureKeeps, SuccessKeeps, RowKeeps DEF IInv
<1> QED BY <1>1, <1>2, <1>3 DEF IInv

\* The strengthening holds: the brake of handleLogin, the row of LoginGuard and
\* the requests between their steps fit together at all times.
THEOREM Invariance == Spec => []IInv
BY InitIInv, NextIInv, PTL DEF Spec

\* Counts and remaining periods stay within their bounds.
THEOREM TypeCorrect == Spec => []TypeOK
<1>1. IInv => TypeOK
  BY DEF IInv
<1> QED BY <1>1, Invariance, PTL

\* As long as recordings of an account neither overlap nor fail, its row
\* counts its failures since the last success and is locked only with enough
\* of them.
THEOREM RowIsExact == Spec => []AloneIsExact
<1>1. IInv => AloneIsExact
  BY DEF IInv
<1> QED BY <1>1, Invariance, PTL

\* However recordings overlap, fail or are cut off, no account is locked
\* before as many failures as the limit have been recorded for it.
THEOREM NoLockWithoutCause == Spec => []LockHasCause
<1>1. IInv => LockHasCause
  BY DEF IInv
<1> QED BY <1>1, Invariance, PTL

\* Check and append are apart in handleLogin: the list of a client outgrows
\* the limit by less than the number of requests served at a time.
THEOREM RateLimited == Spec => []RateBound
<1>1. IInv => RateBound
  <2> SUFFICES ASSUME IInv PROVE RateBound
    OBVIOUS
  <2>1. Cardinality(Past) \in Nat /\ Cardinality(Conns) \in Nat /\ Recent \in Nat
    BY PastFacts, FS_CardinalityType DEF IInv, RateInv, Recent
  <2> QED BY <2>1, Limits DEF IInv, RateInv, RateBound
<1> QED BY <1>1, Invariance, PTL

\* A lock that has not run out is taken away by a success, or by a failure whose
\* SELECT failed or was overtaken by another recording; a failure that has read
\* the locked row never lifts the lock.
THEOREM LockStays == Spec => StaysLocked
<1> DEFINE Lifts(c, u) == who[c] = u /\ pc[c] = "write" /\ pc'[c] = "idle"
           Stays == \A u \in Accounts : lock[u] > 1 /\ lock'[u] = 0 =>
                      \/ since'[u] = 0
                      \/ \E c \in behind : Lifts(c, u)
<1>1. IInv /\ [Next]_vars => Stays \/ UNCHANGED vars
  <2> SUFFICES ASSUME IInv, Next,
                      NEW u \in Accounts, lock[u] > 1, lock'[u] = 0,
                      ~ \E c \in behind : Lifts(c, u)
               PROVE  since'[u] = 0
    OBVIOUS
  <2>0. TypeOK /\ RowInv
    BY DEF IInv
  <2>1. lock[u] \in Nat
    BY <2>0, Limits DEF TypeOK
  <2>2. ASSUME NEW c \in Conns, RecordSuccess(c) PROVE since'[u] = 0
    BY <2>0, <2>1, <2>2 DEF RecordSuccess, TypeOK
  <2>3. ASSUME NEW c \in Conns, RecordFailure(c) PROVE FALSE
    <3>1. InsertFailure(c) /\ Lifts(c, u)
      BY <2>0, <2>1, <2>3 DEF RecordFailure, InsertFailure, InsertFails, Goto, guardVars, TypeOK
    <3>2. failures[u] >= MaxFailures
      BY <2>0, <2>1 DEF RowInv
    <3>3. seen[c] = failures[u]
      BY <2>0, <3>1 DEF RowInv
    <3>4. lock'[u] = LockFor(seen[c] + 1)
      BY <2>0, <3>1 DEF InsertFailure, TypeOK
    <3>5. failures[u] \in Nat
      BY <2>0, Limits DEF TypeOK
    <3> HIDE DEF IInv, Lifts
    <3> QED BY <3>2, <3>3, <3>4, <3>5, Limits DEF LockFor
  <2>4. CASE Tick
    BY <2>0, <2>1, <2>4 DEF Tick, Less, TypeOK
  <2>5. CASE UNCHANGED lock
    BY <2>1, <2>5
  <2> QED BY <2>2, <2>3, <2>4, <2>5
      DEF Next, LoginStep, Post, RateCheck, GuardCheck, Verify, AppendAttempt,
          SelectFailures, OpenSession, Logout, UseSession, Signup,
          Restart, guardVars
<1> QED BY <1>1, Invariance, PTL DEF Spec, StaysLocked

=============================================================================
