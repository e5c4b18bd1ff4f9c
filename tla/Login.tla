------------------------------- MODULE Login -------------------------------
(***************************************************************************)
(* Signing in: serve.handleLogin with its two brakes, and the sessions.    *)
(*                                                                         *)
(* loginAttempts (memory, under loginAttemptsMu) holds the times of the    *)
(* failures of a client; the account's count and lock are a row of         *)
(* login_audit, which auth.LoginGuard reads and writes by single           *)
(* statements whose errors it ignores.  A request checks both brakes       *)
(* first, then the password, and records a failure in both afterwards, so  *)
(* requests overlap between any two of these steps.                        *)
(*                                                                         *)
(* Times are kept as ages and as what remains of a period; Tick is the     *)
(* clock.  All requests come from one client (one key of loginAttempts):   *)
(* clients share nothing but the accounts.                                 *)
(***************************************************************************)
EXTENDS Integers, FiniteSets, Functions

CONSTANTS
    Accounts,
    Conns,          \* login requests served at a time
    Tokens,         \* session tokens alive at a time
    RateMax,        \* LoginRateMaxAttempts
    Window,         \* LoginRateWindowSecs
    MaxFailures,    \* LoginMaxFailures
    Lockout,        \* LoginLockoutSecs
    SessTTL,        \* SessionHours
    Cap,            \* bound: counts of failures are kept up to here
    MaxFaults       \* bound: statements on login_audit that fail

ASSUME LoginAssumption ==
    /\ {RateMax, Window, MaxFailures, Lockout, SessTTL} \subseteq Nat \ {0}
    /\ Cap \in Nat /\ Cap > MaxFailures
    /\ MaxFaults \in Nat
    /\ IsFiniteSet(Conns)

VARIABLES
    attempts,   \* failures of the client still inside the window, by age
    failures,   \* login_audit.failures
    lock,       \* login_audit.locked_until - now, 0 when past
    pc, who,    \* where each request is, the account it names
    seen,       \* the count RecordFailure has read
    sessions,   \* what remains of each session in the map, 0 once expired
    faults,     \* statements that failed so far
    since,      \* history: failures recorded since the last success
    ever,       \* history: failures recorded ever
    apart,      \* history: accounts none of whose recordings overlapped or failed
    behind      \* history: recordings whose SELECT failed, or whose account's row
                \* has been written by another request since

guardVars == <<failures, lock>>
connVars  == <<pc, who, seen>>
history   == <<since, ever, apart, behind>>
vars == <<attempts, guardVars, connVars, sessions, faults, history>>

Ages == 0..(Window - 1)

\* The times in the client's list: <<a, k>> is the k-th failure of age a.
Noted == UNION {{a} \X (1..attempts[a]) : a \in Ages}
Recent == Cardinality(Noted)
Upto(n) == IF n > Cap THEN Cap ELSE n

\* The other requests between the SELECT and the INSERT of RecordFailure.
OthersWriting(c, u) == {d \in Conns \ {c} : pc[d] = "write" /\ who[d] = u}

Init ==
    /\ attempts = [a \in Ages |-> 0]
    /\ failures = [u \in Accounts |-> 0]
    /\ lock = [u \in Accounts |-> 0]
    /\ pc = [c \in Conns |-> "idle"]
    /\ who \in [Conns -> Accounts]
    /\ seen = [c \in Conns |-> 0]
    /\ sessions = << >>
    /\ faults = 0
    /\ since = failures
    /\ ever = failures
    /\ apart = Accounts
    /\ behind = {}

Goto(c, label) == pc' = [pc EXCEPT ![c] = label]

-----------------------------------------------------------------------------
\* handleLogin.

Post(c, u) ==
    /\ pc[c] = "idle"
    /\ who' = [who EXCEPT ![c] = u]
    /\ Goto(c, "rate")
    /\ UNCHANGED <<attempts, guardVars, seen, sessions, faults, history>>

\* MUTANT: one attempt too many.
RateCheckLate(c) ==
    /\ pc[c] = "rate"
    /\ Goto(c, IF Recent > RateMax THEN "idle" ELSE "guard")
    /\ UNCHANGED <<attempts, guardVars, who, seen, sessions, faults, history>>

\* One critical section: trims the list (ages beyond the window are not kept
\* here) and counts it.
RateCheck(c) ==
    /\ pc[c] = "rate"
    /\ Goto(c, IF Recent >= RateMax THEN "idle" ELSE "guard")
    /\ UNCHANGED <<attempts, guardVars, who, seen, sessions, faults, history>>

\* MUTANT: the lock is not consulted.
GuardCheckOpen(c) ==
    /\ pc[c] = "guard"
    /\ Goto(c, "verify")
    /\ UNCHANGED <<attempts, guardVars, who, seen, sessions, faults, history>>

\* LoginGuard.Check: anything but a lock found in the row lets the request on.
GuardCheck(c) ==
    /\ pc[c] = "guard"
    /\ \/ /\ Goto(c, IF lock[who[c]] > 0 THEN "idle" ELSE "verify")
          /\ UNCHANGED faults
       \/ /\ faults < MaxFaults
          /\ faults' = faults + 1
          /\ Goto(c, "verify")
    /\ UNCHANGED <<attempts, guardVars, who, seen, sessions, history>>

\* Find and CheckPassword: either answer.
Verify(c) ==
    /\ pc[c] = "verify"
    /\ \E next \in {"append", "clear"} : Goto(c, next)
    /\ UNCHANGED <<attempts, guardVars, who, seen, sessions, faults, history>>

\* The failure is noted for the client, without looking at the count again.
AppendAttempt(c) ==
    /\ pc[c] = "append"
    /\ attempts' = [attempts EXCEPT ![0] = @ + 1]
    /\ Goto(c, "select")
    /\ UNCHANGED <<guardVars, who, seen, sessions, faults, history>>

\* RecordFailure: SELECT failures.  A failing query leaves the count 0.
SelectFailures(c) ==
    LET u == who[c] IN
    /\ pc[c] = "select"
    /\ Goto(c, "write")
    /\ \/ /\ seen' = [seen EXCEPT ![c] = failures[u]]
          /\ apart' = IF OthersWriting(c, u) # {} THEN apart \ {u} ELSE apart
          /\ UNCHANGED <<faults, behind>>
       \/ /\ faults < MaxFaults
          /\ faults' = faults + 1
          /\ seen' = [seen EXCEPT ![c] = 0]
          /\ apart' = apart \ {u}
          /\ behind' = behind \union {c}
    /\ UNCHANGED <<attempts, guardVars, who, sessions, since, ever>>

\* MUTANT: locks one failure early.
LockForEarly(n) == IF n >= MaxFailures - 1 THEN Lockout ELSE 0

\* MUTANT: locks at the limit only, not beyond.
LockForOnce(n) == IF n = MaxFailures THEN Lockout ELSE 0

\* MUTANT: the lock grows with the count.
LockForGrows(n) == IF n >= MaxFailures THEN Lockout * n ELSE 0

\* RecordFailure: the row is replaced by what was read plus one.
LockFor(n) == IF n >= MaxFailures THEN Lockout ELSE 0

InsertFailure(c) ==
    LET u == who[c] IN
    /\ pc[c] = "write"
    /\ failures' = [failures EXCEPT ![u] = Upto(seen[c] + 1)]
    /\ lock' = [lock EXCEPT ![u] = LockFor(seen[c] + 1)]
    /\ since' = [since EXCEPT ![u] = Upto(@ + 1)]
    /\ ever' = [ever EXCEPT ![u] = Upto(@ + 1)]
    /\ behind' = (behind \ {c}) \union OthersWriting(c, u)
    /\ UNCHANGED <<faults, apart>>

\* An INSERT that fails is ignored, and so is the failure it would record.
InsertFails(c) ==
    /\ pc[c] = "write"
    /\ faults < MaxFaults
    /\ faults' = faults + 1
    /\ apart' = apart \ {who[c]}
    /\ behind' = behind \ {c}
    /\ UNCHANGED <<guardVars, since, ever>>

RecordFailure(c) ==
    /\ InsertFailure(c) \/ InsertFails(c)
    /\ seen' = [seen EXCEPT ![c] = 0]
    /\ Goto(c, "idle")
    /\ UNCHANGED <<attempts, who, sessions>>

\* MUTANT: lifts the lock and keeps the count.
RecordSuccessKeepsCount(c) ==
    LET u == who[c] IN
    /\ pc[c] = "clear"
    /\ Goto(c, "session")
    /\ lock' = [lock EXCEPT ![u] = 0]
    /\ since' = [since EXCEPT ![u] = 0]
    /\ UNCHANGED <<attempts, failures, who, seen, sessions, faults, ever, apart, behind>>

\* RecordSuccess: one statement; its failure is ignored too.
RecordSuccess(c) ==
    LET u == who[c] IN
    /\ pc[c] = "clear"
    /\ Goto(c, "session")
    /\ \/ /\ failures' = [failures EXCEPT ![u] = 0]
          /\ lock' = [lock EXCEPT ![u] = 0]
          /\ since' = [since EXCEPT ![u] = 0]
          /\ apart' = IF OthersWriting(c, u) # {} THEN apart \ {u} ELSE apart \union {u}
          /\ behind' = behind \union OthersWriting(c, u)
          /\ UNCHANGED faults
       \/ /\ faults < MaxFaults
          /\ faults' = faults + 1
          /\ apart' = apart \ {u}
          /\ UNCHANGED <<failures, lock, since, behind>>
    /\ UNCHANGED <<attempts, who, seen, sessions, ever>>

-----------------------------------------------------------------------------
\* sessionStore: a map under one mutex.

Free == Tokens \ DOMAIN sessions
Alive(t) == t \in DOMAIN sessions /\ sessions[t] > 0

Put(t) == sessions' = [s \in DOMAIN sessions \union {t} |->
                          IF s = t THEN SessTTL ELSE sessions[s]]
Drop(t) == sessions' = Restrict(sessions, DOMAIN sessions \ {t})

\* create, the last step of a login.
OpenSession(c) ==
    /\ pc[c] = "session"
    /\ \E t \in Free : Put(t)
    /\ Goto(c, "idle")
    /\ UNCHANGED <<attempts, guardVars, who, seen, faults, history>>

\* handleSignup ends in a session as well and passes neither brake.
Signup ==
    /\ \E t \in Free : Put(t)
    /\ UNCHANGED <<attempts, guardVars, connVars, faults, history>>

\* handleLogout.
Logout(t) ==
    /\ t \in DOMAIN sessions
    /\ Drop(t)
    /\ UNCHANGED <<attempts, guardVars, connVars, faults, history>>

\* MUTANT: a use prolongs the session.
GetSlides(t) == IF Alive(t) THEN Put(t) ELSE Drop(t)

\* get: a use does not prolong a session, and removes an expired one.
Get(t) == IF Alive(t) THEN UNCHANGED sessions ELSE Drop(t)

\* A request with the cookie t, to the dashboard (sessionUser, identify and
\* requireUser), to the API (requireAuth, when there is no valid bearer token)
\* or to the admin panel (requireAdmin).  The first step of each is get; the
\* account is looked up afterwards, and a request refused because it is gone
\* or disabled has changed nothing else.
UseSession(t) ==
    /\ t \in DOMAIN sessions
    /\ Get(t)
    /\ UNCHANGED <<attempts, guardVars, connVars, faults, history>>

-----------------------------------------------------------------------------
Less(n) == IF n = 0 THEN 0 ELSE n - 1

Tick ==
    /\ attempts' = [a \in Ages |-> IF a = 0 THEN 0 ELSE attempts[a - 1]]
    /\ lock' = [u \in Accounts |-> Less(lock[u])]
    /\ sessions' = [t \in DOMAIN sessions |-> Less(sessions[t])]
    /\ UNCHANGED <<failures, connVars, faults, history>>

\* The process ends and starts again: only login_audit is kept.
Restart ==
    /\ attempts' = [a \in Ages |-> 0]
    /\ pc' = [c \in Conns |-> "idle"]
    /\ seen' = [c \in Conns |-> 0]
    /\ sessions' = << >>
    /\ behind' = {}
    /\ UNCHANGED <<guardVars, who, faults, since, ever, apart>>

LoginStep(c) ==
    \/ RateCheck(c) \/ GuardCheck(c) \/ Verify(c)
    \/ AppendAttempt(c) \/ SelectFailures(c) \/ RecordFailure(c)
    \/ RecordSuccess(c) \/ OpenSession(c)

Next ==
    \/ \E c \in Conns : (\E u \in Accounts : Post(c, u)) \/ LoginStep(c)
    \/ \E t \in Tokens : Logout(t) \/ UseSession(t)
    \/ Signup
    \/ Tick
    \/ Restart

\* The clock goes on, and a request being served is answered.
Fairness == WF_vars(Tick) /\ \A c \in Conns : WF_vars(LoginStep(c))

Spec == Init /\ [][Next]_vars /\ Fairness

-----------------------------------------------------------------------------
PCs == {"idle", "rate", "guard", "verify", "append", "select", "write", "clear", "session"}

\* Counts and periods within their bounds, one place per request.
TypeOK ==
    /\ attempts \in [Ages -> Nat]
    /\ failures \in [Accounts -> 0..Cap]
    /\ lock \in [Accounts -> 0..Lockout]
    /\ pc \in [Conns -> PCs]
    /\ who \in [Conns -> Accounts]
    /\ seen \in [Conns -> 0..Cap]
    /\ DOMAIN sessions \subseteq Tokens
    /\ \A t \in DOMAIN sessions : sessions[t] \in 0..SessTTL
    /\ faults \in 0..MaxFaults
    /\ since \in [Accounts -> 0..Cap]
    /\ ever \in [Accounts -> 0..Cap]
    /\ apart \subseteq Accounts
    /\ behind \subseteq Conns

\* The row of login_audit counts the failures since the last success, and is
\* locked only with enough of them, as long as no two recordings of the
\* account overlapped and none failed (RecordFailure reads and writes in two
\* statements, RecordSuccess in one).
AloneIsExact ==
    \A u \in apart :
        /\ failures[u] = since[u]
        /\ lock[u] > 0 => since[u] >= MaxFailures

\* However recordings overlap, fail or are cut off by a restart, an account is
\* locked only if as many failures as the limit have been recorded for it.
LockHasCause == \A u \in Accounts : lock[u] > 0 => ever[u] >= MaxFailures

\* handleLogin counts the client's failures before it checks the password and
\* adds its own afterwards: the limit is exceeded by at most the requests
\* that were past the check together.
RateBound == Recent <= RateMax + Cardinality(Conns) - 1

\* Before it has run out, a lock is taken away from an account by a success, or
\* by a failure whose own recording writes over a row it has not seen: its SELECT
\* failed, or the row was written between its SELECT and its INSERT.  A failure
\* that has read the locked row renews the lock.
StaysLocked ==
    [][\A u \in Accounts : lock[u] > 1 /\ lock'[u] = 0 =>
          \/ since'[u] = 0
          \/ \E c \in behind : who[c] = u /\ pc[c] = "write" /\ pc'[c] = "idle"]_vars

\* A lock comes to an end: while it lasts Check refuses whoever could renew
\* it, so the requests that were past Check are the last to do so.
LockEnds == \A u \in Accounts : []<>(lock[u] = 0)

\* A session ends, however often it is used and without a logout, unless its
\* token is given out anew.
SessionEnds == \A t \in Tokens : []<>(~Alive(t))

=============================================================================
