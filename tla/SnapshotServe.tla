--------------------------- MODULE SnapshotServe ---------------------------
(***************************************************************************)
(* One `scanner serve` process: the dashboard's scan cache                 *)
(* (internal/serve/server.go, guarded by Server.mu), the snapshot store it *)
(* fills (internal/snapshot/snapshot.go) and the API handlers that share   *)
(* that store without the mutex (internal/api, internal/alert,             *)
(* internal/backtest).  snapshot.DB keeps ONE activeDate for the whole     *)
(* process: SetActive and Load move it, Run reads it.                      *)
(*                                                                         *)
(* The SQLite pool has one connection, so every SQL statement, and Load's  *)
(* insert transaction, is one step; what happens between two statements of *)
(* a handler interleaves with every other handler.  The snapshot table     *)
(* survives a restart, everything else does not.                           *)
(*                                                                         *)
(* A study is abstracted to the symbols its WHERE accepts on each date.    *)
(***************************************************************************)
EXTENDS Integers, Sequences, FiniteSets

CONSTANTS
    Dates,      \* days of the warehouse, as snapshot_date values
    NowTs,      \* time.Now() of a scan that saw no bar at all
    Symbols,
    Full,       \* Full[d]: symbols whose row a complete scan of day d yields
    Accepts,    \* Accepts[d]: symbols whose row of day d the study accepts
    Pages,      \* goroutines that go through Server.mu: pages and previews
    Boot,       \* the one of them that first does the initial scan
    Apis,       \* API requests
    Kinds,      \* kinds of API requests the clients send
    LoadErrors, \* can loading the bars of a symbol fail?
    Studies     \* number of studies a page runs (digest.FromStudies)

NoDate == 0
NoProc == "nobody"

AllDates == Dates \cup {NowTs}

AllKinds == {"scan", "select", "pit", "entries", "exits", "changes", "backtest"}

ASSUME ServeAssumption ==
    /\ Dates \subseteq Nat \ {0} /\ IsFiniteSet(Dates)
    /\ NowTs \in Nat \ {0} /\ NowTs \notin Dates
    /\ Full \in [Dates -> SUBSET Symbols]
    /\ Accepts \in [AllDates -> SUBSET Symbols]
    /\ Boot \in Pages /\ NoProc \notin Pages
    /\ Kinds \subseteq AllKinds
    /\ LoadErrors \in BOOLEAN
    /\ Studies \in Nat

VARIABLES
    \* the persistent snapshot table: snapshot_date -> symbols with a row
    table,
    \* snapshot.DB
    activeDate,
    \* Server: the mutex and the cache it guards
    mu,         \* the goroutine that holds s.mu, or NoProc
    cached,     \* s.cRows # nil
    cRows, cDay,
    fresh,      \* time.Since(s.cAt) < s.ttl
    \* the world around the process
    today,      \* newest bar date in the warehouse
    cancelled,  \* s.ctx is done
    \* goroutines going through the mutex
    pc,
    want,       \* is a refresh forced, and how many studies are to run
    scanned,    \* rows and day of the scan in progress: res.Rows, res.Day
    ran,        \* dates the page's studies ran on, in order
    \* API requests
    req,        \* what the request asks for
    at,         \* index of its next micro-step
    got,        \* what it has collected
    \* history: requests during which someone else moved activeDate, and
    \* during which the table changed
    disturbed, reloaded

storeVars == <<table, activeDate>>
cacheVars == <<mu, cached, cRows, cDay, fresh>>
worldVars == <<today, cancelled>>
pageVars  == <<pc, want, scanned, ran>>
apiVars   == <<req, at, got>>
historyVars == <<disturbed, reloaded>>
vars == <<storeVars, cacheVars, worldVars, pageVars, apiVars, historyVars>>

-----------------------------------------------------------------------------
(* snapshot.DB *)

\* SELECT ... WHERE snapshot_date = d AND (where)
RunAt(d) == IF d \in AllDates THEN table[d] \cap Accepts[d] ELSE {}

Exists(d) == table[d] # {}

-----------------------------------------------------------------------------
(* Goroutines that go through Server.mu: page -> modelFor, preview, and the *)
(* initial scan of Run.                                                     *)

PagePC == {"idle", "lock", "universe", "scan", "delete", "insert", "meta",
           "cache", "studies"}

NoScan == [rows |-> {}, day |-> NoDate]

\* The initial scan always refreshes and runs nothing; a page runs every
\* study and `?refresh=1` forces; a preview runs one study.
BootWant  == [force |-> TRUE, studies |-> 0]
PageWants == [force : BOOLEAN, studies : {Studies}] \cup [force : {FALSE}, studies : {1}]

Goto(p, where) == pc' = [pc EXCEPT ![p] = where]

\* Return from modelFor, preview or the initial scan: Unlock, and the goroutine
\* is free for its next request.
Leave(p) ==
    /\ mu' = NoProc
    /\ Goto(p, "idle")
    /\ want' = [want EXCEPT ![p] = BootWant]
    /\ scanned' = [scanned EXCEPT ![p] = NoScan]
    /\ ran' = [ran EXCEPT ![p] = <<>>]

PageArrives(p) ==
    /\ pc[p] = "idle"
    /\ \E wanted \in PageWants : want' = [want EXCEPT ![p] = wanted]
    /\ Goto(p, "lock")
    /\ UNCHANGED <<storeVars, cacheVars, worldVars, scanned, ran, apiVars>>

\* Mutant: the cache is tested and refreshed without taking the mutex.
PageLocksNot(p) ==
    /\ pc[p] = "lock"
    /\ mu' = p
    /\ Goto(p, IF ~cached \/ ~fresh \/ want[p].force THEN "universe" ELSE "studies")
    /\ UNCHANGED <<storeVars, cached, cRows, cDay, fresh, worldVars, want, scanned, ran, apiVars>>

\* s.mu.Lock() and the test whether to refresh.
PageLocks(p) ==
    /\ pc[p] = "lock"
    /\ mu = NoProc
    /\ mu' = p
    /\ Goto(p, IF ~cached \/ ~fresh \/ want[p].force THEN "universe" ELSE "studies")
    /\ UNCHANGED <<storeVars, cached, cRows, cDay, fresh, worldVars, want, scanned, ran, apiVars>>

\* refresh: resolveUniverse, a query under s.ctx, which may fail.
ResolveUniverse(p) ==
    /\ pc[p] = "universe"
    /\ ~cancelled
    /\ Goto(p, "scan")
    /\ UNCHANGED <<storeVars, cacheVars, worldVars, want, scanned, ran, apiVars>>

ResolveFails(p) ==
    /\ pc[p] = "universe"
    /\ Leave(p)
    /\ UNCHANGED <<storeVars, cached, cRows, cDay, fresh, worldVars, apiVars>>

\* scan.Universe, as AtomicScan: the row of every symbol, and the newest bar.
ScanCompletes(p) ==
    /\ pc[p] = "scan"
    /\ scanned' = [scanned EXCEPT ![p] = [rows |-> Full[today], day |-> today]]
    /\ Goto(p, "delete")
    /\ UNCHANGED <<storeVars, cacheVars, worldVars, want, ran, apiVars>>

\* s.ctx was cancelled meanwhile, or loads failed and were logged: Universe
\* returns what it has, without an error.  The day is the newest bar among the
\* symbols it saw, the clock's when it saw none.
ScanTruncated(p) ==
    /\ pc[p] = "scan"
    /\ cancelled \/ LoadErrors
    /\ \E rows \in SUBSET Full[today] : \E day \in {d \in Dates : d <= today} \cup {NowTs} :
        /\ day = NowTs => rows = {}
        /\ scanned' = [scanned EXCEPT ![p] = [rows |-> rows, day |-> day]]
    /\ Goto(p, "delete")
    /\ UNCHANGED <<storeVars, cacheVars, worldVars, want, ran, apiVars>>

\* snap.Load: DELETE FROM snapshot WHERE snapshot_date = ts, on its own.
LoadDelete(p) ==
    /\ pc[p] = "delete"
    /\ table' = [table EXCEPT ![scanned[p].day] = {}]
    /\ Goto(p, "insert")
    /\ UNCHANGED <<activeDate, cacheVars, worldVars, want, scanned, ran, apiVars>>

\* snap.Load: the insert transaction commits.
LoadInsert(p) ==
    /\ pc[p] = "insert"
    /\ table' = [table EXCEPT ![scanned[p].day] = scanned[p].rows]
    /\ Goto(p, "meta")
    /\ UNCHANGED <<activeDate, cacheVars, worldVars, want, scanned, ran, apiVars>>

\* Mutant: the error return does not unlock.
LoadFailsLocked(p) ==
    /\ pc[p] \in {"delete", "insert"}
    /\ Goto(p, "idle")
    /\ UNCHANGED <<storeVars, cacheVars, worldVars, want, scanned, ran, apiVars>>

\* ensureTable or the DELETE fails, or the insert transaction does and is rolled
\* back: refresh returns the error with the cache untouched.
LoadFails(p) ==
    /\ pc[p] \in {"delete", "insert"}
    /\ Leave(p)
    /\ UNCHANGED <<storeVars, cached, cRows, cDay, fresh, worldVars, apiVars>>

\* snap.Load: d.snapshotDate = ts; d.activeDate = ts; ...
LoadMeta(p) ==
    /\ pc[p] = "meta"
    /\ activeDate' = scanned[p].day
    /\ Goto(p, "cache")
    /\ UNCHANGED <<table, cacheVars, worldVars, want, scanned, ran, apiVars>>

\* Mutant: the cached day is asked of the warehouse again instead of taken from
\* the scan.
CacheScanToday(p) ==
    /\ pc[p] = "cache"
    /\ cRows' = scanned[p].rows
    /\ cDay' = today
    /\ cached' = (scanned[p].rows # {})

\* Rest of refresh: the cached rows and day are replaced first, then
\* warehouse.Stats may fail (it does when s.ctx is done), which leaves cAt.
\* An empty scan leaves cRows nil.
CacheScan(p) ==
    /\ pc[p] = "cache"
    /\ cRows' = scanned[p].rows
    /\ cDay' = scanned[p].day
    /\ cached' = (scanned[p].rows # {})

FillCache(p) ==
    /\ CacheScan(p)
    /\ ~cancelled
    /\ fresh' = TRUE
    /\ Goto(p, "studies")
    /\ scanned' = [scanned EXCEPT ![p] = NoScan]
    /\ UNCHANGED <<storeVars, mu, worldVars, want, ran, apiVars>>

StatsFails(p) ==
    /\ CacheScan(p)
    /\ Leave(p)
    /\ UNCHANGED <<storeVars, fresh, worldVars, apiVars>>

\* Mutant: one study too many.
RunStudyOffByOne(p) ==
    /\ pc[p] = "studies"
    /\ Len(ran[p]) <= want[p].studies
    /\ ran' = [ran EXCEPT ![p] = Append(@, activeDate)]
    /\ UNCHANGED <<storeVars, cacheVars, worldVars, pc, want, scanned, apiVars>>

\* digest.FromStudies(s.cDay, s.cRows, s.snap, ...): one snap.Run per study,
\* each on the activeDate of that moment; then the page is served.
RunStudy(p) ==
    /\ pc[p] = "studies"
    /\ Len(ran[p]) < want[p].studies
    /\ ran' = [ran EXCEPT ![p] = Append(@, activeDate)]
    /\ UNCHANGED <<storeVars, cacheVars, worldVars, pc, want, scanned, apiVars>>

ServePage(p) ==
    /\ pc[p] = "studies"
    /\ Len(ran[p]) = want[p].studies
    /\ Leave(p)
    /\ UNCHANGED <<storeVars, cached, cRows, cDay, fresh, worldVars, apiVars>>

PageStep(p) ==
    \/ PageLocks(p) \/ ResolveUniverse(p) \/ ResolveFails(p)
    \/ ScanCompletes(p) \/ ScanTruncated(p)
    \/ LoadDelete(p) \/ LoadInsert(p) \/ LoadFails(p) \/ LoadMeta(p)
    \/ FillCache(p) \/ StatsFails(p) \/ RunStudy(p) \/ ServePage(p)

-----------------------------------------------------------------------------
(* API requests: no mutex.  A request is a short program over the store:    *)
(*   list      ListSnapshots                                                *)
(*   count d   SetActive's SELECT COUNT, or HasSnapshot                     *)
(*   assign d  SetActive's assignment of activeDate                         *)
(*   read      Run evaluates d.activeDate                                   *)
(*   query     Run's SELECT on the date it read                             *)

List      == [op |-> "list", date |-> NoDate]
Count(d)  == [op |-> "count", date |-> d]
Assign(d) == [op |-> "assign", date |-> d]
Read      == [op |-> "read", date |-> NoDate]
Query     == [op |-> "query", date |-> NoDate]

SetActive(d) == <<Count(d), Assign(d)>>
Run          == <<Read, Query>>

\* alert.Detector and backtest.Engine: the calls they make, in order.
DetectEntries(r)    == SetActive(r.date) \o Run \o SetActive(r.prev) \o Run
DetectExits(r)      == SetActive(r.date) \o Run \o SetActive(r.prev) \o Run
DetectChanges(r)    == DetectEntries(r) \o DetectExits(r)
RunPointInTime(r)   == SetActive(r.date) \o Run
RunBacktest(listed) ==
    [i \in 1..(4 * Len(listed) + 1) |->
        IF i = 1 THEN List
        ELSE (SetActive(listed[(i + 2) \div 4]) \o Run)[((i + 2) % 4) + 1]]

\* A request on the dates it names.
Program(r, listed) ==
    CASE r.kind = "scan"     -> Run
      [] r.kind = "select"   -> <<Count(r.date)>> \o SetActive(r.date)
      [] r.kind = "pit"      -> RunPointInTime(r)
      [] r.kind = "entries"  -> DetectEntries(r)
      [] r.kind = "exits"    -> DetectExits(r)
      [] r.kind = "changes"  -> DetectChanges(r)
      [] r.kind = "backtest" -> RunBacktest(listed)

\* The API handlers, by what a request to each can ask for.
Asks(kind, dates, prevs) == [kind : {kind}, date : dates, prev : prevs]

Scan              == Asks("scan", {NoDate}, {NoDate})
SetActiveSnapshot == Asks("select", Dates, {NoDate})
PointInTime       == Asks("pit", Dates, {NoDate})
Backtest          == Asks("backtest", {NoDate}, {NoDate})
Entries           == Asks("entries", Dates, Dates)
Exits             == Asks("exits", Dates, Dates)
Alerts            == Asks("changes", Dates, Dates)

Requests ==
    {r \in Scan \cup SetActiveSnapshot \cup PointInTime \cup Backtest \cup Entries \cup Exits \cup Alerts :
        r.kind \in Kinds}

NoReq == [kind |-> "none", date |-> NoDate, prev |-> NoDate]

\* listed: ListSnapshots' answer; for: the date the next Run is meant for; on:
\* the date it read; runs: what selecting and running each date came to; end:
\* how the request ended.
NothingYet == [listed |-> <<>>, for |-> NoDate, on |-> NoDate, runs |-> <<>>, end |-> "none"]

Steps(a) == Program(req[a], got[a].listed)

Running(a) == req[a] # NoReq /\ got[a].end = "none"

Op(a) == Steps(a)[at[a]]

ApiArrives(a, r) ==
    /\ req[a] = NoReq
    /\ req' = [req EXCEPT ![a] = r]
    /\ UNCHANGED <<storeVars, cacheVars, worldVars, pageVars, at, got>>

\* Go to micro-step n with g collected; past the end the request is answered.
ProceedTo(a, n, g) ==
    /\ at' = [at EXCEPT ![a] = n]
    /\ got' = [got EXCEPT ![a] =
                  IF n > Len(Program(req[a], g.listed)) THEN [g EXCEPT !.end = "ok"] ELSE g]
    /\ UNCHANGED <<cacheVars, worldVars, pageVars, req>>

\* SELECT DISTINCT snapshot_date ... ORDER BY snapshot_date DESC
Descending(S) ==
    {s \in [1..Cardinality(S) -> S] : \A i, j \in DOMAIN s : i < j => s[i] > s[j]}

ListSnapshots(a) ==
    /\ Running(a) /\ Op(a).op = "list"
    /\ \E s \in Descending({d \in Dates : Exists(d)}) :
          ProceedTo(a, at[a] + 1, [got[a] EXCEPT !.listed = s])
    /\ UNCHANGED storeVars

\* ListSnapshots' query fails, and the request with it.
ListFails(a) ==
    /\ Running(a) /\ Op(a).op = "list"
    /\ ProceedTo(a, at[a], [got[a] EXCEPT !.end = "error"])
    /\ UNCHANGED storeVars

\* The date is there: go on.
CountFinds(a) ==
    /\ Running(a) /\ Op(a).op = "count"
    /\ Exists(Op(a).date)
    /\ ProceedTo(a, at[a] + 1, [got[a] EXCEPT !.for = Op(a).date])
    /\ UNCHANGED storeVars

\* A date selected and run came to rows, or to an error: the date is missing, or
\* a statement failed.
Outcomes == {"rows", "missing", "failed"}

CameTo(a, d, outcome, rows) ==
    [got[a] EXCEPT !.on = NoDate,
                   !.runs = Append(@, [for |-> d, outcome |-> outcome, rows |-> rows])]

\* SetActive returns an error.  RunBacktest goes on with the next date.  Where it
\* is prevDate, whatever the error, DetectEntries takes all its current matches
\* and DetectExits none, and DetectChanges goes on from the one to the other.
\* Otherwise the request ends in an error.
Skips(a) ==
    \/ req[a].kind = "backtest"
    \/ req[a].kind = "changes" /\ at[a] = 5

NoPrev(a) ==
    \/ req[a].kind \in {"entries", "exits"} /\ at[a] = 5
    \/ req[a].kind = "changes" /\ at[a] = 13

SetActiveErrs(a, why) ==
    LET g == CameTo(a, Op(a).date, why, {}) IN
    IF Skips(a)
    THEN ProceedTo(a, at[a] + 4, g)
    ELSE ProceedTo(a, at[a], [g EXCEPT !.end = IF NoPrev(a) THEN "noprev" ELSE "error"])

CountMisses(a) ==
    /\ Running(a) /\ Op(a).op = "count"
    /\ ~Exists(Op(a).date)
    /\ SetActiveErrs(a, "missing")
    /\ UNCHANGED storeVars

CountFails(a) ==
    /\ Running(a) /\ Op(a).op = "count"
    /\ SetActiveErrs(a, "failed")
    /\ UNCHANGED storeVars

\* Mutant: SetActive only picks a date when none is active.
AssignActiveOnce(a) ==
    /\ Running(a) /\ Op(a).op = "assign"
    /\ activeDate' = IF activeDate = NoDate THEN Op(a).date ELSE activeDate
    /\ ProceedTo(a, at[a] + 1, got[a])
    /\ UNCHANGED table

AssignActive(a) ==
    /\ Running(a) /\ Op(a).op = "assign"
    /\ activeDate' = Op(a).date
    /\ ProceedTo(a, at[a] + 1, got[a])
    /\ UNCHANGED table

ReadActive(a) ==
    /\ Running(a) /\ Op(a).op = "read"
    /\ ProceedTo(a, at[a] + 1, [got[a] EXCEPT !.on = activeDate])
    /\ UNCHANGED storeVars

RunQuery(a) ==
    /\ Running(a) /\ Op(a).op = "query"
    /\ ProceedTo(a, at[a] + 1, CameTo(a, got[a].for, "rows", RunAt(got[a].on)))
    /\ UNCHANGED storeVars

\* Run's EXPLAIN, its SELECT or the reading of its rows fails: RunBacktest goes on
\* with the next date, every other request ends in an error.
RunFails(a) ==
    /\ Running(a) /\ Op(a).op = "query"
    /\ LET g == CameTo(a, got[a].for, "failed", {}) IN
       IF req[a].kind = "backtest"
       THEN ProceedTo(a, at[a] + 1, g)
       ELSE ProceedTo(a, at[a], [g EXCEPT !.end = "error"])
    /\ UNCHANGED storeVars

ApiLeaves(a) ==
    /\ got[a].end # "none"
    /\ req' = [req EXCEPT ![a] = NoReq]
    /\ at' = [at EXCEPT ![a] = 1]
    /\ got' = [got EXCEPT ![a] = NothingYet]
    /\ UNCHANGED <<storeVars, cacheVars, worldVars, pageVars>>

ApiStep(a) ==
    \/ ListSnapshots(a) \/ ListFails(a)
    \/ CountFinds(a) \/ CountMisses(a) \/ CountFails(a) \/ AssignActive(a)
    \/ ReadActive(a) \/ RunQuery(a) \/ RunFails(a)

-----------------------------------------------------------------------------
(* The world around the process *)

NewDay ==
    /\ \E d \in Dates : d > today /\ today' = d
    /\ UNCHANGED <<storeVars, cacheVars, cancelled, pageVars, apiVars>>

TTLExpires ==
    /\ fresh
    /\ fresh' = FALSE
    /\ UNCHANGED <<storeVars, mu, cached, cRows, cDay, worldVars, pageVars, apiVars>>

\* SIGINT / SIGTERM: s.ctx is done; requests in flight go on meanwhile.
Shutdown ==
    /\ ~cancelled
    /\ cancelled' = TRUE
    /\ UNCHANGED <<storeVars, cacheVars, today, pageVars, apiVars>>

Started ==
    /\ activeDate = NoDate
    /\ mu = NoProc
    /\ cached = FALSE /\ cRows = {} /\ cDay = NoDate /\ fresh = FALSE
    /\ cancelled = FALSE
    /\ pc = [p \in Pages |-> IF p = Boot THEN "lock" ELSE "idle"]
    /\ want = [p \in Pages |-> BootWant]
    /\ scanned = [p \in Pages |-> NoScan]
    /\ ran = [p \in Pages |-> <<>>]
    /\ req = [a \in Apis |-> NoReq]
    /\ at = [a \in Apis |-> 1]
    /\ got = [a \in Apis |-> NothingYet]

\* The process ends, wherever it is (shutdown, kill), and is started again on
\* the same file.
Restart ==
    /\ activeDate' = NoDate
    /\ mu' = NoProc
    /\ cached' = FALSE /\ cRows' = {} /\ cDay' = NoDate /\ fresh' = FALSE
    /\ cancelled' = FALSE
    /\ pc' = [p \in Pages |-> IF p = Boot THEN "lock" ELSE "idle"]
    /\ want' = [p \in Pages |-> BootWant]
    /\ scanned' = [p \in Pages |-> NoScan]
    /\ ran' = [p \in Pages |-> <<>>]
    /\ req' = [a \in Apis |-> NoReq]
    /\ at' = [a \in Apis |-> 1]
    /\ got' = [a \in Apis |-> NothingYet]
    /\ UNCHANGED <<table, today>>

Init ==
    /\ Started
    /\ table \in {t \in [AllDates -> {{}} \cup {Full[d] : d \in Dates}] :
                   t[NowTs] = {} /\ \A d \in Dates : t[d] \in {{}, Full[d]}}
    /\ today \in Dates
    /\ disturbed = {}
    /\ reloaded = {}

WhileUp ==
    \/ \E p \in Pages : PageArrives(p) \/ PageStep(p)
    \/ \E a \in Apis : ApiStep(a) \/ ApiLeaves(a) \/ \E r \in Requests : ApiArrives(a, r)
    \/ NewDay \/ TTLExpires \/ Shutdown

\* Bookkeeping of the history variables: a request is disturbed by a step that
\* moves activeDate and is not its own.
Observe ==
    /\ disturbed' = {a \in Apis : req'[a] # NoReq /\ req[a] # NoReq /\
          (a \in disturbed \/ (activeDate' # activeDate /\ at'[a] = at[a]))}
    /\ reloaded' = {a \in Apis : req'[a] # NoReq /\ req[a] # NoReq /\
          (a \in reloaded \/ table' # table)}

Next == (WhileUp \/ Restart) /\ Observe

\* Every goroutine that can run runs; Lock is granted to a waiting goroutine
\* again and again (sync.Mutex does not starve).  Nobody is obliged to send a
\* request, the process need not be shut down, and eventually it stays up.
Fairness ==
    /\ \A p \in Pages : SF_vars(PageLocks(p) /\ Observe)
    /\ \A p \in Pages : WF_vars(PageStep(p) /\ Observe)
    /\ \A a \in Apis : WF_vars(ApiStep(a) /\ Observe)
    /\ <>[][WhileUp /\ Observe]_vars

Spec == Init /\ [][Next]_vars

FairSpec == Spec /\ Fairness

-----------------------------------------------------------------------------

ScanResult == [rows : SUBSET Symbols, day : AllDates \cup {NoDate}]

\* Types of the variables.
TypeOK ==
    /\ table \in [AllDates -> SUBSET Symbols]
    /\ activeDate \in AllDates \cup {NoDate}
    /\ mu \in Pages \cup {NoProc}
    /\ cached \in BOOLEAN
    /\ cRows \in SUBSET Symbols
    /\ cDay \in AllDates \cup {NoDate}
    /\ fresh \in BOOLEAN
    /\ today \in Dates
    /\ cancelled \in BOOLEAN
    /\ pc \in [Pages -> PagePC]
    /\ want \in [Pages -> PageWants \cup {BootWant}]
    /\ scanned \in [Pages -> ScanResult]
    /\ ran \in [Pages -> Seq(AllDates \cup {NoDate})]
    /\ \A p \in Pages : Len(ran[p]) <= want[p].studies
    /\ req \in [Apis -> Requests \cup {NoReq}]
    /\ at \in [Apis -> Nat \ {0}]
    /\ disturbed \subseteq Apis
    /\ reloaded \subseteq Apis

\* Refreshes exclude each other: at most one goroutine is between Lock and
\* Unlock, so two Loads never interleave their DELETE and INSERT.
InRefresh(p) == pc[p] \in {"universe", "scan", "delete", "insert", "meta", "cache", "studies"}

OneRefresh == \A p \in Pages : InRefresh(p) <=> mu = p

\* Outside a refresh, what the dashboard shows of the scan is what studies can
\* query for that day; the store may have lost the day (a reload whose insert
\* failed after its DELETE), but never holds other rows than the cache.
CacheBackedByStore ==
    mu = NoProc /\ cached => table[cDay] \in {cRows, {}}

\* The dates a request is to select and run, in order.
Meant(r, listed) ==
    CASE r.kind = "pit" -> <<r.date>>
      [] r.kind \in {"entries", "exits"} -> <<r.date, r.prev>>
      [] r.kind = "changes" -> <<r.date, r.prev, r.date, r.prev>>
      [] r.kind = "backtest" -> listed
      [] OTHER -> <<>>

\* The errors a request gets over: any of RunBacktest's, and prevDate's in the
\* first half of DetectChanges.
Tolerated(r, i) == r.kind = "backtest" \/ (r.kind = "changes" /\ i = 2)

\* Rows are those of the date they were asked for (of the active date, for a
\* scan), and a date called missing is not there, which no listed date is.
OutcomeTrue(r, run) ==
    /\ run.outcome = "rows" => run.rows = RunAt(IF r.kind = "scan" THEN activeDate ELSE run.for)
    /\ run.outcome = "missing" => ~Exists(run.for) /\ r.kind # "backtest"

\* A request that has ended is exact: what each of its dates came to is true; if
\* it was answered, it took every date it was to take, each once and in order;
\* and an error it does not get over is its last step: of prevDate, where the
\* detector answers as if prevDate did not exist, or the answer.
Exact(a) ==
    LET r    == req[a]
        runs == got[a].runs
        end  == got[a].end
    IN  /\ \A i \in 1..Len(runs) : OutcomeTrue(r, runs[i])
        /\ end \in {"ok", "noprev"} /\ r.kind # "scan" =>
              [i \in 1..Len(runs) |-> runs[i].for] = Meant(r, got[a].listed)
        /\ \A i \in 1..Len(runs) :
              runs[i].outcome # "rows" =>
                  Tolerated(r, i) \/ (end \in {"noprev", "error"} /\ i = Len(runs))
        /\ end = "noprev" => runs[Len(runs)].outcome # "rows"

\* A handler during which nobody else moves activeDate and the table does not
\* change is exact, whatever ran before it and whichever of its statements
\* fail: in particular RunBacktest leaves out no listed date but those whose
\* own statement failed.
UndisturbedIsExact ==
    \A a \in Apis : got[a].end # "none" /\ a \notin disturbed \cup reloaded => Exact(a)

\* DetectEntries and DetectExits, also beside other requests, as long as the
\* table itself does not change meanwhile: "A symbol enters if it matches on
\* date but not on prevDate" (alert.go).
EntriesExact ==
    \A a \in Apis : req[a].kind = "entries" /\ got[a].end = "ok" /\ a \notin reloaded => Exact(a)

\* Every request is answered: the mutex is released on every path, also when
\* the universe query, the DELETE, the insert or the statistics query fails.
Answered ==
    /\ \A p \in Pages : pc[p] = "lock" ~> pc[p] = "idle"
    /\ \A a \in Apis : Running(a) ~> ~Running(a)

=============================================================================
