# A TLA+ model of the scanner

This directory models `cetus-marketdata-scanner`: a Go program that reads daily
bars from a read-only SQLite warehouse, computes one row of indicators per
symbol ("the snapshot"), keeps dated snapshots in its own SQLite file and runs
saved SQL `WHERE` studies against them, from a command line (`digest`,
`studies`, `backfill`) and from a server (`serve`: dashboard, admin console,
JSON API).

Every definition is a translation of code under `src/`; `PROJECT.json` maps
each of them to its lines, lists the runs, the mutants (a plausible slip in the
code that each property must notice), the findings, the hazards and the
theorems.

## 1. Inventory

| part | state it keeps | operations | how it meets the others |
|---|---|---|---|
| `internal/scan` `Universe` | two channels, a worker pool, the result being collected | feed, load, send, close, collect, sort | called by a refresh and by the CLI; stops when its context is cancelled |
| `internal/scan` `BackfillSnapshots`, `BarCache` | range of days, cached bars, days collected | bulk load, one day, write batch, clean up | reads the warehouse, writes the snapshot file beside other processes |
| `internal/snapshot` `DB` | table `snapshot` (date, symbol, indicators); `activeDate` in memory | Load, LoadHistory*, SetActive, HasSnapshot, ListSnapshots, Cleanup, Run | one instance per process, shared by every handler |
| `internal/serve` `Server` | cached rows, day, stats and their age behind `mu`; sessions | refresh, modelFor, preview, handlers | refresh = scan + Load; pages run studies through `snapshot.DB` |
| `internal/alert`, `internal/backtest`, `internal/digest` | none | DetectEntries/Exits, RunBacktest, RunPointInTime, FromStudies | sequences of SetActive and Run on the shared `DB` |
| `internal/study` `Store` | list, index, table of studies | open/seed, Get, All, Upsert, Delete | written by dashboard and API handlers |
| `internal/study` `SubscriptionStore` | sets of studies per user, table | open/seed, Subscribe, Unsubscribe | API handlers, RW lock |
| `internal/user` `Store` | list, index, table of users | open/seed, Create, mutate, Delete | login, admin, API |
| `internal/auth`, sessions of `serve` | login audit table; failures per client and sessions in memory | check, record failure or success, create, get, delete | login handlers, every authenticated request |
| `internal/authjwt` | cached key set and its age | verify, refetch | proxy authentication |
| `internal/throttle` | tables of calls, daily usage, limits per user | check, track, effective limits | `trackUsage` around every API request |
| `internal/results`, `permissions`, `groups`, `roles` | tables with foreign keys to `users` and each other | save, share, grant, list, check | API handlers, several statements each |
| `internal/schema`, `bootstrap` | schema version | migrations, first administrator | every start |
| `internal/predicate`, `features`, `indicators`, `screen` | none | pure functions | scan, API |
| `internal/dashboard`, `admin`, `nlp`, `config`, `dblog`, `telemetry`, ... | none of their own | rendering, plumbing | |

What is hard here, and what must hold:

* *Concurrency inside a scan.* Feeder, workers, closer and collector over two
  channels, and a context that may be cancelled anywhere. The answer must not
  depend on scheduling, no send may meet a closed channel, nobody may be left
  behind.
* *One `activeDate` for everybody.* `SetActive` and `Load` move it, `Run` reads
  it, pages hold a mutex that API requests do not know of.
* *Statements that are not one transaction.* `Load` deletes, then inserts;
  `Upsert` and `Delete` change memory and table one after the other; seeds are
  saved one by one.
* *Crashes and failed statements* between any two of these.
* *Two writers of one file.* A backfill beside a server, while bars arrive and
  days pass: no lookahead, no day reported that is not there.
* *Check, wait, write.* A save checks owner and quota, waits for a preview and
  writes; a login checks two counters, verifies a password and records; a request
  for a result checks a permission by five queries and then changes the row.
* *Foreign keys far from the statement.* They are enforced, so saving or deleting
  a row of `users` or `groups` changes tables other packages own.
* *A start that is cut off.* Migrations, seeds, roles and the first account are
  written one after the other on a file that keeps what it has.
* *Time.* Windows, lockouts, sessions and days end while requests are under way.

`PROJECT.json` lists these as hazards, each at its line.

## 2. Modules

| module | models | composes |
|---|---|---|
| `AtomicScan` | what `scan.Universe` promises its callers: one step | |
| `ScanUniverse` | `scan.Universe`, goroutine by goroutine | refines `AtomicScan` |
| `SnapshotServe` | one `serve` process: cache, mutex, snapshot store, API requests | takes the scan as one step, as `AtomicScan` allows |
| `SnapshotFile` | the file shared by loaders and a backfill, the warehouse and the calendar | takes the scan as one step |
| `Listing` | lists in the order of their keys, as the stores load and filter them | used by `StudyStore`, `UserStore` |
| `StudyStore` | the study store and the handlers that write to it | |
| `UserStore` | the user store and the handlers that write to it | |
| `SubscriptionStore` | the subscription store | |
| `ServerStores` | `serve.New`: migrations, stores, roles, administrator; then the stores at work, until a kill | `UserStore` (extended), `SubscriptionStore` (instantiated) |
| `Sharing` | results, grants, groups, the access check, the foreign keys under them | takes the user store as what it does to its table |
| `Login` | login with its two brakes, and sessions | |
| `Usage` | usage tracking and checks, limits, roles | takes the user store as what it does to its table |
| `MC*` | the small instances | |
| `ScanUniverseProofs`, `SnapshotServeProofs`, `SnapshotFileProofs`, `StudyStoreProofs`, `ServerStoresProofs`, `SharingProofs`, `LoginProofs`, `UsageProofs` | the theorems about the module of that name | |

### ScanUniverse

`nextJob`/`jobsClosed` are the feeder's loop and `close(jobs)`; `pc`/`job` the
workers; `results`/`resultsClosed` the buffered channel; `rows`, `scanned`,
`maxTs`, `day` the `Result`. The unbuffered `jobs` channel makes a send and a
receive one step (`Handoff`). A select with two ready cases may choose either:
after a cancellation the feeder may hand out another symbol. A job is a
*position* in the list, so a list with a repeated symbol is covered. `sort.Slice`
is not stable, so `Return` may choose any sorted reordering. Bars are abstracted
to *none / row dropped / row eligible* plus the last timestamp. Database errors
are possible for every symbol (`LoadFails`).

### SnapshotServe

One step per SQL statement (the pool has a single connection, so `Load`'s insert
transaction is one step too) and one per access to shared memory between statements.
Pages and previews go through `Server.mu`: `PageLocks`, then `refresh` as
`ResolveUniverse`, `ScanCompletes`/`ScanTruncated`, `LoadDelete`, `LoadInsert`,
`LoadMeta`, `FillCache` with an error return at each of them (the `DELETE`
included), then one `RunStudy` per study. The initial scan of `Run` is the page
`Boot`. An API request is a short *program* of micro-steps (`list`, `count`,
`assign`, `read`, `query`) that `Program` assembles from `SetActive` and `Run` the
way each handler calls them (`DetectEntries`, `DetectExits`, `DetectChanges`,
`RunPointInTime`, `RunBacktest`). A date may be missing and any statement may fail
(`ListFails`, `CountFails`, `RunFails`), and the code does not tell the two apart: a
backtest goes on with the next date, entries and exits go on without a previous date
they could not select, everything else ends in an error. So `UndisturbedIsExact`
does not say that a backtest answers for every listed date, it says that it tries
every one, in order, that what it answers is of that date, and that a date it leaves
out is one whose own statement failed. A backtest's range covers every stored date.
The table survives `Restart`; everything else does not. A study is the set of
symbols its `WHERE` accepts on each date. `disturbed` and `reloaded` are history
variables: the requests during which somebody else moved the active date, or the
table changed.

### SnapshotFile

A row is abstracted to the day of the last bar it was computed from: that is
what lookahead, staleness and replacement are about. `snapshot_date` keeps its
two forms, midnight (`Midnight`, backfill) and the timestamp of the newest bar
(`BarTs`, refresh); `BarTime` says whether they coincide. `Loaders` are
processes that scan and `Load`; `Fillers` run `BackfillSnapshots`: range from
`LatestBarDate`, `BulkLoad`, one `FillDay` per calendar day, one transaction,
`Cleanup` with a cutoff taken from the clock. `Killed` may happen anywhere.
`SkipExisting` exists as a constant; the command line never sets it. `Readers`
run `studies` without `--force`: list the dates, count the newest, query it, three
statements between which the others write. `lost` is a
history variable: dates a `Load` deleted and nobody has written since.

### StudyStore

`all`, `byKey` and `sql` are the three copies of the studies. The store's methods
hold its mutex, so each is one step, with a variant in which its SQL statement
fails; a handler is several calls with everything possible in between. `unsaved` and
`hidden` are history variables: keys whose last write was answered with an error,
and keys with a row that the last start could not read. A text stands for the fields
no handler decides on. `OpenFromSeed` is also possible when the table is not empty,
as in the code when the query fails: the server then knows only the seed, and the
rows it does not know are `hidden` until somebody writes their key. `MemoryIsDisk`
says of a hidden key exactly that. The list can grow without limit (a study whose
DELETE failed and that is saved again is listed twice); `MaxAll` bounds it.

### UserStore, SubscriptionStore, ServerStores

As in `StudyStore` a method is one step under its mutex, each with a variant in
which the SQL statement fails, and `UpdateUser` is one method per field. A user is
reduced to what the copies can disagree on: `role` and `role_id`, a password in the
table's format, in the JSONL file's or none, a field with a column (`off`) and a
field without one (`pro`). `OpenFromFile` is `OpenStoreWithDB` when the table is
empty, unreadable or has a user without a password. `LoadJSONL` accepts a file that
repeats an id: the list then has both entries, the index answers the last, and
`mutate` works on the first. `unsaved`, `half`, `hidden`, `twice` are history
variables: ids whose last write failed, whose DELETE failed, whose row the last
start did not load, which the last start found repeated in the file. The server
always has a file (`config.go` falls back to a default path), so the branch of
`OpenStoreWithDB` for an empty path is not there. `UpIsUsable` speaks of an account
in the list; it may be disabled or without a password. `ServerStores` adds the
start: `start` is the place in `serve.New`, one action per statement or store, and
`Killed` may come anywhere and stands for a returned error too. A database starts at
any schema version.

### Sharing

One step per SQL statement; `phase` says which one a request is about to make.
`CanAccess` exists twice: as the five statements a request makes, and as the rule
at one moment. `CheckIsTheRule` compares the two for a request during which no table
changed (`calm`), its grants and its refusals; `GrantWasRight` speaks of all the
others. There answers of different moments are put together: a grant was right at
some moment of the request (`allowed`) unless the result was `edited` and the
requester's standing, ownership or membership, `turned` within that one request. A
failed statement ends the request in an error (`StatementFails`). The cascades are operators of
their own (`CascadeUser`, `CascadeGroup`) because they act from statements of other
packages. A result whose group was deleted has `group_id` NULL, which the code
cannot scan into a string: it exists and cannot be fetched. `serial` in a row and
in `seen`, `saves`, `calm`, `allowed`, `edited` and `turned` are history. Not
here: the list of accessible results, which has a rule of its own (section 5), and
a group with an empty id, which `groups.ImportJSON` accepts (`groups.go:285`) and no
property depends on. The administrators' flag of a request is
free, since the role in memory and the stored one can differ (`stores_role`).

### Login

Times are ages and remainders, so the clock needs no bound: `Tick` ages failures,
locks and sessions. All requests come from one client; clients share only the
accounts. A client is what `handleLogin` takes for one, `X-Forwarded-For` or else
`RemoteAddr`, port included, although its comment says per IP; so `RateBound` holds
per such key. Pages, API calls and the admin console do the same to a session, which
is one action (`UseSession`): what they check of the user afterwards changes nothing.
`since`, `ever`, `apart`, `behind` are history: failures recorded since the last
success and ever, accounts whose recordings neither overlapped nor failed, and
requests whose recording is about to write over a row it has not seen, because its
`SELECT` failed (the code ignores that) or because the row was written since.

### Usage

`TrackAPIUsage` is three statements with the time taken before the first;
`CheckRateLimit` reads role and limits, takes the time and makes three queries, each
of which may fail (`CheckFails`). It is part of the package's interface, but nothing
calls it yet and the package has no tests: what `WindowKept` says of it is about a
caller to come. Its queries for role and limits are one step. `tracked` and `cut`
are history: calls recorded, and calls whose second statement never ran.

## 3. Runs

| run | shows | instance |
|---|---|---|
| `scan` | types, `OnlyOnce`, `NoSendOnClosed`, `CompleteScan`, `StatsAgree`, that the scan implements `AtomicScan`, and that it `Terminates`, cancelled or not | 3 symbols listed out of order with different last bars, 2 workers: a worker comes back for a second job, the channel can be full, every mix of bars |
| `serve` | types, `CacheBackedByStore`, `UndisturbedIsExact` | one goroutine for the boot scan and the pages after it, one API request at a time (scan, point in time, exits, backtest), 2 days with different answers, scans truncated by a shutdown, restarts |
| `serve_live` | `OneRefresh`, `Answered` | boot and a page that compete for the mutex, one API request (select, backtest), 1 day, every failing query |
| `file` | types, `NoLookahead`, `ReportIsTrue`, `EmptyHasCause`, `RowsSafe` | 5 days (a weekend day, two holidays), 2 symbols with different warm-up, a loader, a reader and a backfill of 4 days keeping 2 |
| `study` | types, `MemoryIsDisk`, `IndexIsList` | 2 keys, one seeded; a free user and an admin; 2 requests at a time (symmetric), list of at most 2 |
| `stores` | types, `ListIsIndex`, `CopiesAgree`, `UpIsUsable`, `StartCompletes` | the bootstrap administrator and one other user, imported without a password, in the file with a legacy one, or in the file twice; 1 subscription, in the file too; 2 roles; 2 cut-off starts or kills |
| `sharing` | types, `Referential`, `CheckIsTheRule`, `SameResult`, `GrantWasRight` | 2 users, 1 group, 2 results; one connection with the guarded requests, one with those that change what they read; the user store edits one user |
| `login` | types, `AloneIsExact`, `LockHasCause`, `RateBound`, `StaysLocked`, `LockEnds`, `SessionEnds` | 1 account, 2 logins at a time, limits of 2, periods of 2 ticks, 1 failing statement |
| `usage` | types, `DayCountsCalls`, `WindowKept` | 1 user, 2 requests at a time, 2 roles, 4 instants over 2 days, 2 calls, 2 administrative changes |

Bounds and why they are enough: a wrong answer in these protocols needs two
actors and one shared thing, so two of each, plus a third element where a
collection has a middle (three symbols). The calendar is long enough for a weekday
without bars, a weekend, and a day outside the retention while the backfill's range
is inside it. The `serve_live` run uses one day because the day plays no part in it,
and `serve` sets `LoadErrors` to `FALSE` because a scan that loses symbols to load
errors and one that a shutdown truncates store the same sets of rows. The `login`
limits of 2 make a lock possible both by consecutive and by overlapping failures,
`Cap` is above the limit so that renewals beyond it happen. `MaxEnds`, `MaxCalls`,
`MaxEdits`, `MaxFaults`, `MaxResults` and `MaxAll` only bound how often something is
repeated; two of each allow one to disturb another. Larger instances that were
also checked, too slow to keep: `serve` with `changes` among the kinds (4.4 million
states) and `file` with bars on day 5 as well (9.4 million).

Runs that TLC must find violated, each a disagreement between the code and what a
comment or document of the repository says; the quotations are in `PROJECT.json`:

| run | what happens |
|---|---|
| `serve_entries` | a second request moves the active date between `SetActive` and `Run` of `DetectEntries`: wrong days are compared |
| `stores_role` | the administrator that bootstrap creates gets `role_id` admin and role user, and acts as a user until a restart reads the row; `SetRole` has the opposite gap |
| `sharing_user_save` | a change of a user's name, tier or password replaces the row, and the foreign keys delete the user's saved results and grants |

### Fairness

`ScanUniverse`: weak fairness of every goroutine: the Go scheduler runs what can
run and a query on a local file returns. Nobody is obliged to cancel.
`SnapshotServe`: weak fairness of every step of a request in progress, strong
fairness of acquiring `Server.mu` (`sync.Mutex` hands the lock to a goroutine
that has waited for 1 ms), and the process eventually stays up: a request to a
process that is restarted again and again is not promised an answer. Arrivals,
new bars, expiry and shutdown are not fair. 
`ServerStores`: weak fairness of the steps of a start; that a server which has
ended is started again is the service manager's (`Restart=always` in
`src/deploy/hetzner-deploy.sh`). Kills are bounded, so `StartCompletes` says that a
start nobody interrupts comes up whatever earlier ones left. `Login`: the clock
goes on, and a request under way gets its next step (its statements are local and
nothing in the handler blocks); nobody is obliged to send a request, to log out or
to use a session. The other runs use no fairness.

## 4. Proofs

A theorem holds for every value of the constants that satisfies the assumption named
in its component's module: any number of users, requests, symbols, dates, keys, any
limits. The assumptions say what kind of thing a constant is (a number, a finite
set, a list of studies), that the values standing for "none" are none of the real
ones, and what the code's own constants satisfy (a limit is at least 1, a minute is
not longer than an hour). Only one speaks of the contents of a file:
`StoresAssumption` has the list of roles begin with the administrator's, as
`src/roles.json` does; a start that is cut off after the first insert is never given
the rest, so with another order `UpIsUsable` would be false. A bound such as
`MaxCalls` is a constant like the others, so it limits nothing in a theorem. Each
`*Proofs` module first proves an inductive invariant, one lemma per action, and then
reads the properties off it.

| module | theorems, with the property each states | assumption |
|---|---|---|
| `ScanUniverseProofs` | `Invariance`, `TypeCorrect`, `OnlyOnceAlways`, `NoSendOnClosedAlways`, `CompleteScanAlways`, `StatsInvariance`, `StatsAgreeAlways`, `Refinement` (`ImplementsAtomicScan`) | `ScanAssumption` |
| `SnapshotServeProofs` | `Types`, `TypeCorrect`, `Stores`, `RefreshesExclude` (`OneRefresh`), `CacheIsBacked` (`CacheBackedByStore`), `SoundRequests`, `HandlersAreExact` (`UndisturbedIsExact`) | `ServeAssumption` |
| `SnapshotFileProofs` | `Invariance`, `TypeCorrect`, `RowsLookBack` (`NoLookahead`), `BackfillReportsWhatIsStored` (`ReportIsTrue`), `StudiesFindTheirRows` (`EmptyHasCause`), `RowsAreSafe` (`RowsSafe`) | `FileAssumption` |
| `StudyStoreProofs` | `StoreInvariance`, `StoreTypeCorrect`, `MemoryIsDiskAlways`, `IndexIsListAlways` | `StudyAssumption` |
| `ServerStoresProofs` | `Invariance`, `TypeCorrect`, `ListAndIndexAgree` (`ListIsIndex`), `StoresAgree` (`CopiesAgree`), `ServerIsUsable` (`UpIsUsable`) | `UserStoreAssumption`, `StoresAssumption` |
| `SharingProofs` | `Invariance`, `TypeCorrect`, `TablesHangTogether` (`Referential`), `CheckDecidesByTheRule` (`CheckIsTheRule`), `WriteHitsWhatWasChecked` (`SameResult`), `IdsAreNotReused`, `GrantsWereRight` (`GrantWasRight`) | `SharingAssumption` |
| `LoginProofs` | `Invariance`, `TypeCorrect`, `RowIsExact` (`AloneIsExact`), `NoLockWithoutCause` (`LockHasCause`), `RateLimited` (`RateBound`), `LockStays` (`StaysLocked`) | `LoginAssumption` |
| `UsageProofs` | `Invariance`, `TypeCorrect`, `DayIsCounted` (`DayCountsCalls`), `WindowIsKept` (`WindowKept`) | `UsageAssumption` |

The properties are hardly ever inductive; what has to be added, and why:

* *ScanUniverse.* A worker holds a position exactly while it works on it
  (`HoldsWhileBusy`), nothing exists that was not handed out, a failed position is
  nowhere else, until a cancellation an eligible position is *somewhere*
  (`NothingLost`), and each goroutine's end says something about the ones before it
  (`ClosingOrder`): workers done means the feeder closed `jobs`, which without a
  cancellation means every position was handed out. For the statistics (`StatsInv`):
  until a cancellation `scanned` is the number of positions with data that were
  handed out and are neither held, nor in the channel, nor failed (`Gone`), and
  `maxTs` is the newest of their bars; a cancelled worker drops what it holds, so
  afterwards the count is only bounded by that set. For the refinement, `Cancel` and
  `LoadFails` map to the steps of that name, `Return` to `Answer`, everything else
  to stuttering.
* *SnapshotServe*, in two layers over the types. For the cache (`StoreInv`): a page
  that has written its scan still finds exactly these rows under its day
  (`StoredIsThere`), which needs that no two pages refresh at a time, and the cached
  rows are in the table, or gone, or just replaced by the page that is about to
  fill the cache (`Backed`). For the answers (`SoundInv`): a program is a sequence
  of blocks *count, assign, read, query*, one per date the request is about; a
  request nobody disturbed is at a known place of a known block (`BlockAt`), has run
  exactly the blocks before it, and inside the block has the date the block is for
  in its hand or in the active date (`Phase`). A block whose statement failed is one
  the request has been through like the others, with an outcome of its own. `SkipAt`
  covers the one jump over a block: a change report without its previous date.
* *SnapshotFile.* What a process holds depends on where it is (`ProcOK`): rows about
  to be written are of their day or earlier, a collected day is a weekday with rows
  and none from a later bar. That is what makes `NoLookahead` survive bars that
  arrive between the collection and the write. `RowsSafe` is proved for one step
  under this invariant.
* *StudyStore.* A process that is down has no memory, requests are in progress only
  while it is up, and a hidden key has a row and no entry. An upsert replaces the
  *first* entry of the key, so the entry the index answers must be shown to be among
  the entries; that there is a first one rests on the well-foundedness of `<`.
* *ServerStores.* For the users, list and index hold the same entries, each under
  its id, outside the ids whose DELETE failed, and once, outside the ids the file
  repeats (of those the index has one of the entries); while a start writes the file
  back, the users left to write are the ones the index holds (`SyncOK`), so that each
  write brings the table to the state of memory. A deletion and
  a load build the list from increasing positions, so an entry that occurs once
  still does. For subscriptions, what is left to seed is already in memory. For the
  schema, the recorded versions are the applied ones and closed downwards, and
  during a migration what is pending is a suffix of the versions with everything
  before it applied (`SchemaInv`): that is why a start after one that was
  cut off skips nothing. For the roles, a non-empty table has the
  administrator's (`RolesInv`).
* *Sharing.* AUTOINCREMENT is ahead of every row (`IdsOK`), so what a request has
  read is still of the same result or of none (`SeenIsSame`); and for each statement
  of `CanAccess`, what the earlier ones have established (`Established`), as long as
  no table has changed. For grants beside changes (`RightSoFar`): a request that the
  rule has not allowed so far, and whose result and requester have not both changed,
  is on a `Track`: the requester owns the result or not, as was read; the public
  bits read are not enough; nor are the group's, since either the result is still
  the one read or the requester is in the groups he was in. A step of somebody else
  that leaves the track makes the rule allow the request. `IdsAreNotReused` states
  the reason as a property of steps.
* *Login.* For `RateBound` the requests past the check are counted before they fail:
  failures in the window plus requests between check and append stay below the limit
  plus the number of requests. For `AloneIsExact`, at most one request is between
  the two statements of `RecordFailure` and what it has read is the row; for
  `LockHasCause`, neither the row nor a value read from it exceeds the failures ever
  recorded. For `StaysLocked` (`RowInv`), what a request that is not behind has read is
  still the row, and a locked row counts at least as many failures as the limit: such
  a request writes a count above the limit and so a lock.
* *Usage.* A day's count lags behind the calls recorded by the requests between the
  first and the second statement and by those cut off there; adding a call changes
  the cardinality of the set of rows by one and leaves every other day alone. A row
  disappears only when a call was recorded more than an hour later (`Kept`), so
  every row in a window that a check counts is there.

Only model-checked: liveness (`Terminates`, `Answered`, `LockEnds`, `SessionEnds`,
`StartCompletes`), which with `ENABLED` is outside the prover's reach, as is
induction over recursively defined data. (Where an argument needs a first element,
the proofs take the least one of a non-empty set of naturals.) The three violations
are TLC's as well. Every invariant and action property of the passing runs is a
theorem.

Worth proving next: the safety halves of the liveness properties, that is, that a
step of a scan or of a start never goes back (a measure that each step lowers), and
that only the waits the code knows can hold a request.

## 5. Not modelled

* *No state, or floating point*: `indicators`, `features`, `screen`, `scanner`,
  `sentinel`, the return arithmetic of `backtest`, `replay.go`, and the predicate
  compiler, which writes a SQL string. What could go wrong in them is rounding or
  the meaning of SQL, neither of which TLC can judge.
* *Rendering and plumbing*: `dashboard`, `admin` pages, `config`, `dblog`,
  `telemetry`, `iohelp`, `rates`, `model`, HTTP routing and decoding.
* *Outside the program*: the language model behind `nlp`, the JWKS endpoint and the
  cryptography of `authjwt`, password hashing, the read-only warehouse (bars appear
  in it).
* *Without a caller*: `LoadHistory`, `LoadHistoryInsert`, `user.ImportJSONL`,
  `DeleteUserSubscriptions`, `DeleteStudySubscriptions`, `SubscriptionStore.String`,
  `auth.SessionStore`, `oauth.go`, `SetUserNLPConfig`, `CheckCreate`.
* *One statement without effect*: `ListAccessible` of results. Its rule is not the
  one of `CanAccess`, by design or not: an owner without `r` sees the result listed
  and is refused, a grant to a user and the administrator's rights are not in the
  list, and one listed row with a NULL `group_id` fails the whole list
  (`results.go:185-191`).
* *Another door*: `POST /api/v1/auth/login` (`api/auth.go:29`) checks a password
  behind neither of the two brakes of `Login`; it keeps no state.

Known, visible in the models, and not stated as a property because no passing
property can say it:

* a page carries the day of the cached scan while its studies run on the active
  date (the shared field of `serve_entries`);
* a refresh cut short by a shutdown replaces the complete rows of its day by the
  truncated ones (`ScanTruncated`, then `LoadDelete`);
* `Load` deletes outside its insert transaction, so a failed insert or a kill leaves
  the date empty (`lost`); a backfill reports days whose older rows `INSERT OR
  IGNORE` kept (`ReportIsTrue` asks only that the day is there), and days that have
  left the retention meanwhile, which `ReportIsTrue` excuses;
* a backtest leaves out, without a word, a date whose statement failed, and entries
  are reported against nothing when the statement for the previous date failed;
* a refresh and a backfill file the same day under two keys when bars are not
  stamped at midnight (`BarTime = 1`);
* two saves of one user that both count before either stores exceed the quota, and
  a save that found a key free may replace what another user stored during its
  preview; after a failed DELETE a study can be listed twice; a first start cut off
  between two seeds (of studies, users or roles) leaves the rest out; a start that
  cannot read the table of studies serves the seed instead, and writes it over rows
  with the same keys (`hidden`);
* tier and groups of a user have no column and are gone after a restart; a user
  without a password makes a start load the JSONL file over newer rows, and an
  empty table of subscriptions is seeded again from the file; a file that repeats an
  id lists the user twice (`twice`);
* a stale recording of a login failure, or one whose `SELECT` failed (`guard.go:52`),
  can lift or renew a lock (`behind`), and the count is
  not reset when a lock runs out, so one more failure locks again;
* a request for a result may be granted what was allowed at no moment, when the
  result is edited and the requester's ownership or membership changes between the
  statements of its check (`edited`, `turned`);
* `group_id` may not be empty under the enforced foreign keys, so a result can only
  be saved with a group; after that group is deleted it cannot be fetched.
