---------------------------- MODULE SnapshotFile ----------------------------
(***************************************************************************)
(* The snapshot file (SCANNER_STORE_DB) shared by processes of the scanner:*)
(* loaders, which scan the universe and call snapshot.DB.Load (`serve`,    *)
(* `studies --force`, `digest`), and `backfill`, which computes past days  *)
(* from a bulk-loaded bar cache and writes them with LoadHistoryBatch      *)
(* (internal/snapshot/snapshot.go, internal/scan/scan.go and cache.go).    *)
(* Any of them may be killed between two statements; the file keeps what   *)
(* was committed.  Meanwhile the warehouse receives bars and days pass.    *)
(*                                                                         *)
(* A row is abstracted to the day of the last bar it was computed from.    *)
(***************************************************************************)
EXTENDS Integers, FiniteSets, FiniteSetsExt, Sequences

CONSTANTS
    LastDay,        \* the calendar is 1..LastDay
    Weekend,        \* Saturdays and Sundays
    Trading,        \* days with bars: no weekend, no holiday
    Symbols,
    FirstRow,       \* first day on which a symbol's bars make a row
    BarTime,        \* time of day of a daily bar: 0 is midnight UTC, 1 is later
    Loaders, Fillers, Readers,
    BackfillDays, KeepDays, SkipExisting    \* the options of a backfill

Days == 1..LastDay

\* A snapshot_date is a Unix time; two of them per day are told apart.
Midnight(d) == 2 * d
BarTs(d)    == 2 * d + BarTime
DateKeys    == {Midnight(d) : d \in Days} \cup {BarTs(d) : d \in Days}

Procs == Loaders \cup Fillers \cup Readers

ASSUME FileAssumption ==
    /\ LastDay \in Nat \ {0}
    /\ Weekend \subseteq Days
    /\ Trading \subseteq Days \ Weekend
    /\ FirstRow \in [Symbols -> Trading]
    /\ BarTime \in {0, 1}
    /\ Fillers \cap (Loaders \cup Readers) = {}
    /\ BackfillDays \in Nat /\ KeepDays \in Nat /\ SkipExisting \in BOOLEAN

NoRow  == 0
NoDay  == 0
NoRows == [s \in Symbols |-> NoRow]

VARIABLES
    table,      \* snapshot_date -> symbol -> day of the row's bar, or NoRow
    clock,      \* today
    have,       \* last day of bars the warehouse holds for each symbol
    pc,
    day,        \* loader: day of its scan, or the date `studies` reuses; backfill: day it is at
    rows,       \* loader: rows of its scan
    end,        \* backfill: last day of its range
    cache,      \* backfill: BarCache, last day of bars loaded for each symbol
    batch,      \* backfill: allSnapshots, day -> rows
    lost        \* history: dates whose rows a Load deleted and nobody wrote since

worldVars == <<clock, have>>
procVars  == <<pc, day, rows, end, cache, batch>>
vars == <<table, clock, have, pc, day, rows, end, cache, batch, lost>>

Exists(k) == table[k] # NoRows

NoBatch == [d \in {} |-> NoRows]

-----------------------------------------------------------------------------
(* The warehouse and the calendar *)

\* store.LatestBarDate: SELECT MAX(timestamp), or no day
LatestBarDate == Max({have[s] : s \in Symbols} \cup {NoDay})

\* The pipeline stores the bars of one symbol up to some day.
Ingest(s) ==
    /\ \E d \in Trading : have[s] < d /\ d <= clock /\ have' = [have EXCEPT ![s] = d]
    /\ UNCHANGED <<table, clock, procVars, lost>>

DayPasses ==
    /\ clock < LastDay
    /\ clock' = clock + 1
    /\ UNCHANGED <<table, have, procVars, lost>>

\* Mutant: the cache query has no upper bound on the timestamp.
LastBarUnbounded(s, upto, d) ==
    LET known == {t \in Trading : t <= upto} IN
    IF known = {} THEN NoRow ELSE Max(known)

\* The last bar of s, of those loaded up to day `upto`, that is not after d.
LastBar(s, upto, d) ==
    LET known == {t \in Trading : t <= upto /\ t <= d} IN
    IF known = {} THEN NoRow ELSE Max(known)

\* screen.Build on those bars.
RowOf(s, upto, d) ==
    IF LastBar(s, upto, d) >= FirstRow[s] THEN LastBar(s, upto, d) ELSE NoRow

-----------------------------------------------------------------------------
(* Loaders: scan.Universe, then snapshot.DB.Load(rows, day) *)

Goto(p, where) == pc' = [pc EXCEPT ![p] = where]

NothingDone == [day |-> NoDay, rows |-> NoRows, end |-> NoDay,
                cache |-> [s \in Symbols |-> NoDay], batch |-> NoBatch]

\* The process, or its part in this, is over: its memory is forgotten.
Stop(p) ==
    /\ Goto(p, "idle")
    /\ day' = [day EXCEPT ![p] = NothingDone.day]
    /\ rows' = [rows EXCEPT ![p] = NothingDone.rows]
    /\ end' = [end EXCEPT ![p] = NothingDone.end]
    /\ cache' = [cache EXCEPT ![p] = NothingDone.cache]
    /\ batch' = [batch EXCEPT ![p] = NothingDone.batch]

\* AtomicScan: symbols whose load fails are logged and left out.  (A scan that
\* saw no bar at all loads nothing, under the clock's time.)
LoaderScan(p) ==
    /\ pc[p] = "idle"
    /\ \E seen \in SUBSET Symbols :
        /\ \E s \in seen : have[s] # NoDay
        /\ day' = [day EXCEPT ![p] = Max({have[s] : s \in seen})]
        /\ rows' = [rows EXCEPT ![p] =
              [s \in Symbols |-> IF s \in seen THEN RowOf(s, have[s], LastDay) ELSE NoRow]]
    /\ Goto(p, "delete")
    /\ UNCHANGED <<table, worldVars, end, cache, batch, lost>>

LoadDelete(p) ==
    /\ pc[p] = "delete"
    /\ table' = [table EXCEPT ![BarTs(day[p])] = NoRows]
    /\ lost' = IF Exists(BarTs(day[p])) THEN lost \cup {BarTs(day[p])} ELSE lost
    /\ Goto(p, "insert")
    /\ UNCHANGED <<worldVars, day, rows, end, cache, batch>>

\* INSERT (not OR IGNORE): the transaction fails when another process has
\* inserted a row of this date and symbol meanwhile, or on an I/O error.
LoadInsert(p) ==
    /\ pc[p] = "insert"
    /\ \A s \in Symbols : rows[p][s] # NoRow => table[BarTs(day[p])][s] = NoRow
    /\ table' = [table EXCEPT ![BarTs(day[p])] =
                    [s \in Symbols |-> IF rows[p][s] # NoRow THEN rows[p][s] ELSE @[s]]]
    /\ lost' = IF rows[p] # NoRows THEN lost \ {BarTs(day[p])} ELSE lost
    /\ Stop(p)
    /\ UNCHANGED worldVars

LoadFails(p) ==
    /\ pc[p] = "insert"
    /\ Stop(p)
    /\ UNCHANGED <<table, worldVars, lost>>

-----------------------------------------------------------------------------
(* `studies` without --force: runStudies reuses the newest snapshot, if any *)

Stored == {k \in DateKeys : Exists(k)}

\* ListSnapshots, newest first.  (Without any it is a loader, as with --force.)
StudiesList(p) ==
    /\ pc[p] = "idle"
    /\ Stored # {}
    /\ day' = [day EXCEPT ![p] = Max(Stored)]
    /\ Goto(p, "select")
    /\ UNCHANGED <<table, worldVars, rows, end, cache, batch, lost>>

\* Mutant: the date of the newest bar is selected, and not looked up.
StudiesSelectLatestBar(p) ==
    /\ pc[p] = "select"
    /\ day' = [day EXCEPT ![p] = BarTs(LatestBarDate)]
    /\ Goto(p, "run")
    /\ UNCHANGED <<table, worldVars, rows, end, cache, batch, lost>>

\* SetActive counts the rows of the date: none ends the process.
StudiesSelect(p) ==
    /\ pc[p] = "select"
    /\ IF Exists(day[p])
       THEN Goto(p, "run") /\ UNCHANGED <<day, rows, end, cache, batch>>
       ELSE Stop(p)
    /\ UNCHANGED <<table, worldVars, lost>>

\* Each study queries the rows of that date, whatever the format printed; the
\* process ends after the last.
StudiesRun(p) ==
    /\ pc[p] = "run"
    /\ Stop(p)
    /\ UNCHANGED <<table, worldVars, lost>>

-----------------------------------------------------------------------------
(* scan.BackfillSnapshots *)

\* LatestBarDate and the range of days.
FillStart(p) ==
    /\ pc[p] = "idle"
    /\ BackfillDays > 0
    /\ LatestBarDate # NoDay
    /\ end' = [end EXCEPT ![p] = LatestBarDate]
    /\ day' = [day EXCEPT ![p] = LatestBarDate - BackfillDays + 1]
    /\ batch' = [batch EXCEPT ![p] = NoBatch]
    /\ Goto(p, "bulk")
    /\ UNCHANGED <<table, worldVars, rows, cache, lost>>

\* BarCache.BulkLoad: a symbol whose load fails is logged and left out.
BulkLoad(p) ==
    /\ pc[p] = "bulk"
    /\ \E loaded \in SUBSET Symbols :
          cache' = [cache EXCEPT ![p] =
                       [s \in Symbols |-> IF s \in loaded THEN have[s] ELSE NoDay]]
    /\ Goto(p, "days")
    /\ UNCHANGED <<table, worldVars, day, rows, end, batch, lost>>

\* UniverseFromCache: rows from the cached bars up to day d.
UniverseFromCache(p, d) == [s \in Symbols |-> RowOf(s, cache[p][s], d)]

\* Mutant: weekends are not skipped.
FillDayWeekends(p) ==
    /\ pc[p] = "days"
    /\ day[p] <= end[p]
    /\ day' = [day EXCEPT ![p] = @ + 1]
    /\ LET d == day[p]
           found == UniverseFromCache(p, d)
       IN batch' = IF d < 1 \/ (SkipExisting /\ Exists(Midnight(d))) \/ found = NoRows
                   THEN batch
                   ELSE [batch EXCEPT ![p] =
                            [e \in DOMAIN batch[p] \cup {d} |-> IF e = d THEN found ELSE batch[p][e]]]
    /\ UNCHANGED <<table, worldVars, pc, rows, end, cache, lost>>

\* One turn of the loop: weekends and, when asked, existing dates are skipped;
\* a day without rows is counted as failed; others are collected.
FillDay(p) ==
    /\ pc[p] = "days"
    /\ day[p] <= end[p]
    /\ day' = [day EXCEPT ![p] = @ + 1]
    /\ LET d == day[p]
           found == UniverseFromCache(p, d)
           skip == d \in Weekend \/ (SkipExisting /\ Exists(Midnight(d)))
       IN batch' = IF d < 1 \/ skip \/ found = NoRows
                   THEN batch
                   ELSE [batch EXCEPT ![p] =
                            [e \in DOMAIN batch[p] \cup {d} |-> IF e = d THEN found ELSE batch[p][e]]]
    /\ UNCHANGED <<table, worldVars, pc, rows, end, cache, lost>>

\* ctx is cancelled: BackfillSnapshots returns without writing anything.
FillCancelled(p) ==
    /\ pc[p] \in {"bulk", "days"}
    /\ Stop(p)
    /\ UNCHANGED <<table, worldVars, lost>>

\* Mutant: INSERT OR REPLACE.
LoadHistoryBatchReplaces(p) ==
    /\ pc[p] = "days"
    /\ day[p] > end[p]
    /\ table' = [k \in DateKeys |->
          [s \in Symbols |->
              IF (\E d \in DOMAIN batch[p] : k = Midnight(d)) /\ batch[p][k \div 2][s] # NoRow
              THEN batch[p][k \div 2][s] ELSE table[k][s]]]
    /\ lost' = {k \in lost : table'[k] = NoRows}
    /\ Goto(p, IF KeepDays > 0 /\ ~SkipExisting THEN "cleanup" ELSE "reported")
    /\ UNCHANGED <<worldVars, day, rows, end, cache, batch>>

\* LoadHistoryBatch: INSERT OR IGNORE of every day, in one transaction.
LoadHistoryBatch(p) ==
    /\ pc[p] = "days"
    /\ day[p] > end[p]
    /\ table' = [k \in DateKeys |->
          [s \in Symbols |->
              IF table[k][s] = NoRow /\ \E d \in DOMAIN batch[p] : k = Midnight(d)
              THEN batch[p][k \div 2][s] ELSE table[k][s]]]
    /\ lost' = {k \in lost : table'[k] = NoRows}
    /\ Goto(p, IF KeepDays > 0 /\ ~SkipExisting THEN "cleanup" ELSE "reported")
    /\ UNCHANGED <<worldVars, day, rows, end, cache, batch>>

\* Mutant: the error of the batch is only logged.
BatchFailsReported(p) ==
    /\ pc[p] = "days"
    /\ day[p] > end[p]
    /\ Goto(p, "reported")
    /\ UNCHANGED <<table, worldVars, day, rows, end, cache, batch, lost>>

\* The transaction fails and is rolled back: the error is returned.
BatchFails(p) ==
    /\ pc[p] = "days"
    /\ day[p] > end[p]
    /\ Stop(p)
    /\ UNCHANGED <<table, worldVars, lost>>

\* DELETE FROM snapshot WHERE snapshot_date < now - keepDays: now is some time
\* of today after midnight.
Outdated(k) == KeepDays > 0 /\ k < 2 * (clock - KeepDays) + 1

Cleanup(p) ==
    /\ pc[p] = "cleanup"
    /\ table' = [k \in DateKeys |-> IF Outdated(k) THEN NoRows ELSE table[k]]
    /\ Goto(p, "reported")
    /\ UNCHANGED <<worldVars, day, rows, end, cache, batch, lost>>

CleanupFails(p) ==
    /\ pc[p] = "cleanup"
    /\ Goto(p, "reported")
    /\ UNCHANGED <<table, worldVars, day, rows, end, cache, batch, lost>>

\* "backfill complete": the process ends.
FillEnds(p) ==
    /\ pc[p] = "reported"
    /\ Stop(p)
    /\ UNCHANGED <<table, worldVars, lost>>

\* A process is killed, between two statements or inside a transaction, which
\* SQLite then rolls back.
Killed(p) ==
    /\ pc[p] # "idle"
    /\ Stop(p)
    /\ UNCHANGED <<table, worldVars, lost>>

-----------------------------------------------------------------------------

Init ==
    /\ table = [k \in DateKeys |-> NoRows]
    /\ clock \in Days
    /\ have \in [Symbols -> {t \in Trading : t <= clock} \cup {NoDay}]
    /\ pc = [p \in Procs |-> "idle"]
    /\ day = [p \in Procs |-> NothingDone.day]
    /\ rows = [p \in Procs |-> NothingDone.rows]
    /\ end = [p \in Procs |-> NothingDone.end]
    /\ cache = [p \in Procs |-> NothingDone.cache]
    /\ batch = [p \in Procs |-> NothingDone.batch]
    /\ lost = {}

LoaderStep(p) == LoaderScan(p) \/ LoadDelete(p) \/ LoadInsert(p) \/ LoadFails(p)

StudiesStep(p) == StudiesList(p) \/ StudiesSelect(p) \/ StudiesRun(p)

FillerStep(p) ==
    \/ FillStart(p) \/ BulkLoad(p) \/ FillDay(p) \/ FillCancelled(p)
    \/ LoadHistoryBatch(p) \/ BatchFails(p) \/ Cleanup(p) \/ CleanupFails(p) \/ FillEnds(p)

Next ==
    \/ \E p \in Loaders : LoaderStep(p)
    \/ \E p \in Readers : StudiesStep(p)
    \/ \E p \in Fillers : FillerStep(p)
    \/ \E p \in Procs : Killed(p)
    \/ \E s \in Symbols : Ingest(s)
    \/ DayPasses

Spec == Init /\ [][Next]_vars

-----------------------------------------------------------------------------

RowSet == [Symbols -> Days \cup {NoRow}]

PC == {"idle", "delete", "insert", "select", "run", "bulk", "days", "cleanup", "reported"}

\* Types of the variables.
TypeOK ==
    /\ table \in [DateKeys -> RowSet]
    /\ clock \in Days
    /\ have \in [Symbols -> Trading \cup {NoDay}]
    /\ pc \in [Procs -> PC]
    /\ day \in [Procs -> Int]
    /\ rows \in [Procs -> RowSet]
    /\ end \in [Procs -> Days \cup {NoDay}]
    /\ cache \in [Procs -> [Symbols -> Days \cup {NoDay}]]
    /\ \A p \in Procs : DOMAIN batch[p] \subseteq Days \ Weekend
    /\ \A p \in Procs : \A d \in DOMAIN batch[p] : batch[p][d] \in RowSet
    /\ lost \subseteq DateKeys

\* No lookahead: the row of a past day is computed from bars of that day or
\* before, also when the warehouse receives later bars while the backfill runs
\* or after it fixed its range ("no lookahead bias", BackfillSnapshots).
NoLookahead == \A k \in DateKeys : \A s \in Symbols : 2 * table[k][s] <= k

\* A stored row is never changed in place.  It goes away only with the whole
\* date: a Load of that very date, or the retention cleanup of an outdated one.
\* Whatever else the processes do in between, backfilled days survive.
RowsSafe ==
    [][\A k \in DateKeys : \A s \in Symbols :
          table[k][s] # NoRow /\ table'[k][s] # table[k][s] =>
              /\ table'[k] = NoRows
              /\ \/ \E p \in Loaders : pc[p] = "delete" /\ pc'[p] = "insert" /\ BarTs(day[p]) = k
                 \/ \E p \in Fillers : pc[p] = "cleanup" /\ pc'[p] = "reported" /\ Outdated(k)]_vars

\* When backfill reports success every day it counted is in the file, save
\* those the retention does not keep and those a Load is replacing or failed to
\* replace.
Accounted(k) == Exists(k) \/ Outdated(k) \/ k \in lost

ReportIsTrue ==
    \A p \in Fillers : pc[p] \in {"cleanup", "reported"} =>
        \A d \in DOMAIN batch[p] : Accounted(Midnight(d))

\* `studies` lists, selects and queries in separate statements while others
\* write: when a study finds its date without a row, a Load is replacing the
\* date or failed to replace it, or the retention does not keep it.
EmptyHasCause == \A p \in Readers : pc[p] = "run" => Accounted(day[p])

=============================================================================
