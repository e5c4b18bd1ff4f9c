---------------------------- MODULE ScanUniverse ----------------------------
(***************************************************************************)
(* scan.Universe (internal/scan/scan.go): the concurrent whole-universe    *)
(* scan.  A feeder goroutine offers the symbols one by one on an           *)
(* unbuffered channel, a pool of workers loads each symbol's bars and      *)
(* sends one item per symbol with data on a channel of capacity            *)
(* len(workers), a closer goroutine closes that channel when every worker  *)
(* has returned, and the caller collects, sorts and returns.               *)
(*                                                                         *)
(* A job is a position in the list of symbols, so that a list with a       *)
(* repeated symbol is still told apart item by item.  The bars of a symbol *)
(* are abstracted to what the scan does with them: none, or bars whose row *)
(* fails or passes the warm-up and liquidity filter, with the timestamp of *)
(* the last bar.                                                           *)
(***************************************************************************)
EXTENDS Integers, Sequences, FiniteSets, Functions

CONSTANTS
    Symbols,    \* the list of symbols; a symbol is its rank in string order
    Workers,    \* the worker goroutines
    BarTs,      \* timestamp of the last bar of the symbol at each position
    Now         \* time.Now() when the collector finishes

NoJob == 0

Jobs == 1..Len(Symbols)

ASSUME ScanAssumption ==
    /\ Symbols \in Seq(Nat)
    /\ IsFiniteSet(Workers) /\ Workers # {}
    /\ BarTs \in [Jobs -> Nat \ {0}]
    /\ Now \in Nat \ {0}

VARIABLES
    bars,       \* what the warehouse holds for each position of the list
    cancelled,  \* ctx.Done() is closed
    nextJob,    \* the position the feeder offers next
    jobsClosed, \* close(jobs) has run
    pc,         \* where each worker is
    job,        \* the position each worker is processing
    failed,     \* positions logged with "load bars failed"
    results,    \* the buffered results channel
    resultsClosed,
    rows,       \* res.Rows
    scanned,    \* res.Scanned
    maxTs,
    day         \* res.Day; 0 until the caller returns

feederVars  == <<nextJob, jobsClosed>>
workerVars  == <<pc, job, failed>>
channelVars == <<results, resultsClosed>>
resVars     == <<rows, scanned, maxTs, day>>
vars == <<bars, cancelled, feederVars, workerVars, channelVars, resVars>>

\* What loading and screen.Build can find for a symbol: no bars, bars whose
\* row is dropped (warm-up, NaN or thin dollar volume), or an eligible row.
BarsKind == {"none", "dropped", "eligible"}

\* Where a worker can be: waiting on the jobs channel, holding a symbol and
\* about to look at ctx, inside LoadAdjustedBars, holding an item for the
\* results channel, returned.
WorkerPC == {"range", "check", "load", "send", "done"}

ResultCapacity == Cardinality(Workers)

Returned == day # 0

-----------------------------------------------------------------------------

Init ==
    /\ bars \in [Jobs -> BarsKind]
    /\ cancelled \in BOOLEAN
    /\ nextJob = 1
    /\ jobsClosed = FALSE
    /\ pc = [w \in Workers |-> "range"]
    /\ job = [w \in Workers |-> NoJob]
    /\ failed = {}
    /\ results = <<>>
    /\ resultsClosed = FALSE
    /\ rows = <<>>
    /\ scanned = 0
    /\ maxTs = 0
    /\ day = 0

\* The caller's context is cancelled (SIGINT, server shutdown).
Cancel ==
    /\ ~cancelled
    /\ ~Returned
    /\ cancelled' = TRUE
    /\ UNCHANGED <<bars, feederVars, workerVars, channelVars, resVars>>

\* Mutant: the feeder's loop runs one position too far.
HandoffOffByOne(w) ==
    /\ ~jobsClosed
    /\ nextJob <= Len(Symbols) + 1
    /\ pc[w] = "range"
    /\ nextJob' = nextJob + 1
    /\ pc' = [pc EXCEPT ![w] = "check"]
    /\ job' = [job EXCEPT ![w] = nextJob]
    /\ UNCHANGED <<bars, cancelled, jobsClosed, failed, channelVars, resVars>>

\* Mutant: the worker reads the loop variable after the feeder has moved on.
HandoffCaptured(w) ==
    /\ ~jobsClosed
    /\ nextJob <= Len(Symbols)
    /\ pc[w] = "range"
    /\ nextJob' = nextJob + 1
    /\ pc' = [pc EXCEPT ![w] = "check"]
    /\ job' = [job EXCEPT ![w] = IF nextJob < Len(Symbols) THEN nextJob + 1 ELSE nextJob]
    /\ UNCHANGED <<bars, cancelled, jobsClosed, failed, channelVars, resVars>>

\* jobs is unbuffered: the feeder's send and one worker's receive are one step.
\* The select may still choose the send when ctx is already done.
Handoff(w) ==
    /\ ~jobsClosed
    /\ nextJob <= Len(Symbols)
    /\ pc[w] = "range"
    /\ nextJob' = nextJob + 1
    /\ pc' = [pc EXCEPT ![w] = "check"]
    /\ job' = [job EXCEPT ![w] = nextJob]
    /\ UNCHANGED <<bars, cancelled, jobsClosed, failed, channelVars, resVars>>

\* Mutant: the feeder's send is not in a select with ctx.Done().
FeederCloseDeaf ==
    /\ ~jobsClosed
    /\ nextJob > Len(Symbols)
    /\ jobsClosed' = TRUE
    /\ UNCHANGED <<bars, cancelled, nextJob, workerVars, channelVars, resVars>>

\* The feeder leaves its loop, all symbols sent or ctx done, and closes jobs.
FeederClose ==
    /\ ~jobsClosed
    /\ nextJob > Len(Symbols) \/ cancelled
    /\ jobsClosed' = TRUE
    /\ UNCHANGED <<bars, cancelled, nextJob, workerVars, channelVars, resVars>>

\* `for sym := range jobs` ends on the closed channel: the worker returns.
RangeEnds(w) ==
    /\ pc[w] = "range"
    /\ jobsClosed
    /\ pc' = [pc EXCEPT ![w] = "done"]
    /\ UNCHANGED <<bars, cancelled, feederVars, job, failed, channelVars, resVars>>

\* `if ctx.Err() != nil { return }`: the symbol in hand is dropped.
WorkerGivesUp(w) ==
    /\ pc[w] = "check"
    /\ cancelled
    /\ pc' = [pc EXCEPT ![w] = "done"]
    /\ job' = [job EXCEPT ![w] = NoJob]
    /\ UNCHANGED <<bars, cancelled, feederVars, failed, channelVars, resVars>>

WorkerGoesOn(w) ==
    /\ pc[w] = "check"
    /\ ~cancelled
    /\ pc' = [pc EXCEPT ![w] = "load"]
    /\ UNCHANGED <<bars, cancelled, feederVars, job, failed, channelVars, resVars>>

\* Mutant: no `continue` after the error is logged.
LoadFailsGoesOn(w) ==
    /\ pc[w] = "load"
    /\ pc' = [pc EXCEPT ![w] = "send"]
    /\ failed' = failed \cup {job[w]}
    /\ UNCHANGED <<bars, cancelled, feederVars, job, channelVars, resVars>>

\* LoadAdjustedBars returns an error: logged, and on to the next symbol.
LoadFails(w) ==
    /\ pc[w] = "load"
    /\ pc' = [pc EXCEPT ![w] = "range"]
    /\ job' = [job EXCEPT ![w] = NoJob]
    /\ failed' = failed \cup {job[w]}
    /\ UNCHANGED <<bars, cancelled, feederVars, channelVars, resVars>>

\* No bars: on to the next symbol, nothing is sent.
LoadEmpty(w) ==
    /\ pc[w] = "load"
    /\ bars[job[w]] = "none"
    /\ pc' = [pc EXCEPT ![w] = "range"]
    /\ job' = [job EXCEPT ![w] = NoJob]
    /\ UNCHANGED <<bars, cancelled, feederVars, failed, channelVars, resVars>>

\* Bars: screen.Build and the liquidity filter decide the item's ok flag.
LoadBars(w) ==
    /\ pc[w] = "load"
    /\ bars[job[w]] # "none"
    /\ pc' = [pc EXCEPT ![w] = "send"]
    /\ UNCHANGED <<bars, cancelled, feederVars, job, failed, channelVars, resVars>>

\* `results <- it` blocks while the buffer is full.  (A send on the closed
\* channel would panic: NoSendOnClosed.)
SendResult(w) ==
    /\ pc[w] = "send"
    /\ Len(results) < ResultCapacity
    /\ results' = Append(results, job[w])
    /\ pc' = [pc EXCEPT ![w] = "range"]
    /\ job' = [job EXCEPT ![w] = NoJob]
    /\ UNCHANGED <<bars, cancelled, feederVars, failed, resultsClosed, resVars>>

\* Mutant: the first worker to return closes the channel.
CloseResultsEarly ==
    /\ ~resultsClosed
    /\ \E w \in Workers : pc[w] = "done"
    /\ resultsClosed' = TRUE
    /\ UNCHANGED <<bars, cancelled, feederVars, workerVars, results, resVars>>

\* `wg.Wait(); close(results)`.
CloseResults ==
    /\ ~resultsClosed
    /\ \A w \in Workers : pc[w] = "done"
    /\ resultsClosed' = TRUE
    /\ UNCHANGED <<bars, cancelled, feederVars, workerVars, results, resVars>>

\* Mutant: the statistics are taken after the ok test.
CollectOkOnly ==
    /\ results # <<>>
    /\ LET it == Head(results) IN
        IF bars[it] = "eligible"
        THEN /\ scanned' = scanned + 1
             /\ maxTs' = IF BarTs[it] > maxTs THEN BarTs[it] ELSE maxTs
             /\ rows' = Append(rows, it)
        ELSE UNCHANGED <<scanned, maxTs, rows>>
    /\ results' = Tail(results)
    /\ UNCHANGED <<bars, cancelled, feederVars, workerVars, resultsClosed, day>>

\* One turn of `for it := range results` in the caller.
Collect ==
    /\ results # <<>>
    /\ LET it == Head(results) IN
        /\ scanned' = scanned + 1
        /\ maxTs' = IF BarTs[it] > maxTs THEN BarTs[it] ELSE maxTs
        /\ rows' = IF bars[it] = "eligible" THEN Append(rows, it) ELSE rows
    /\ results' = Tail(results)
    /\ UNCHANGED <<bars, cancelled, feederVars, workerVars, resultsClosed, day>>

\* s is a reordering of t.
IsReordering(s, t) ==
    \E p \in Bijection(1..Len(t), 1..Len(t)) : s = [k \in 1..Len(t) |-> t[p[k]]]

SortedBySymbol(s) ==
    \A k \in 1..Len(s) : \A l \in 1..Len(s) : k < l => Symbols[s[k]] <= Symbols[s[l]]

\* Mutant: rows are returned in completion order.
ReturnUnsorted ==
    /\ resultsClosed
    /\ results = <<>>
    /\ ~Returned
    /\ day' = IF maxTs > 0 THEN maxTs ELSE Now
    /\ UNCHANGED <<bars, cancelled, feederVars, workerVars, channelVars, rows, scanned, maxTs>>

\* sort.Slice by symbol (not stable), the day, and return.
Return ==
    /\ resultsClosed
    /\ results = <<>>
    /\ ~Returned
    /\ \E s \in [1..Len(rows) -> Jobs] :
        /\ IsReordering(s, rows)
        /\ SortedBySymbol(s)
        /\ rows' = s
    /\ day' = IF maxTs > 0 THEN maxTs ELSE Now
    /\ UNCHANGED <<bars, cancelled, feederVars, workerVars, channelVars, scanned, maxTs>>

\* Everything has returned: the only state in which the scan may rest.
Finished ==
    /\ Returned
    /\ UNCHANGED vars

WorkerStep(w) ==
    \/ RangeEnds(w) \/ WorkerGivesUp(w) \/ WorkerGoesOn(w)
    \/ LoadFails(w) \/ LoadEmpty(w) \/ LoadBars(w) \/ SendResult(w)

Next ==
    \/ Cancel
    \/ FeederClose
    \/ \E w \in Workers : Handoff(w) \/ WorkerStep(w)
    \/ CloseResults
    \/ Collect
    \/ Return
    \/ Finished

\* The Go scheduler runs every goroutine that can run; a query against the
\* local SQLite warehouse returns.  Nothing obliges anyone to cancel.
Fairness ==
    /\ WF_vars(FeederClose)
    /\ WF_vars(\E w \in Workers : Handoff(w))
    /\ \A w \in Workers : WF_vars(WorkerStep(w))
    /\ WF_vars(CloseResults)
    /\ WF_vars(Collect)
    /\ WF_vars(Return)

Spec == Init /\ [][Next]_vars

FairSpec == Spec /\ Fairness

-----------------------------------------------------------------------------

\* Types of the variables; scanned never exceeds the length of the list.
TypeOK ==
    /\ bars \in [Jobs -> BarsKind]
    /\ cancelled \in BOOLEAN
    /\ nextJob \in 1..(Len(Symbols) + 1)
    /\ jobsClosed \in BOOLEAN
    /\ pc \in [Workers -> WorkerPC]
    /\ job \in [Workers -> Jobs \cup {NoJob}]
    /\ failed \in SUBSET Jobs
    /\ results \in Seq(Jobs)
    /\ resultsClosed \in BOOLEAN
    /\ rows \in Seq(Jobs)
    /\ scanned \in 0..Len(Symbols)
    /\ maxTs \in Nat
    /\ day \in Nat

Eligible == {j \in Jobs : bars[j] = "eligible"}

\* Where a symbol's row can be between the feeder and the answer.
Held      == {job[w] : w \in Workers} \ {NoJob}
Buffered  == Range(results)
Collected == Range(rows)

\* Between the feeder, the workers, the channel and the answer a position of
\* the list exists at most once: no scheduling processes or reports a symbol
\* twice ("one item per symbol" of Universe's worker loop).
OnlyOnce ==
    /\ \A v \in Workers : \A w \in Workers :
          v # w /\ job[v] # NoJob => job[v] # job[w]
    /\ IsInjective(results)
    /\ IsInjective(rows)
    /\ Held \cap Buffered = {}
    /\ Held \cap Collected = {}
    /\ Buffered \cap Collected = {}
    /\ Held \cup Buffered \cup Collected \subseteq 1..(nextJob - 1)

\* A worker with an item always finds the results channel open: close(results)
\* never races a send, which would panic.
NoSendOnClosed ==
    resultsClosed => \A w \in Workers : pc[w] = "done" /\ job[w] = NoJob

\* A scan that nobody cancelled returns exactly the eligible rows of the
\* universe, each once and in symbol order, save those whose load error was
\* logged ("one bad symbol shouldn't sink the whole digest").
CompleteScan ==
    Returned /\ ~cancelled =>
        /\ Collected = Eligible \ failed
        /\ IsInjective(rows)
        /\ SortedBySymbol(rows)

\* Scanned counts the symbols that returned data and Day is the newest bar of
\* all of them, also of those whose row the filter dropped; Day falls back to
\* the clock only when no symbol had data.
StatsAgree ==
    Returned /\ ~cancelled =>
        LET seen == {j \in Jobs : bars[j] # "none"} \ failed IN
        /\ scanned = Cardinality(seen)
        /\ IF seen = {}
           THEN day = Now
           ELSE day \in {BarTs[j] : j \in seen} /\ \A j \in seen : BarTs[j] <= day

\* Seen from outside the scan is one step (AtomicScan): until it returns the
\* caller sees nothing of its rows.
Atomic == INSTANCE AtomicScan WITH
    eligible <- Eligible,
    returned <- Returned,
    answer   <- IF Returned THEN rows ELSE <<>>

\* The feeder, the workers, the channels and the collector together implement
\* the atomic scan that the callers of Universe rely on.
ImplementsAtomicScan == Atomic!Spec

\* Cancelled or not, the scan returns and leaves no goroutine behind: the
\* feeder and every worker have returned when Universe does.
Terminates == <>(Returned /\ jobsClosed /\ \A w \in Workers : pc[w] = "done")

=============================================================================
