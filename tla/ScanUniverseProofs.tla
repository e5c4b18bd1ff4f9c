------------------------- MODULE ScanUniverseProofs -------------------------
(***************************************************************************)
(* Proofs about the concurrent scan, for every list of symbols, every      *)
(* number of workers and every warehouse.                                  *)
(***************************************************************************)
EXTENDS ScanUniverse, TLAPS, FiniteSetTheorems

\* The types, but for the bound on scanned.
BaseOK ==
    /\ bars \in [Jobs -> BarsKind]
    /\ cancelled \in BOOLEAN
    /\ nextJob \in 1..(Len(Symbols) + 1)
    /\ jobsClosed \in BOOLEAN
    /\ pc \in [Workers -> WorkerPC]
    /\ job \in [Workers -> Jobs \cup {NoJob}]
    /\ failed \in SUBSET Jobs
    /\ results \in Seq(Jobs)
    /\ resultsClosed \in BOOLEAN
    /\ rows \in Seq(Jobs)
    /\ scanned \in Nat
    /\ maxTs \in Nat
    /\ day \in Nat

\* A worker holds a position exactly while it is working on it.
HoldsWhileBusy ==
    \A w \in Workers : job[w] = NoJob <=> pc[w] \in {"range", "done"}

\* OnlyOnce, element by element.
Apart ==
    /\ \A v \in Workers : \A w \in Workers :
          v # w /\ job[v] # NoJob => job[v] # job[w]
    /\ \A k \in 1..Len(results) : \A l \in 1..Len(results) :
          results[k] = results[l] => k = l
    /\ \A k \in 1..Len(rows) : \A l \in 1..Len(rows) : rows[k] = rows[l] => k = l
    /\ \A w \in Workers : \A k \in 1..Len(results) : job[w] # results[k]
    /\ \A w \in Workers : \A k \in 1..Len(rows) : job[w] # rows[k]
    /\ \A k \in 1..Len(results) : \A l \in 1..Len(rows) : results[k] # rows[l]

\* Only what the feeder handed out is anywhere.
HandedOut ==
    /\ \A w \in Workers : job[w] < nextJob
    /\ \A k \in 1..Len(results) : results[k] < nextJob
    /\ \A k \in 1..Len(rows) : rows[k] < nextJob
    /\ \A j \in failed : j < nextJob

\* A position logged as failed is nowhere else; rows hold eligible positions.
FailedIsGone ==
    /\ \A w \in Workers : job[w] \notin failed
    /\ \A k \in 1..Len(results) : results[k] \notin failed
    /\ \A k \in 1..Len(rows) : rows[k] \notin failed /\ rows[k] \in Eligible

\* Until ctx is cancelled an eligible position that was handed out is
\* somewhere: held, in the channel, collected, or logged as failed.
NothingLost ==
    ~cancelled => \A j \in Eligible : j < nextJob =>
        \/ \E w \in Workers : job[w] = j
        \/ \E k \in 1..Len(results) : results[k] = j
        \/ \E k \in 1..Len(rows) : rows[k] = j
        \/ j \in failed

\* What each goroutine's end says about the ones before it.
ClosingOrder ==
    /\ ~cancelled /\ jobsClosed => nextJob = Len(Symbols) + 1
    /\ ~cancelled => \A w \in Workers : pc[w] = "done" => jobsClosed
    /\ resultsClosed => \A w \in Workers : pc[w] = "done"
    /\ Returned => resultsClosed /\ results = <<>> /\ SortedBySymbol(rows)

IInv ==
    /\ BaseOK
    /\ HoldsWhileBusy
    /\ Apart
    /\ HandedOut
    /\ FailedIsGone
    /\ NothingLost
    /\ ClosingOrder

-----------------------------------------------------------------------------

\* The length of the list is a natural number and positions are positive.
LEMMA JobsFacts ==
    /\ Len(Symbols) \in Nat
    /\ Jobs = 1..Len(Symbols)
    /\ NoJob \notin Jobs
BY ScanAssumption DEF Jobs, NoJob

\* What Append does to length and elements.
LEMMA AppendFacts ==
    ASSUME NEW S, NEW s \in Seq(S), NEW e \in S
    PROVE  /\ Append(s, e) \in Seq(S)
           /\ Len(s) \in Nat
           /\ Len(Append(s, e)) = Len(s) + 1
           /\ \A k \in 1..Len(s) : Append(s, e)[k] = s[k]
           /\ Append(s, e)[Len(s) + 1] = e
OBVIOUS

\* Under the type invariant, everything that is compared is a number.
LEMMA Numbers ==
    ASSUME BaseOK
    PROVE  /\ nextJob \in Int
           /\ Len(results) \in Nat /\ Len(rows) \in Nat
           /\ \A w \in Workers : job[w] \in Int
           /\ \A k \in 1..Len(results) : results[k] \in Jobs /\ results[k] \in Int
           /\ \A k \in 1..Len(rows) : rows[k] \in Jobs /\ rows[k] \in Int
           /\ \A j \in failed : j \in Int
<1> USE JobsFacts
<1>1. Jobs \subseteq Int /\ NoJob \in Int
  BY DEF NoJob
<1>2. nextJob \in Int /\ failed \subseteq Int
  BY <1>1 DEF BaseOK
<1>3. \A w \in Workers : job[w] \in Int
  BY <1>1 DEF BaseOK
<1>4. Len(results) \in Nat /\ \A k \in 1..Len(results) : results[k] \in Jobs
  BY DEF BaseOK
<1>5. Len(rows) \in Nat /\ \A k \in 1..Len(rows) : rows[k] \in Jobs
  BY DEF BaseOK
<1> HIDE JobsFacts
<1> QED BY <1>1, <1>2, <1>3, <1>4, <1>5

\* The initial state of the scan satisfies the inductive invariant.
LEMMA InitIInv == Init => IInv
<1> SUFFICES ASSUME Init PROVE IInv
  OBVIOUS
<1> USE JobsFacts DEF Init
<1>1. BaseOK
  <2>1. results \in Seq(Jobs) /\ rows \in Seq(Jobs)
    OBVIOUS
  <2>2. pc \in [Workers -> WorkerPC] /\ job \in [Workers -> Jobs \cup {NoJob}]
    BY DEF WorkerPC
  <2>3. nextJob \in 1..(Len(Symbols) + 1) /\ failed \in SUBSET Jobs
    OBVIOUS
  <2> QED BY <2>1, <2>2, <2>3 DEF BaseOK
<1>2. HoldsWhileBusy /\ Apart /\ HandedOut
  BY DEF HoldsWhileBusy, Apart, HandedOut, NoJob
<1>3. FailedIsGone /\ NothingLost
  BY DEF FailedIsGone, NothingLost, Eligible
<1>4. ClosingOrder
  BY DEF ClosingOrder, Returned
<1> QED BY <1>1, <1>2, <1>3, <1>4 DEF IInv

\* The feeder's hand-over of a position to a worker keeps the invariant.
LEMMA HandoffIInv ==
    ASSUME NEW w \in Workers, IInv, Handoff(w)
    PROVE  IInv'
<1> USE JobsFacts DEF IInv, BaseOK, Handoff, channelVars, resVars
<1>1. BaseOK'
  BY DEF WorkerPC, NoJob
<1>2. HoldsWhileBusy'
  BY DEF HoldsWhileBusy, NoJob
<1>3. Apart'
  BY Numbers DEF HandedOut, Apart, NoJob
<1>4. HandedOut'
  <2>1. \A v \in Workers : job'[v] = job[v] \/ job'[v] = nextJob
    OBVIOUS
  <2>2. nextJob' = nextJob + 1 /\ UNCHANGED <<results, rows, failed>>
    OBVIOUS
  <2>3. HandedOut
    OBVIOUS
  <2>4. /\ nextJob \in Int
        /\ \A v \in Workers : job[v] \in Int
        /\ \A k \in 1..Len(results) : results[k] \in Int
        /\ \A k \in 1..Len(rows) : rows[k] \in Int
        /\ \A j \in failed : j \in Int
    BY Numbers
  <2> HIDE JobsFacts DEF IInv, BaseOK, Handoff
  <2>5. \A v \in Workers : job'[v] < nextJob'
    BY <2>1, <2>2, <2>3, <2>4 DEF HandedOut
  <2>6. \A k \in 1..Len(results) : results[k] < nextJob'
    BY <2>2, <2>3, <2>4 DEF HandedOut
  <2>7. \A k \in 1..Len(rows) : rows[k] < nextJob'
    BY <2>2, <2>3, <2>4 DEF HandedOut
  <2>8. \A j \in failed : j < nextJob'
    BY <2>2, <2>3, <2>4 DEF HandedOut
  <2> QED BY <2>2, <2>5, <2>6, <2>7, <2>8 DEF HandedOut
<1>5. FailedIsGone'
  BY DEF HandedOut, FailedIsGone, Eligible
<1>6. NothingLost'
  BY DEF NothingLost, Eligible, HoldsWhileBusy, NoJob
<1>7. ClosingOrder'
  BY DEF ClosingOrder, Returned, SortedBySymbol
<1> QED BY <1>1, <1>2, <1>3, <1>4, <1>5, <1>6, <1>7

\* Every step a worker takes on its own keeps the invariant.
LEMMA WorkerIInv ==
    ASSUME NEW w \in Workers, IInv, WorkerStep(w)
    PROVE  IInv'
<1> USE JobsFacts DEF IInv, BaseOK, feederVars, channelVars, resVars
<1>1. CASE RangeEnds(w)
  <2> USE <1>1 DEF RangeEnds
  <2>1. BaseOK'
    BY DEF HoldsWhileBusy, WorkerPC, NoJob
  <2>2. HoldsWhileBusy' /\ HandedOut'
    BY DEF HoldsWhileBusy, HandedOut, NoJob
  <2>3. Apart'
    BY DEF Apart, NoJob
  <2>4. FailedIsGone'
    BY DEF FailedIsGone, Apart, Eligible, HoldsWhileBusy, NoJob
  <2>5. NothingLost'
    BY DEF NothingLost, Eligible
  <2>6. ClosingOrder'
    BY DEF ClosingOrder, Returned, SortedBySymbol
  <2> QED BY <2>1, <2>2, <2>3, <2>4, <2>5, <2>6
<1>2. CASE WorkerGivesUp(w)
  <2> USE <1>2 DEF WorkerGivesUp
  <2>1. BaseOK'
    BY DEF HoldsWhileBusy, WorkerPC, NoJob
  <2>2. HoldsWhileBusy' /\ HandedOut'
    BY DEF HoldsWhileBusy, HandedOut, NoJob
  <2>3. Apart'
    BY DEF Apart, NoJob
  <2>4. FailedIsGone'
    BY DEF FailedIsGone, Apart, Eligible, HoldsWhileBusy, NoJob
  <2>5. NothingLost'
    BY DEF NothingLost, Eligible
  <2>6. ClosingOrder'
    BY DEF ClosingOrder, Returned, SortedBySymbol
  <2> QED BY <2>1, <2>2, <2>3, <2>4, <2>5, <2>6
<1>3. CASE WorkerGoesOn(w)
  <2> USE <1>3 DEF WorkerGoesOn
  <2>1. BaseOK'
    BY DEF HoldsWhileBusy, WorkerPC, NoJob
  <2>2. HoldsWhileBusy' /\ HandedOut'
    BY DEF HoldsWhileBusy, HandedOut, NoJob
  <2>3. Apart'
    BY DEF Apart, NoJob
  <2>4. FailedIsGone'
    BY DEF FailedIsGone, Apart, Eligible, HoldsWhileBusy, NoJob
  <2>5. NothingLost'
    BY DEF NothingLost, Eligible
  <2>6. ClosingOrder'
    BY DEF ClosingOrder, Returned, SortedBySymbol
  <2> QED BY <2>1, <2>2, <2>3, <2>4, <2>5, <2>6
<1>4. CASE LoadFails(w)
  <2> USE <1>4 DEF LoadFails
  <2>1. BaseOK'
    BY DEF HoldsWhileBusy, WorkerPC, NoJob
  <2>2. HoldsWhileBusy' /\ HandedOut'
    BY DEF HoldsWhileBusy, HandedOut, NoJob
  <2>3. Apart'
    BY DEF Apart, NoJob
  <2>4. FailedIsGone'
    BY DEF FailedIsGone, Apart, Eligible, HoldsWhileBusy, NoJob
  <2>5. NothingLost'
    BY DEF NothingLost, Eligible
  <2>6. ClosingOrder'
    BY DEF ClosingOrder, Returned, SortedBySymbol
  <2> QED BY <2>1, <2>2, <2>3, <2>4, <2>5, <2>6
<1>5. CASE LoadEmpty(w)
  <2> USE <1>5 DEF LoadEmpty
  <2>1. BaseOK'
    BY DEF HoldsWhileBusy, WorkerPC, NoJob
  <2>2. HoldsWhileBusy' /\ HandedOut'
    BY DEF HoldsWhileBusy, HandedOut, NoJob
  <2>3. Apart'
    BY DEF Apart, NoJob
  <2>4. FailedIsGone'
    BY DEF FailedIsGone, Apart, Eligible, HoldsWhileBusy, NoJob
  <2>5. NothingLost'
    BY DEF NothingLost, Eligible
  <2>6. ClosingOrder'
    BY DEF ClosingOrder, Returned, SortedBySymbol
  <2> QED BY <2>1, <2>2, <2>3, <2>4, <2>5, <2>6
<1>6. CASE LoadBars(w)
  <2> USE <1>6 DEF LoadBars
  <2>1. BaseOK'
    BY DEF HoldsWhileBusy, WorkerPC, NoJob
  <2>2. HoldsWhileBusy' /\ HandedOut'
    BY DEF HoldsWhileBusy, HandedOut, NoJob
  <2>3. Apart'
    BY DEF Apart, NoJob
  <2>4. FailedIsGone'
    BY DEF FailedIsGone, Apart, Eligible, HoldsWhileBusy, NoJob
  <2>5. NothingLost'
    BY DEF NothingLost, Eligible
  <2>6. ClosingOrder'
    BY DEF ClosingOrder, Returned, SortedBySymbol
  <2> QED BY <2>1, <2>2, <2>3, <2>4, <2>5, <2>6
<1>7. CASE SendResult(w)
  <2> USE <1>7 DEF SendResult
  <2>1. job[w] \in Jobs
    BY DEF HoldsWhileBusy
  <2>2. /\ results' \in Seq(Jobs)
        /\ Len(results') = Len(results) + 1
        /\ \A k \in 1..Len(results) : results'[k] = results[k]
        /\ results'[Len(results) + 1] = job[w]
    BY <2>1, AppendFacts
  <2>8. BaseOK'
    BY <2>2 DEF WorkerPC
  <2>9. \A v \in Workers : job'[v] = IF v = w THEN NoJob ELSE job[v]
    OBVIOUS
  <2>3. HoldsWhileBusy' /\ HandedOut'
    <3>1. HoldsWhileBusy'
      BY DEF HoldsWhileBusy, NoJob
    <3>2. HandedOut'
      BY <2>2, <2>9, Numbers DEF HandedOut, NoJob
    <3> QED BY <3>1, <3>2
  <2>4. Apart'
    <3>1. \A k \in 1..Len(results') :
             \/ k \in 1..Len(results) /\ results'[k] = results[k]
             \/ k = Len(results) + 1 /\ results'[k] = job[w]
      <4> SUFFICES ASSUME NEW k \in 1..Len(results')
                   PROVE  \/ k \in 1..Len(results) /\ results'[k] = results[k]
                          \/ k = Len(results) + 1 /\ results'[k] = job[w]
        OBVIOUS
      <4>1. Len(results) \in Nat
        BY Numbers
      <4> HIDE DEF SendResult, IInv, BaseOK
      <4>2. k \in 1..Len(results) \/ k = Len(results) + 1
        BY <2>2, <4>1
      <4> QED BY <2>2, <4>2
    <3>2. \A k \in 1..Len(results') : \A l \in 1..Len(results') :
             results'[k] = results'[l] => k = l
      BY <3>1 DEF Apart
    <3>3. \A v \in Workers : \A k \in 1..Len(results') : job'[v] # results'[k]
      BY <3>1, <2>1, <2>9, Numbers DEF Apart
    <3>4. \A k \in 1..Len(results') : \A l \in 1..Len(rows) : results'[k] # rows[l]
      BY <3>1, <2>1 DEF Apart
    <3>5. \A u \in Workers : \A v \in Workers : u # v /\ job'[u] # NoJob => job'[u] # job'[v]
      BY <2>9 DEF Apart
    <3>6. \A v \in Workers : \A k \in 1..Len(rows) : job'[v] # rows[k]
      <4>1. \A k \in 1..Len(rows) : rows[k] # NoJob
        BY Numbers
      <4> QED BY <2>9, <4>1 DEF Apart
    <3>7. rows' = rows /\ \A k \in 1..Len(rows) : \A l \in 1..Len(rows) : rows[k] = rows[l] => k = l
      BY DEF Apart
    <3> HIDE <1>7, JobsFacts DEF IInv, BaseOK, SendResult
    <3> QED BY <3>2, <3>3, <3>4, <3>5, <3>6, <3>7 DEF Apart
  <2>5. FailedIsGone'
    <3>1. FailedIsGone
      OBVIOUS
    <3>2. NoJob \notin failed
      BY DEF NoJob
    <3>3. Len(results) \in Nat
      BY Numbers
    <3>4. UNCHANGED <<rows, bars, failed>>
      OBVIOUS
    <3>5. Eligible' = Eligible
      BY <3>4 DEF Eligible
    <3> HIDE <1>7, JobsFacts DEF IInv, BaseOK, SendResult
    <3>6. \A v \in Workers : job'[v] \notin failed
      BY <3>1, <3>2, <2>9 DEF FailedIsGone
    <3>7. ASSUME NEW k \in 1..Len(results')
          PROVE  results'[k] \notin failed
      <4>1. k \in 1..Len(results) \/ k = Len(results) + 1
        BY <2>2, <3>3
      <4>2. job[w] \notin failed
        BY <3>1 DEF FailedIsGone
      <4>3. k \in 1..Len(results) => results[k] \notin failed
        BY <3>1 DEF FailedIsGone
      <4>4. k \in 1..Len(results) => results'[k] = results[k]
        BY <2>2
      <4>5. k = Len(results) + 1 => results'[k] = job[w]
        BY <2>2
      <4> QED BY <4>1, <4>2, <4>3, <4>4, <4>5
    <3> QED BY <3>1, <3>4, <3>5, <3>6, <3>7 DEF FailedIsGone
  <2>6. NothingLost'
    <3> SUFFICES ASSUME ~cancelled, NEW j \in Eligible, j < nextJob
                 PROVE  \/ \E v \in Workers : job'[v] = j
                        \/ \E k \in 1..Len(results') : results'[k] = j
                        \/ \E k \in 1..Len(rows) : rows[k] = j
                        \/ j \in failed
      BY DEF NothingLost, Eligible
    <3>1. ASSUME NEW v \in Workers, job[v] = j
          PROVE  \/ job'[v] = j
                 \/ \E k \in 1..Len(results') : results'[k] = j
      BY <3>1, <2>2, Numbers
    <3>2. ASSUME NEW k \in 1..Len(results), results[k] = j
          PROVE  \E i \in 1..Len(results') : results'[i] = j
      BY <3>2, <2>2, Numbers
    <3> QED BY <3>1, <3>2 DEF NothingLost
  <2>7. ClosingOrder'
    BY DEF ClosingOrder, Returned, SortedBySymbol
  <2> QED BY <2>8, <2>3, <2>4, <2>5, <2>6, <2>7
<1> QED BY <1>1, <1>2, <1>3, <1>4, <1>5, <1>6, <1>7 DEF WorkerStep

\* Taking an item off the results channel keeps the invariant.
LEMMA CollectIInv ==
    ASSUME IInv, Collect
    PROVE  IInv'
<1> USE JobsFacts DEF IInv, BaseOK, Collect, feederVars, workerVars
<1>1. Len(results) \in Nat /\ Len(results) > 0 /\ Head(results) = results[1] /\ results[1] \in Jobs
  OBVIOUS
<1>2. /\ results' \in Seq(Jobs)
      /\ Len(results') = Len(results) - 1
      /\ \A k \in 1..Len(results') : results'[k] = results[k + 1]
  BY <1>1
<1>5. /\ scanned' \in Nat
      /\ maxTs' \in Nat
      /\ UNCHANGED <<bars, cancelled, nextJob, jobsClosed, pc, job, failed, resultsClosed, day>>
  BY <1>1, ScanAssumption
<1>6. ASSUME rows' \in Seq(Jobs) PROVE BaseOK'
  <2> HIDE JobsFacts DEF Collect
  <2> QED BY <1>2, <1>5, <1>6
<1>7. /\ HoldsWhileBusy'
      /\ \A w \in Workers : job'[w] < nextJob'
      /\ \A k \in 1..Len(results') : results'[k] < nextJob'
      /\ \A j \in failed' : j < nextJob'
  <2>1. \A k \in 1..Len(results') : k + 1 \in 1..Len(results)
    BY <1>1, <1>2
  <2>2. HoldsWhileBusy /\ HandedOut
    OBVIOUS
  <2> HIDE JobsFacts DEF Collect, IInv, BaseOK
  <2> QED BY <1>2, <1>5, <2>1, <2>2 DEF HoldsWhileBusy, HandedOut
<1>3. CASE bars[results[1]] = "eligible"
  <2>1. rows' = Append(rows, results[1])
    BY <1>1, <1>3
  <2>2. /\ rows' \in Seq(Jobs)
        /\ Len(rows') = Len(rows) + 1
        /\ \A k \in 1..Len(rows) : rows'[k] = rows[k]
        /\ rows'[Len(rows) + 1] = results[1]
    <3> HIDE DEF Collect
    <3> QED BY <1>1, <2>1, AppendFacts
  <2>3. BaseOK'
    BY <1>6, <2>2
  <2>4. HoldsWhileBusy' /\ HandedOut'
    <3>1. results[1] < nextJob /\ \A k \in 1..Len(rows) : rows[k] < nextJob
      BY <1>1 DEF HandedOut
    <3>2. \A k \in 1..Len(rows') : k \in 1..Len(rows) \/ k = Len(rows) + 1
      BY <2>2, Numbers
    <3> HIDE JobsFacts DEF Collect, IInv, BaseOK
    <3>3. \A k \in 1..Len(rows') : rows'[k] < nextJob'
      BY <1>5, <2>2, <3>1, <3>2
    <3> QED BY <1>7, <3>3 DEF HandedOut
  <2>5. Apart'
    <3>1. \A k \in 1..Len(rows') :
             \/ k \in 1..Len(rows) /\ rows'[k] = rows[k]
             \/ k = Len(rows) + 1 /\ rows'[k] = results[1]
      BY <2>2, Numbers
    <3>2. \A k \in 1..Len(results') :
             k + 1 \in 1..Len(results) /\ k + 1 # 1 /\ results'[k] = results[k + 1]
      BY <1>1, <1>2
    <3>3. \A k \in 1..Len(rows') : \A l \in 1..Len(rows') : rows'[k] = rows'[l] => k = l
      <4> SUFFICES ASSUME NEW k \in 1..Len(rows'), NEW l \in 1..Len(rows'), rows'[k] = rows'[l]
                   PROVE  k = l
        OBVIOUS
      <4>1. \A i \in 1..Len(rows) : rows[i] # results[1]
        <5>1. 1 \in 1..Len(results)
          BY <1>1
        <5> QED BY <5>1 DEF Apart
      <4>2. \A i \in 1..Len(rows) : \A j \in 1..Len(rows) : rows[i] = rows[j] => i = j
        BY DEF Apart
      <4> HIDE DEF Collect, IInv, BaseOK
      <4> QED BY <3>1, <4>1, <4>2
    <3>4. \A k \in 1..Len(results') : \A l \in 1..Len(results') :
             results'[k] = results'[l] => k = l
      BY <3>2 DEF Apart
    <3>5. \A k \in 1..Len(results') : \A l \in 1..Len(rows') : results'[k] # rows'[l]
      BY <3>1, <3>2, <1>1 DEF Apart
    <3>6. \A w \in Workers : \A k \in 1..Len(rows') : job[w] # rows'[k]
      BY <3>1, <1>1 DEF Apart
    <3>7. \A w \in Workers : \A k \in 1..Len(results') : job[w] # results'[k]
      BY <3>2 DEF Apart
    <3> QED BY <3>3, <3>4, <3>5, <3>6, <3>7 DEF Apart
  <2>6. FailedIsGone'
    BY <1>1, <1>2, <1>3, <2>2, Numbers DEF FailedIsGone, Eligible
  <2>7. NothingLost'
    <3> SUFFICES ASSUME ~cancelled, NEW j \in Eligible, j < nextJob
                 PROVE  \/ \E w \in Workers : job[w] = j
                        \/ \E k \in 1..Len(results') : results'[k] = j
                        \/ \E k \in 1..Len(rows') : rows'[k] = j
                        \/ j \in failed
      BY DEF NothingLost, Eligible
    <3>1. ASSUME NEW k \in 1..Len(results), results[k] = j
          PROVE  \/ \E i \in 1..Len(results') : results'[i] = j
                 \/ \E i \in 1..Len(rows') : rows'[i] = j
      <4>1. CASE k = 1
        BY <3>1, <4>1, <2>2
      <4>2. CASE k # 1
        <5>1. k - 1 \in 1..Len(results') /\ results'[k - 1] = j
          BY <1>1, <1>2, <3>1, <4>2
        <5> QED BY <5>1
      <4> QED BY <4>1, <4>2
    <3>2. ASSUME NEW k \in 1..Len(rows), rows[k] = j
          PROVE  \E i \in 1..Len(rows') : rows'[i] = j
      BY <2>2, <3>2
    <3> QED BY <3>1, <3>2 DEF NothingLost
  <2>8. ClosingOrder'
    BY <1>1 DEF ClosingOrder, Returned, SortedBySymbol
  <2> QED BY <2>3, <2>4, <2>5, <2>6, <2>7, <2>8
<1>4. CASE bars[results[1]] # "eligible"
  <2>1. rows' = rows
    BY <1>1, <1>4
  <2>2. BaseOK'
    BY <1>6, <2>1
  <2>3. HoldsWhileBusy' /\ HandedOut' /\ Apart' /\ FailedIsGone'
    <3>1. HoldsWhileBusy' /\ HandedOut'
      BY <1>5, <1>7, <2>1 DEF HandedOut
    <3>2. Apart'
      <4>1. \A k \in 1..Len(results') :
               k + 1 \in 1..Len(results) /\ results'[k] = results[k + 1]
        BY <1>1, <1>2
      <4>2. Apart
        OBVIOUS
      <4>3. \A k \in 1..Len(results') : \A l \in 1..Len(results') :
               results'[k] = results'[l] => k = l
        BY <4>1 DEF Apart
      <4> HIDE JobsFacts DEF Collect, IInv, BaseOK
      <4>4. \A w \in Workers : \A k \in 1..Len(results') : job[w] # results'[k]
        BY <4>1, <4>2 DEF Apart
      <4>5. \A k \in 1..Len(results') : \A l \in 1..Len(rows) : results'[k] # rows[l]
        BY <4>1, <4>2 DEF Apart
      <4>6. job' = job
        BY <1>5
      <4> QED BY <2>1, <4>2, <4>3, <4>4, <4>5, <4>6 DEF Apart
    <3>3. FailedIsGone'
      BY <1>1, <1>2, <2>1, Numbers DEF FailedIsGone, Eligible
    <3> QED BY <3>1, <3>2, <3>3
  <2>4. NothingLost'
    <3> SUFFICES ASSUME ~cancelled, NEW j \in Eligible, j < nextJob,
                        NEW k \in 1..Len(results), results[k] = j
                 PROVE  \E i \in 1..Len(results') : results'[i] = j
      BY <2>1 DEF NothingLost, Eligible
    <3>1. k # 1
      BY <1>4 DEF Eligible
    <3>2. k - 1 \in 1..Len(results') /\ results'[k - 1] = j
      BY <1>1, <1>2, <3>1
    <3> QED BY <3>2
  <2>5. ClosingOrder'
    BY <1>1, <2>1 DEF ClosingOrder, Returned, SortedBySymbol
  <2> QED BY <2>2, <2>3, <2>4, <2>5
<1> QED BY <1>3, <1>4

\* s and t have the same length and elements, and s repeats an element only
\* if t does.
SameElements(s, t) ==
    /\ Len(s) = Len(t)
    /\ \A k \in 1..Len(s) : \E l \in 1..Len(t) : s[k] = t[l]
    /\ \A l \in 1..Len(t) : \E k \in 1..Len(s) : s[k] = t[l]
    /\ (\A k \in 1..Len(t) : \A l \in 1..Len(t) : t[k] = t[l] => k = l)
         => (\A k \in 1..Len(s) : \A l \in 1..Len(s) : s[k] = s[l] => k = l)

\* A reordering of a sequence has the same length and elements, and repeats
\* no element if the sequence repeats none.
LEMMA ReorderingFacts ==
    ASSUME NEW S, NEW t \in Seq(S), NEW s, IsReordering(s, t)
    PROVE  s \in Seq(S) /\ SameElements(s, t)
<1> PICK p \in Bijection(1..Len(t), 1..Len(t)) : s = [k \in 1..Len(t) |-> t[p[k]]]
  BY DEF IsReordering
<1>1. /\ p \in [1..Len(t) -> 1..Len(t)]
      /\ \A k \in 1..Len(t) : \A l \in 1..Len(t) : p[k] = p[l] => k = l
      /\ \A l \in 1..Len(t) : \E k \in 1..Len(t) : p[k] = l
  BY DEF Bijection, Injection, Surjection, IsInjective
<1>2. s \in Seq(S) /\ Len(s) = Len(t)
  BY <1>1
<1>3. \A k \in 1..Len(t) : s[k] = t[p[k]]
  OBVIOUS
<1>4. ASSUME NEW k \in 1..Len(s) PROVE \E l \in 1..Len(t) : s[k] = t[l]
  BY <1>1, <1>2, <1>3
<1>5. ASSUME NEW l \in 1..Len(t) PROVE \E k \in 1..Len(s) : s[k] = t[l]
  BY <1>1, <1>2, <1>3
<1>6. ASSUME \A k \in 1..Len(t) : \A l \in 1..Len(t) : t[k] = t[l] => k = l,
             NEW k \in 1..Len(s), NEW l \in 1..Len(s), s[k] = s[l]
      PROVE  k = l
  <2>1. t[p[k]] = t[p[l]] /\ p[k] \in 1..Len(t) /\ p[l] \in 1..Len(t)
    BY <1>1, <1>2, <1>3, <1>6
  <2> QED BY <2>1, <1>1, <1>2, <1>6
<1> QED BY <1>2, <1>4, <1>5, <1>6 DEF SameElements

\* The caller's final sort and return keep the invariant.
LEMMA ReturnIInv ==
    ASSUME IInv, Return
    PROVE  IInv'
<1> USE JobsFacts DEF IInv, BaseOK, Return, feederVars, workerVars, channelVars
<1>1. IsReordering(rows', rows) /\ SortedBySymbol(rows)'
  BY DEF SortedBySymbol
<1>2. rows' \in Seq(Jobs) /\ SameElements(rows', rows)
  <2>1. rows \in Seq(Jobs)
    OBVIOUS
  <2> HIDE DEF Return, IInv, BaseOK
  <2> QED BY <1>1, <2>1, ReorderingFacts
<1>3. BaseOK'
  BY <1>2, ScanAssumption
<1>4. HoldsWhileBusy' /\ HandedOut' /\ FailedIsGone'
  BY <1>2 DEF SameElements, HoldsWhileBusy, HandedOut, FailedIsGone, Eligible
<1>5. Apart'
  BY <1>2 DEF SameElements, Apart
<1>6. NothingLost'
  <2> SUFFICES ASSUME ~cancelled, NEW j \in Eligible, j < nextJob,
                      NEW l \in 1..Len(rows), rows[l] = j
               PROVE  \E k \in 1..Len(rows') : rows'[k] = j
    BY DEF NothingLost, Eligible
  <2> QED BY <1>2 DEF SameElements
<1>7. ClosingOrder'
  BY <1>1 DEF ClosingOrder, Returned
<1> QED BY <1>3, <1>4, <1>5, <1>6, <1>7

\* Every step of the scan keeps the inductive invariant.
LEMMA NextIInv == IInv /\ [Next]_vars => IInv'
<1> SUFFICES ASSUME IInv, [Next]_vars PROVE IInv'
  OBVIOUS
<1>1. CASE Cancel
  BY <1>1 DEF Cancel, IInv, BaseOK, HoldsWhileBusy, Apart, HandedOut, FailedIsGone, NothingLost,
     ClosingOrder, Returned, SortedBySymbol, Eligible, feederVars, workerVars, channelVars, resVars
<1>2. CASE FeederClose
  BY <1>2, JobsFacts DEF FeederClose, IInv, BaseOK, HoldsWhileBusy, Apart, HandedOut, FailedIsGone,
     NothingLost, ClosingOrder, Returned, SortedBySymbol, Eligible, workerVars, channelVars, resVars
<1>3. ASSUME NEW w \in Workers, Handoff(w) PROVE IInv'
  BY <1>3, HandoffIInv
<1>4. ASSUME NEW w \in Workers, WorkerStep(w) PROVE IInv'
  BY <1>4, WorkerIInv
<1>5. CASE CloseResults
  BY <1>5 DEF CloseResults, IInv, BaseOK, HoldsWhileBusy, Apart, HandedOut, FailedIsGone, NothingLost,
     ClosingOrder, Returned, SortedBySymbol, Eligible, feederVars, workerVars, resVars
<1>6. CASE Collect
  BY <1>6, CollectIInv
<1>7. CASE Return
  BY <1>7, ReturnIInv
<1>8. CASE Finished \/ UNCHANGED vars
  <2> USE <1>8 DEF Finished, vars, feederVars, workerVars, channelVars, resVars
  <2>1. BaseOK' /\ HoldsWhileBusy' /\ HandedOut'
    BY DEF IInv, BaseOK, HoldsWhileBusy, HandedOut
  <2>2. Apart'
    BY DEF IInv, Apart
  <2>3. FailedIsGone' /\ NothingLost'
    BY DEF IInv, FailedIsGone, NothingLost, Eligible
  <2>4. ClosingOrder'
    BY DEF IInv, ClosingOrder, Returned, SortedBySymbol
  <2> QED BY <2>1, <2>2, <2>3, <2>4 DEF IInv
<1> QED BY <1>1, <1>2, <1>3, <1>4, <1>5, <1>6, <1>7, <1>8 DEF Next

\* The inductive invariant holds throughout every scan.
THEOREM Invariance == Spec => []IInv
BY InitIInv, NextIInv, PTL DEF Spec

\* No interleaving of feeder, workers and collector processes, buffers or
\* reports a position of the list twice.
THEOREM OnlyOnceAlways == Spec => []OnlyOnce
<1>1. ASSUME IInv PROVE OnlyOnce
  <2> USE <1>1 DEF IInv
  <2>1. IsInjective(results) /\ IsInjective(rows)
    <3>1. DOMAIN results = 1..Len(results) /\ DOMAIN rows = 1..Len(rows)
      BY DEF BaseOK
    <3>2. Apart
      OBVIOUS
    <3> HIDE <1>1 DEF IInv
    <3> QED BY <3>1, <3>2, Zenon DEF Apart, IsInjective
  <2>2. Held \cap Buffered = {} /\ Held \cap Collected = {} /\ Buffered \cap Collected = {}
    <3>1. DOMAIN results = 1..Len(results) /\ DOMAIN rows = 1..Len(rows)
      BY DEF BaseOK
    <3>2. Apart
      OBVIOUS
    <3> HIDE <1>1 DEF IInv
    <3>3. Held \cap Buffered = {} /\ Held \cap Collected = {}
      BY <3>1, <3>2 DEF Apart, Held, Buffered, Collected, Range
    <3>4. Buffered \cap Collected = {}
      BY <3>1, <3>2 DEF Apart, Buffered, Collected, Range
    <3> QED BY <3>3, <3>4
  <2>3. Held \cup Buffered \cup Collected \subseteq 1..(nextJob - 1)
    <3>1. \A j \in Jobs : j < nextJob => j \in 1..(nextJob - 1)
      BY JobsFacts DEF BaseOK
    <3>2. Held \subseteq 1..(nextJob - 1)
      BY <3>1 DEF BaseOK, HandedOut, Held
    <3>3. Buffered \subseteq 1..(nextJob - 1) /\ Collected \subseteq 1..(nextJob - 1)
      BY <3>1 DEF BaseOK, HandedOut, Buffered, Collected, Range
    <3> QED BY <3>2, <3>3
  <2> QED BY <2>1, <2>2, <2>3 DEF OnlyOnce, Apart
<1> QED BY <1>1, Invariance, PTL

\* close(results) never races a worker's send.
THEOREM NoSendOnClosedAlways == Spec => []NoSendOnClosed
<1>1. IInv => NoSendOnClosed
  BY DEF IInv, NoSendOnClosed, ClosingOrder, HoldsWhileBusy
<1> QED BY <1>1, Invariance, PTL

\* What a scan has collected once every worker has returned and the channel
\* is drained: eligible positions that did not fail, and all of them unless
\* ctx was cancelled.
LEMMA Drained ==
    ASSUME IInv, resultsClosed, results = <<>>
    PROVE  /\ \A k \in 1..Len(rows) : rows[k] \in Eligible \ failed
           /\ ~cancelled => \A j \in Eligible \ failed : \E k \in 1..Len(rows) : rows[k] = j
<1>1. \A k \in 1..Len(rows) : rows[k] \in Eligible \ failed
  BY DEF IInv, FailedIsGone
<1>2. ASSUME ~cancelled, NEW j \in Eligible \ failed
      PROVE  \E k \in 1..Len(rows) : rows[k] = j
  <2>1. \A w \in Workers : pc[w] = "done" /\ job[w] = NoJob
    BY DEF IInv, ClosingOrder, HoldsWhileBusy
  <2>2. nextJob = Len(Symbols) + 1
    BY <1>2, <2>1, ScanAssumption DEF IInv, ClosingOrder
  <2>3. j \in Jobs /\ j < nextJob
    BY <2>2, JobsFacts DEF Eligible
  <2>4. ~ \E w \in Workers : job[w] = j
    BY <2>1, <2>3, JobsFacts
  <2>5. ~ \E k \in 1..Len(results) : results[k] = j
    OBVIOUS
  <2> QED BY <1>2, <2>3, <2>4, <2>5 DEF IInv, NothingLost
<1> QED BY <1>1, <1>2

\* An uncancelled scan returns exactly the eligible rows that loaded, each
\* once and in symbol order, whatever the scheduling.
THEOREM CompleteScanAlways == Spec => []CompleteScan
<1>1. ASSUME IInv PROVE CompleteScan
  <2> SUFFICES ASSUME Returned, ~cancelled
               PROVE  /\ Collected = Eligible \ failed
                      /\ IsInjective(rows)
                      /\ SortedBySymbol(rows)
    BY DEF CompleteScan
  <2>1. resultsClosed /\ results = <<>> /\ SortedBySymbol(rows)
    BY <1>1 DEF IInv, ClosingOrder
  <2>2. DOMAIN rows = 1..Len(rows)
    BY <1>1 DEF IInv, BaseOK
  <2>3. Collected = Eligible \ failed
    BY <1>1, <2>1, <2>2, Drained DEF Collected, Range
  <2>4. IsInjective(rows)
    BY <1>1, <2>2 DEF IInv, Apart, IsInjective
  <2> QED BY <2>1, <2>3, <2>4
<1> QED BY <1>1, Invariance, PTL

-----------------------------------------------------------------------------
(***************************************************************************)
(* The statistics of the result.                                           *)
(***************************************************************************)

\* The positions with data that have been handed out and are no longer held,
\* in the channel or logged as failed: those the collector has received, and
\* after a cancellation those a worker dropped.
Gone ==
    {j \in Jobs :
        /\ j < nextJob /\ bars[j] # "none" /\ j \notin failed
        /\ \A w \in Workers : job[w] # j
        /\ \A k \in 1..Len(results) : results[k] # j}

\* Only what has data is sent, and the collector has counted what has gone.
\* After a cancellation a worker may drop a position that it holds.
StatsInv ==
    /\ \A w \in Workers : pc[w] = "send" => bars[job[w]] # "none"
    /\ \A k \in 1..Len(results) : bars[results[k]] # "none"
    /\ scanned <= Cardinality(Gone)
    /\ ~cancelled => scanned = Cardinality(Gone)
    /\ maxTs > 0 => \E j \in Gone : maxTs = BarTs[j]
    /\ ~cancelled => \A j \in Gone : BarTs[j] <= maxTs
    /\ Returned => day = IF maxTs > 0 THEN maxTs ELSE Now

LEMMA GoneFinite ==
    ASSUME BaseOK
    PROVE  /\ Gone \subseteq Jobs /\ IsFiniteSet(Gone)
           /\ Cardinality(Gone) \in Nat /\ Cardinality(Gone) <= Len(Symbols)
<1>1. Gone \subseteq Jobs
  BY DEF Gone
<1>2. IsFiniteSet(Jobs) /\ Cardinality(Jobs) = Len(Symbols)
  <2>1. /\ IsFiniteSet(1..Len(Symbols))
        /\ Cardinality(1..Len(Symbols)) = IF 1 > Len(Symbols) THEN 0 ELSE Len(Symbols) - 1 + 1
    BY JobsFacts, FS_Interval
  <2> QED BY <2>1, JobsFacts
<1>3. IsFiniteSet(Gone) /\ Cardinality(Gone) <= Cardinality(Jobs)
  BY <1>1, <1>2, FS_Subset
<1> QED BY <1>1, <1>2, <1>3, FS_CardinalityType

\* What is neither held nor sent stays as it is when the rest does.
LEMMA StatsFrame ==
    ASSUME BaseOK, StatsInv, bars' = bars, scanned' = scanned, maxTs' = maxTs, day' = day,
           BaseOK', cancelled => cancelled', Gone \subseteq Gone', cancelled' \/ Gone' = Gone,
           \A w \in Workers : pc'[w] = "send" => bars[job'[w]] # "none",
           \A k \in 1..Len(results') : bars[results'[k]] # "none"
    PROVE  StatsInv'
<1>1. PICK A : A = Gone
  OBVIOUS
<1>2. PICK B : B = Gone'
  OBVIOUS
<1>3. /\ Cardinality(A) \in Nat /\ scanned \in Nat /\ scanned <= Cardinality(A)
  BY <1>1, GoneFinite DEF StatsInv, BaseOK
<1>4. IsFiniteSet(B) /\ Cardinality(B) \in Nat /\ A \subseteq B
  <2>1. B \subseteq Jobs
    BY <1>2 DEF Gone
  <2>2. IsFiniteSet(1..Len(Symbols))
    BY JobsFacts, FS_Interval
  <2> QED BY <1>1, <1>2, <2>1, <2>2, JobsFacts, FS_Subset, FS_CardinalityType
<1>5. Cardinality(A) <= Cardinality(B)
  BY <1>4, FS_Subset
<1>6. scanned <= Cardinality(B)
  BY <1>3, <1>4, <1>5
<1>7. maxTs > 0 => \E j \in B : maxTs = BarTs[j]
  BY <1>1, <1>4 DEF StatsInv
<1>8. ~cancelled' => /\ scanned = Cardinality(B)
                     /\ \A j \in B : BarTs[j] <= maxTs
  BY <1>1, <1>2 DEF StatsInv
<1>9. Returned' => day' = IF maxTs > 0 THEN maxTs ELSE Now
  BY DEF StatsInv, Returned
<1> QED BY <1>2, <1>6, <1>7, <1>8, <1>9 DEF StatsInv

LEMMA InitStats == Init => StatsInv
<1> SUFFICES ASSUME Init PROVE StatsInv
  OBVIOUS
<1>1. Gone = {}
  BY JobsFacts DEF Init, Gone
<1>2. Cardinality(Gone) = 0
  BY <1>1, FS_EmptySet
<1> QED BY <1>1, <1>2 DEF Init, StatsInv, Returned

\* The steps that move a position on, or drop one that has no data.
LEMMA QuietStats ==
    ASSUME IInv, IInv', StatsInv,
           Cancel \/ FeederClose \/ CloseResults \/ Finished \/ UNCHANGED vars
    PROVE  StatsInv'
<1>1. /\ UNCHANGED <<bars, nextJob, pc, job, failed, results, scanned, maxTs, day>>
      /\ cancelled => cancelled'
  BY DEF Cancel, FeederClose, CloseResults, Finished, vars, feederVars, workerVars, channelVars, resVars
<1>2. Gone' = Gone
  BY <1>1 DEF Gone
<1>3. BaseOK /\ BaseOK'
  BY DEF IInv
<1>4. /\ \A w \in Workers : pc'[w] = "send" => bars[job'[w]] # "none"
      /\ \A k \in 1..Len(results') : bars[results'[k]] # "none"
  BY <1>1 DEF StatsInv
<1> QED BY <1>1, <1>2, <1>3, <1>4, StatsFrame

LEMMA HandoffStats ==
    ASSUME IInv, IInv', StatsInv, NEW w \in Workers, Handoff(w)
    PROVE  StatsInv'
<1>0. BaseOK /\ BaseOK' /\ HoldsWhileBusy
  BY DEF IInv
<1>1. /\ nextJob' = nextJob + 1 /\ pc[w] = "range" /\ job[w] = NoJob
      /\ \A v \in Workers : /\ job'[v] = IF v = w THEN nextJob ELSE job[v]
                            /\ pc'[v] = IF v = w THEN "check" ELSE pc[v]
      /\ UNCHANGED <<bars, cancelled, failed, results, scanned, maxTs, day>>
  BY <1>0 DEF Handoff, BaseOK, HoldsWhileBusy, channelVars, resVars
<1>2. \A j \in Jobs : j \in Int /\ j # NoJob /\ (j < nextJob + 1 <=> j < nextJob \/ j = nextJob)
  BY <1>0, JobsFacts, Numbers
<1>3. nextJob \in Int
  BY <1>0, Numbers
<1>4. \A j \in Jobs : j \in Gone' <=> j \in Gone
  <2> SUFFICES ASSUME NEW j \in Jobs PROVE j \in Gone' <=> j \in Gone
    OBVIOUS
  <2>1. (\A v \in Workers : job'[v] # j) <=> (\A v \in Workers : job[v] # j) /\ j # nextJob
    BY <1>1, <1>2
  <2>2. j \in Int /\ (j < nextJob + 1 <=> j < nextJob \/ j = nextJob)
    BY <1>2
  <2>3. j < nextJob => j # nextJob
    BY <1>3, <2>2
  <2> QED BY <1>1, <2>1, <2>2, <2>3 DEF Gone
<1>5. Gone' = Gone
  BY <1>4 DEF Gone
<1>6. /\ \A v \in Workers : pc'[v] = "send" => bars[job'[v]] # "none"
      /\ \A k \in 1..Len(results') : bars[results'[k]] # "none"
  BY <1>1 DEF StatsInv
<1> QED BY <1>0, <1>1, <1>5, <1>6, StatsFrame

LEMMA WorkerStats ==
    ASSUME IInv, IInv', StatsInv, NEW w \in Workers, WorkerStep(w)
    PROVE  StatsInv'
<1>0. BaseOK /\ BaseOK' /\ HoldsWhileBusy /\ Apart
  BY DEF IInv
<1>1. UNCHANGED <<bars, cancelled, nextJob, scanned, maxTs, day>>
  BY DEF WorkerStep, RangeEnds, WorkerGivesUp, WorkerGoesOn, LoadFails, LoadEmpty, LoadBars,
     SendResult, feederVars, resVars
<1>2. /\ \A k \in 1..Len(results) : bars[results[k]] # "none"
      /\ \A v \in Workers : pc[v] = "send" => bars[job[v]] # "none"
  BY DEF StatsInv
<1>3. CASE RangeEnds(w) \/ WorkerGoesOn(w) \/ LoadBars(w)
  <2>1. UNCHANGED <<job, failed, results>>
    BY <1>3 DEF RangeEnds, WorkerGoesOn, LoadBars, channelVars
  <2>2. Gone' = Gone
    BY <1>1, <2>1 DEF Gone
  <2>3. \A v \in Workers : pc'[v] = "send" => bars[job'[v]] # "none"
    BY <1>0, <1>2, <1>3, <2>1 DEF RangeEnds, WorkerGoesOn, LoadBars, BaseOK
  <2> QED BY <1>0, <1>1, <1>2, <2>1, <2>2, <2>3, StatsFrame
<1>4. CASE WorkerGivesUp(w) \/ LoadFails(w) \/ LoadEmpty(w) \/ SendResult(w)
  <2>1. /\ \A v \in Workers : /\ job'[v] = IF v = w THEN NoJob ELSE job[v]
                              /\ pc'[v] # "send" \/ (v # w /\ pc[v] = "send")
        /\ pc[w] \in {"check", "load", "send"}
    BY <1>0, <1>4 DEF WorkerGivesUp, LoadFails, LoadEmpty, SendResult, BaseOK
  <2>2. \A v \in Workers : pc'[v] = "send" => bars[job'[v]] # "none"
    BY <1>2, <2>1
  <2>3. job[w] \in Jobs /\ job[w] # NoJob
    BY <1>0, <2>1, JobsFacts DEF HoldsWhileBusy, BaseOK
  <2>4. \A j \in Jobs : j # NoJob
    BY JobsFacts
  <2>5. \A j \in Jobs : (\A v \in Workers : job[v] # j)
                         <=> (\A v \in Workers : job'[v] # j) /\ j # job[w]
    BY <2>1, <2>4
  <2>6. CASE WorkerGivesUp(w)
    <3>1. cancelled /\ UNCHANGED <<failed, results>>
      BY <2>6 DEF WorkerGivesUp, channelVars
    <3>2. Gone \subseteq Gone'
      BY <1>1, <2>5, <3>1 DEF Gone
    <3> QED BY <1>0, <1>1, <1>2, <2>2, <3>1, <3>2, StatsFrame
  <2>7. CASE LoadFails(w)
    <3>1. failed' = failed \cup {job[w]} /\ results' = results
      BY <2>7 DEF LoadFails, channelVars
    <3>2. \A j \in Jobs : j \in Gone' <=> j \in Gone
      BY <1>1, <2>5, <3>1 DEF Gone
    <3>3. Gone' = Gone
      BY <3>2 DEF Gone
    <3> QED BY <1>0, <1>1, <1>2, <2>2, <3>1, <3>3, StatsFrame
  <2>8. CASE LoadEmpty(w)
    <3>1. bars[job[w]] = "none" /\ UNCHANGED <<failed, results>>
      BY <2>8 DEF LoadEmpty, channelVars
    <3>2. \A j \in Jobs : j \in Gone' <=> j \in Gone
      BY <1>1, <2>5, <3>1 DEF Gone
    <3>3. Gone' = Gone
      BY <3>2 DEF Gone
    <3> QED BY <1>0, <1>1, <1>2, <2>2, <3>1, <3>3, StatsFrame
  <2>9. CASE SendResult(w)
    <3>1. /\ failed' = failed /\ pc[w] = "send" /\ results' = Append(results, job[w])
          /\ results \in Seq(Jobs)
      BY <1>0, <2>9 DEF SendResult, BaseOK
    <3>2. /\ Len(results) \in Nat /\ Len(results') = Len(results) + 1
          /\ \A k \in 1..Len(results) : results'[k] = results[k]
          /\ results'[Len(results) + 1] = job[w]
      BY <2>3, <3>1, AppendFacts
    <3>3. \A k \in 1..Len(results') : k \in 1..Len(results) \/ k = Len(results) + 1
      BY <3>2
    <3>4. Len(results) + 1 \in 1..Len(results') /\ \A k \in 1..Len(results) : k \in 1..Len(results')
      BY <3>2
    <3>5. \A j : (\A k \in 1..Len(results') : results'[k] # j)
                 <=> (\A k \in 1..Len(results) : results[k] # j) /\ j # job[w]
      BY <3>2, <3>3, <3>4
    <3>6. \A j \in Jobs : j \in Gone' <=> j \in Gone
      BY <1>1, <2>5, <3>1, <3>5 DEF Gone
    <3>7. Gone' = Gone
      BY <3>6 DEF Gone
    <3>8. \A k \in 1..Len(results') : bars[results'[k]] # "none"
      BY <1>2, <3>1, <3>2, <3>3
    <3> QED BY <1>0, <1>1, <2>2, <3>7, <3>8, StatsFrame
  <2> QED BY <1>4, <2>6, <2>7, <2>8, <2>9
<1> QED BY <1>3, <1>4 DEF WorkerStep

\* The collector counts the position that leaves the channel.
LEMMA CollectStats ==
    ASSUME IInv, IInv', StatsInv, Collect
    PROVE  StatsInv'
<1>0. BaseOK /\ BaseOK' /\ Apart /\ HandedOut /\ FailedIsGone
  BY DEF IInv
<1>1. PICK it : it = Head(results)
  OBVIOUS
<1>2. /\ results # <<>> /\ results \in Seq(Jobs) /\ results' = Tail(results)
      /\ scanned' = scanned + 1
      /\ maxTs' = IF BarTs[it] > maxTs THEN BarTs[it] ELSE maxTs
      /\ UNCHANGED <<bars, cancelled, nextJob, pc, job, failed, day>>
  BY <1>0, <1>1 DEF Collect, BaseOK, feederVars, workerVars
<1>3. /\ Len(results) \in Nat /\ 1 \in 1..Len(results) /\ it = results[1] /\ it \in Jobs
      /\ Len(results') = Len(results) - 1
      /\ \A k \in 1..Len(results') : results'[k] = results[k + 1]
  BY <1>1, <1>2
<1>4. \A k \in 1..Len(results') : k + 1 \in 1..Len(results) /\ k + 1 # 1
  BY <1>3
<1>5. \A k \in 1..Len(results) : k = 1 \/ (k - 1 \in 1..Len(results') /\ (k - 1) + 1 = k)
  BY <1>3
<1>6. \A k \in 1..Len(results') : results'[k] # it
  BY <1>0, <1>3, <1>4 DEF Apart
<1>7. \A j : (\A k \in 1..Len(results) : results[k] # j)
             <=> (\A k \in 1..Len(results') : results'[k] # j) /\ j # it
  <2>1. ASSUME NEW j, \A k \in 1..Len(results) : results[k] # j
        PROVE  (\A k \in 1..Len(results') : results'[k] # j) /\ j # it
    BY <1>3, <1>4, <2>1
  <2>2. ASSUME NEW j, \A k \in 1..Len(results') : results'[k] # j, j # it,
               NEW k \in 1..Len(results)
        PROVE  results[k] # j
    <3>1. CASE k = 1
      BY <1>3, <2>2, <3>1
    <3>2. CASE k # 1
      <4>1. k - 1 \in 1..Len(results') /\ (k - 1) + 1 = k
        BY <1>5, <3>2
      <4>2. results'[k - 1] = results[(k - 1) + 1]
        BY <1>3, <4>1
      <4>3. results'[k - 1] # j
        BY <2>2, <4>1
      <4> QED BY <4>1, <4>2, <4>3
    <3> QED BY <3>1, <3>2
  <2> QED BY <2>1, <2>2
<1>8. /\ it < nextJob /\ it \notin failed /\ bars[it] # "none"
      /\ \A w \in Workers : job[w] # it
  BY <1>0, <1>3 DEF HandedOut, FailedIsGone, Apart, StatsInv
<1>9. PICK A : A = Gone
  OBVIOUS
<1>10. PICK B : B = Gone'
  OBVIOUS
<1>11. \A j \in Jobs : j \in B <=> j \in A \/ j = it
  BY <1>2, <1>6, <1>7, <1>8, <1>9, <1>10 DEF Gone
<1>12. it \notin A /\ A \subseteq Jobs /\ B \subseteq Jobs
  BY <1>3, <1>9, <1>10 DEF Gone
<1>13. B = A \cup {it}
  BY <1>3, <1>11, <1>12
<1>14. IsFiniteSet(A) /\ Cardinality(A) \in Nat
  BY <1>0, <1>9, GoneFinite
<1>15. Cardinality(B) = Cardinality(A) + 1
  BY <1>12, <1>13, <1>14, FS_AddElement
<1>16. /\ scanned \in Nat /\ maxTs \in Nat /\ BarTs[it] \in Nat /\ BarTs[it] > 0
       /\ \A j \in A : BarTs[j] \in Nat
  BY <1>0, <1>3, <1>12, ScanAssumption DEF BaseOK
<1>17. /\ scanned <= Cardinality(A) /\ (~cancelled => scanned = Cardinality(A))
       /\ maxTs > 0 => \E j \in A : maxTs = BarTs[j]
       /\ ~cancelled => \A j \in A : BarTs[j] <= maxTs
  BY <1>9 DEF StatsInv
<1>18. scanned' <= Cardinality(B) /\ (~cancelled' => scanned' = Cardinality(B))
  BY <1>2, <1>14, <1>15, <1>16, <1>17
<1>19. maxTs' > 0 => \E j \in B : maxTs' = BarTs[j]
  <2>1. CASE BarTs[it] > maxTs
    BY <1>2, <1>13, <2>1
  <2>2. CASE ~(BarTs[it] > maxTs)
    BY <1>2, <1>13, <1>17, <2>2
  <2> QED BY <2>1, <2>2
<1>20. ~cancelled' => \A j \in B : BarTs[j] <= maxTs'
  <2> SUFFICES ASSUME ~cancelled, NEW j \in B PROVE BarTs[j] <= maxTs'
    BY <1>2
  <2>1. j = it \/ (j \in A /\ BarTs[j] <= maxTs /\ BarTs[j] \in Nat)
    BY <1>13, <1>16, <1>17
  <2>2. maxTs' >= maxTs /\ maxTs' >= BarTs[it] /\ maxTs' \in Nat
    BY <1>2, <1>16
  <2> QED BY <1>16, <2>1, <2>2
<1>21. ~Returned'
  <2>1. ~Returned
    BY <1>2 DEF IInv, ClosingOrder
  <2> QED BY <1>2, <2>1 DEF Returned
<1>22. /\ \A w \in Workers : pc'[w] = "send" => bars'[job'[w]] # "none"
       /\ \A k \in 1..Len(results') : bars'[results'[k]] # "none"
  BY <1>2, <1>3, <1>4 DEF StatsInv
<1> QED BY <1>10, <1>18, <1>19, <1>20, <1>21, <1>22 DEF StatsInv

LEMMA ReturnStats ==
    ASSUME IInv, IInv', StatsInv, Return
    PROVE  StatsInv'
<1>1. /\ UNCHANGED <<bars, cancelled, nextJob, pc, job, failed, results, scanned, maxTs>>
      /\ day' = IF maxTs > 0 THEN maxTs ELSE Now
  BY DEF Return, feederVars, workerVars, channelVars
<1>2. Gone' = Gone
  BY <1>1 DEF Gone
<1> QED BY <1>1, <1>2 DEF StatsInv, Returned

LEMMA NextStats == IInv /\ IInv' /\ StatsInv /\ [Next]_vars => StatsInv'
BY QuietStats, HandoffStats, WorkerStats, CollectStats, ReturnStats DEF Next

\* What the collector has counted is what has gone through.
THEOREM StatsInvariance == Spec => [](IInv /\ StatsInv)
<1>1. Init => IInv /\ StatsInv
  BY InitIInv, InitStats
<1>2. (IInv /\ StatsInv) /\ [Next]_vars => (IInv /\ StatsInv)'
  BY NextIInv, NextStats
<1> QED BY <1>1, <1>2, PTL DEF Spec

\* Type correctness of scan.Universe's state; no scan counts more symbols than
\* it was given.
THEOREM TypeCorrect == Spec => []TypeOK
<1>1. IInv /\ StatsInv => TypeOK
  <2> SUFFICES ASSUME IInv, StatsInv PROVE TypeOK
    OBVIOUS
  <2>1. BaseOK
    BY DEF IInv
  <2>2. /\ scanned \in Nat /\ scanned <= Cardinality(Gone) /\ Cardinality(Gone) \in Nat
        /\ Cardinality(Gone) <= Len(Symbols)
    BY <2>1, GoneFinite DEF BaseOK, StatsInv
  <2>3. scanned \in 0..Len(Symbols)
    BY <2>2, JobsFacts
  <2> QED BY <2>1, <2>3 DEF BaseOK, TypeOK
<1> QED BY <1>1, StatsInvariance, PTL

\* An uncancelled scan counts the symbols that returned data, each once, also
\* those whose row the filter dropped, and is dated by the newest of their
\* bars, in whatever order the workers delivered them.
THEOREM StatsAgreeAlways == Spec => []StatsAgree
<1>1. ASSUME IInv, StatsInv PROVE StatsAgree
  <2> DEFINE seen == {j \in Jobs : bars[j] # "none"} \ failed
  <2> SUFFICES ASSUME Returned, ~cancelled
               PROVE  /\ scanned = Cardinality(seen)
                      /\ IF seen = {}
                         THEN day = Now
                         ELSE day \in {BarTs[j] : j \in seen} /\ \A j \in seen : BarTs[j] <= day
    BY DEF StatsAgree
  <2>1. resultsClosed /\ results = <<>>
    BY <1>1 DEF IInv, ClosingOrder
  <2>2. \A w \in Workers : pc[w] = "done" /\ job[w] = NoJob
    BY <1>1, <2>1 DEF IInv, ClosingOrder, HoldsWhileBusy
  <2>3. nextJob = Len(Symbols) + 1
    BY <1>1, <2>2, ScanAssumption DEF IInv, ClosingOrder
  <2>4. \A j \in Jobs : j < nextJob /\ j # NoJob
    BY <2>3, JobsFacts
  <2>5. Len(results) = 0
    BY <2>1
  <2>6. \A j \in Jobs : j \in Gone <=> j \in seen
    BY <2>2, <2>4, <2>5 DEF Gone
  <2>7. Gone = seen /\ seen \subseteq Jobs
    BY <2>6 DEF Gone
  <2> HIDE DEF seen
  <2>8. /\ scanned = Cardinality(seen)
        /\ maxTs > 0 => \E j \in seen : maxTs = BarTs[j]
        /\ \A j \in seen : BarTs[j] <= maxTs
        /\ day = IF maxTs > 0 THEN maxTs ELSE Now
    BY <1>1, <2>7 DEF StatsInv
  <2>9. /\ maxTs \in Nat /\ \A j \in seen : BarTs[j] \in Nat /\ BarTs[j] > 0
    BY <1>1, <2>7, ScanAssumption DEF IInv, BaseOK
  <2>10. CASE seen = {}
    BY <2>8, <2>10
  <2>11. CASE seen # {}
    <3>1. maxTs > 0
      BY <2>8, <2>9, <2>11
    <3>2. day = maxTs
      BY <2>8, <3>1
    <3> QED BY <2>8, <2>11, <3>1, <3>2
  <2> QED BY <2>10, <2>11
<1> QED BY <1>1, StatsInvariance, PTL

-----------------------------------------------------------------------------
\* Seen from the caller the concurrent scan is the atomic one: no step before
\* the return shows through, and the return is an Answer.
THEOREM Refinement == Spec => ImplementsAtomicScan
<1>1. Init => Atomic!Init
  BY DEF Init, Atomic!Init, Eligible, Returned, Atomic!Jobs, Jobs
<1>2. ASSUME IInv, IInv', [Next]_vars PROVE [Atomic!Next]_Atomic!vars
  <2> USE DEF Atomic!vars, vars, feederVars, workerVars, channelVars, resVars
  <2>1. CASE Cancel
    BY <2>1 DEF Cancel, Atomic!Next, Atomic!Cancel, Returned, Eligible
  <2>2. CASE FeederClose \/ CloseResults \/ Finished \/ UNCHANGED vars
    BY <2>2 DEF FeederClose, CloseResults, Finished, Returned, Eligible
  <2>3. ASSUME NEW w \in Workers, Handoff(w) PROVE UNCHANGED Atomic!vars
    BY <2>3 DEF Handoff, Returned, Eligible
  <2>4. ASSUME NEW w \in Workers, WorkerStep(w) PROVE [Atomic!Next]_Atomic!vars
    <3>1. CASE LoadFails(w)
      <4>1. ~Returned /\ job[w] \in Jobs
        BY <1>2, <3>1 DEF IInv, BaseOK, ClosingOrder, HoldsWhileBusy, LoadFails
      <4>2. failed' = failed \cup {job[w]} /\ UNCHANGED <<bars, cancelled, rows, day>>
        BY <3>1 DEF LoadFails
      <4>3. Atomic!LogFailure(job[w])
        BY <4>1, <4>2 DEF Atomic!LogFailure, Returned, Eligible
      <4> QED BY <4>1, <4>3 DEF Atomic!Next, Atomic!Jobs, Jobs
    <3>2. CASE ~LoadFails(w)
      BY <2>4, <3>2 DEF WorkerStep, RangeEnds, WorkerGivesUp, WorkerGoesOn, LoadEmpty, LoadBars,
         SendResult, Returned, Eligible
    <3> QED BY <3>1, <3>2
  <2>5. CASE Collect
    <3>1. ~Returned
      BY <1>2, <2>5 DEF Collect, IInv, ClosingOrder
    <3> QED BY <3>1, <2>5 DEF Collect, Returned, Eligible
  <2>6. CASE Return
    <3>1. /\ ~Returned
          /\ resultsClosed' /\ results' = <<>>
          /\ UNCHANGED <<bars, cancelled, failed>>
          /\ Eligible' = Eligible
      BY <2>6 DEF Return, Eligible
    <3>2. Returned'
      BY <2>6, <1>2, ScanAssumption DEF Return, Returned, IInv, BaseOK
    <3>3. /\ \A k \in 1..Len(rows') : rows'[k] \in Eligible \ failed
          /\ ~cancelled => \A j \in Eligible \ failed : \E k \in 1..Len(rows') : rows'[k] = j
      <4>1. /\ \A k \in 1..Len(rows) : rows[k] \in Eligible \ failed
            /\ ~cancelled => \A j \in Eligible \ failed : \E k \in 1..Len(rows) : rows[k] = j
        BY <1>2, <2>6, Drained DEF Return
      <4>2. rows \in Seq(Jobs) /\ IsReordering(rows', rows)
        BY <1>2, <2>6 DEF IInv, BaseOK, Return
      <4>3. SameElements(rows', rows)
        BY <4>2, ReorderingFacts
      <4> QED BY <4>1, <4>3 DEF SameElements
    <3>4. rows' \in Seq(Jobs) /\ DOMAIN rows' = 1..Len(rows') /\ Len(rows') \in Nat
      BY <1>2 DEF IInv, BaseOK
    <3>5. rows' \in Seq(Eligible \ failed)
      BY <3>3, <3>4
    <3>6. IsInjective(rows')
      BY <1>2, <3>4 DEF IInv, Apart, IsInjective
    <3>7. SortedBySymbol(rows)'
      BY <1>2, <3>2 DEF IInv, ClosingOrder
    <3>8. ~cancelled => Range(rows') = Eligible \ failed
      BY <3>3, <3>4 DEF Range
    <3>9. Atomic!Answer
      <4> DEFINE answer == IF Returned THEN rows ELSE <<>>
      <4>1. answer' = rows'
        BY <3>2
      <4> HIDE DEF answer
      <4>2. /\ answer' \in Seq(Eligible \ failed)
            /\ Atomic!IsInjective(answer')
            /\ \A k \in 1..Len(answer') : \A l \in 1..Len(answer') :
                  k < l => Symbols[answer'[k]] <= Symbols[answer'[l]]
            /\ ~cancelled => Atomic!Range(answer') = Eligible \ failed
        BY <4>1, <3>5, <3>6, <3>7, <3>8
        DEF SortedBySymbol, IsInjective, Range, Atomic!IsInjective, Atomic!Range
      <4>3. /\ ~Returned
            /\ Returned' = TRUE
            /\ UNCHANGED <<Eligible, cancelled, failed>>
        BY <3>1, <3>2 DEF Returned
      <4> QED BY <4>2, <4>3, Zenon DEF Atomic!Answer, answer
    <3> QED BY <3>9 DEF Atomic!Next
  <2> QED BY <1>2, <2>1, <2>2, <2>3, <2>4, <2>5, <2>6 DEF Next
<1> QED BY <1>1, <1>2, Invariance, PTL DEF Spec, Atomic!Spec, ImplementsAtomicScan
=============================================================================
