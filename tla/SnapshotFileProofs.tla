------------------------- MODULE SnapshotFileProofs -------------------------
(***************************************************************************)
(* Proofs about the snapshot file that loaders, backfills and studies      *)
(* share, for every calendar, universe of symbols, set of processes and    *)
(* choice of options.                                                      *)
(***************************************************************************)
EXTENDS SnapshotFile, WellFoundedInduction, TLAPS

\* What a process holds while it is somewhere.  A loader's rows are of its day
\* or earlier; `studies` has chosen a date of the file; a collected day is a
\* weekday, has rows, and none of them is computed from a later bar.
ProcOK(p) ==
    /\ pc[p] \in {"delete", "insert"} =>
          day[p] \in Days /\ \A s \in Symbols : rows[p][s] <= day[p]
    /\ pc[p] \in {"select", "run"} => day[p] \in DateKeys
    /\ DOMAIN batch[p] \subseteq Days \ Weekend
    /\ \A d \in DOMAIN batch[p] :
          /\ batch[p][d] \in RowSet /\ batch[p][d] # NoRows
          /\ \A s \in Symbols : batch[p][d][s] <= d

ProcTypes ==
    /\ pc \in [Procs -> PC]
    /\ day \in [Procs -> Int]
    /\ rows \in [Procs -> RowSet]
    /\ end \in [Procs -> Days \cup {NoDay}]
    /\ cache \in [Procs -> [Symbols -> Days \cup {NoDay}]]
    /\ batch = [p \in Procs |-> batch[p]]

ProcsOK == ProcTypes /\ \A p \in Procs : ProcOK(p)

WorldOK ==
    /\ clock \in Days
    /\ have \in [Symbols -> Trading \cup {NoDay}]

TableOK == table \in [DateKeys -> RowSet] /\ lost \subseteq DateKeys /\ NoLookahead

IInv == ProcsOK /\ WorldOK /\ TableOK /\ ReportIsTrue /\ EmptyHasCause

\* What a step may do to the rows that are stored: RowsSafe, of one step.
SafeStep ==
    \A k \in DateKeys : \A s \in Symbols :
        table[k][s] # NoRow /\ table'[k][s] # table[k][s] =>
            /\ table'[k] = NoRows
            /\ \/ \E p \in Loaders : pc[p] = "delete" /\ pc'[p] = "insert" /\ BarTs(day[p]) = k
               \/ \E p \in Fillers : pc[p] = "cleanup" /\ pc'[p] = "reported" /\ Outdated(k)

\* A date with its rows, outdated or lost stays one of these.
StaysAccounted == \A k \in DateKeys : Accounted(k) => Accounted(k)'

-----------------------------------------------------------------------------
\* Every set of naturals that is not empty has a least element.
LEMMA LeastNumber == \A T \in SUBSET Nat : T # {} => \E x \in T : \A y \in T : x <= y
<1> DEFINE R == {ss \in Nat \X Nat : ss[1] < ss[2]}
<1>1. IsWellFoundedOn(R, Nat)
  BY NatLessThanWellFounded DEF OpToRel
<1> SUFFICES ASSUME NEW T \in SUBSET Nat, T # {} PROVE \E x \in T : \A y \in T : x <= y
  OBVIOUS
<1>2. PICK x \in T : \A y \in T : <<y, x>> \notin R
  <2> HIDE DEF R
  <2> QED BY <1>1, WFMin
<1>3. ASSUME NEW y \in T PROVE x <= y
  <2>1. x \in Nat /\ y \in Nat
    OBVIOUS
  <2>2. y < x => <<y, x>> \in R
    BY <2>1
  <2> HIDE DEF R
  <2> QED BY <1>2, <2>1, <2>2
<1> QED BY <1>3

\* What Max computes of a set of naturals that is bounded and not empty.
LEMMA MaxFacts ==
    ASSUME NEW N \in Nat, NEW S \in SUBSET (0..N), S # {}
    PROVE  Max(S) \in S /\ \A y \in S : y <= Max(S)
<1> DEFINE T == {N - y : y \in S}
<1>1. T \in SUBSET Nat
  OBVIOUS
<1>2. T # {}
  <2>1. PICK y : y \in S
    OBVIOUS
  <2>2. N - y \in T
    BY <2>1
  <2> QED BY <2>2
<1>3. PICK t \in T : \A y \in T : t <= y
  <2> HIDE DEF T
  <2> QED BY <1>1, <1>2, LeastNumber
<1>4. PICK x \in S : t = N - x
  OBVIOUS
<1>5. \A y \in S : y <= x
  <2> SUFFICES ASSUME NEW y \in S PROVE y <= x
    OBVIOUS
  <2>1. N - y \in T
    OBVIOUS
  <2>2. t <= N - y
    BY <1>3, <2>1
  <2> QED BY <1>4, <2>2
<1> QED BY <1>5 DEF Max

LEMMA CalendarFacts ==
    /\ LastDay \in Nat /\ Days \subseteq Nat \ {0} /\ Days \subseteq 0..LastDay
    /\ Trading \subseteq Days
    /\ BarTime \in {0, 1}
    /\ NoDay \notin Days /\ NoRow \notin Days
    /\ Days \cup {NoDay} \subseteq 0..LastDay /\ Days \cup {NoRow} \subseteq 0..LastDay
    /\ DateKeys \subseteq 0..(2 * LastDay + 1)
    /\ \A d \in Days : Midnight(d) \in DateKeys /\ BarTs(d) \in DateKeys
BY FileAssumption DEF Days, NoDay, NoRow, DateKeys, Midnight, BarTs

\* The last bar that a row of day d is computed from is one of the bars loaded
\* and not after d.
LEMMA RowFacts ==
    ASSUME NEW s \in Symbols, NEW upto \in Days \cup {NoDay}, NEW d \in Nat
    PROVE  /\ RowOf(s, upto, d) \in Days \cup {NoRow}
           /\ RowOf(s, upto, d) <= upto /\ RowOf(s, upto, d) <= d
<1> DEFINE known == {t \in Trading : t <= upto /\ t <= d}
<1>1. known \in SUBSET (0..LastDay)
  BY CalendarFacts
<1>2. upto \in Nat
  BY CalendarFacts DEF NoDay
<1>3. LastBar(s, upto, d) = IF known = {} THEN NoRow ELSE Max(known)
  BY DEF LastBar
<1>4. CASE known = {}
  <2>1. LastBar(s, upto, d) = NoRow
    BY <1>3, <1>4
  <2> HIDE DEF known
  <2>2. RowOf(s, upto, d) = NoRow
    BY <2>1 DEF RowOf
  <2> QED BY <1>2, <2>2 DEF NoRow
<1>5. CASE known # {}
  <2>1. Max(known) \in known
    <3> HIDE DEF known
    <3> QED BY <1>1, <1>5, MaxFacts, CalendarFacts
  <2>2. Max(known) \in Trading /\ Max(known) <= upto /\ Max(known) <= d
    BY <2>1
  <2> HIDE DEF known
  <2>3. RowOf(s, upto, d) \in {Max(known), NoRow}
    BY <1>3, <1>5 DEF RowOf
  <2>4. CASE RowOf(s, upto, d) = Max(known)
    BY <2>2, <2>4, CalendarFacts
  <2>5. CASE RowOf(s, upto, d) = NoRow
    BY <1>2, <2>5 DEF NoRow
  <2> QED BY <2>3, <2>4, <2>5
<1> QED BY <1>4, <1>5

-----------------------------------------------------------------------------
\* The processes.

\* Every process but p is where it was, with what it held.
Rest(p) ==
    \A q \in Procs \ {p} :
        /\ pc'[q] = pc[q] /\ day'[q] = day[q] /\ rows'[q] = rows[q]
        /\ batch'[q] = batch[q]

LEMMA Procs1 ==
    ASSUME ProcsOK, ProcTypes', NEW p \in Procs, Rest(p), ProcOK(p)'
    PROVE  ProcsOK'
<1>1. ASSUME NEW q \in Procs, q # p PROVE ProcOK(q)'
  BY <1>1 DEF ProcsOK, ProcOK, Rest
<1> QED BY <1>1 DEF ProcsOK

LEMMA GotoFacts ==
    ASSUME ProcTypes, NEW p \in Procs, NEW where \in PC, Goto(p, where)
    PROVE  /\ pc' \in [Procs -> PC] /\ pc'[p] = where
           /\ \A q \in Procs \ {p} : pc'[q] = pc[q]
BY DEF ProcTypes, Goto

\* A process that stops holds nothing.
LEMMA StopFacts ==
    ASSUME ProcsOK, NEW p \in Procs, Stop(p)
    PROVE  ProcsOK' /\ Rest(p) /\ pc'[p] = "idle"
<1> USE DEF NothingDone
<1>1. /\ NoDay \in Int /\ NoDay \in Days \cup {NoDay} /\ NoRows \in RowSet
      /\ [s \in Symbols |-> NoDay] \in [Symbols -> Days \cup {NoDay}]
  BY DEF NoDay, NoRows, RowSet
<1>2. "idle" \in PC
  BY DEF PC
<1>3. /\ pc' \in [Procs -> PC] /\ pc'[p] = "idle"
      /\ \A q \in Procs \ {p} : pc'[q] = pc[q]
  BY <1>2, GotoFacts DEF Stop, ProcsOK
<1>4. day' \in [Procs -> Int] /\ \A q \in Procs \ {p} : day'[q] = day[q]
  BY <1>1 DEF Stop, ProcsOK, ProcTypes
<1>5. rows' \in [Procs -> RowSet] /\ \A q \in Procs \ {p} : rows'[q] = rows[q]
  BY <1>1 DEF Stop, ProcsOK, ProcTypes
<1>6. end' \in [Procs -> Days \cup {NoDay}]
  BY <1>1 DEF Stop, ProcsOK, ProcTypes
<1>7. cache' \in [Procs -> [Symbols -> Days \cup {NoDay}]]
  BY <1>1 DEF Stop, ProcsOK, ProcTypes
<1>8. /\ batch' = [q \in Procs |-> batch'[q]] /\ batch'[p] = NoBatch
      /\ \A q \in Procs \ {p} : batch'[q] = batch[q]
  BY DEF Stop, ProcsOK, ProcTypes
<1>9. ProcTypes' /\ Rest(p)
  BY <1>3, <1>4, <1>5, <1>6, <1>7, <1>8 DEF ProcTypes, Rest
<1>10. DOMAIN NoBatch = {}
  BY DEF NoBatch
<1>11. ProcOK(p)'
  BY <1>3, <1>8, <1>10 DEF ProcOK
<1> QED BY <1>3, <1>9, <1>11, Procs1

\* A process goes on elsewhere with what it holds.
LEMMA MoveFacts ==
    ASSUME ProcsOK, NEW p \in Procs, NEW where \in PC, Goto(p, where),
           where \in {"delete", "insert"} => pc[p] \in {"delete", "insert"},
           where \in {"select", "run"} => pc[p] \in {"select", "run"},
           UNCHANGED <<day, rows, end, cache, batch>>
    PROVE  ProcsOK' /\ Rest(p) /\ pc'[p] = where
<1>1. /\ pc' \in [Procs -> PC] /\ pc'[p] = where
      /\ \A q \in Procs \ {p} : pc'[q] = pc[q]
  BY GotoFacts DEF ProcsOK
<1>2. ProcTypes' /\ Rest(p)
  BY <1>1 DEF ProcsOK, ProcTypes, Rest
<1>3. ProcOK(p)'
  BY <1>1 DEF ProcsOK, ProcOK
<1> QED BY <1>1, <1>2, <1>3, Procs1

LEMMA LoaderScanFacts ==
    ASSUME ProcsOK, WorldOK, NEW p \in Procs, LoaderScan(p)
    PROVE  ProcsOK' /\ Rest(p) /\ pc'[p] = "delete"
<1>0. "delete" \in PC
  BY DEF PC
<1>1. PICK seen \in SUBSET Symbols :
        /\ \E s \in seen : have[s] # NoDay
        /\ day' = [day EXCEPT ![p] = Max({have[s] : s \in seen})]
        /\ rows' = [rows EXCEPT ![p] =
              [s \in Symbols |-> IF s \in seen THEN RowOf(s, have[s], LastDay) ELSE NoRow]]
  BY DEF LoaderScan
<1>2. \A s \in Symbols : have[s] \in Days \cup {NoDay} /\ have[s] \in 0..LastDay
  <2>1. \A s \in Symbols : have[s] \in Days \cup {NoDay}
    BY CalendarFacts DEF WorldOK
  <2> QED BY <2>1, CalendarFacts
<1>3. PICK S : S = {have[s] : s \in seen}
  OBVIOUS
<1>4. S \in SUBSET (0..LastDay)
  BY <1>2, <1>3
<1>5. PICK s0 \in seen : have[s0] # NoDay
  BY <1>1
<1>6. have[s0] \in S /\ have[s0] \in Days
  BY <1>2, <1>3, <1>5
<1>7. PICK m : m = Max(S)
  OBVIOUS
<1>8. m \in S /\ \A y \in S : y <= m
  BY <1>4, <1>6, <1>7, MaxFacts, CalendarFacts
<1>9. m \in Days
  BY <1>4, <1>6, <1>8, CalendarFacts DEF Days
<1>10. PICK f : f = [s \in Symbols |-> IF s \in seen THEN RowOf(s, have[s], LastDay) ELSE NoRow]
  OBVIOUS
<1>11. ASSUME NEW s \in Symbols PROVE f[s] \in Days \cup {NoRow} /\ f[s] <= m
  <2>1. CASE s \in seen
    <3>1. have[s] <= m /\ f[s] = RowOf(s, have[s], LastDay)
      BY <1>3, <1>8, <1>10, <2>1
    <3>2. RowOf(s, have[s], LastDay) \in Days \cup {NoRow} /\ RowOf(s, have[s], LastDay) <= have[s]
      BY <1>2, RowFacts, CalendarFacts
    <3>3. f[s] \in Int /\ have[s] \in Int /\ m \in Int
      <4>1. f[s] \in 0..LastDay /\ have[s] \in 0..LastDay /\ m \in 0..LastDay
        BY <1>2, <1>9, <3>1, <3>2, CalendarFacts
      <4> QED BY <4>1
    <3> QED BY <3>1, <3>2, <3>3
  <2>2. CASE s \notin seen
    BY <1>9, <1>10, <2>2, CalendarFacts DEF NoRow
  <2> QED BY <2>1, <2>2
<1>12. f \in RowSet
  BY <1>10, <1>11 DEF RowSet
<1>13. day' = [day EXCEPT ![p] = m] /\ rows' = [rows EXCEPT ![p] = f]
  BY <1>1, <1>3, <1>7, <1>10
<1>14. /\ day' \in [Procs -> Int] /\ day'[p] = m
       /\ \A q \in Procs \ {p} : day'[q] = day[q]
  BY <1>9, <1>13, CalendarFacts DEF ProcsOK, ProcTypes
<1>15. /\ rows' \in [Procs -> RowSet] /\ rows'[p] = f
       /\ \A q \in Procs \ {p} : rows'[q] = rows[q]
  BY <1>12, <1>13 DEF ProcsOK, ProcTypes
<1>16. /\ pc' \in [Procs -> PC] /\ pc'[p] = "delete"
       /\ \A q \in Procs \ {p} : pc'[q] = pc[q]
  BY <1>0, GotoFacts DEF LoaderScan, ProcsOK
<1>17. UNCHANGED <<end, cache, batch>>
  BY DEF LoaderScan
<1>18. ProcTypes' /\ Rest(p)
  BY <1>14, <1>15, <1>16, <1>17 DEF ProcsOK, ProcTypes, Rest
<1>19. ProcOK(p)'
  BY <1>9, <1>11, <1>14, <1>15, <1>16, <1>17 DEF ProcsOK, ProcOK
<1> QED BY <1>16, <1>18, <1>19, Procs1

LEMMA StudiesListFacts ==
    ASSUME ProcsOK, NEW p \in Procs, StudiesList(p)
    PROVE  ProcsOK' /\ Rest(p) /\ pc'[p] = "select"
<1>0. "select" \in PC
  BY DEF PC
<1>1. PICK k : k = Max(Stored)
  OBVIOUS
<1>2. Stored \in SUBSET (0..(2 * LastDay + 1)) /\ Stored # {} /\ 2 * LastDay + 1 \in Nat
  <2>1. Stored \subseteq DateKeys /\ Stored # {}
    BY DEF Stored, StudiesList
  <2> QED BY <2>1, CalendarFacts
<1>3. k \in Stored
  BY <1>1, <1>2, MaxFacts
<1>4. k \in DateKeys /\ k \in Int
  <2>1. k \in DateKeys
    BY <1>3 DEF Stored
  <2>2. k \in 0..(2 * LastDay + 1)
    BY <2>1, CalendarFacts
  <2> QED BY <2>1, <2>2
<1>5. /\ day' \in [Procs -> Int] /\ day'[p] = k
      /\ \A q \in Procs \ {p} : day'[q] = day[q]
  BY <1>1, <1>4 DEF StudiesList, ProcsOK, ProcTypes
<1>6. /\ pc' \in [Procs -> PC] /\ pc'[p] = "select"
      /\ \A q \in Procs \ {p} : pc'[q] = pc[q]
  BY <1>0, GotoFacts DEF StudiesList, ProcsOK
<1>7. UNCHANGED <<rows, end, cache, batch>>
  BY DEF StudiesList
<1>8. ProcTypes' /\ Rest(p)
  BY <1>5, <1>6, <1>7 DEF ProcsOK, ProcTypes, Rest
<1>9. ProcOK(p)'
  BY <1>4, <1>5, <1>6, <1>7 DEF ProcsOK, ProcOK
<1> QED BY <1>6, <1>8, <1>9, Procs1

LEMMA FillStartFacts ==
    ASSUME ProcsOK, WorldOK, NEW p \in Procs, FillStart(p)
    PROVE  ProcsOK' /\ Rest(p) /\ pc'[p] = "bulk"
<1>0. "bulk" \in PC
  BY DEF PC
<1>1. PICK S : S = {have[s] : s \in Symbols} \cup {NoDay}
  OBVIOUS
<1>2. S \in SUBSET (0..LastDay) /\ NoDay \in S
  <2>1. \A s \in Symbols : have[s] \in 0..LastDay
    BY CalendarFacts DEF WorldOK
  <2> QED BY <1>1, <2>1, CalendarFacts
<1>3. PICK m : m = LatestBarDate
  OBVIOUS
<1>4. m \in S
  BY <1>1, <1>2, <1>3, MaxFacts, CalendarFacts DEF LatestBarDate
<1>5. m \in Days /\ m - BackfillDays + 1 \in Int
  BY <1>2, <1>3, <1>4, FileAssumption DEF FillStart, Days, NoDay
<1>6. end' \in [Procs -> Days \cup {NoDay}]
  BY <1>3, <1>5 DEF FillStart, ProcsOK, ProcTypes
<1>7. day' \in [Procs -> Int] /\ \A q \in Procs \ {p} : day'[q] = day[q]
  BY <1>3, <1>5 DEF FillStart, ProcsOK, ProcTypes
<1>8. /\ batch' = [q \in Procs |-> batch'[q]] /\ batch'[p] = NoBatch
      /\ \A q \in Procs \ {p} : batch'[q] = batch[q]
  BY DEF FillStart, ProcsOK, ProcTypes
<1>9. /\ pc' \in [Procs -> PC] /\ pc'[p] = "bulk"
      /\ \A q \in Procs \ {p} : pc'[q] = pc[q]
  BY <1>0, GotoFacts DEF FillStart, ProcsOK
<1>10. UNCHANGED <<rows, cache>>
  BY DEF FillStart
<1>11. ProcTypes' /\ Rest(p)
  BY <1>6, <1>7, <1>8, <1>9, <1>10 DEF ProcsOK, ProcTypes, Rest
<1>12. DOMAIN NoBatch = {}
  BY DEF NoBatch
<1>13. ProcOK(p)'
  BY <1>8, <1>9, <1>12 DEF ProcOK
<1> QED BY <1>9, <1>11, <1>13, Procs1

LEMMA BulkLoadFacts ==
    ASSUME ProcsOK, WorldOK, NEW p \in Procs, BulkLoad(p)
    PROVE  ProcsOK' /\ Rest(p) /\ pc'[p] = "days"
<1>0. "days" \in PC
  BY DEF PC
<1>1. PICK loaded \in SUBSET Symbols :
          cache' = [cache EXCEPT ![p] =
                       [s \in Symbols |-> IF s \in loaded THEN have[s] ELSE NoDay]]
  BY DEF BulkLoad
<1>2. [s \in Symbols |-> IF s \in loaded THEN have[s] ELSE NoDay] \in [Symbols -> Days \cup {NoDay}]
  BY CalendarFacts DEF WorldOK
<1>3. cache' \in [Procs -> [Symbols -> Days \cup {NoDay}]]
  BY <1>1, <1>2 DEF ProcsOK, ProcTypes
<1>4. /\ pc' \in [Procs -> PC] /\ pc'[p] = "days"
      /\ \A q \in Procs \ {p} : pc'[q] = pc[q]
  BY <1>0, GotoFacts DEF BulkLoad, ProcsOK
<1>5. UNCHANGED <<day, rows, end, batch>>
  BY DEF BulkLoad
<1>6. ProcTypes' /\ Rest(p)
  BY <1>3, <1>4, <1>5 DEF ProcsOK, ProcTypes, Rest
<1>7. ProcOK(p)'
  BY <1>4, <1>5 DEF ProcsOK, ProcOK
<1> QED BY <1>4, <1>6, <1>7, Procs1

\* A day that is collected is a weekday of the calendar with rows from its own
\* past.
LEMMA FillDayFacts ==
    ASSUME ProcsOK, NEW p \in Procs, FillDay(p)
    PROVE  ProcsOK' /\ Rest(p) /\ pc'[p] = pc[p]
<1>1. PICK d : d = day[p]
  OBVIOUS
<1>2. PICK found : found = UniverseFromCache(p, d)
  OBVIOUS
<1>3. d \in Int /\ end[p] \in Days \cup {NoDay} /\ d <= end[p]
  BY <1>1 DEF ProcsOK, ProcTypes, FillDay
<1>4. /\ UNCHANGED <<pc, rows, end, cache>>
      /\ pc[p] = "days"
      /\ day' = [day EXCEPT ![p] = d + 1]
  BY <1>1 DEF FillDay, ProcsOK, ProcTypes
<1>5. day' \in [Procs -> Int] /\ \A q \in Procs \ {p} : day'[q] = day[q]
  BY <1>3, <1>4 DEF ProcsOK, ProcTypes
<1>6. CASE batch' = batch
  <2>1. ProcTypes' /\ Rest(p)
    BY <1>4, <1>5, <1>6 DEF ProcsOK, ProcTypes, Rest
  <2>2. ProcOK(p)'
    BY <1>4, <1>6 DEF ProcsOK, ProcOK
  <2> QED BY <1>4, <2>1, <2>2, Procs1
<1>7. CASE batch' # batch
  <2>1. PICK b : b = [e \in DOMAIN batch[p] \cup {d} |-> IF e = d THEN found ELSE batch[p][e]]
    OBVIOUS
  <2>2. ~(d < 1) /\ d \notin Weekend /\ found # NoRows /\ batch' = [batch EXCEPT ![p] = b]
    BY <1>1, <1>2, <1>7, <2>1 DEF FillDay
  <2>3. d \in Days \ Weekend
    BY <1>3, <2>2, CalendarFacts DEF Days, NoDay
  <2>4. found \in RowSet /\ \A s \in Symbols : found[s] <= d
    <3>1. found = [s \in Symbols |-> RowOf(s, cache[p][s], d)]
      BY <1>2 DEF UniverseFromCache
    <3>2. \A s \in Symbols : cache[p][s] \in Days \cup {NoDay}
      BY DEF ProcsOK, ProcTypes
    <3>3. d \in Nat
      BY <2>3, CalendarFacts
    <3>4. \A s \in Symbols : RowOf(s, cache[p][s], d) \in Days \cup {NoRow} /\ RowOf(s, cache[p][s], d) <= d
      BY <3>2, <3>3, RowFacts
    <3> QED BY <3>1, <3>4 DEF RowSet
  <2>5. /\ batch' = [q \in Procs |-> batch'[q]] /\ batch'[p] = b
        /\ \A q \in Procs \ {p} : batch'[q] = batch[q]
    BY <2>2 DEF ProcsOK, ProcTypes
  <2>6. DOMAIN b = DOMAIN batch[p] \cup {d} /\ b[d] = found /\ \A e \in DOMAIN batch[p] \ {d} : b[e] = batch[p][e]
    BY <2>1
  <2>7. ProcTypes' /\ Rest(p)
    BY <1>4, <1>5, <2>5 DEF ProcsOK, ProcTypes, Rest
  <2>8. ProcOK(p)
    BY DEF ProcsOK
  <2>9. DOMAIN b \subseteq Days \ Weekend
    BY <2>3, <2>6, <2>8 DEF ProcOK
  <2>10. ASSUME NEW e \in DOMAIN b
         PROVE  b[e] \in RowSet /\ b[e] # NoRows /\ \A s \in Symbols : b[e][s] <= e
    <3>1. CASE e = d
      BY <2>2, <2>4, <2>6, <3>1
    <3>2. CASE e # d
      BY <2>6, <2>8, <3>2 DEF ProcOK
    <3> QED BY <3>1, <3>2
  <2>11. ProcOK(p)'
    BY <1>4, <2>5, <2>9, <2>10 DEF ProcOK
  <2> QED BY <1>4, <2>7, <2>11, Procs1
<1> QED BY <1>6, <1>7

-----------------------------------------------------------------------------
\* The file.

TableStep == TableOK' /\ StaysAccounted /\ SafeStep

LEMMA SameTable ==
    ASSUME TableOK, WorldOK, UNCHANGED <<table, lost>>,
           clock' \in Days, clock' >= clock
    PROVE  TableStep
<1>1. TableOK'
  BY DEF TableOK, NoLookahead
<1>2. SafeStep
  BY DEF SafeStep
<1>3. ASSUME NEW k \in DateKeys, Outdated(k) PROVE Outdated(k)'
  <2>1. k \in Int /\ clock \in Int /\ clock' \in Int /\ KeepDays \in Int
    <3>1. k \in 0..(2 * LastDay + 1)
      BY CalendarFacts
    <3> QED BY <3>1, CalendarFacts, FileAssumption DEF WorldOK
  <2>2. KeepDays > 0 /\ k < 2 * (clock - KeepDays) + 1
    BY <1>3 DEF Outdated
  <2>3. ASSUME NEW a \in Int, NEW b \in Int, NEW c \in Int, NEW e \in Int,
               a < 2 * (b - e) + 1, c >= b
        PROVE  a < 2 * (c - e) + 1
    BY <2>3
  <2>4. k < 2 * (clock' - KeepDays) + 1
    BY <2>1, <2>2, <2>3
  <2> QED BY <2>2, <2>4 DEF Outdated
<1>4. StaysAccounted
  BY <1>3 DEF StaysAccounted, Accounted, Exists
<1> QED BY <1>1, <1>2, <1>4 DEF TableStep

LEMMA LoadDeleteKeeps ==
    ASSUME ProcsOK, TableOK, WorldOK, NEW p \in Loaders, LoadDelete(p)
    PROVE  TableStep
<1>1. PICK key : key = BarTs(day[p])
  OBVIOUS
<1>2. p \in Procs /\ pc[p] = "delete" /\ pc'[p] = "insert" /\ clock' = clock
  BY DEF LoadDelete, Goto, Procs, ProcsOK, ProcTypes, worldVars
<1>3. key \in DateKeys
  BY <1>1, <1>2, CalendarFacts DEF ProcsOK, ProcOK
<1>4. /\ NoRows \in RowSet /\ \A s \in Symbols : NoRows[s] = NoRow
  BY DEF NoRows, RowSet
<1>5. /\ table' \in [DateKeys -> RowSet] /\ table'[key] = NoRows
      /\ \A k \in DateKeys \ {key} : table'[k] = table[k]
  BY <1>1, <1>3, <1>4 DEF LoadDelete, TableOK
<1>6. lost' = IF Exists(key) THEN lost \cup {key} ELSE lost
  BY <1>1 DEF LoadDelete
<1>7. TableOK'
  <2>1. \A s \in Symbols : 2 * table'[key][s] <= key
    <3>1. key \in 0..(2 * LastDay + 1)
      BY <1>3, CalendarFacts
    <3> QED BY <1>4, <1>5, <3>1 DEF NoRow
  <2>2. NoLookahead'
    BY <1>5, <2>1 DEF TableOK, NoLookahead
  <2> QED BY <1>3, <1>5, <1>6, <2>2 DEF TableOK
<1>8. StaysAccounted
  BY <1>2, <1>5, <1>6 DEF StaysAccounted, Accounted, Exists, Outdated
<1>9. SafeStep
  BY <1>1, <1>2, <1>5 DEF SafeStep
<1> QED BY <1>7, <1>8, <1>9 DEF TableStep

LEMMA LoadInsertKeeps ==
    ASSUME ProcsOK, TableOK, WorldOK, NEW p \in Procs, LoadInsert(p)
    PROVE  TableStep
<1>1. PICK key : key = BarTs(day[p])
  OBVIOUS
<1>2. pc[p] = "insert" /\ clock' = clock
  BY DEF LoadInsert, worldVars
<1>3. /\ day[p] \in Days /\ key \in DateKeys /\ rows[p] \in RowSet
      /\ \A s \in Symbols : rows[p][s] <= day[p]
  BY <1>1, <1>2, CalendarFacts DEF ProcsOK, ProcTypes, ProcOK
<1>4. PICK new : new = [s \in Symbols |-> IF rows[p][s] # NoRow THEN rows[p][s] ELSE table[key][s]]
  OBVIOUS
<1>5. /\ table' = [table EXCEPT ![key] = new]
      /\ lost' = IF rows[p] # NoRows THEN lost \ {key} ELSE lost
      /\ \A s \in Symbols : rows[p][s] # NoRow => table[key][s] = NoRow
  BY <1>1, <1>3, <1>4 DEF LoadInsert, TableOK
<1>6. new \in RowSet
  BY <1>3, <1>4 DEF TableOK, RowSet
<1>7. /\ table' \in [DateKeys -> RowSet] /\ table'[key] = new
      /\ \A k \in DateKeys \ {key} : table'[k] = table[k]
  BY <1>3, <1>5, <1>6 DEF TableOK
<1>8. ASSUME NEW s \in Symbols PROVE 2 * new[s] <= key
  <2>1. CASE rows[p][s] # NoRow
    <3>1. new[s] <= day[p] /\ new[s] \in Days
      BY <1>3, <1>4, <2>1 DEF RowSet
    <3>2. new[s] \in Int /\ day[p] \in Int /\ BarTime \in {0, 1}
      BY <1>3, <3>1, CalendarFacts
    <3> QED BY <1>1, <3>1, <3>2 DEF BarTs
  <2>2. CASE rows[p][s] = NoRow
    BY <1>3, <1>4, <2>2 DEF TableOK, NoLookahead
  <2> QED BY <2>1, <2>2
<1>9. TableOK'
  <2>1. NoLookahead'
    BY <1>7, <1>8 DEF TableOK, NoLookahead
  <2> QED BY <1>5, <1>7, <2>1 DEF TableOK
<1>10. \A k \in DateKeys : \A s \in Symbols : table[k][s] # NoRow => table'[k][s] = table[k][s]
  BY <1>4, <1>5, <1>7
<1>11. SafeStep
  BY <1>10 DEF SafeStep
<1>12. ASSUME NEW k \in DateKeys, Exists(k) PROVE table'[k] # NoRows
  <2>1. PICK s \in Symbols : table[k][s] # NoRow
    BY <1>12 DEF Exists, NoRows, TableOK, RowSet
  <2>2. table'[k][s] # NoRow
    BY <1>10, <2>1
  <2> QED BY <2>2 DEF NoRows
<1>13. rows[p] # NoRows => table'[key] # NoRows
  <2> SUFFICES ASSUME rows[p] # NoRows PROVE table'[key] # NoRows
    OBVIOUS
  <2>1. PICK s \in Symbols : rows[p][s] # NoRow
    BY <1>3 DEF NoRows, RowSet
  <2>2. table'[key][s] # NoRow
    BY <1>4, <1>7, <2>1
  <2> QED BY <2>2 DEF NoRows
<1>14. StaysAccounted
  BY <1>2, <1>5, <1>12, <1>13 DEF StaysAccounted, Accounted, Exists, Outdated
<1> QED BY <1>9, <1>11, <1>14 DEF TableStep

\* INSERT OR IGNORE of the collected days: what is stored stays, and every
\* collected day is in the file.
LEMMA LoadHistoryBatchKeeps ==
    ASSUME ProcsOK, TableOK, WorldOK, NEW p \in Procs, LoadHistoryBatch(p)
    PROVE  TableStep /\ \A d \in DOMAIN batch[p] : table'[Midnight(d)] # NoRows
<1> DEFINE In(k) == \E d \in DOMAIN batch[p] : k = Midnight(d)
           new(k, s) == IF table[k][s] = NoRow /\ In(k) THEN batch[p][k \div 2][s] ELSE table[k][s]
<1>1. /\ table' = [k \in DateKeys |-> [s \in Symbols |-> new(k, s)]]
      /\ lost' = {k \in lost : table'[k] = NoRows}
      /\ clock' = clock
  BY DEF LoadHistoryBatch, worldVars
<1>2. ASSUME NEW d \in DOMAIN batch[p]
      PROVE  /\ d \in Days /\ Midnight(d) \in DateKeys /\ Midnight(d) \div 2 = d
             /\ batch[p][d] \in RowSet /\ batch[p][d] # NoRows
             /\ \A s \in Symbols : batch[p][d][s] <= d
  <2>1. /\ d \in Days /\ batch[p][d] \in RowSet /\ batch[p][d] # NoRows
        /\ \A s \in Symbols : batch[p][d][s] <= d
    BY DEF ProcsOK, ProcOK
  <2>2. d \in Int /\ Midnight(d) \in DateKeys
    BY <2>1, CalendarFacts
  <2>3. Midnight(d) \div 2 = d
    BY <2>2 DEF Midnight
  <2> QED BY <2>1, <2>2, <2>3
<1>3. ASSUME NEW k \in DateKeys, NEW s \in Symbols
      PROVE  /\ new(k, s) \in Days \cup {NoRow} /\ 2 * new(k, s) <= k
             /\ table[k][s] # NoRow => new(k, s) = table[k][s]
  <2>1. table[k][s] \in Days \cup {NoRow} /\ 2 * table[k][s] <= k
    BY DEF TableOK, NoLookahead, RowSet
  <2>2. CASE table[k][s] = NoRow /\ In(k)
    <3>1. PICK d \in DOMAIN batch[p] : k = Midnight(d)
      BY <2>2
    <3>2. new(k, s) = batch[p][d][s]
      BY <1>2, <2>2, <3>1
    <3>3. batch[p][d][s] \in Days \cup {NoRow} /\ batch[p][d][s] <= d /\ d \in Days
      BY <1>2 DEF RowSet
    <3>4. batch[p][d][s] \in 0..LastDay /\ d \in 0..LastDay
      BY <3>3, CalendarFacts
    <3>5. 2 * batch[p][d][s] <= 2 * d
      BY <3>3, <3>4
    <3> HIDE DEF In, new
    <3> QED BY <2>2, <3>1, <3>2, <3>3, <3>5 DEF Midnight
  <2>3. CASE ~(table[k][s] = NoRow /\ In(k))
    BY <2>1, <2>3
  <2> QED BY <2>2, <2>3
<1>4. \A d \in DOMAIN batch[p] : In(Midnight(d))
  OBVIOUS
<1>5. \A k \in DateKeys : \A s \in Symbols : table'[k][s] = new(k, s)
  BY <1>1
<1>6. table' \in [DateKeys -> RowSet]
  <2> HIDE DEF new
  <2> QED BY <1>1, <1>3 DEF RowSet
<1>7. ASSUME NEW k \in DateKeys, NEW s \in Symbols, table'[k][s] # NoRow PROVE table'[k] # NoRows
  BY <1>7 DEF NoRows
<1>8. ASSUME NEW d \in DOMAIN batch[p] PROVE table'[Midnight(d)] # NoRows
  <2>1. PICK s \in Symbols : batch[p][d][s] # NoRow
    BY <1>2 DEF NoRows, RowSet
  <2>2. new(Midnight(d), s) # NoRow
    BY <1>2, <1>4, <2>1
  <2> HIDE DEF new
  <2> QED BY <1>2, <1>5, <1>7, <2>2
<1> HIDE DEF new, In
<1>9. TableOK'
  <2>1. NoLookahead'
    BY <1>3, <1>5 DEF NoLookahead
  <2> QED BY <1>1, <1>6, <2>1 DEF TableOK
<1>10. SafeStep
  BY <1>3, <1>5 DEF SafeStep
<1>11. ASSUME NEW k \in DateKeys, Exists(k) PROVE table'[k] # NoRows
  <2>1. PICK s \in Symbols : table[k][s] # NoRow
    BY <1>11 DEF Exists, NoRows, TableOK, RowSet
  <2>2. table'[k][s] # NoRow
    BY <1>3, <1>5, <2>1
  <2> QED BY <1>7, <2>2
<1>12. StaysAccounted
  BY <1>1, <1>11 DEF StaysAccounted, Accounted, Exists, Outdated
<1> QED BY <1>8, <1>9, <1>10, <1>12 DEF TableStep

LEMMA CleanupKeeps ==
    ASSUME ProcsOK, TableOK, WorldOK, NEW p \in Fillers, Cleanup(p)
    PROVE  TableStep
<1>1. p \in Procs /\ pc[p] = "cleanup" /\ pc'[p] = "reported" /\ clock' = clock /\ lost' = lost
  BY DEF Cleanup, Goto, Procs, ProcsOK, ProcTypes, worldVars
<1>2. NoRows \in RowSet /\ \A s \in Symbols : NoRows[s] = NoRow
  BY DEF NoRows, RowSet
<1>3. \A k \in DateKeys : table'[k] = IF Outdated(k) THEN NoRows ELSE table[k]
  BY DEF Cleanup
<1>4. table' \in [DateKeys -> RowSet]
  BY <1>2 DEF Cleanup, TableOK
<1>5. TableOK'
  <2>1. ASSUME NEW k \in DateKeys, NEW s \in Symbols PROVE 2 * table'[k][s] <= k
    <3>1. CASE Outdated(k)
      <4>1. k \in 0..(2 * LastDay + 1)
        BY CalendarFacts
      <4> QED BY <1>2, <1>3, <3>1, <4>1 DEF NoRow
    <3>2. CASE ~Outdated(k)
      BY <1>3, <3>2 DEF TableOK, NoLookahead
    <3> QED BY <3>1, <3>2
  <2> QED BY <1>1, <1>4, <2>1 DEF TableOK, NoLookahead
<1>6. StaysAccounted
  <2>1. \A k \in DateKeys : Outdated(k)' <=> Outdated(k)
    BY <1>1 DEF Outdated
  <2> QED BY <1>1, <1>3, <2>1 DEF StaysAccounted, Accounted, Exists
<1>7. SafeStep
  BY <1>1, <1>3 DEF SafeStep
<1> QED BY <1>5, <1>6, <1>7 DEF TableStep

-----------------------------------------------------------------------------
\* What the report of q and the study that q runs rely on after a step.
Relies(q) ==
    /\ pc'[q] \in {"cleanup", "reported"} =>
          \A d \in DOMAIN batch'[q] : Accounted(Midnight(d))'
    /\ pc'[q] = "run" => day'[q] = day[q] /\ Accounted(day[q])'

ProcStep(p) == ProcsOK' /\ Rest(p) /\ ((p \in Fillers \/ p \in Readers) => Relies(p)) /\ TableStep

LEMMA StopStep ==
    ASSUME IInv, NEW p \in Procs, Stop(p), UNCHANGED <<table, worldVars, lost>>
    PROVE  ProcStep(p)
<1>1. ProcsOK' /\ Rest(p) /\ pc'[p] = "idle"
  BY StopFacts DEF IInv
<1>2. Relies(p)
  BY <1>1 DEF Relies
<1>3. clock' \in Days /\ clock' >= clock
  BY CalendarFacts DEF IInv, WorldOK, worldVars
<1>4. TableStep
  BY <1>3, SameTable DEF IInv
<1> QED BY <1>1, <1>2, <1>4 DEF ProcStep

LEMMA SameClock ==
    ASSUME IInv, UNCHANGED <<table, worldVars, lost>>
    PROVE  TableStep
<1>1. clock' \in Days /\ clock' >= clock
  BY CalendarFacts DEF IInv, WorldOK, worldVars
<1> QED BY <1>1, SameTable DEF IInv

LEMMA LoaderSteps ==
    ASSUME IInv, NEW p \in Loaders, LoaderStep(p)
    PROVE  ProcStep(p)
<1>0. p \in Procs /\ p \notin Fillers
  BY FileAssumption DEF Procs
<1>1. CASE LoaderScan(p)
  <2>1. ProcsOK' /\ Rest(p) /\ pc'[p] = "delete"
    BY <1>0, <1>1, LoaderScanFacts DEF IInv
  <2>2. TableStep
    BY <1>1, SameClock DEF LoaderScan
  <2> QED BY <2>1, <2>2 DEF ProcStep, Relies
<1>2. CASE LoadDelete(p)
  <2>1. "insert" \in PC /\ pc[p] = "delete" /\ Goto(p, "insert") /\ UNCHANGED <<day, rows, end, cache, batch>>
    BY <1>2 DEF PC, LoadDelete
  <2>2. ProcsOK' /\ Rest(p) /\ pc'[p] = "insert"
    BY <1>0, <2>1, MoveFacts DEF IInv
  <2>3. TableStep
    BY <1>2, LoadDeleteKeeps DEF IInv
  <2> QED BY <2>2, <2>3 DEF ProcStep, Relies
<1>3. CASE LoadInsert(p)
  <2>1. ProcsOK' /\ Rest(p) /\ pc'[p] = "idle"
    BY <1>0, <1>3, StopFacts DEF IInv, LoadInsert
  <2>2. TableStep
    BY <1>0, <1>3, LoadInsertKeeps DEF IInv
  <2> QED BY <2>1, <2>2 DEF ProcStep, Relies
<1>4. CASE LoadFails(p)
  BY <1>0, <1>4, StopStep DEF LoadFails
<1> QED BY <1>1, <1>2, <1>3, <1>4 DEF LoaderStep

LEMMA StudiesSteps ==
    ASSUME IInv, NEW p \in Readers, StudiesStep(p)
    PROVE  ProcStep(p)
<1>0. p \in Procs
  BY DEF Procs
<1>1. CASE StudiesList(p)
  <2>1. ProcsOK' /\ Rest(p) /\ pc'[p] = "select"
    BY <1>0, <1>1, StudiesListFacts DEF IInv
  <2>2. TableStep
    BY <1>1, SameClock DEF StudiesList
  <2> QED BY <2>1, <2>2 DEF ProcStep, Relies
<1>2. CASE StudiesSelect(p)
  <2>1. CASE Exists(day[p])
    <3>1. /\ "run" \in PC /\ pc[p] = "select" /\ Goto(p, "run")
          /\ UNCHANGED <<day, rows, end, cache, batch>> /\ UNCHANGED <<table, worldVars, lost>>
      BY <1>2, <2>1 DEF PC, StudiesSelect
    <3>2. ProcsOK' /\ Rest(p) /\ pc'[p] = "run"
      BY <1>0, <3>1, MoveFacts DEF IInv
    <3>3. TableStep
      BY <3>1, SameClock
    <3>4. day'[p] = day[p] /\ Accounted(day[p])'
      BY <2>1, <3>1 DEF Accounted, Exists
    <3> QED BY <3>2, <3>3, <3>4 DEF ProcStep, Relies
  <2>2. CASE ~Exists(day[p])
    BY <1>0, <1>2, <2>2, StopStep DEF StudiesSelect
  <2> QED BY <2>1, <2>2
<1>3. CASE StudiesRun(p)
  BY <1>0, <1>3, StopStep DEF StudiesRun
<1> QED BY <1>1, <1>2, <1>3 DEF StudiesStep

LEMMA FillerSteps ==
    ASSUME IInv, NEW p \in Fillers, FillerStep(p)
    PROVE  ProcStep(p)
<1>0. p \in Procs
  BY DEF Procs
<1>1. CASE FillStart(p)
  <2>1. ProcsOK' /\ Rest(p) /\ pc'[p] = "bulk"
    BY <1>0, <1>1, FillStartFacts DEF IInv
  <2>2. TableStep
    BY <1>1, SameClock DEF FillStart
  <2> QED BY <2>1, <2>2 DEF ProcStep, Relies
<1>2. CASE BulkLoad(p)
  <2>1. ProcsOK' /\ Rest(p) /\ pc'[p] = "days"
    BY <1>0, <1>2, BulkLoadFacts DEF IInv
  <2>2. TableStep
    BY <1>2, SameClock DEF BulkLoad
  <2> QED BY <2>1, <2>2 DEF ProcStep, Relies
<1>3. CASE FillDay(p)
  <2>1. ProcsOK' /\ Rest(p) /\ pc'[p] = "days"
    BY <1>0, <1>3, FillDayFacts DEF IInv, FillDay
  <2>2. TableStep
    BY <1>3, SameClock DEF FillDay
  <2> QED BY <2>1, <2>2 DEF ProcStep, Relies
<1>4. CASE FillCancelled(p) \/ BatchFails(p) \/ FillEnds(p)
  BY <1>0, <1>4, StopStep DEF FillCancelled, BatchFails, FillEnds
<1>5. CASE LoadHistoryBatch(p)
  <2>1. /\ pc[p] = "days" /\ UNCHANGED <<day, rows, end, cache, batch>>
        /\ Goto(p, "cleanup") \/ Goto(p, "reported")
    BY <1>5 DEF LoadHistoryBatch
  <2>2. "cleanup" \in PC /\ "reported" \in PC
    BY DEF PC
  <2>3. ProcsOK' /\ Rest(p) /\ pc'[p] \in {"cleanup", "reported"}
    BY <1>0, <2>1, <2>2, MoveFacts DEF IInv
  <2>4. TableStep /\ \A d \in DOMAIN batch[p] : table'[Midnight(d)] # NoRows
    BY <1>0, <1>5, LoadHistoryBatchKeeps DEF IInv
  <2>5. Relies(p)
    BY <2>1, <2>3, <2>4 DEF Relies, Accounted, Exists
  <2> QED BY <2>3, <2>4, <2>5 DEF ProcStep
<1>6. CASE Cleanup(p) \/ CleanupFails(p)
  <2>1. /\ pc[p] = "cleanup" /\ UNCHANGED <<day, rows, end, cache, batch>>
        /\ Goto(p, "reported") /\ "reported" \in PC
    BY <1>6 DEF Cleanup, CleanupFails, PC
  <2>2. ProcsOK' /\ Rest(p) /\ pc'[p] = "reported"
    BY <1>0, <2>1, MoveFacts DEF IInv
  <2>3. TableStep
    BY <1>6, CleanupKeeps, SameClock DEF IInv, CleanupFails
  <2>4. \A d \in DOMAIN batch[p] : Midnight(d) \in DateKeys /\ Accounted(Midnight(d))
    BY <1>0, <2>1, CalendarFacts DEF IInv, ReportIsTrue, ProcsOK, ProcOK
  <2>5. \A d \in DOMAIN batch[p] : Accounted(Midnight(d))'
    BY <2>3, <2>4 DEF TableStep, StaysAccounted
  <2>6. Relies(p)
    BY <2>1, <2>2, <2>5 DEF Relies
  <2> QED BY <2>2, <2>3, <2>6 DEF ProcStep
<1> QED BY <1>1, <1>2, <1>3, <1>4, <1>5, <1>6 DEF FillerStep

\* A process's step keeps the invariant: the others hold what they held.
LEMMA ProcStepKeeps ==
    ASSUME IInv, NEW p \in Procs, ProcStep(p), WorldOK'
    PROVE  IInv' /\ SafeStep
<1>1. ASSUME NEW q \in Fillers, pc'[q] \in {"cleanup", "reported"}, NEW d \in DOMAIN batch'[q]
      PROVE  Accounted(Midnight(d))'
  <2>1. CASE q = p
    BY <1>1, <2>1 DEF ProcStep, Relies
  <2>2. CASE q # p
    <3>1. q \in Procs /\ pc'[q] = pc[q] /\ batch'[q] = batch[q]
      BY <2>2 DEF ProcStep, Rest, Procs
    <3>2. Midnight(d) \in DateKeys /\ Accounted(Midnight(d))
      BY <1>1, <3>1, CalendarFacts DEF IInv, ReportIsTrue, ProcsOK, ProcOK
    <3> QED BY <3>2 DEF ProcStep, TableStep, StaysAccounted
  <2> QED BY <2>1, <2>2
<1>2. ReportIsTrue'
  BY <1>1 DEF ReportIsTrue
<1>3. ASSUME NEW q \in Readers, pc'[q] = "run" PROVE day'[q] = day[q] /\ Accounted(day[q])'
  <2>1. CASE q = p
    BY <1>3, <2>1 DEF ProcStep, Relies
  <2>2. CASE q # p
    <3>1. q \in Procs /\ pc'[q] = pc[q] /\ day'[q] = day[q]
      BY <2>2 DEF ProcStep, Rest, Procs
    <3>2. day[q] \in DateKeys /\ Accounted(day[q])
      BY <1>3, <3>1 DEF IInv, EmptyHasCause, ProcsOK, ProcOK
    <3> QED BY <3>1, <3>2 DEF ProcStep, TableStep, StaysAccounted
  <2> QED BY <2>1, <2>2
<1>4. EmptyHasCause'
  BY <1>3 DEF EmptyHasCause, Accounted, Exists, Outdated
<1> QED BY <1>2, <1>4 DEF IInv, ProcStep, TableStep

\* Steps of the world and stuttering.
LEMMA WorldStepKeeps ==
    ASSUME IInv, UNCHANGED <<table, procVars, lost>>, WorldOK', clock' >= clock
    PROVE  IInv' /\ SafeStep
<1>1. TableStep
  BY SameTable DEF IInv, WorldOK
<1>2. ProcsOK'
  BY DEF IInv, ProcsOK, ProcTypes, ProcOK, procVars
<1>3. ReportIsTrue'
  <2>1. \A q \in Fillers : \A d \in DOMAIN batch[q] : Midnight(d) \in DateKeys
    BY CalendarFacts DEF IInv, ProcsOK, ProcOK, Procs
  <2> QED BY <1>1, <2>1 DEF IInv, ReportIsTrue, TableStep, StaysAccounted, procVars
<1>4. EmptyHasCause'
  <2>1. ASSUME NEW q \in Readers, pc[q] = "run" PROVE Accounted(day[q])'
    <3>1. day[q] \in DateKeys /\ Accounted(day[q])
      BY <2>1 DEF IInv, EmptyHasCause, ProcsOK, ProcOK, Procs
    <3>2. day' = day
      BY DEF procVars
    <3> QED BY <1>1, <3>1, <3>2 DEF TableStep, StaysAccounted
  <2> QED BY <2>1 DEF EmptyHasCause, procVars
<1> QED BY <1>1, <1>2, <1>3, <1>4 DEF IInv, TableStep

LEMMA StepHolds ==
    ASSUME IInv, [Next]_vars
    PROVE  IInv' /\ SafeStep
<1>0. clock \in Int
  BY CalendarFacts DEF IInv, WorldOK
<1>1. UNCHANGED worldVars => WorldOK'
  BY DEF IInv, WorldOK, worldVars
<1>2. ASSUME NEW p \in Loaders, LoaderStep(p) PROVE IInv' /\ SafeStep
  <2>1. UNCHANGED worldVars
    BY <1>2 DEF LoaderStep, LoaderScan, LoadDelete, LoadInsert, LoadFails
  <2>2. p \in Procs /\ ProcStep(p)
    BY <1>2, LoaderSteps DEF Procs
  <2> QED BY <1>1, <2>1, <2>2, ProcStepKeeps
<1>3. ASSUME NEW p \in Readers, StudiesStep(p) PROVE IInv' /\ SafeStep
  <2>1. UNCHANGED worldVars
    BY <1>3 DEF StudiesStep, StudiesList, StudiesSelect, StudiesRun
  <2>2. p \in Procs /\ ProcStep(p)
    BY <1>3, StudiesSteps DEF Procs
  <2> QED BY <1>1, <2>1, <2>2, ProcStepKeeps
<1>4. ASSUME NEW p \in Fillers, FillerStep(p) PROVE IInv' /\ SafeStep
  <2>1. UNCHANGED worldVars
    BY <1>4 DEF FillerStep, FillStart, BulkLoad, FillDay, FillCancelled, LoadHistoryBatch,
                BatchFails, Cleanup, CleanupFails, FillEnds
  <2>2. p \in Procs /\ ProcStep(p)
    BY <1>4, FillerSteps DEF Procs
  <2> QED BY <1>1, <2>1, <2>2, ProcStepKeeps
<1>5. ASSUME NEW p \in Procs, Killed(p) PROVE IInv' /\ SafeStep
  <2>1. UNCHANGED worldVars /\ ProcStep(p)
    BY <1>5, StopStep DEF Killed
  <2> QED BY <1>1, <2>1, ProcStepKeeps
<1>6. ASSUME NEW s \in Symbols, Ingest(s) PROVE IInv' /\ SafeStep
  <2>1. WorldOK' /\ clock' >= clock
    BY <1>0, <1>6 DEF Ingest, IInv, WorldOK
  <2> QED BY <1>6, <2>1, WorldStepKeeps DEF Ingest
<1>7. ASSUME DayPasses PROVE IInv' /\ SafeStep
  <2>1. clock' \in Days /\ clock' >= clock /\ have' = have
    BY <1>0, <1>7, CalendarFacts DEF DayPasses, IInv, WorldOK, Days
  <2>2. WorldOK'
    BY <2>1 DEF IInv, WorldOK
  <2> QED BY <1>7, <2>1, <2>2, WorldStepKeeps DEF DayPasses
<1>8. ASSUME UNCHANGED vars PROVE IInv' /\ SafeStep
  <2>1. UNCHANGED <<table, procVars, lost>> /\ UNCHANGED worldVars /\ clock' >= clock
    BY <1>0, <1>8 DEF vars, procVars, worldVars
  <2> QED BY <1>1, <2>1, WorldStepKeeps
<1> QED BY <1>2, <1>3, <1>4, <1>5, <1>6, <1>7, <1>8 DEF Next

LEMMA InitHolds ==
    ASSUME Init
    PROVE  IInv
<1> USE DEF NothingDone
<1>1. NoRows \in RowSet /\ \A s \in Symbols : NoRows[s] = NoRow
  BY DEF NoRows, RowSet
<1>2. TableOK
  <2>1. \A k \in DateKeys : \A s \in Symbols : table[k][s] = NoRow
    BY <1>1 DEF Init
  <2>2. ASSUME NEW k \in DateKeys PROVE 2 * NoRow <= k
    <3>1. k \in 0..(2 * LastDay + 1)
      BY CalendarFacts
    <3> QED BY <3>1 DEF NoRow
  <2> QED BY <1>1, <2>1, <2>2 DEF Init, TableOK, NoLookahead
<1>3. WorldOK
  BY DEF Init, WorldOK
<1>4. ProcTypes
  BY <1>1 DEF Init, ProcTypes, PC, NoDay
<1>5. DOMAIN NoBatch = {}
  BY DEF NoBatch
<1>6. ProcsOK
  BY <1>4, <1>5 DEF Init, ProcsOK, ProcOK
<1>7. ReportIsTrue /\ EmptyHasCause
  BY DEF Init, ReportIsTrue, EmptyHasCause, Procs
<1> QED BY <1>2, <1>3, <1>6, <1>7 DEF IInv

-----------------------------------------------------------------------------
\* What processes hold is consistent with where they are, the file's rows are
\* of their day or earlier, and the reports and the running studies are
\* accounted for.
THEOREM Invariance == Spec => []IInv
<1>1. Init => IInv
  BY InitHolds
<1>2. IInv /\ [Next]_vars => IInv'
  BY StepHolds
<1> QED BY <1>1, <1>2, PTL DEF Spec

\* The file, the warehouse and the memory of every process keep their types.
THEOREM TypeCorrect == Spec => []TypeOK
<1>1. IInv => TypeOK
  <2> SUFFICES ASSUME IInv PROVE TypeOK
    OBVIOUS
  <2>1. ProcTypes /\ WorldOK /\ TableOK
    BY DEF IInv, ProcsOK
  <2>2. \A p \in Procs : /\ DOMAIN batch[p] \subseteq Days \ Weekend
                         /\ \A d \in DOMAIN batch[p] : batch[p][d] \in RowSet
    BY DEF IInv, ProcsOK, ProcOK
  <2> QED BY <2>1, <2>2 DEF TypeOK, ProcTypes, WorldOK, TableOK
<1> QED BY <1>1, Invariance, PTL

\* "no lookahead bias" of BackfillSnapshots: no stored row is computed from a
\* bar after its date, whatever the pipeline ingests while a backfill runs and
\* whichever processes write the same file.
THEOREM RowsLookBack == Spec => []NoLookahead
<1>1. IInv => NoLookahead
  BY DEF IInv, TableOK
<1> QED BY <1>1, Invariance, PTL

\* A backfill that reports success has stored every day it collected, save the
\* days that the retention does not keep and those a Load has deleted since.
THEOREM BackfillReportsWhatIsStored == Spec => []ReportIsTrue
<1>1. IInv => ReportIsTrue
  BY DEF IInv
<1> QED BY <1>1, Invariance, PTL

\* A study finds no rows under the date it selected only when a Load has
\* deleted them or the retention does not keep the date.
THEOREM StudiesFindTheirRows == Spec => []EmptyHasCause
<1>1. IInv => EmptyHasCause
  BY DEF IInv
<1> QED BY <1>1, Invariance, PTL

\* No step changes a stored row in place, and a row goes only with its whole
\* date: in the DELETE of a Load of that date, or in the retention cleanup.
THEOREM RowsAreSafe == Spec => RowsSafe
<1>1. IInv /\ [Next]_vars => [SafeStep]_vars
  BY StepHolds
<1>2. Spec => [][SafeStep]_vars
  BY <1>1, Invariance, PTL DEF Spec
<1> QED BY <1>2 DEF RowsSafe, SafeStep

=============================================================================
