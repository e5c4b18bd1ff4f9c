------------------------ MODULE SnapshotServeProofs ------------------------
(***************************************************************************)
(* Proofs about the serve process, for every set of dates, symbols, page   *)
(* goroutines and API requests.                                            *)
(***************************************************************************)
EXTENDS SnapshotServe, FiniteSetTheorems, SequenceTheorems, TLAPS

AnyDate == AllDates \cup {NoDate}

OpRec == [op : {"list", "count", "assign", "read", "query"}, date : Dates \cup {NoDate}]

\* The number of micro-steps before the first date is selected.
Lead(r) == IF r.kind = "backtest" THEN 1 ELSE 0

RunRec == [for : AnyDate, outcome : Outcomes, rows : SUBSET Symbols]

\* What an API request has collected.
GotRec ==
    [listed : Seq(Dates), for : AnyDate, on : AnyDate,
     runs : Seq(RunRec),
     end : {"none", "ok", "error", "noprev"}]

\* P selects and runs each date of W in turn, from micro-step n + 1 on.
Blocks(P, n, W) ==
    /\ P \in Seq(OpRec)
    /\ Len(P) = n + 4 * Len(W)
    /\ \A j \in 1..Len(W) :
          /\ P[n + 4 * j - 3] = Count(W[j])
          /\ P[n + 4 * j - 2] = Assign(W[j])
          /\ P[n + 4 * j - 1] = Read
          /\ P[n + 4 * j] = Query

Loading(p) == pc[p] \in {"delete", "insert", "meta", "cache"}

CoreOK ==
    /\ table \in [AllDates -> SUBSET Symbols]
    /\ activeDate \in AnyDate
    /\ mu \in Pages \cup {NoProc}
    /\ cached \in BOOLEAN
    /\ cRows \in SUBSET Symbols
    /\ cDay \in AnyDate
    /\ fresh \in BOOLEAN
    /\ today \in Dates
    /\ cancelled \in BOOLEAN

\* A page that waits for a request has run no study; a scan that is being
\* stored has a day.
PagesOK ==
    /\ pc \in [Pages -> PagePC]
    /\ want \in [Pages -> PageWants \cup {BootWant}]
    /\ scanned \in [Pages -> ScanResult]
    /\ ran \in [Pages -> Seq(AnyDate)]
    /\ \A p \in Pages :
          /\ Len(ran[p]) <= want[p].studies
          /\ pc[p] = "idle" => ran[p] = <<>>
          /\ Loading(p) => scanned[p].day \in AllDates

\* A request that is running is at a micro-step of its program.
ApisOK ==
    /\ req \in [Apis -> Requests \cup {NoReq}]
    /\ at \in [Apis -> Nat \ {0}]
    /\ got \in [Apis -> GotRec]
    /\ \A a \in Apis :
          /\ req[a] = NoReq => at[a] = 1 /\ got[a] = NothingYet
          /\ Running(a) => at[a] <= Len(Steps(a))

TypeInv == CoreOK /\ PagesOK /\ ApisOK /\ disturbed \subseteq Apis /\ reloaded \subseteq Apis

-----------------------------------------------------------------------------
(* The programs of the requests *)

LEMMA RequestFacts ==
    ASSUME NEW r \in Requests
    PROVE  /\ r.kind \in AllKinds
           /\ r.kind \in {"select", "pit", "entries", "exits", "changes"} => r.date \in Dates
           /\ r.kind \in {"entries", "exits", "changes"} => r.prev \in Dates
           /\ r.kind = "scan" => r = [kind |-> "scan", date |-> NoDate, prev |-> NoDate]
           /\ r # NoReq
BY DEF Requests, Scan, SetActiveSnapshot, PointInTime, Backtest, Entries, Exits, Alerts, Asks,
       NoReq, AllKinds

LEMMA OpFacts ==
    /\ List \in OpRec /\ Read \in OpRec /\ Query \in OpRec
    /\ \A d \in Dates : Count(d) \in OpRec /\ Assign(d) \in OpRec
BY DEF List, Read, Query, Count, Assign, OpRec, NoDate

\* One date selected and run.
LEMMA OneBlock ==
    ASSUME NEW d \in Dates
    PROVE  LET P == SetActive(d) \o Run IN
           /\ P \in Seq(OpRec) /\ Len(P) = 4
           /\ P[1] = Count(d) /\ P[2] = Assign(d) /\ P[3] = Read /\ P[4] = Query
<1> DEFINE s1 == <<Count(d), Assign(d)>>
           s2 == <<Read, Query>>
<1>1. Count(d) \in OpRec /\ Assign(d) \in OpRec /\ Read \in OpRec /\ Query \in OpRec
  BY OpFacts
<1>2. s1 \in Seq(OpRec) /\ s2 \in Seq(OpRec) /\ Len(s1) = 2 /\ Len(s2) = 2
  BY <1>1
<1>3. /\ s1[1] = Count(d) /\ s1[2] = Assign(d)
      /\ s2[1] = Read /\ s2[2] = Query
  OBVIOUS
<1> HIDE DEF s1, s2
<1>4. /\ s1 \o s2 \in Seq(OpRec)
      /\ Len(s1 \o s2) = Len(s1) + Len(s2)
      /\ \A i \in 1 .. Len(s1) + Len(s2) : (s1 \o s2)[i] = IF i <= Len(s1) THEN s1[i] ELSE s2[i - Len(s1)]
  BY <1>2, ConcatProperties
<1>5. /\ s1 \o s2 \in Seq(OpRec) /\ Len(s1 \o s2) = 4
      /\ (s1 \o s2)[1] = Count(d) /\ (s1 \o s2)[2] = Assign(d)
      /\ (s1 \o s2)[3] = Read /\ (s1 \o s2)[4] = Query
  BY <1>2, <1>3, <1>4
<1>6. SetActive(d) \o Run = s1 \o s2
  BY DEF SetActive, Run, s1, s2
<1> QED BY <1>5, <1>6

LEMMA OpsJoin ==
    \A P, Q \in Seq(OpRec) :
        /\ P \o Q \in Seq(OpRec)
        /\ Len(P \o Q) = Len(P) + Len(Q)
        /\ \A i \in 1 .. Len(P) + Len(Q) : (P \o Q)[i] = IF i <= Len(P) THEN P[i] ELSE Q[i - Len(P)]
BY ConcatProperties

\* Two programs one after the other.
LEMMA BlocksJoin ==
    ASSUME NEW P, NEW Q, NEW V \in Seq(Dates), NEW W \in Seq(Dates), NEW VW \in Seq(Dates),
           Blocks(P, 0, V), Blocks(Q, 0, W),
           Len(VW) = Len(V) + Len(W),
           \A i \in 1..Len(VW) : VW[i] = IF i <= Len(V) THEN V[i] ELSE W[i - Len(V)]
    PROVE  Blocks(P \o Q, 0, VW)
<1>0. P \in Seq(OpRec) /\ Q \in Seq(OpRec)
  BY DEF Blocks
<1>1. P \in Seq(OpRec) /\ Q \in Seq(OpRec) /\ Len(P) = 4 * Len(V) /\ Len(Q) = 4 * Len(W)
  BY DEF Blocks
<1>2. /\ P \o Q \in Seq(OpRec)
      /\ Len(P \o Q) = Len(P) + Len(Q)
      /\ \A i \in 1 .. Len(P) + Len(Q) : (P \o Q)[i] = IF i <= Len(P) THEN P[i] ELSE Q[i - Len(P)]
  BY <1>0, OpsJoin, Zenon
<1>3. \A i \in 1 .. Len(V) + Len(W) : VW[i] = IF i <= Len(V) THEN V[i] ELSE W[i - Len(V)]
  BY Zenon
<1>4. Len(V) \in Nat /\ Len(W) \in Nat
  BY LenProperties
<1> DEFINE PQ == P \o Q
<1>5. ASSUME NEW j \in 1..Len(VW)
      PROVE  /\ PQ[4 * j - 3] = Count(VW[j]) /\ PQ[4 * j - 2] = Assign(VW[j])
             /\ PQ[4 * j - 1] = Read /\ PQ[4 * j] = Query
  <2> HIDE DEF PQ
  <2>1. j \in Int /\ 1 <= j /\ j <= Len(V) + Len(W)
    BY <1>3, <1>4
  <2>2. CASE j <= Len(V)
    <3>1. \A i \in 4 * j - 3 .. 4 * j : i \in 1 .. Len(P) + Len(Q) /\ i <= Len(P)
      BY <1>1, <1>4, <2>1, <2>2
    <3>2. \A i \in 4 * j - 3 .. 4 * j : PQ[i] = P[i]
      BY <1>2, <3>1 DEF PQ
    <3>3. PQ[4 * j - 3] = P[4 * j - 3] /\ PQ[4 * j - 2] = P[4 * j - 2]
          /\ PQ[4 * j - 1] = P[4 * j - 1] /\ PQ[4 * j] = P[4 * j]
      <4>1. 4 * j - 3 \in 4 * j - 3 .. 4 * j /\ 4 * j - 2 \in 4 * j - 3 .. 4 * j
            /\ 4 * j - 1 \in 4 * j - 3 .. 4 * j /\ 4 * j \in 4 * j - 3 .. 4 * j
        BY <2>1
      <4> QED BY <3>2, <4>1, Zenon
    <3>4. VW[j] = V[j] /\ j \in 1..Len(V)
      BY <1>3, <1>4, <2>1, <2>2
    <3>5. P[4 * j - 3] = Count(V[j]) /\ P[4 * j - 2] = Assign(V[j])
          /\ P[4 * j - 1] = Read /\ P[4 * j] = Query
      <4>1. 0 + 4 * j - 3 = 4 * j - 3 /\ 0 + 4 * j - 2 = 4 * j - 2
            /\ 0 + 4 * j - 1 = 4 * j - 1 /\ 0 + 4 * j = 4 * j
        BY <2>1
      <4> QED BY <3>4, <4>1 DEF Blocks
    <3> QED BY <3>3, <3>4, <3>5
  <2>3. CASE j > Len(V)
    <3> DEFINE k == j - Len(V)
    <3>1. \A i \in 4 * j - 3 .. 4 * j : i \in 1 .. Len(P) + Len(Q) /\ ~(i <= Len(P))
      BY <1>1, <1>4, <2>1, <2>3
    <3>2. \A i \in 4 * j - 3 .. 4 * j : PQ[i] = Q[i - Len(P)]
      BY <1>2, <3>1 DEF PQ
    <3>3. PQ[4 * j - 3] = Q[4 * k - 3] /\ PQ[4 * j - 2] = Q[4 * k - 2]
          /\ PQ[4 * j - 1] = Q[4 * k - 1] /\ PQ[4 * j] = Q[4 * k]
      <4>1. /\ 4 * j - 3 - Len(P) = 4 * k - 3 /\ 4 * j - 2 - Len(P) = 4 * k - 2
            /\ 4 * j - 1 - Len(P) = 4 * k - 1 /\ 4 * j - Len(P) = 4 * k
        BY <1>1, <1>4, <2>1
      <4>2. 4 * j - 3 \in 4 * j - 3 .. 4 * j /\ 4 * j - 2 \in 4 * j - 3 .. 4 * j
            /\ 4 * j - 1 \in 4 * j - 3 .. 4 * j /\ 4 * j \in 4 * j - 3 .. 4 * j
        BY <2>1
      <4> QED BY <3>2, <4>1, <4>2
    <3>4. VW[j] = W[k] /\ k \in 1..Len(W)
      BY <1>3, <1>4, <2>1, <2>3
    <3>5. Q[4 * k - 3] = Count(W[k]) /\ Q[4 * k - 2] = Assign(W[k])
          /\ Q[4 * k - 1] = Read /\ Q[4 * k] = Query
      <4>1. k \in Int
        BY <3>4, <1>4
      <4> HIDE DEF k
      <4>2. 0 + 4 * k - 3 = 4 * k - 3 /\ 0 + 4 * k - 2 = 4 * k - 2
            /\ 0 + 4 * k - 1 = 4 * k - 1 /\ 0 + 4 * k = 4 * k
        BY <4>1
      <4> QED BY <3>4, <4>2 DEF Blocks
    <3> QED BY <3>3, <3>4, <3>5
  <2> QED BY <2>1, <2>2, <2>3, <1>4
<1>6. Len(PQ) = 0 + 4 * Len(VW)
  BY <1>1, <1>2, <1>3, <1>4
<1> HIDE DEF PQ
<1>7. PQ \in Seq(OpRec) /\ Len(VW) \in Nat
  BY <1>2, <1>3, <1>4 DEF PQ
<1>8. Blocks(PQ, 0, VW)
  <2>1. \A j \in 1..Len(VW) : 0 + 4 * j - 3 = 4 * j - 3 /\ 0 + 4 * j - 2 = 4 * j - 2
          /\ 0 + 4 * j - 1 = 4 * j - 1 /\ 0 + 4 * j = 4 * j
    BY <1>7
  <2> QED BY <1>5, <1>6, <1>7, <2>1 DEF Blocks
<1> QED BY <1>8 DEF PQ

\* What a point-in-time query, a detector and a backtest do.
LEMMA ProgramBlocks ==
    ASSUME NEW r \in Requests, NEW listed \in Seq(Dates),
           r.kind \in {"pit", "entries", "exits", "changes", "backtest"}
    PROVE  /\ Meant(r, listed) \in Seq(Dates)
           /\ Blocks(Program(r, listed), Lead(r), Meant(r, listed))
           /\ r.kind = "backtest" => Program(r, listed)[1] = List
<1> USE DEF AllKinds
<1>1. ASSUME NEW d \in Dates
      PROVE  Blocks(SetActive(d) \o Run, 0, <<d>>) /\ <<d>> \in Seq(Dates)
  <2> DEFINE P == SetActive(d) \o Run
  <2>1. /\ P \in Seq(OpRec) /\ Len(P) = 4
        /\ P[1] = Count(d) /\ P[2] = Assign(d) /\ P[3] = Read /\ P[4] = Query
    BY OneBlock
  <2> HIDE DEF P
  <2>2. Len(<<d>>) = 1 /\ <<d>>[1] = d /\ <<d>> \in Seq(Dates)
    OBVIOUS
  <2>3. Len(P) = 0 + 4 * Len(<<d>>)
    BY <2>1, <2>2
  <2>4. ASSUME NEW j \in 1..Len(<<d>>)
        PROVE  /\ P[0 + 4 * j - 3] = Count(<<d>>[j])
               /\ P[0 + 4 * j - 2] = Assign(<<d>>[j])
               /\ P[0 + 4 * j - 1] = Read
               /\ P[0 + 4 * j] = Query
    <3>1. j = 1
      BY <2>2
    <3>2. 0 + 4 * j - 3 = 1 /\ 0 + 4 * j - 2 = 2 /\ 0 + 4 * j - 1 = 3 /\ 0 + 4 * j = 4
      BY <3>1
    <3> QED BY <2>1, <2>2, <3>1, <3>2
  <2> QED BY <2>1, <2>2, <2>3, <2>4 DEF Blocks, P
<1>2. ASSUME NEW d \in Dates, NEW e \in Dates
      PROVE  /\ <<d, e>> \in Seq(Dates) /\ Len(<<d, e>>) = Len(<<d>>) + Len(<<e>>)
             /\ \A i \in 1..Len(<<d, e>>) :
                    <<d, e>>[i] = IF i <= Len(<<d>>) THEN <<d>>[i] ELSE <<e>>[i - Len(<<d>>)]
             /\ <<d, e, d, e>> \in Seq(Dates) /\ Len(<<d, e, d, e>>) = Len(<<d, e>>) + Len(<<d, e>>)
             /\ \A i \in 1..Len(<<d, e, d, e>>) :
                    <<d, e, d, e>>[i] = IF i <= Len(<<d, e>>) THEN <<d, e>>[i] ELSE <<d, e>>[i - Len(<<d, e>>)]
  OBVIOUS
<1>3. ASSUME NEW d \in Dates, NEW e \in Dates
      PROVE  Blocks(SetActive(d) \o Run \o SetActive(e) \o Run, 0, <<d, e>>)
  <2>1. Blocks((SetActive(d) \o Run) \o (SetActive(e) \o Run), 0, <<d, e>>)
    BY <1>1, <1>2, BlocksJoin, Zenon
  <2>2. (SetActive(d) \o Run) \o (SetActive(e) \o Run) = SetActive(d) \o Run \o SetActive(e) \o Run
    <3>1. SetActive(d) \in Seq(OpRec) /\ SetActive(e) \in Seq(OpRec) /\ Run \in Seq(OpRec)
      BY OpFacts DEF SetActive, Run
    <3>2. PICK x \in Seq(OpRec), y \in Seq(OpRec), z \in Seq(OpRec) :
              x = SetActive(d) \o Run /\ y = SetActive(e) /\ z = Run
      BY <3>1, OpsJoin
    <3>3. (x \o y) \o z = x \o (y \o z)
      BY ConcatAssociative
    <3> QED BY <3>2, <3>3
  <2> QED BY <2>1, <2>2
<1>4. CASE r.kind = "pit"
  BY <1>1, <1>4, RequestFacts DEF Program, RunPointInTime, Meant, Lead
<1>5. CASE r.kind \in {"entries", "exits"}
  BY <1>2, <1>3, <1>5, RequestFacts DEF Program, DetectEntries, DetectExits, Meant, Lead
<1>6. CASE r.kind = "changes"
  <2>1. r.date \in Dates /\ r.prev \in Dates
    BY <1>6, RequestFacts
  <2>2. Blocks(DetectEntries(r) \o DetectExits(r), 0, <<r.date, r.prev, r.date, r.prev>>)
    <3>1. /\ Blocks(DetectEntries(r), 0, <<r.date, r.prev>>)
          /\ Blocks(DetectExits(r), 0, <<r.date, r.prev>>)
      BY <1>3, <2>1, Zenon DEF DetectEntries, DetectExits
    <3> QED BY <1>2, <2>1, <3>1, BlocksJoin, Zenon
  <2> QED BY <1>2, <1>6, <2>1, <2>2 DEF Program, DetectChanges, Meant, Lead
<1>7. CASE r.kind = "backtest"
  <2> DEFINE L == Len(listed)
             B(i) == SetActive(listed[(i + 2) \div 4]) \o Run
             P == [i \in 1..(4 * L + 1) |-> IF i = 1 THEN List ELSE B(i)[((i + 2) % 4) + 1]]
  <2>1. Program(r, listed) = P /\ Meant(r, listed) = listed /\ Lead(r) = 1
    BY <1>7 DEF Program, RunBacktest, Meant, Lead
  <2>2. L \in Nat /\ \A j \in 1..L : listed[j] \in Dates
    OBVIOUS
  <2>3. \A j \in 1..L : \A k \in 0..3 :
            /\ 4 * j - 2 + k \in 1..(4 * L + 1) /\ 4 * j - 2 + k # 1
            /\ ((4 * j - 2 + k) + 2) \div 4 = j /\ ((4 * j - 2 + k) + 2) % 4 = k
    BY <2>2
  <2>4. \A i \in 2..(4 * L + 1) : \E j \in 1..L : \E k \in 0..3 : i = 4 * j - 2 + k
    <3> SUFFICES ASSUME NEW i \in 2..(4 * L + 1)
                 PROVE  \E j \in 1..L : \E k \in 0..3 : i = 4 * j - 2 + k
      OBVIOUS
    <3>1. i = 4 * ((i + 2) \div 4) - 2 + ((i + 2) % 4)
      BY <2>2
    <3>2. (i + 2) \div 4 \in 1..L /\ (i + 2) % 4 \in 0..3
      BY <2>2
    <3> QED BY <3>1, <3>2
  <2>5. \A j \in 1..L : \A k \in 0..3 : P[4 * j - 2 + k] = (SetActive(listed[j]) \o Run)[k + 1]
    BY <2>3
  <2>6. P[1] = List
    BY <2>2
  <2>7. P = [i \in 1..(4 * L + 1) |-> P[i]]
    OBVIOUS
  <2> HIDE DEF P, L, B
  <2>8. ASSUME NEW j \in 1..L
        PROVE  /\ P[1 + 4 * j - 3] = Count(listed[j])
               /\ P[1 + 4 * j - 2] = Assign(listed[j])
               /\ P[1 + 4 * j - 1] = Read
               /\ P[1 + 4 * j] = Query
    <3>1. /\ 4 * j - 2 + 0 = 1 + 4 * j - 3 /\ 4 * j - 2 + 1 = 1 + 4 * j - 2
          /\ 4 * j - 2 + 2 = 1 + 4 * j - 1 /\ 4 * j - 2 + 3 = 1 + 4 * j
          /\ 0 + 1 = 1 /\ 1 + 1 = 2 /\ 2 + 1 = 3 /\ 3 + 1 = 4
      BY <2>2
    <3>2. 0 \in 0..3 /\ 1 \in 0..3 /\ 2 \in 0..3 /\ 3 \in 0..3
      OBVIOUS
    <3> DEFINE Q == SetActive(listed[j]) \o Run
    <3>3. Q[1] = Count(listed[j]) /\ Q[2] = Assign(listed[j]) /\ Q[3] = Read /\ Q[4] = Query
      BY <2>2, OneBlock
    <3>4. \A k \in 0..3 : P[4 * j - 2 + k] = Q[k + 1]
      BY <2>5
    <3> HIDE DEF Q
    <3>5. /\ P[4 * j - 2 + 0] = Q[0 + 1] /\ P[4 * j - 2 + 1] = Q[1 + 1]
          /\ P[4 * j - 2 + 2] = Q[2 + 1] /\ P[4 * j - 2 + 3] = Q[3 + 1]
      BY <3>2, <3>4, Zenon
    <3> QED BY <3>1, <3>3, <3>5
  <2>9. \A i \in 1..(4 * L + 1) : P[i] \in OpRec
    <3>1. P[1] \in OpRec
      BY <2>6, OpFacts
    <3>2. ASSUME NEW j \in 1..L, NEW k \in 0..3 PROVE P[4 * j - 2 + k] \in OpRec
      <4>1. SetActive(listed[j]) \o Run \in Seq(OpRec) /\ Len(SetActive(listed[j]) \o Run) = 4
        BY <2>2, OneBlock
      <4>2. k + 1 \in 1..4
        OBVIOUS
      <4>3. (SetActive(listed[j]) \o Run)[k + 1] \in OpRec
        BY <4>1, <4>2, ElementOfSeq
      <4> QED BY <2>5, <4>3
    <3>3. ASSUME NEW i \in 1..(4 * L + 1) PROVE i = 1 \/ i \in 2..(4 * L + 1)
      BY <2>2
    <3> QED BY <2>4, <3>1, <3>2, <3>3
  <2>10. P \in Seq(OpRec) /\ Len(P) = 1 + 4 * L
    <3>1. 4 * L + 1 \in Nat
      BY <2>2
    <3>2. P \in [1..(4 * L + 1) -> OpRec]
      BY <2>7, <2>9, Zenon
    <3>3. PICK n \in Nat : n = 4 * L + 1
      BY <3>1
    <3>4. P \in [1..n -> OpRec]
      BY <3>2, <3>3
    <3>5. P \in Seq(OpRec) /\ Len(P) = n
      BY <3>4
    <3> QED BY <3>3, <3>5, <2>2
  <2>11. Blocks(P, 1, listed)
    BY <2>8, <2>10 DEF Blocks, L
  <2> QED BY <2>1, <2>6, <2>11
<1> QED BY <1>4, <1>5, <1>6, <1>7

\* Every micro-step of a block is one of the four.
LEMMA BlockCover ==
    ASSUME NEW P, NEW n \in Nat, NEW W \in Seq(Dates), Blocks(P, n, W), NEW i \in 1..Len(P), i > n
    PROVE  \E j \in 1..Len(W) :
              \/ i = n + 4 * j - 3 /\ P[i] = Count(W[j])
              \/ i = n + 4 * j - 2 /\ P[i] = Assign(W[j])
              \/ i = n + 4 * j - 1 /\ P[i] = Read
              \/ i = n + 4 * j /\ P[i] = Query
<1>1. Len(W) \in Nat /\ Len(P) = n + 4 * Len(W)
  BY DEF Blocks
<1> DEFINE j == (i - n + 3) \div 4
<1>2. i \in Int /\ n + 1 <= i /\ i <= n + 4 * Len(W)
  BY <1>1
<1>3. /\ j \in 1..Len(W)
      /\ \/ i = n + 4 * j - 3
         \/ i = n + 4 * j - 2
         \/ i = n + 4 * j - 1
         \/ i = n + 4 * j
  <2>1. PICK x \in Nat : x = i - n + 3 /\ 4 <= x /\ x <= 4 * Len(W) + 3
    BY <1>1, <1>2
  <2>2. x \div 4 \in Nat /\ 4 * (x \div 4) <= x /\ x <= 4 * (x \div 4) + 3
    BY <2>1
  <2>3. j = x \div 4
    BY <2>1
  <2>4. PICK y \in Nat : y = j
    BY <2>2, <2>3
  <2>5. 4 * y <= x /\ x <= 4 * y + 3
    BY <2>2, <2>3, <2>4
  <2> HIDE DEF j
  <2>6. y >= 1 /\ y <= Len(W)
    BY <2>1, <2>4, <2>5, <1>1
  <2> QED BY <2>1, <2>4, <2>5, <2>6, <1>1, <1>2
<1> HIDE DEF j
<1>4. /\ P[n + 4 * j - 3] = Count(W[j]) /\ P[n + 4 * j - 2] = Assign(W[j])
      /\ P[n + 4 * j - 1] = Read /\ P[n + 4 * j] = Query
  BY <1>3 DEF Blocks
<1> QED BY <1>3, <1>4

LEMMA ScanProgram ==
    ASSUME NEW r \in Requests, NEW listed, r.kind = "scan"
    PROVE  /\ Program(r, listed) \in Seq(OpRec) /\ Len(Program(r, listed)) = 2
           /\ Program(r, listed)[1] = Read /\ Program(r, listed)[2] = Query
<1>1. Program(r, listed) = <<Read, Query>>
  BY DEF Program, Run
<1>2. <<Read, Query>> \in Seq(OpRec)
  BY OpFacts
<1> QED BY <1>1, <1>2

LEMMA SelectProgram ==
    ASSUME NEW r \in Requests, NEW listed, r.kind = "select"
    PROVE  /\ Program(r, listed) \in Seq(OpRec) /\ Len(Program(r, listed)) = 3
           /\ Program(r, listed)[1] = Count(r.date) /\ Program(r, listed)[2] = Count(r.date)
           /\ Program(r, listed)[3] = Assign(r.date)
<1>1. r.date \in Dates
  BY RequestFacts
<1> DEFINE s1 == <<Count(r.date)>>
           s2 == <<Count(r.date), Assign(r.date)>>
<1>2. Program(r, listed) = s1 \o s2
  BY DEF Program, SetActive
<1>3. Count(r.date) \in OpRec /\ Assign(r.date) \in OpRec
  BY <1>1, OpFacts
<1>4. /\ s1 \in Seq(OpRec) /\ s2 \in Seq(OpRec) /\ Len(s1) = 1 /\ Len(s2) = 2
      /\ s1[1] = Count(r.date) /\ s2[1] = Count(r.date) /\ s2[2] = Assign(r.date)
  BY <1>3
<1> HIDE DEF s1, s2
<1>5. /\ s1 \o s2 \in Seq(OpRec)
      /\ Len(s1 \o s2) = Len(s1) + Len(s2)
      /\ \A i \in 1 .. Len(s1) + Len(s2) : (s1 \o s2)[i] = IF i <= Len(s1) THEN s1[i] ELSE s2[i - Len(s1)]
  BY <1>4, ConcatProperties
<1> QED BY <1>2, <1>4, <1>5

\* Every micro-step of every program.
LEMMA ProgramFacts ==
    ASSUME NEW r \in Requests, NEW listed \in Seq(Dates)
    PROVE  /\ Program(r, listed) \in Seq(OpRec)
           /\ Len(Program(r, listed)) \in Nat
           /\ Program(r, <<>>) \in Seq(OpRec) /\ Len(Program(r, <<>>)) >= 1
           /\ \A i \in 1..Len(Program(r, listed)) :
                 /\ Program(r, listed)[i].op \in {"count", "assign"} => Program(r, listed)[i].date \in Dates
                 /\ Program(r, listed)[i].op = "list" => r.kind = "backtest" /\ i = 1
<1> DEFINE P == Program(r, listed)
           Kindly(i) == /\ P[i].op \in {"count", "assign"} => P[i].date \in Dates
                        /\ P[i].op = "list" => r.kind = "backtest" /\ i = 1
           Multi == {"pit", "entries", "exits", "changes", "backtest"}
<1>1. r.kind \in {"scan", "select"} \/ r.kind \in Multi
  BY RequestFacts DEF AllKinds
<1>2. <<>> \in Seq(Dates)
  OBVIOUS
<1>3. ASSUME NEW l \in Seq(Dates)
      PROVE  Program(r, l) \in Seq(OpRec) /\ Len(Program(r, l)) \in Nat
  BY <1>1, ScanProgram, SelectProgram, ProgramBlocks, LenProperties DEF Blocks
<1>4. Len(Program(r, <<>>)) >= 1
  <2>1. CASE r.kind \in {"scan", "select"}
    BY <2>1, ScanProgram, SelectProgram
  <2>2. CASE r.kind = "backtest"
    <3>1. Blocks(Program(r, <<>>), 1, <<>>)
      BY <2>2, <1>2, ProgramBlocks DEF Lead, Meant
    <3> QED BY <3>1 DEF Blocks
  <2>3. CASE r.kind \in {"pit", "entries", "exits", "changes"}
    <3> DEFINE W == Meant(r, <<>>)
    <3>1. Blocks(Program(r, <<>>), 0, W) /\ W \in Seq(Dates)
      BY <2>3, <1>2, ProgramBlocks DEF Lead
    <3>2. Len(W) >= 1 /\ Len(W) \in Nat
      BY <2>3, <3>1 DEF Meant
    <3> HIDE DEF W
    <3> QED BY <3>1, <3>2 DEF Blocks
  <2> QED BY <1>1, <2>1, <2>2, <2>3
<1>5. ASSUME NEW i \in 1..Len(P) PROVE Kindly(i)
  <2>0. ASSUME NEW d PROVE /\ Count(d).op = "count" /\ Count(d).date = d
                           /\ Assign(d).op = "assign" /\ Assign(d).date = d
                           /\ Read.op = "read" /\ Query.op = "query" /\ List.op = "list"
    BY DEF Count, Assign, Read, Query, List
  <2>1. CASE r.kind = "scan"
    <3>1. P[i] \in {Read, Query}
      BY <2>1, ScanProgram
    <3> QED BY <3>1, <2>0
  <2>2. CASE r.kind = "select"
    <3>1. P[i] \in {Count(r.date), Assign(r.date)} /\ r.date \in Dates
      BY <2>2, SelectProgram, RequestFacts
    <3> QED BY <3>1, <2>0
  <2>3. CASE r.kind \in Multi
    <3> DEFINE W == Meant(r, listed)
               n == Lead(r)
    <3>1. Blocks(P, n, W) /\ W \in Seq(Dates) /\ (r.kind = "backtest" => P[1] = List)
      BY <2>3, ProgramBlocks
    <3>2. n \in Nat /\ (n # 0 => n = 1 /\ r.kind = "backtest")
      BY DEF Lead
    <3>3. \A j \in 1..Len(W) : W[j] \in Dates
      BY <3>1, ElementOfSeq
    <3> HIDE DEF P, W, n
    <3>4. CASE i > n
      <4>1. PICK j \in 1..Len(W) : P[i] \in {Count(W[j]), Assign(W[j]), Read, Query}
        <5>1. \E j \in 1..Len(W) :
                 \/ i = n + 4 * j - 3 /\ P[i] = Count(W[j])
                 \/ i = n + 4 * j - 2 /\ P[i] = Assign(W[j])
                 \/ i = n + 4 * j - 1 /\ P[i] = Read
                 \/ i = n + 4 * j /\ P[i] = Query
          BY <3>1, <3>2, <3>4, BlockCover
        <5> QED BY <5>1, Zenon
      <4> QED BY <4>1, <3>3, <2>0
    <3>5. CASE ~(i > n)
      <4>1. n = 1 /\ i = 1
        BY <3>2, <3>5
      <4> QED BY <4>1, <3>1, <3>2, <2>0
    <3> QED BY <3>4, <3>5
  <2> QED BY <1>1, <2>1, <2>2, <2>3
<1> QED BY <1>2, <1>3, <1>4, <1>5

-----------------------------------------------------------------------------
(* Types *)

LEMMA WantFacts ==
    /\ BootWant \in PageWants \cup {BootWant}
    /\ \A w \in PageWants \cup {BootWant} : w.studies \in Nat
<1>1. \A w \in [force : BOOLEAN, studies : {Studies}] : w.studies = Studies
  OBVIOUS
<1>2. \A w \in [force : {FALSE}, studies : {1}] : w.studies = 1
  OBVIOUS
<1>3. BootWant.studies = 0
  BY DEF BootWant
<1>4. \A w \in PageWants : w.studies \in {Studies, 1}
  BY <1>1, <1>2, Zenon DEF PageWants
<1>5. Studies \in Nat /\ 1 \in Nat /\ 0 \in Nat
  BY ServeAssumption
<1> QED BY <1>3, <1>4, <1>5

LEMMA DateFacts ==
    /\ Dates \subseteq AllDates /\ NowTs \in AllDates /\ AllDates \subseteq AnyDate /\ NoDate \in AnyDate
    /\ NoScan \in ScanResult
    /\ \A d \in Dates : Full[d] \in SUBSET Symbols
    /\ \A R \in SUBSET Symbols : \A d \in AnyDate : [rows |-> R, day |-> d] \in ScanResult
BY ServeAssumption DEF AllDates, AnyDate, NoScan, ScanResult

\* A page goroutine that goes somewhere else and changes nothing but what it
\* wants, its scan and the dates it ran on.
LEMMA PageMoves ==
    ASSUME PagesOK, NEW p \in Pages, NEW where \in PagePC,
           NEW w \in PageWants \cup {BootWant}, NEW sc \in ScanResult, NEW rn \in Seq(AnyDate),
           pc' = [pc EXCEPT ![p] = where], want' = [want EXCEPT ![p] = w],
           scanned' = [scanned EXCEPT ![p] = sc], ran' = [ran EXCEPT ![p] = rn],
           Len(rn) <= w.studies, where = "idle" => rn = <<>>,
           where \in {"delete", "insert", "meta", "cache"} => sc.day \in AllDates
    PROVE  PagesOK'
<1>1. /\ pc' \in [Pages -> PagePC] /\ pc'[p] = where
      /\ \A q \in Pages : q # p => pc'[q] = pc[q]
  BY DEF PagesOK
<1>2. /\ want' \in [Pages -> PageWants \cup {BootWant}] /\ want'[p] = w
      /\ \A q \in Pages : q # p => want'[q] = want[q]
  BY DEF PagesOK
<1>3. /\ scanned' \in [Pages -> ScanResult] /\ scanned'[p] = sc
      /\ \A q \in Pages : q # p => scanned'[q] = scanned[q]
  BY DEF PagesOK
<1>4. /\ ran' \in [Pages -> Seq(AnyDate)] /\ ran'[p] = rn
      /\ \A q \in Pages : q # p => ran'[q] = ran[q]
  BY DEF PagesOK
<1>5. ASSUME NEW q \in Pages
      PROVE  /\ Len(ran[q])' <= want'[q].studies
             /\ pc'[q] = "idle" => ran'[q] = <<>>
             /\ Loading(q)' => scanned'[q].day \in AllDates
  <2>1. CASE q = p
    BY <1>1, <1>2, <1>3, <1>4, <2>1 DEF Loading
  <2>2. CASE q # p
    <3>1. pc'[q] = pc[q] /\ want'[q] = want[q] /\ scanned'[q] = scanned[q] /\ ran'[q] = ran[q]
      BY <1>1, <1>2, <1>3, <1>4, <2>2
    <3>2. /\ Len(ran[q]) <= want[q].studies
          /\ pc[q] = "idle" => ran[q] = <<>>
          /\ Loading(q) => scanned[q].day \in AllDates
      BY DEF PagesOK
    <3> QED BY <3>1, <3>2 DEF Loading
  <2> QED BY <2>1, <2>2
<1> QED BY <1>1, <1>2, <1>3, <1>4, <1>5 DEF PagesOK

\* What a page goroutine holds, as PageMoves takes it.
LEMMA PageHolds ==
    ASSUME PagesOK, NEW p \in Pages
    PROVE  /\ pc[p] \in PagePC /\ want[p] \in PageWants \cup {BootWant}
           /\ scanned[p] \in ScanResult /\ ran[p] \in Seq(AnyDate)
           /\ scanned[p].rows \in SUBSET Symbols /\ scanned[p].day \in AnyDate
           /\ Len(ran[p]) <= want[p].studies /\ Len(ran[p]) \in Nat /\ want[p].studies \in Nat
           /\ pc[p] = "idle" => ran[p] = <<>>
           /\ Loading(p) => scanned[p].day \in AllDates
           /\ pc = [pc EXCEPT ![p] = pc[p]] /\ want = [want EXCEPT ![p] = want[p]]
           /\ scanned = [scanned EXCEPT ![p] = scanned[p]] /\ ran = [ran EXCEPT ![p] = ran[p]]
<1>1. /\ pc[p] \in PagePC /\ want[p] \in PageWants \cup {BootWant}
      /\ scanned[p] \in ScanResult /\ ran[p] \in Seq(AnyDate)
      /\ Len(ran[p]) <= want[p].studies
      /\ pc[p] = "idle" => ran[p] = <<>>
      /\ Loading(p) => scanned[p].day \in AllDates
  BY DEF PagesOK
<1>2. want[p].studies \in Nat /\ Len(ran[p]) \in Nat
  BY <1>1, WantFacts, LenProperties
<1>3. scanned[p].rows \in SUBSET Symbols /\ scanned[p].day \in AnyDate
  BY <1>1 DEF ScanResult, AnyDate
<1>4. /\ pc = [pc EXCEPT ![p] = pc[p]] /\ want = [want EXCEPT ![p] = want[p]]
      /\ scanned = [scanned EXCEPT ![p] = scanned[p]] /\ ran = [ran EXCEPT ![p] = ran[p]]
  BY DEF PagesOK
<1> QED BY <1>1, <1>2, <1>3, <1>4

\* A page goroutine that only goes on.
LEMMA PageGoes ==
    ASSUME PagesOK, NEW p \in Pages, NEW where \in PagePC \ {"idle"},
           where \in {"delete", "insert", "meta", "cache"} => scanned[p].day \in AllDates,
           pc' = [pc EXCEPT ![p] = where], UNCHANGED <<want, scanned, ran>>
    PROVE  PagesOK'
<1>1. /\ want[p] \in PageWants \cup {BootWant} /\ scanned[p] \in ScanResult /\ ran[p] \in Seq(AnyDate)
      /\ Len(ran[p]) <= want[p].studies
      /\ want = [want EXCEPT ![p] = want[p]]
      /\ scanned = [scanned EXCEPT ![p] = scanned[p]] /\ ran = [ran EXCEPT ![p] = ran[p]]
  BY PageHolds
<1>2. /\ want' = [want EXCEPT ![p] = want[p]]
      /\ scanned' = [scanned EXCEPT ![p] = scanned[p]] /\ ran' = [ran EXCEPT ![p] = ran[p]]
  BY <1>1
<1>3. where \in PagePC /\ (where = "idle" => ran[p] = <<>>)
  OBVIOUS
<1> QED BY <1>1, <1>2, <1>3, PageMoves, Zenon

LEMMA LeaveTypes ==
    ASSUME PagesOK, NEW p \in Pages, Leave(p)
    PROVE  PagesOK'
<1>1. "idle" \in PagePC /\ <<>> \in Seq(AnyDate) /\ Len(<<>>) <= BootWant.studies
  BY DEF PagePC, BootWant
<1> QED BY <1>1, WantFacts, DateFacts, PageMoves DEF Leave, Goto

LEMMA PageTypes ==
    ASSUME CoreOK, PagesOK, NEW p \in Pages, PageArrives(p) \/ PageStep(p)
    PROVE  CoreOK' /\ PagesOK' /\ UNCHANGED apiVars
<1>1. /\ pc[p] \in PagePC /\ want[p] \in PageWants \cup {BootWant}
      /\ scanned[p] \in ScanResult /\ ran[p] \in Seq(AnyDate)
      /\ scanned[p].rows \in SUBSET Symbols /\ scanned[p].day \in AnyDate
      /\ Len(ran[p]) <= want[p].studies /\ Len(ran[p]) \in Nat /\ want[p].studies \in Nat
      /\ pc[p] = "idle" => ran[p] = <<>>
      /\ Loading(p) => scanned[p].day \in AllDates
  BY PageHolds
<1>2. /\ pc = [pc EXCEPT ![p] = pc[p]] /\ want = [want EXCEPT ![p] = want[p]]
      /\ scanned = [scanned EXCEPT ![p] = scanned[p]] /\ ran = [ran EXCEPT ![p] = ran[p]]
  BY PageHolds
<1>3. {"idle", "lock", "universe", "scan", "delete", "insert", "meta", "cache", "studies"} = PagePC
  BY DEF PagePC
<1>4. CASE PageArrives(p)
  <2>1. PICK w \in PageWants : want' = [want EXCEPT ![p] = w]
    BY <1>4 DEF PageArrives
  <2>2. pc' = [pc EXCEPT ![p] = "lock"] /\ scanned' = [scanned EXCEPT ![p] = scanned[p]]
        /\ ran' = [ran EXCEPT ![p] = ran[p]] /\ ran[p] = <<>>
    BY <1>1, <1>2, <1>4 DEF PageArrives, Goto
  <2>3. Len(ran[p]) <= w.studies
    BY <2>2, WantFacts
  <2>4. PagesOK'
    BY <1>1, <1>3, <2>1, <2>2, <2>3, PageMoves
  <2> QED BY <1>4, <2>4 DEF PageArrives, CoreOK, storeVars, cacheVars, worldVars, apiVars
<1>5. CASE PageLocks(p)
  <2>1. PagesOK'
    <3>1. PICK where \in {"universe", "studies"} : pc' = [pc EXCEPT ![p] = where]
      BY <1>5 DEF PageLocks, Goto
    <3>2. UNCHANGED <<want, scanned, ran>>
      BY <1>5 DEF PageLocks
    <3>3. where \in PagePC \ {"idle"} /\ where \notin {"delete", "insert", "meta", "cache"}
      BY DEF PagePC
    <3> QED BY <3>1, <3>2, <3>3, PageGoes, Zenon
  <2> QED BY <1>5, <2>1 DEF PageLocks, CoreOK, storeVars, worldVars, apiVars
<1>6. CASE ResolveUniverse(p)
  <2>1. PagesOK'
    <3>1. "scan" \in PagePC \ {"idle"} /\ "scan" \notin {"delete", "insert", "meta", "cache"}
      BY DEF PagePC
    <3>2. pc' = [pc EXCEPT ![p] = "scan"] /\ UNCHANGED <<want, scanned, ran>>
      BY <1>6 DEF ResolveUniverse, Goto
    <3> QED BY <3>1, <3>2, PageGoes, Zenon
  <2> QED BY <1>6, <2>1 DEF ResolveUniverse, CoreOK, storeVars, cacheVars, worldVars, apiVars
<1>7. CASE ResolveFails(p) \/ LoadFails(p) \/ ServePage(p)
  <2>1. PagesOK' /\ mu' = NoProc
    BY <1>7, LeaveTypes DEF ResolveFails, LoadFails, ServePage, Leave
  <2> QED BY <1>7, <2>1 DEF ResolveFails, LoadFails, ServePage, CoreOK, storeVars, worldVars, apiVars
<1>8. CASE ScanCompletes(p) \/ ScanTruncated(p)
  <2>1. PICK R \in SUBSET Symbols, d \in AllDates : scanned' = [scanned EXCEPT ![p] = [rows |-> R, day |-> d]]
    <3>1. today \in Dates /\ Full[today] \in SUBSET Symbols
      BY DateFacts DEF CoreOK
    <3>2. CASE ScanCompletes(p)
      BY <3>1, <3>2, DateFacts, Zenon DEF ScanCompletes
    <3>3. CASE ScanTruncated(p)
      BY <3>1, <3>3, DateFacts, Zenon DEF ScanTruncated
    <3> QED BY <1>8, <3>2, <3>3
  <2>2. [rows |-> R, day |-> d] \in ScanResult /\ [rows |-> R, day |-> d].day \in AllDates
    BY DateFacts
  <2>3. pc' = [pc EXCEPT ![p] = "delete"] /\ UNCHANGED <<want, ran>>
    BY <1>8 DEF ScanCompletes, ScanTruncated, Goto
  <2>4. PagesOK'
    BY <1>1, <1>2, <1>3, <2>1, <2>2, <2>3, PageMoves
  <2> QED BY <1>8, <2>4 DEF ScanCompletes, ScanTruncated, CoreOK, storeVars, cacheVars, worldVars, apiVars
<1>9. CASE LoadDelete(p) \/ LoadInsert(p)
  <2>1. PICK where \in {"insert", "meta"} : pc' = [pc EXCEPT ![p] = where]
    BY <1>9 DEF LoadDelete, LoadInsert, Goto
  <2>2. UNCHANGED <<want, scanned, ran>> /\ scanned[p].day \in AllDates
    BY <1>1, <1>9 DEF LoadDelete, LoadInsert, Loading
  <2>3. PagesOK'
    <3>1. where \in PagePC \ {"idle"}
      BY DEF PagePC
    <3> QED BY <2>1, <2>2, <3>1, PageGoes, Zenon
  <2>4. table' \in [AllDates -> SUBSET Symbols]
    BY <1>1, <1>9 DEF LoadDelete, LoadInsert, CoreOK
  <2> QED BY <1>9, <2>3, <2>4 DEF LoadDelete, LoadInsert, CoreOK, storeVars, cacheVars, worldVars, apiVars
<1>10. CASE LoadMeta(p)
  <2>1. PagesOK'
    <3>1. UNCHANGED <<want, scanned, ran>> /\ scanned[p].day \in AllDates /\ pc' = [pc EXCEPT ![p] = "cache"]
      BY <1>1, <1>10 DEF LoadMeta, Loading, Goto
    <3>2. "cache" \in PagePC \ {"idle"}
      BY DEF PagePC
    <3> QED BY <3>1, <3>2, PageGoes, Zenon
  <2> QED BY <1>1, <1>10, <2>1 DEF LoadMeta, CoreOK, cacheVars, worldVars, apiVars
<1>11. CASE FillCache(p)
  <2>1. PagesOK'
    BY <1>1, <1>2, <1>3, <1>11, DateFacts, PageMoves DEF FillCache, Goto
  <2> QED BY <1>1, <1>11, <2>1 DEF FillCache, CacheScan, CoreOK, storeVars, worldVars, apiVars
<1>12. CASE StatsFails(p)
  <2>1. PagesOK' /\ mu' = NoProc
    BY <1>12, LeaveTypes DEF StatsFails, Leave
  <2> QED BY <1>1, <1>12, <2>1 DEF StatsFails, CacheScan, CoreOK, storeVars, worldVars, apiVars
<1>13. CASE RunStudy(p)
  <2>1. activeDate \in AnyDate /\ Len(ran[p]) < want[p].studies
    BY <1>13 DEF CoreOK, RunStudy
  <2>2. Append(ran[p], activeDate) \in Seq(AnyDate) /\ Len(Append(ran[p], activeDate)) = Len(ran[p]) + 1
    BY <1>1, <2>1
  <2>3. Len(Append(ran[p], activeDate)) <= want[p].studies
    BY <1>1, <2>1, <2>2
  <2>4. ran' = [ran EXCEPT ![p] = Append(ran[p], activeDate)] /\ UNCHANGED <<pc, want, scanned>>
        /\ pc[p] = "studies"
    BY <1>13 DEF RunStudy
  <2>5. PagesOK'
    <3>1. /\ pc' = [pc EXCEPT ![p] = pc[p]] /\ want' = [want EXCEPT ![p] = want[p]]
          /\ scanned' = [scanned EXCEPT ![p] = scanned[p]]
      BY <1>2, <2>4
    <3>2. pc[p] # "idle" /\ pc[p] \notin {"delete", "insert", "meta", "cache"}
      BY <2>4
    <3>3. PICK rn \in Seq(AnyDate) : rn = Append(ran[p], activeDate)
      BY <2>2
    <3>4. ran' = [ran EXCEPT ![p] = rn] /\ Len(rn) <= want[p].studies
      BY <2>3, <2>4, <3>3
    <3> QED BY <1>1, <3>1, <3>2, <3>4, PageMoves
  <2> QED BY <1>13, <2>5 DEF RunStudy, CoreOK, storeVars, cacheVars, worldVars, apiVars
<1> QED
  BY <1>4, <1>5, <1>6, <1>7, <1>8, <1>9, <1>10, <1>11, <1>12, <1>13 DEF PageStep

LEMMA ApiHolds ==
    ASSUME ApisOK, NEW a \in Apis, req[a] # NoReq
    PROVE  /\ req[a] \in Requests /\ at[a] \in Nat \ {0} /\ got[a] \in GotRec
           /\ got[a].listed \in Seq(Dates) /\ got[a].for \in AnyDate /\ got[a].on \in AnyDate
           /\ got[a].runs \in Seq(RunRec)
           /\ Running(a) => /\ at[a] \in 1..Len(Steps(a))
                            /\ Op(a) \in OpRec
                            /\ Op(a).op \in {"count", "assign"} => Op(a).date \in Dates
                            /\ Op(a).op = "list" => req[a].kind = "backtest" /\ at[a] = 1
<1>1. req[a] \in Requests /\ at[a] \in Nat \ {0} /\ got[a] \in GotRec
  BY DEF ApisOK
<1>2. /\ got[a].listed \in Seq(Dates) /\ got[a].for \in AnyDate /\ got[a].on \in AnyDate
      /\ got[a].runs \in Seq(RunRec)
  BY <1>1 DEF GotRec
<1>3. ASSUME Running(a)
      PROVE  /\ at[a] \in 1..Len(Steps(a))
             /\ Op(a) \in OpRec
             /\ Op(a).op \in {"count", "assign"} => Op(a).date \in Dates
             /\ Op(a).op = "list" => req[a].kind = "backtest" /\ at[a] = 1
  <2> DEFINE P == Program(req[a], got[a].listed)
  <2>1. /\ P \in Seq(OpRec) /\ Len(P) \in Nat
        /\ \A i \in 1..Len(P) :
              /\ P[i].op \in {"count", "assign"} => P[i].date \in Dates
              /\ P[i].op = "list" => req[a].kind = "backtest" /\ i = 1
    BY <1>1, <1>2, ProgramFacts
  <2>2. at[a] <= Len(P)
    BY <1>3 DEF ApisOK, Steps
  <2> HIDE DEF P
  <2>3. at[a] \in 1..Len(P)
    BY <1>1, <2>1, <2>2
  <2>4. P[at[a]] \in OpRec
    BY <2>1, <2>3, ElementOfSeq
  <2> QED BY <2>1, <2>3, <2>4 DEF Op, Steps, P
<1> QED BY <1>1, <1>2, <1>3

\* A request that goes to another micro-step.
LEMMA Proceeds ==
    ASSUME ApisOK, NEW a \in Apis, req[a] \in Requests, NEW n \in Nat \ {0}, NEW g \in GotRec,
           ProceedTo(a, n, g)
    PROVE  /\ ApisOK'
           /\ req' = req /\ at'[a] = n
           /\ got'[a] = (IF n > Len(Program(req[a], g.listed)) THEN [g EXCEPT !.end = "ok"] ELSE g)
           /\ \A b \in Apis : b # a => at'[b] = at[b] /\ got'[b] = got[b]
           /\ UNCHANGED <<cacheVars, worldVars, pageVars>>
<1> DEFINE h == IF n > Len(Program(req[a], g.listed)) THEN [g EXCEPT !.end = "ok"] ELSE g
<1>1. h \in GotRec /\ h.listed = g.listed
  BY DEF GotRec
<1>2. g.listed \in Seq(Dates)
  BY DEF GotRec
<1>3. Len(Program(req[a], g.listed)) \in Nat
  BY <1>2, ProgramFacts
<1>4. h.end = "none" => n <= Len(Program(req[a], g.listed))
  <2>1. CASE n > Len(Program(req[a], g.listed))
    <3>1. h.end = "ok"
      BY <2>1 DEF GotRec
    <3> QED BY <3>1
  <2>2. CASE ~(n > Len(Program(req[a], g.listed)))
    <3> HIDE DEF h
    <3>1. PICK l \in Nat : l = Len(Program(req[a], g.listed))
      BY <1>3
    <3>2. n <= l
      BY <2>2, <3>1
    <3> QED BY <3>1, <3>2
  <2> QED BY <2>1, <2>2
<1>5. /\ req' = req
      /\ at' = [at EXCEPT ![a] = n]
      /\ got' = [got EXCEPT ![a] = h]
      /\ UNCHANGED <<cacheVars, worldVars, pageVars>>
  BY DEF ProceedTo
<1> HIDE DEF h
<1>6. /\ at' \in [Apis -> Nat \ {0}] /\ at'[a] = n
      /\ got' \in [Apis -> GotRec] /\ got'[a] = h
      /\ \A b \in Apis : b # a => at'[b] = at[b] /\ got'[b] = got[b]
  BY <1>1, <1>5 DEF ApisOK
<1>7. ASSUME NEW b \in Apis
      PROVE  /\ req'[b] = NoReq => at'[b] = 1 /\ got'[b] = NothingYet
             /\ Running(b)' => at'[b] <= Len(Steps(b)')
  <2>1. CASE b = a
    <3>1. req'[b] # NoReq
      BY <1>5, <2>1, RequestFacts
    <3>2. Len(Steps(b)') = Len(Program(req[a], g.listed))
      BY <1>1, <1>5, <1>6, <2>1 DEF Steps
    <3> QED BY <1>4, <1>6, <2>1, <3>1, <3>2 DEF Running
  <2>2. CASE b # a
    <3>1. req'[b] = req[b] /\ at'[b] = at[b] /\ got'[b] = got[b]
      BY <1>5, <1>6, <2>2
    <3>2. Steps(b)' = Steps(b) /\ (Running(b)' <=> Running(b))
      BY <3>1 DEF Steps, Running
    <3>3. /\ req[b] = NoReq => at[b] = 1 /\ got[b] = NothingYet
          /\ Running(b) => at[b] <= Len(Steps(b))
      BY DEF ApisOK
    <3> QED BY <3>1, <3>2, <3>3
  <2> QED BY <2>1, <2>2
<1>8. ApisOK'
  BY <1>5, <1>6, <1>7 DEF ApisOK
<1> QED BY <1>5, <1>6, <1>8 DEF h

\* ListSnapshots returns a sequence of dates that are there.
LEMMA ListedFacts ==
    ASSUME NEW s \in Descending({d \in Dates : Exists(d)})
    PROVE  s \in Seq(Dates) /\ \A i \in 1..Len(s) : Exists(s[i])
<1> DEFINE S == {d \in Dates : Exists(d)}
<1>1. IsFiniteSet(S)
  BY ServeAssumption, FS_Subset
<1>2. PICK n \in Nat : n = Cardinality(S)
  BY <1>1, FS_CardinalityType
<1>3. s \in [1..n -> S]
  BY <1>2 DEF Descending
<1>4. s \in Seq(Dates) /\ Len(s) = n
  BY <1>3
<1> QED BY <1>3, <1>4

\* What a date came to.
LEMMA CameFacts ==
    ASSUME ApisOK, NEW a \in Apis, req[a] # NoReq,
           NEW d \in AnyDate, NEW o \in Outcomes, NEW R \in SUBSET Symbols
    PROVE  \E g \in GotRec : \E run \in RunRec :
              /\ g = CameTo(a, d, o, R) /\ run = [for |-> d, outcome |-> o, rows |-> R]
              /\ g.runs = Append(got[a].runs, run) /\ g.listed = got[a].listed
              /\ g.end = got[a].end
<1>1. got[a] \in GotRec /\ got[a].runs \in Seq(RunRec)
  BY ApiHolds
<1>2. PICK run \in RunRec : run = [for |-> d, outcome |-> o, rows |-> R]
  BY DEF RunRec
<1>3. PICK rs \in Seq(RunRec) : rs = Append(got[a].runs, run)
  BY <1>1, AppendProperties
<1>4. PICK g \in GotRec : g = [got[a] EXCEPT !.on = NoDate, !.runs = rs]
  BY <1>1, DateFacts DEF GotRec
<1>5. g.runs = rs /\ g.listed = got[a].listed /\ g.end = got[a].end
  BY <1>1, <1>4 DEF GotRec
<1>6. g = CameTo(a, d, o, R)
  BY <1>2, <1>3, <1>4 DEF CameTo
<1> QED BY <1>2, <1>3, <1>5, <1>6

\* The same with another end.
LEMMA EndFacts ==
    ASSUME NEW g \in GotRec, NEW e \in {"ok", "noprev", "error"}
    PROVE  \E h \in GotRec : /\ h = [g EXCEPT !.end = e] /\ h.end = e
                             /\ h.runs = g.runs /\ h.listed = g.listed
<1>1. PICK h \in GotRec : h = [g EXCEPT !.end = e]
  BY DEF GotRec
<1>2. h.end = e /\ h.runs = g.runs /\ h.listed = g.listed
  BY <1>1 DEF GotRec
<1> QED BY <1>1, <1>2

\* What the micro-steps do to a request: from where to where, with what.
LEMMA ApiMoves ==
    ASSUME CoreOK, ApisOK, NEW a \in Apis, ApiStep(a)
    PROVE  /\ Running(a) /\ req[a] \in Requests
           /\ \E n \in Nat \ {0}, g \in GotRec : ProceedTo(a, n, g)
           /\ table' = table /\ activeDate' \in AnyDate
<1>1. Running(a)
  BY DEF ApiStep, ListSnapshots, ListFails, CountFinds, CountMisses, CountFails, AssignActive,
         ReadActive, RunQuery, RunFails
<1>2. req[a] # NoReq
  BY <1>1 DEF Running
<1>3. /\ req[a] \in Requests /\ at[a] \in Nat \ {0} /\ got[a] \in GotRec
      /\ got[a].listed \in Seq(Dates) /\ got[a].for \in AnyDate /\ got[a].on \in AnyDate
      /\ got[a].runs \in Seq(RunRec)
      /\ Op(a).op \in {"count", "assign"} => Op(a).date \in Dates
  BY <1>1, <1>2, ApiHolds
<1>4. at[a] + 1 \in Nat \ {0} /\ at[a] + 4 \in Nat \ {0}
  BY <1>3
<1>5. table \in [AllDates -> SUBSET Symbols] /\ activeDate \in AnyDate
  BY DEF CoreOK
<1> DEFINE Goes == \E n \in Nat \ {0}, g \in GotRec : ProceedTo(a, n, g)
<1>6. CASE ListSnapshots(a)
  <2>1. PICK s \in Descending({d \in Dates : Exists(d)}) :
            ProceedTo(a, at[a] + 1, [got[a] EXCEPT !.listed = s])
    BY <1>6 DEF ListSnapshots
  <2>2. [got[a] EXCEPT !.listed = s] \in GotRec
    <3>1. s \in Seq(Dates)
      BY ListedFacts
    <3> QED BY <1>3, <3>1 DEF GotRec
  <2>3. Goes
    BY <1>4, <2>1, <2>2
  <2> QED BY <1>1, <1>3, <1>5, <1>6, <2>3 DEF ListSnapshots, storeVars
<1>7. CASE CountFinds(a)
  <2>1. [got[a] EXCEPT !.for = Op(a).date] \in GotRec
    <3>1. Op(a).date \in AnyDate
      BY <1>3, <1>7, DateFacts DEF CountFinds
    <3> QED BY <1>3, <3>1 DEF GotRec
  <2>2. Goes
    BY <1>4, <1>7, <2>1 DEF CountFinds
  <2> QED BY <1>1, <1>3, <1>5, <1>7, <2>2 DEF CountFinds, storeVars
<1>8. CASE CountMisses(a) \/ CountFails(a)
  <2>1. PICK why \in {"missing", "failed"} : SetActiveErrs(a, why) /\ UNCHANGED storeVars
    BY <1>8 DEF CountMisses, CountFails
  <2>2. Op(a).date \in AnyDate /\ why \in Outcomes /\ {} \in SUBSET Symbols
    BY <1>3, <1>8, DateFacts DEF CountMisses, CountFails, Outcomes
  <2>3. PICK g \in GotRec : g = CameTo(a, Op(a).date, why, {})
    BY <1>2, <2>2, CameFacts
  <2>4. PICK e \in {"ok", "noprev", "error"} : e = IF NoPrev(a) THEN "noprev" ELSE "error"
    OBVIOUS
  <2>5. [g EXCEPT !.end = e] \in GotRec
    BY DEF GotRec
  <2>6. ProceedTo(a, at[a] + 4, g) \/ ProceedTo(a, at[a], [g EXCEPT !.end = e])
    BY <2>1, <2>3, <2>4 DEF SetActiveErrs
  <2>7. Goes
    BY <1>3, <1>4, <2>5, <2>6
  <2> QED BY <1>1, <1>3, <1>5, <2>1, <2>7 DEF storeVars
<1>9. CASE AssignActive(a)
  <2>1. Op(a).date \in AnyDate
    BY <1>3, <1>9, DateFacts DEF AssignActive
  <2>2. Goes
    BY <1>3, <1>4, <1>9 DEF AssignActive
  <2> QED BY <1>1, <1>3, <1>9, <2>1, <2>2 DEF AssignActive
<1>10. CASE ReadActive(a)
  <2>1. [got[a] EXCEPT !.on = activeDate] \in GotRec
    BY <1>3, <1>5 DEF GotRec
  <2>2. Goes
    BY <1>4, <1>10, <2>1 DEF ReadActive
  <2> QED BY <1>1, <1>3, <1>5, <1>10, <2>2 DEF ReadActive, storeVars
<1>11. CASE RunQuery(a)
  <2>1. RunAt(got[a].on) \in SUBSET Symbols /\ "rows" \in Outcomes
    BY <1>5 DEF RunAt, Outcomes
  <2>2. PICK g \in GotRec : g = CameTo(a, got[a].for, "rows", RunAt(got[a].on))
    BY <1>2, <1>3, <2>1, CameFacts
  <2>3. Goes
    BY <1>4, <1>11, <2>2 DEF RunQuery
  <2> QED BY <1>1, <1>3, <1>5, <1>11, <2>3 DEF RunQuery, storeVars
<1>12. CASE RunFails(a)
  <2>1. "failed" \in Outcomes /\ {} \in SUBSET Symbols
    BY DEF Outcomes
  <2>2. PICK g \in GotRec : g = CameTo(a, got[a].for, "failed", {})
    BY <1>2, <1>3, <2>1, CameFacts
  <2>3. [g EXCEPT !.end = "error"] \in GotRec
    BY EndFacts
  <2>4. ProceedTo(a, at[a] + 1, g) \/ ProceedTo(a, at[a], [g EXCEPT !.end = "error"])
    BY <1>12, <2>2 DEF RunFails
  <2>5. Goes
    BY <1>3, <1>4, <2>3, <2>4
  <2> QED BY <1>1, <1>3, <1>5, <1>12, <2>5 DEF RunFails, storeVars
<1>13. CASE ListFails(a)
  <2>1. [got[a] EXCEPT !.end = "error"] \in GotRec
    BY <1>3, EndFacts
  <2>2. Goes
    BY <1>3, <1>13, <2>1 DEF ListFails
  <2> QED BY <1>1, <1>3, <1>5, <1>13, <2>2 DEF ListFails, storeVars
<1> QED BY <1>6, <1>7, <1>8, <1>9, <1>10, <1>11, <1>12, <1>13 DEF ApiStep

LEMMA ApiTypes ==
    ASSUME CoreOK, PagesOK, ApisOK, NEW a \in Apis,
           ApiStep(a) \/ ApiLeaves(a) \/ \E r \in Requests : ApiArrives(a, r)
    PROVE  CoreOK' /\ PagesOK' /\ ApisOK'
<1>1. CASE ApiStep(a)
  <2>1. /\ req[a] \in Requests /\ table' = table /\ activeDate' \in AnyDate
        /\ \E n \in Nat \ {0}, g \in GotRec : ProceedTo(a, n, g)
    BY <1>1, ApiMoves
  <2>2. ApisOK' /\ UNCHANGED <<cacheVars, worldVars, pageVars>>
    BY <2>1, Proceeds
  <2> QED BY <2>1, <2>2 DEF CoreOK, PagesOK, Loading, cacheVars, worldVars, pageVars
<1>2. ASSUME NEW r \in Requests \cup {NoReq}, req' = [req EXCEPT ![a] = r],
             at' = [at EXCEPT ![a] = 1], got' = [got EXCEPT ![a] = NothingYet]
      PROVE  ApisOK'
  <2>1. NothingYet \in GotRec /\ NothingYet.listed = <<>>
    <3>1. <<>> \in Seq(Dates) /\ <<>> \in Seq(RunRec) /\ NoDate \in AnyDate
      BY DateFacts
    <3> QED BY <3>1 DEF NothingYet, GotRec
  <2>2. /\ req' \in [Apis -> Requests \cup {NoReq}] /\ req'[a] = r
        /\ at' \in [Apis -> Nat \ {0}] /\ at'[a] = 1
        /\ got' \in [Apis -> GotRec] /\ got'[a] = NothingYet
        /\ \A b \in Apis : b # a => req'[b] = req[b] /\ at'[b] = at[b] /\ got'[b] = got[b]
    BY <1>2, <2>1 DEF ApisOK
  <2>3. ASSUME NEW b \in Apis
        PROVE  /\ req'[b] = NoReq => at'[b] = 1 /\ got'[b] = NothingYet
               /\ Running(b)' => at'[b] <= Len(Steps(b)')
    <3>1. CASE b = a
      <4>1. Steps(b)' = Program(r, <<>>)
        BY <2>1, <2>2, <3>1 DEF Steps
      <4>2. r \in Requests => Len(Program(r, <<>>)) \in Nat /\ Len(Program(r, <<>>)) >= 1
        BY EmptySeq, ProgramFacts
      <4>3. Running(b)' => r \in Requests
        BY <2>2, <3>1 DEF Running
      <4>4. Running(b)' => Len(Steps(b)') \in Nat /\ Len(Steps(b)') >= 1
        BY <4>1, <4>2, <4>3
      <4> QED BY <2>2, <3>1, <4>4
    <3>2. CASE b # a
      <4>1. req'[b] = req[b] /\ at'[b] = at[b] /\ got'[b] = got[b]
        BY <2>2, <3>2
      <4>2. Steps(b)' = Steps(b) /\ (Running(b)' <=> Running(b))
        BY <4>1 DEF Steps, Running
      <4>3. /\ req[b] = NoReq => at[b] = 1 /\ got[b] = NothingYet
            /\ Running(b) => at[b] <= Len(Steps(b))
        BY DEF ApisOK
      <4> QED BY <4>1, <4>2, <4>3
    <3> QED BY <3>1, <3>2
  <2> QED BY <2>2, <2>3 DEF ApisOK
<1>3. CASE ApiLeaves(a)
  <2>1. ApisOK'
    BY <1>2, <1>3 DEF ApiLeaves
  <2> QED BY <1>3, <2>1 DEF ApiLeaves, CoreOK, PagesOK, Loading, storeVars, cacheVars, worldVars, pageVars
<1>4. CASE \E r \in Requests : ApiArrives(a, r)
  <2>1. PICK r \in Requests : ApiArrives(a, r)
    BY <1>4
  <2>2. at[a] = 1 /\ got[a] = NothingYet
    BY <2>1 DEF ApiArrives, ApisOK
  <2>3. at' = [at EXCEPT ![a] = 1] /\ got' = [got EXCEPT ![a] = NothingYet] /\ req' = [req EXCEPT ![a] = r]
    BY <2>1, <2>2 DEF ApiArrives, ApisOK
  <2>4. ApisOK'
    BY <1>2, <2>3
  <2> QED BY <2>1, <2>4 DEF ApiArrives, CoreOK, PagesOK, Loading, storeVars, cacheVars, worldVars, pageVars
<1> QED BY <1>1, <1>3, <1>4

LEMMA StartTypes ==
    ASSUME Started
    PROVE  PagesOK /\ ApisOK
<1>1. /\ <<>> \in Seq(AnyDate) /\ Len(<<>>) <= BootWant.studies
      /\ <<>> \in Seq(Dates) /\ <<>> \in Seq(RunRec)
      /\ NoDate \in AnyDate
  BY DateFacts DEF BootWant
<1>2. NothingYet \in GotRec
  BY <1>1 DEF NothingYet, GotRec
<1>3. PagesOK
  <2>1. \A p \in Pages : pc[p] \in {"lock", "idle"}
    BY DEF Started
  <2>2. pc \in [Pages -> PagePC]
    BY DEF Started, PagePC
  <2>3. /\ want \in [Pages -> PageWants \cup {BootWant}] /\ scanned \in [Pages -> ScanResult]
        /\ ran \in [Pages -> Seq(AnyDate)]
    BY <1>1, WantFacts, DateFacts DEF Started
  <2>4. \A p \in Pages : ran[p] = <<>> /\ want[p] = BootWant
    BY DEF Started
  <2> QED BY <1>1, <2>1, <2>2, <2>3, <2>4 DEF PagesOK, Loading
<1>4. ApisOK
  BY <1>2 DEF Started, ApisOK, Running
<1> QED BY <1>3, <1>4

LEMMA StepTypes ==
    ASSUME TypeInv, [Next]_vars
    PROVE  TypeInv'
<1> USE DEF TypeInv
<1>1. CASE UNCHANGED vars
  BY <1>1 DEF vars, storeVars, cacheVars, worldVars, pageVars, apiVars, historyVars,
              CoreOK, PagesOK, ApisOK, Loading, Running, Steps
<1>2. CASE Next
  <2>1. disturbed' \subseteq Apis /\ reloaded' \subseteq Apis
    BY <1>2 DEF Next, Observe
  <2>2. ASSUME NEW p \in Pages, PageArrives(p) \/ PageStep(p) PROVE TypeInv'
    <3>1. CoreOK' /\ PagesOK' /\ UNCHANGED apiVars
      BY <2>2, PageTypes
    <3>2. ApisOK'
      BY <3>1 DEF ApisOK, Running, Steps, apiVars
    <3> QED BY <2>1, <3>1, <3>2
  <2>3. ASSUME NEW a \in Apis, ApiStep(a) \/ ApiLeaves(a) \/ \E r \in Requests : ApiArrives(a, r)
        PROVE  TypeInv'
    BY <2>1, <2>3, ApiTypes
  <2>4. CASE NewDay \/ TTLExpires \/ Shutdown
    <3>1. CoreOK'
      BY <2>4 DEF NewDay, TTLExpires, Shutdown, CoreOK, storeVars, cacheVars, worldVars
    <3>2. UNCHANGED <<pageVars, apiVars>>
      BY <2>4 DEF NewDay, TTLExpires, Shutdown
    <3>3. PagesOK'
      BY <3>2 DEF PagesOK, Loading, pageVars
    <3>4. ApisOK'
      BY <3>2 DEF ApisOK, Running, Steps, apiVars
    <3> QED BY <2>1, <3>1, <3>3, <3>4
  <2>5. CASE Restart
    <3>1. Started'
      BY <2>5 DEF Restart, Started
    <3>2. (PagesOK /\ ApisOK)'
      BY <3>1, StartTypes, PTL
    <3>3. CoreOK'
      BY <2>5, DateFacts DEF Restart, CoreOK
    <3> QED BY <2>1, <3>2, <3>3
  <2> QED BY <1>2, <2>2, <2>3, <2>4, <2>5 DEF Next, WhileUp
<1> QED BY <1>1, <1>2 DEF Next

LEMMA InitTypes ==
    ASSUME Init
    PROVE  TypeInv
<1>1. CoreOK
  <2>1. table \in [AllDates -> SUBSET Symbols]
    <3>1. {{}} \cup {Full[d] : d \in Dates} \subseteq SUBSET Symbols
      BY DateFacts
    <3>2. table \in [AllDates -> {{}} \cup {Full[d] : d \in Dates}]
      BY DEF Init
    <3> QED BY <3>1, <3>2
  <2> QED BY <2>1, DateFacts DEF CoreOK, Init, Started
<1>2. PagesOK /\ ApisOK
  BY StartTypes DEF Init
<1> QED BY <1>1, <1>2 DEF TypeInv, Init

\* The types, and with them that every request that is running is at a
\* micro-step of its program.
THEOREM Types == Spec => []TypeInv
<1>1. Init => TypeInv
  BY InitTypes
<1>2. TypeInv /\ [Next]_vars => TypeInv'
  BY StepTypes
<1> QED BY <1>1, <1>2, PTL DEF Spec

\* The variables keep their types through every interleaving of pages, API
\* handlers, day changes, shutdowns and restarts.
THEOREM TypeCorrect == Spec => []TypeOK
<1>1. TypeInv => TypeOK
  BY DEF TypeInv, TypeOK, CoreOK, PagesOK, ApisOK, AnyDate
<1> QED BY <1>1, Types, PTL

-----------------------------------------------------------------------------
(* Refreshes and the cache *)

Stored(p) == pc[p] \in {"meta", "cache"}

\* A scan that is stored and not yet cached is in the table.
StoredIsThere == \A p \in Pages : Stored(p) => table[scanned[p].day] = scanned[p].rows

\* CacheBackedByStore at every moment: while the cached day is being replaced,
\* its rows may already be those of the new scan.
Backed ==
    cached => /\ cDay \in AllDates
              /\ \/ table[cDay] \in {cRows, {}}
                 \/ \E p \in Pages : Stored(p) /\ scanned[p].day = cDay

StoreInv == OneRefresh /\ StoredIsThere /\ Backed

\* Lock, the steps of a refresh and Unlock keep the refreshes apart.
LEMMA StepKeepsApart ==
    ASSUME PagesOK, OneRefresh, NEW p \in Pages, PageArrives(p) \/ PageStep(p)
    PROVE  OneRefresh'
<1>1. pc \in [Pages -> PagePC] /\ NoProc \notin Pages
  BY ServeAssumption DEF PagesOK
<1>2. CASE PageArrives(p)
  BY <1>1, <1>2 DEF PageArrives, Goto, OneRefresh, InRefresh, cacheVars
<1>3. CASE PageLocks(p)
  BY <1>1, <1>3 DEF PageLocks, Goto, OneRefresh, InRefresh
<1>4. ASSUME Leave(p), InRefresh(p) PROVE OneRefresh'
  <2>1. mu = p /\ mu' = NoProc /\ \A q \in Pages : pc'[q] = IF q = p THEN "idle" ELSE pc[q]
    BY <1>1, <1>4 DEF Leave, Goto, OneRefresh
  <2> QED BY <1>1, <2>1 DEF OneRefresh, InRefresh
<1>5. CASE ResolveFails(p) \/ LoadFails(p) \/ StatsFails(p) \/ ServePage(p)
  BY <1>4, <1>5 DEF ResolveFails, LoadFails, StatsFails, CacheScan, ServePage, InRefresh
<1>6. ASSUME NEW where \in {"universe", "scan", "delete", "insert", "meta", "cache", "studies"},
             InRefresh(p), pc' = [pc EXCEPT ![p] = where], mu' = mu
      PROVE  OneRefresh'
  <2>1. \A q \in Pages : pc'[q] = IF q = p THEN where ELSE pc[q]
    BY <1>1, <1>6
  <2> QED BY <1>6, <2>1 DEF OneRefresh, InRefresh
<1>7. CASE ResolveUniverse(p)
  BY <1>6, <1>7 DEF ResolveUniverse, Goto, InRefresh, cacheVars
<1>8. CASE ScanCompletes(p) \/ ScanTruncated(p)
  BY <1>6, <1>8 DEF ScanCompletes, ScanTruncated, Goto, InRefresh, cacheVars
<1>9. CASE LoadDelete(p) \/ LoadInsert(p)
  BY <1>6, <1>9 DEF LoadDelete, LoadInsert, Goto, InRefresh, cacheVars
<1>10. CASE LoadMeta(p)
  BY <1>6, <1>10 DEF LoadMeta, Goto, InRefresh, cacheVars
<1>11. CASE FillCache(p)
  BY <1>6, <1>11 DEF FillCache, CacheScan, Goto, InRefresh
<1>12. CASE RunStudy(p)
  BY <1>12 DEF RunStudy, OneRefresh, InRefresh, cacheVars
<1> QED
  BY <1>2, <1>3, <1>5, <1>7, <1>8, <1>9, <1>10, <1>11, <1>12 DEF PageStep

\* While a goroutine refreshes, no other one has a scan on its way.
LEMMA OthersWait ==
    ASSUME OneRefresh, NEW p \in Pages, InRefresh(p), NEW q \in Pages, q # p
    PROVE  ~InRefresh(q) /\ ~Stored(q)
BY DEF OneRefresh, InRefresh, Stored

\* A step after which the table and the cache are as before and no scan that
\* was stored is forgotten.
LEMMA NothingStored ==
    ASSUME StoreInv, UNCHANGED <<table, cached, cRows, cDay>>,
           \A q \in Pages : Stored(q)' <=> Stored(q),
           \A q \in Pages : Stored(q) => scanned'[q] = scanned[q]
    PROVE  StoredIsThere' /\ Backed'
<1>1. StoredIsThere'
  BY DEF StoreInv, StoredIsThere
<1>2. Backed'
  BY DEF StoreInv, Backed
<1> QED BY <1>1, <1>2

LEMMA PageStores ==
    ASSUME CoreOK, PagesOK, StoreInv, NEW p \in Pages, PageArrives(p) \/ PageStep(p)
    PROVE  StoredIsThere' /\ Backed'
<1>1. /\ pc \in [Pages -> PagePC] /\ scanned \in [Pages -> ScanResult]
      /\ table \in [AllDates -> SUBSET Symbols] /\ OneRefresh
  BY DEF PagesOK, CoreOK, StoreInv
<1>2. Loading(p) => scanned[p].day \in AllDates
  BY DEF PagesOK
<1>3. CASE PageArrives(p) \/ PageLocks(p) \/ ResolveUniverse(p) \/ RunStudy(p)
  <2>1. UNCHANGED <<table, cached, cRows, cDay, scanned>>
    BY <1>3 DEF PageArrives, PageLocks, ResolveUniverse, RunStudy, storeVars, cacheVars
  <2>2. \A q \in Pages : Stored(q)' <=> Stored(q)
    BY <1>1, <1>3 DEF PageArrives, PageLocks, ResolveUniverse, RunStudy, Goto, Stored
  <2> QED BY <2>1, <2>2, NothingStored
<1>4. CASE ResolveFails(p) \/ LoadFails(p) \/ ServePage(p)
  <2>1. /\ UNCHANGED <<table, cached, cRows, cDay>>
        /\ pc' = [pc EXCEPT ![p] = "idle"] /\ scanned' = [scanned EXCEPT ![p] = NoScan]
    BY <1>4 DEF ResolveFails, LoadFails, ServePage, Leave, Goto, storeVars
  <2>2. ~Stored(p)
    BY <1>4 DEF ResolveFails, LoadFails, ServePage, Stored
  <2>3. \A q \in Pages : (Stored(q)' <=> Stored(q)) /\ (Stored(q) => scanned'[q] = scanned[q])
    BY <1>1, <2>1, <2>2 DEF Stored
  <2> QED BY <2>1, <2>3, NothingStored
<1>5. CASE ScanCompletes(p) \/ ScanTruncated(p)
  <2>1. UNCHANGED <<table, cached, cRows, cDay>> /\ pc' = [pc EXCEPT ![p] = "delete"] /\ ~Stored(p)
    BY <1>5 DEF ScanCompletes, ScanTruncated, Goto, storeVars, cacheVars, Stored
  <2>2. \A q \in Pages : q # p => scanned'[q] = scanned[q]
    BY <1>1, <1>5 DEF ScanCompletes, ScanTruncated
  <2>3. \A q \in Pages : (Stored(q)' <=> Stored(q)) /\ (Stored(q) => scanned'[q] = scanned[q])
    BY <1>1, <2>1, <2>2 DEF Stored
  <2> QED BY <2>1, <2>3, NothingStored
<1>6. CASE LoadDelete(p)
  <2>1. /\ table' = [table EXCEPT ![scanned[p].day] = {}] /\ scanned[p].day \in AllDates
        /\ pc' = [pc EXCEPT ![p] = "insert"] /\ UNCHANGED <<cached, cRows, cDay, scanned>>
        /\ InRefresh(p)
    BY <1>2, <1>6 DEF LoadDelete, Goto, Loading, cacheVars, InRefresh
  <2>2. \A q \in Pages : ~Stored(q) /\ ~Stored(q)'
    BY <1>1, <1>6, <2>1, OthersWait DEF Stored, LoadDelete
  <2>3. StoredIsThere'
    BY <2>2 DEF StoredIsThere
  <2>4. cached => cDay \in AllDates /\ table[cDay] \in {cRows, {}}
    BY <2>2 DEF StoreInv, Backed
  <2>5. cached => table'[cDay] \in {cRows, {}}
    BY <1>1, <2>1, <2>4
  <2>6. Backed'
    BY <2>1, <2>4, <2>5 DEF Backed
  <2> QED BY <2>3, <2>6
<1>7. CASE LoadInsert(p)
  <2>1. /\ table' = [table EXCEPT ![scanned[p].day] = scanned[p].rows] /\ scanned[p].day \in AllDates
        /\ pc' = [pc EXCEPT ![p] = "meta"] /\ UNCHANGED <<cached, cRows, cDay, scanned>>
        /\ InRefresh(p)
    BY <1>2, <1>7 DEF LoadInsert, Goto, Loading, cacheVars, InRefresh
  <2>2. \A q \in Pages : ~Stored(q) /\ (Stored(q)' <=> q = p)
    BY <1>1, <1>7, <2>1, OthersWait DEF Stored, LoadInsert
  <2>3. table'[scanned[p].day] = scanned[p].rows
    BY <1>1, <2>1
  <2>4. StoredIsThere'
    BY <2>1, <2>2, <2>3 DEF StoredIsThere
  <2>5. cached => cDay \in AllDates /\ table[cDay] \in {cRows, {}}
    BY <2>2 DEF StoreInv, Backed
  <2>6. cached /\ scanned[p].day # cDay => table'[cDay] = table[cDay]
    BY <1>1, <2>1, <2>5
  <2>7. Backed'
    BY <2>1, <2>2, <2>5, <2>6 DEF Backed
  <2> QED BY <2>4, <2>7
<1>8. CASE LoadMeta(p)
  <2>1. UNCHANGED <<table, cached, cRows, cDay, scanned>>
    BY <1>8 DEF LoadMeta, cacheVars
  <2>2. \A q \in Pages : Stored(q)' <=> Stored(q)
    BY <1>1, <1>8 DEF LoadMeta, Goto, Stored
  <2> QED BY <2>1, <2>2, NothingStored
<1>9. CASE FillCache(p) \/ StatsFails(p)
  <2>1. /\ pc[p] = "cache" /\ table' = table
        /\ cRows' = scanned[p].rows /\ cDay' = scanned[p].day
    BY <1>9 DEF FillCache, StatsFails, CacheScan, storeVars
  <2>2. PICK where \in {"studies", "idle"} : pc' = [pc EXCEPT ![p] = where]
    BY <1>9 DEF FillCache, StatsFails, Leave, Goto
  <2>3. \A q \in Pages : ~Stored(q)'
    BY <1>1, <2>1, <2>2, OthersWait DEF Stored, InRefresh
  <2>4. StoredIsThere'
    BY <2>3 DEF StoredIsThere
  <2>5. scanned[p].day \in AllDates /\ table[scanned[p].day] = scanned[p].rows
    BY <1>2, <2>1 DEF Loading, StoreInv, StoredIsThere, Stored
  <2> QED BY <2>1, <2>4, <2>5 DEF Backed
<1> QED
  BY <1>3, <1>4, <1>5, <1>6, <1>7, <1>8, <1>9 DEF PageStep

\* A step that leaves the table, the mutex, the cache and the refreshes alone.
LEMMA StoreKept ==
    ASSUME StoreInv, UNCHANGED <<table, mu, cached, cRows, cDay, pc, scanned>>
    PROVE  StoreInv'
BY DEF StoreInv, OneRefresh, InRefresh, StoredIsThere, Backed, Stored

LEMMA StepStores ==
    ASSUME TypeInv, StoreInv, [Next]_vars
    PROVE  StoreInv'
<1> USE DEF TypeInv
<1>1. CASE UNCHANGED vars
  BY <1>1, StoreKept DEF vars, storeVars, cacheVars, pageVars
<1>2. ASSUME NEW p \in Pages, PageArrives(p) \/ PageStep(p) PROVE StoreInv'
  <2>1. OneRefresh
    BY DEF StoreInv
  <2>2. OneRefresh'
    BY <1>2, <2>1, StepKeepsApart
  <2> QED BY <1>2, <2>2, PageStores DEF StoreInv
<1>3. ASSUME NEW a \in Apis, ApiStep(a) PROVE StoreInv'
  <2>1. /\ req[a] \in Requests /\ table' = table
        /\ \E n \in Nat \ {0}, g \in GotRec : ProceedTo(a, n, g)
    BY <1>3, ApiMoves
  <2>2. UNCHANGED <<cacheVars, pageVars>>
    BY <2>1 DEF ProceedTo
  <2> QED BY <2>1, <2>2, StoreKept DEF cacheVars, pageVars
<1>4. ASSUME NEW a \in Apis, ApiLeaves(a) \/ \E r \in Requests : ApiArrives(a, r) PROVE StoreInv'
  BY <1>4, StoreKept DEF ApiLeaves, ApiArrives, storeVars, cacheVars, pageVars
<1>5. CASE NewDay \/ TTLExpires \/ Shutdown
  BY <1>5, StoreKept DEF NewDay, TTLExpires, Shutdown, storeVars, cacheVars, pageVars
<1>6. CASE Restart
  <2>1. /\ mu' = NoProc /\ NoProc \notin Pages /\ cached' = FALSE
        /\ \A p \in Pages : pc'[p] \in {"lock", "idle"}
    BY <1>6, ServeAssumption DEF Restart
  <2> QED BY <2>1 DEF StoreInv, OneRefresh, InRefresh, StoredIsThere, Backed, Stored
<1> QED BY <1>1, <1>2, <1>3, <1>4, <1>5, <1>6 DEF Next, WhileUp

LEMMA InitStores ==
    ASSUME Init
    PROVE  StoreInv
<1>1. /\ mu = NoProc /\ NoProc \notin Pages /\ cached = FALSE
      /\ \A p \in Pages : pc[p] \in {"lock", "idle"}
  BY ServeAssumption DEF Init, Started
<1> QED BY <1>1 DEF StoreInv, OneRefresh, InRefresh, StoredIsThere, Backed, Stored

THEOREM Stores == Spec => []StoreInv
<1>1. Init => StoreInv
  BY InitStores
<1>2. TypeInv /\ StoreInv /\ [Next]_vars => StoreInv'
  BY StepStores
<1> QED BY <1>1, <1>2, Types, PTL DEF Spec

\* Server.mu keeps the refreshes apart: exactly the goroutine that holds it is
\* between Lock and Unlock, on every error path too.
THEOREM RefreshesExclude == Spec => []OneRefresh
<1>1. StoreInv => OneRefresh
  BY DEF StoreInv
<1> QED BY <1>1, Stores, PTL

\* Whenever nobody refreshes, the cached rows are the stored rows of the
\* cached day, or that day has been lost from the table by a failed reload.
THEOREM CacheIsBacked == Spec => []CacheBackedByStore
<1>1. StoreInv => CacheBackedByStore
  <2> SUFFICES ASSUME StoreInv, mu = NoProc, cached PROVE table[cDay] \in {cRows, {}}
    BY DEF CacheBackedByStore
  <2>1. \A p \in Pages : ~Stored(p)
    BY ServeAssumption DEF StoreInv, OneRefresh, InRefresh, Stored
  <2> QED BY <2>1 DEF StoreInv, Backed
<1> QED BY <1>1, Stores, PTL

-----------------------------------------------------------------------------
(* A request that nobody disturbs *)

\* What its dates came to so far is true.
RunsTrue(a) == \A i \in 1..Len(got[a].runs) : OutcomeTrue(req[a], got[a].runs[i])

\* An error it does not get over is its last step.
GapsOK(a) ==
    \A i \in 1..Len(got[a].runs) :
        got[a].runs[i].outcome # "rows" =>
            \/ Tolerated(req[a], i)
            \/ got[a].end \in {"noprev", "error"} /\ i = Len(got[a].runs)

\* The dates it took so far are the first k of W.
RanFirst(a, k, W) ==
    Len(got[a].runs) = k /\ \A i \in 1..k : got[a].runs[i].for = W[i]

\* At micro-step m of a block that selects and runs d.
Phase(a, m, d) ==
    /\ m >= 2 => got[a].for = d
    /\ m = 3 => activeDate = d
    /\ m = 4 => got[a].on = d

BlockAt(a, n, W) ==
    \E j \in 0..(Len(W) - 1) : \E m \in 1..4 :
        at[a] = n + 4 * j + m /\ RanFirst(a, j, W) /\ Phase(a, m, W[j + 1])

MultiKinds == {"pit", "entries", "exits", "changes", "backtest"}

Begun(a) ==
    \/ req[a].kind = "backtest" /\ at[a] = 1 /\ Len(got[a].runs) = 0
    \/ BlockAt(a, Lead(req[a]), Meant(req[a], got[a].listed))

ListedThere(a) == \A i \in 1..Len(got[a].listed) : Exists(got[a].listed[i])

TookAll(a) == RanFirst(a, Len(Meant(req[a], got[a].listed)), Meant(req[a], got[a].listed))

\* How far it is, or how it ended.
Place(a) ==
    /\ req[a].kind = "scan" /\ got[a].end = "none" /\ at[a] = 2 => got[a].on = activeDate
    /\ req[a].kind = "select" /\ got[a].end = "none" => Len(got[a].runs) = 0
    /\ req[a].kind \in MultiKinds /\ got[a].end = "none" => Begun(a)
    /\ got[a].end \in {"ok", "noprev"} /\ req[a].kind # "scan" => TookAll(a)
    /\ got[a].end = "noprev" => got[a].runs[Len(got[a].runs)].outcome # "rows"

Sound(a) == RunsTrue(a) /\ GapsOK(a) /\ ListedThere(a) /\ Place(a)

SoundInv == \A a \in Apis : req[a] # NoReq /\ a \notin disturbed \cup reloaded => Sound(a)

\* The op at micro-step m of block j + 1.
LEMMA BlockOp ==
    ASSUME NEW P, NEW n \in Nat, NEW W \in Seq(Dates), Blocks(P, n, W),
           NEW j \in 0..(Len(W) - 1), NEW m \in 1..4
    PROVE  /\ m = 1 => P[n + 4 * j + m] = Count(W[j + 1])
           /\ m = 2 => P[n + 4 * j + m] = Assign(W[j + 1])
           /\ m = 3 => P[n + 4 * j + m] = Read
           /\ m = 4 => P[n + 4 * j + m] = Query
           /\ n + 4 * j + m + 1 <= Len(P) <=> m # 4 \/ j + 1 < Len(W)
           /\ W[j + 1] \in Dates /\ j \in Nat /\ Len(W) \in Nat
           /\ j + 1 < Len(W) => j + 1 \in 0..(Len(W) - 1)
           /\ j + 1 = Len(W) \/ j + 1 < Len(W)
<1>1. Len(W) \in Nat /\ Len(P) = n + 4 * Len(W)
  BY DEF Blocks
<1>2. PICK k \in 1..Len(W) : k = j + 1
  BY <1>1
<1>3. W[k] \in Dates
  BY ElementOfSeq
<1>4. /\ P[n + 4 * k - 3] = Count(W[k])
      /\ P[n + 4 * k - 2] = Assign(W[k])
      /\ P[n + 4 * k - 1] = Read
      /\ P[n + 4 * k] = Query
  BY DEF Blocks
<1>5. /\ n + 4 * k - 3 = n + 4 * j + 1 /\ n + 4 * k - 2 = n + 4 * j + 2
      /\ n + 4 * k - 1 = n + 4 * j + 3 /\ n + 4 * k = n + 4 * j + 4
  BY <1>1, <1>2
<1>6. n + 4 * j + m + 1 <= Len(P) <=> m # 4 \/ j + 1 < Len(W)
  BY <1>1
<1>7. /\ j + 1 < Len(W) => j + 1 \in 0..(Len(W) - 1)
      /\ j + 1 = Len(W) \/ j + 1 < Len(W)
      /\ j \in Nat
  BY <1>1
<1> QED BY <1>1, <1>2, <1>3, <1>4, <1>5, <1>6, <1>7

LEMMA OpNames ==
    /\ \A d : Count(d).op = "count" /\ Count(d).date = d /\ Assign(d).op = "assign" /\ Assign(d).date = d
    /\ List.op = "list" /\ Read.op = "read" /\ Query.op = "query"
BY DEF Count, Assign, List, Read, Query

\* Going on by one micro-step with g collected.
LEMMA OneOn ==
    ASSUME ApisOK, NEW a \in Apis, Running(a), NEW n \in Nat \ {0},
           NEW g \in GotRec, ProceedTo(a, n, g), g.end = "none", g.listed = got[a].listed
    PROVE  /\ at'[a] = n
           /\ got'[a].listed = got[a].listed /\ got'[a].for = g.for /\ got'[a].on = g.on
           /\ got'[a].runs = g.runs
           /\ n <= Len(Steps(a)) => got'[a].end = "none"
           /\ ~(n <= Len(Steps(a))) => got'[a].end = "ok"
<1>1. req[a] \in Requests /\ got[a].listed \in Seq(Dates)
  BY ApiHolds DEF Running
<1>2. Len(Steps(a)) \in Nat
  BY <1>1, ProgramFacts DEF Steps
<1>3. /\ at'[a] = n
      /\ got'[a] = (IF n > Len(Program(req[a], g.listed)) THEN [g EXCEPT !.end = "ok"] ELSE g)
  BY <1>1, Proceeds
<1>4. got'[a] = (IF n > Len(Steps(a)) THEN [g EXCEPT !.end = "ok"] ELSE g)
  BY <1>3 DEF Steps
<1>5. n > Len(Steps(a)) <=> ~(n <= Len(Steps(a)))
  BY <1>2
<1>6. CASE n > Len(Steps(a))
  <2>1. got'[a] = [g EXCEPT !.end = "ok"]
    BY <1>4, <1>6
  <2>2. /\ got'[a].listed = g.listed /\ got'[a].for = g.for /\ got'[a].on = g.on
        /\ got'[a].runs = g.runs /\ got'[a].end = "ok"
    BY <2>1 DEF GotRec
  <2> QED BY <1>3, <1>5, <1>6, <2>2
<1>7. CASE ~(n > Len(Steps(a)))
  <2>1. got'[a] = g
    BY <1>4, <1>7
  <2> QED BY <1>3, <1>5, <1>7, <2>1
<1> QED BY <1>6, <1>7

LEMMA AppendFacts ==
    ASSUME NEW S, NEW s \in Seq(S), NEW x
    PROVE  /\ Len(Append(s, x)) = Len(s) + 1 /\ Append(s, x)[Len(s) + 1] = x
           /\ \A i \in 1..Len(s) : Append(s, x)[i] = s[i]
OBVIOUS

\* The end of a request that went on to micro-step n.
EndRule(a, n) ==
    /\ n <= Len(Steps(a)) => got'[a].end = "none"
    /\ ~(n <= Len(Steps(a))) => got'[a].end = "ok"

\* A micro-step that only prepares a Run.
Prepares(a) == CountFinds(a) \/ AssignActive(a) \/ ReadActive(a)

\* A micro-step with which a date has come to something.
Finishes(a) == RunQuery(a) \/ RunFails(a) \/ CountMisses(a) \/ CountFails(a)

\* What each micro-step does, in terms of the request itself.
LEMMA ApiEffects ==
    ASSUME CoreOK, ApisOK, NEW a \in Apis, ApiStep(a)
    PROVE  /\ Running(a) /\ req[a] \in Requests /\ req' = req /\ table' = table
           /\ \A d : RunAt(d)' = RunAt(d) /\ (Exists(d)' <=> Exists(d))
           /\ Op(a).op = "list" => (ListSnapshots(a) \/ ListFails(a)) /\ activeDate' = activeDate
           /\ Op(a).op = "count" => (CountFinds(a) \/ Finishes(a)) /\ activeDate' = activeDate
           /\ Op(a).op = "assign" => AssignActive(a) /\ activeDate' = Op(a).date
           /\ Op(a).op = "read" => ReadActive(a) /\ activeDate' = activeDate
           /\ Op(a).op = "query" => Finishes(a) /\ activeDate' = activeDate
<1>1. Running(a) /\ req[a] \in Requests /\ table' = table
  BY ApiMoves
<1>2. req' = req
  BY ApiMoves DEF ProceedTo
<1>3. \A d : RunAt(d)' = RunAt(d) /\ (Exists(d)' <=> Exists(d))
  BY <1>1 DEF RunAt, Exists
<1>4. /\ Op(a).op = "list" => (ListSnapshots(a) \/ ListFails(a)) /\ activeDate' = activeDate
      /\ Op(a).op = "count" => (CountFinds(a) \/ Finishes(a)) /\ activeDate' = activeDate
      /\ Op(a).op = "assign" => AssignActive(a) /\ activeDate' = Op(a).date
      /\ Op(a).op = "read" => ReadActive(a) /\ activeDate' = activeDate
      /\ Op(a).op = "query" => Finishes(a) /\ activeDate' = activeDate
  BY DEF ApiStep, Finishes, ListSnapshots, ListFails, CountFinds, CountMisses, CountFails,
         AssignActive, ReadActive, RunQuery, RunFails, storeVars
<1> QED BY <1>1, <1>2, <1>3, <1>4

LEMMA PrepareEffects ==
    ASSUME CoreOK, ApisOK, NEW a \in Apis, Running(a), Prepares(a)
    PROVE  /\ at'[a] = at[a] + 1 /\ got'[a].listed = got[a].listed /\ EndRule(a, at[a] + 1)
           /\ got'[a].runs = got[a].runs
           /\ CountFinds(a) => got'[a].for = Op(a).date
           /\ AssignActive(a) => got'[a].for = got[a].for
           /\ ReadActive(a) => got'[a].for = got[a].for /\ got'[a].on = activeDate
<1>1. /\ req[a] \in Requests /\ at[a] \in Nat \ {0} /\ got[a] \in GotRec
      /\ got[a].listed \in Seq(Dates) /\ got[a].for \in AnyDate /\ got[a].on \in AnyDate
      /\ Op(a).op \in {"count", "assign"} => Op(a).date \in Dates
  BY ApiHolds DEF Running
<1>2. PICK n \in Nat \ {0} : n = at[a] + 1
  BY <1>1
<1>3. got[a].end = "none" /\ activeDate \in AnyDate
  BY DEF Running, CoreOK
<1>4. ASSUME CountFinds(a)
      PROVE  /\ at'[a] = n /\ got'[a].listed = got[a].listed /\ EndRule(a, n)
             /\ got'[a].for = Op(a).date /\ got'[a].runs = got[a].runs
  <2>1. Op(a).date \in AnyDate
    BY <1>1, <1>4, DateFacts DEF CountFinds
  <2>2. PICK g \in GotRec : g = [got[a] EXCEPT !.for = Op(a).date]
    BY <1>1, <2>1 DEF GotRec
  <2>3. g.end = "none" /\ g.listed = got[a].listed /\ g.for = Op(a).date /\ g.runs = got[a].runs
    BY <1>1, <1>3, <2>2 DEF GotRec
  <2>4. ProceedTo(a, n, g)
    BY <1>2, <1>4, <2>2 DEF CountFinds
  <2> QED BY <2>3, <2>4, OneOn DEF EndRule
<1>5. ASSUME AssignActive(a)
      PROVE  /\ at'[a] = n /\ got'[a].listed = got[a].listed /\ EndRule(a, n)
             /\ got'[a].for = got[a].for /\ got'[a].runs = got[a].runs
  <2>1. PICK g \in GotRec : g = got[a]
    BY <1>1
  <2>2. ProceedTo(a, n, g)
    BY <1>2, <1>5, <2>1 DEF AssignActive
  <2>3. g.end = "none" /\ g.listed = got[a].listed /\ g.for = got[a].for /\ g.runs = got[a].runs
    BY <1>3, <2>1
  <2> QED BY <2>2, <2>3, OneOn DEF EndRule
<1>6. ASSUME ReadActive(a)
      PROVE  /\ at'[a] = n /\ got'[a].listed = got[a].listed /\ EndRule(a, n)
             /\ got'[a].for = got[a].for /\ got'[a].on = activeDate /\ got'[a].runs = got[a].runs
  <2>1. PICK g \in GotRec : g = [got[a] EXCEPT !.on = activeDate]
    BY <1>1, <1>3 DEF GotRec
  <2>2. ProceedTo(a, n, g)
    BY <1>2, <1>6, <2>1 DEF ReadActive
  <2>3. g.end = "none" /\ g.listed = got[a].listed /\ g.for = got[a].for /\ g.on = activeDate /\ g.runs = got[a].runs
    BY <1>1, <1>3, <2>1 DEF GotRec
  <2> QED BY <2>2, <2>3, OneOn DEF EndRule
<1>7. at'[a] = n /\ got'[a].listed = got[a].listed /\ EndRule(a, n) /\ got'[a].runs = got[a].runs
  BY <1>4, <1>5, <1>6 DEF Prepares
<1>8. at'[a] = at[a] + 1 /\ EndRule(a, at[a] + 1)
  BY <1>2, <1>7 DEF EndRule
<1> QED BY <1>4, <1>5, <1>6, <1>7, <1>8

\* After a date has come to an error: the request goes on to micro-step n.
GoesOn(a, n) == at'[a] = n /\ EndRule(a, n)

\* A request that ends where it is.
LEMMA EndsHere ==
    ASSUME ApisOK, NEW a \in Apis, Running(a), NEW h \in GotRec, ProceedTo(a, at[a], h),
           h.listed = got[a].listed
    PROVE  got'[a] = h
<1>1. /\ req[a] \in Requests /\ at[a] \in Nat \ {0} /\ got[a].listed \in Seq(Dates)
      /\ at[a] \in 1..Len(Steps(a))
  BY ApiHolds DEF Running
<1>2. PICK l \in Nat : l = Len(Steps(a))
  BY <1>1, ProgramFacts DEF Steps
<1>3. got'[a] = (IF at[a] > Len(Program(req[a], h.listed)) THEN [h EXCEPT !.end = "ok"] ELSE h)
  BY <1>1, Proceeds
<1>4. ~(at[a] > l)
  BY <1>1, <1>2
<1> QED BY <1>2, <1>3, <1>4 DEF Steps

\* What a date came to, and how the request takes it.
Took(a, run) ==
    /\ got'[a].runs = Append(got[a].runs, run) /\ got'[a].listed = got[a].listed
    /\ Op(a).op \in {"count", "query"}
    /\ run.for = IF Op(a).op = "count" THEN Op(a).date ELSE got[a].for
    /\ run.outcome = "rows" => Op(a).op = "query" /\ run.rows = RunAt(got[a].on)
    /\ run.outcome = "missing" => ~Exists(run.for) /\ Op(a).op = "count"
    /\ \/ /\ GoesOn(a, IF Op(a).op = "count" THEN at[a] + 4 ELSE at[a] + 1)
          /\ run.outcome # "rows" => IF Op(a).op = "count" THEN Skips(a) ELSE req[a].kind = "backtest"
       \/ run.outcome # "rows" /\ got'[a].end = "error"
       \/ run.outcome # "rows" /\ got'[a].end = "noprev" /\ NoPrev(a) /\ Op(a).op = "count"

LEMMA FinishEffects ==
    ASSUME CoreOK, ApisOK, NEW a \in Apis, Running(a), Finishes(a)
    PROVE  \E run \in RunRec : Took(a, run)
<1>1. /\ req[a] \in Requests /\ at[a] \in Nat \ {0} /\ got[a] \in GotRec /\ got[a].for \in AnyDate
      /\ Op(a).op \in {"count", "assign"} => Op(a).date \in Dates
  BY ApiHolds DEF Running
<1>2. got[a].end = "none" /\ req[a] # NoReq /\ table \in [AllDates -> SUBSET Symbols]
  BY DEF Running, CoreOK
<1>3. {} \in SUBSET Symbols /\ {"rows", "missing", "failed"} = Outcomes
  BY DEF Outcomes
<1>4. CASE CountMisses(a) \/ CountFails(a)
  <2>1. PICK why \in {"missing", "failed"} :
            SetActiveErrs(a, why) /\ (why = "missing" => ~Exists(Op(a).date))
    BY <1>4 DEF CountMisses, CountFails
  <2>2. Op(a).op = "count" /\ Op(a).date \in AnyDate
    BY <1>1, <1>4, DateFacts DEF CountMisses, CountFails
  <2>3. PICK g \in GotRec, run \in RunRec :
            /\ g = CameTo(a, Op(a).date, why, {}) /\ run = [for |-> Op(a).date, outcome |-> why, rows |-> {}]
            /\ g.runs = Append(got[a].runs, run) /\ g.listed = got[a].listed
            /\ g.end = got[a].end
    <3>1. PICK d \in AnyDate, R \in SUBSET Symbols : d = Op(a).date /\ R = {}
      BY <2>2
    <3>2. PICK o \in Outcomes : o = why
      BY <1>3
    <3>3. \E g \in GotRec : \E run \in RunRec :
              /\ g = CameTo(a, d, o, R) /\ run = [for |-> d, outcome |-> o, rows |-> R]
              /\ g.runs = Append(got[a].runs, run) /\ g.listed = got[a].listed
              /\ g.end = got[a].end
      BY <1>2, CameFacts
    <3> QED BY <3>1, <3>2, <3>3, Zenon
  <2>4. run.for = Op(a).date /\ run.outcome = why /\ why # "rows"
    BY <2>3
  <2>5. CASE Skips(a)
    <3>1. PICK n \in Nat \ {0} : n = at[a] + 4
      BY <1>1
    <3>2. ProceedTo(a, n, g)
      BY <2>1, <2>3, <2>5, <3>1 DEF SetActiveErrs
    <3>3. at'[a] = n /\ got'[a].listed = got[a].listed /\ got'[a].runs = g.runs /\ EndRule(a, n)
      BY <1>2, <2>3, <3>2, OneOn DEF EndRule
    <3>4. GoesOn(a, at[a] + 4)
      BY <3>1, <3>3 DEF GoesOn, EndRule
    <3>5. Took(a, run)
      BY <2>1, <2>2, <2>3, <2>4, <2>5, <3>3, <3>4 DEF Took
    <3> QED BY <3>5
  <2>6. CASE ~Skips(a)
    <3>1. PICK e \in {"ok", "noprev", "error"} : e = IF NoPrev(a) THEN "noprev" ELSE "error"
      OBVIOUS
    <3>2. PICK h \in GotRec : /\ h = [g EXCEPT !.end = e] /\ h.end = e
                              /\ h.runs = g.runs /\ h.listed = g.listed
      BY EndFacts
    <3>3. ProceedTo(a, at[a], h)
      BY <2>1, <2>3, <2>6, <3>1, <3>2 DEF SetActiveErrs
    <3>4. got'[a] = h
      BY <2>3, <3>2, <3>3, EndsHere
    <3>5. got'[a].end = "error" \/ (got'[a].end = "noprev" /\ NoPrev(a))
      BY <3>1, <3>2, <3>4
    <3>6. Took(a, run)
      BY <2>1, <2>2, <2>3, <2>4, <3>2, <3>4, <3>5 DEF Took
    <3> QED BY <3>6
  <2> QED BY <2>5, <2>6
<1>5. CASE RunQuery(a)
  <2>1. RunAt(got[a].on) \in SUBSET Symbols /\ Op(a).op = "query"
    BY <1>2, <1>5 DEF RunAt, RunQuery
  <2>2. PICK g \in GotRec, run \in RunRec :
            /\ g = CameTo(a, got[a].for, "rows", RunAt(got[a].on))
            /\ run = [for |-> got[a].for, outcome |-> "rows", rows |-> RunAt(got[a].on)]
            /\ g.runs = Append(got[a].runs, run) /\ g.listed = got[a].listed
            /\ g.end = got[a].end
    <3>1. PICK d \in AnyDate, R \in SUBSET Symbols, o \in Outcomes :
              d = got[a].for /\ R = RunAt(got[a].on) /\ o = "rows"
      BY <1>1, <1>3, <2>1
    <3>2. \E g \in GotRec : \E run \in RunRec :
              /\ g = CameTo(a, d, o, R) /\ run = [for |-> d, outcome |-> o, rows |-> R]
              /\ g.runs = Append(got[a].runs, run) /\ g.listed = got[a].listed
              /\ g.end = got[a].end
      BY <1>2, CameFacts
    <3> QED BY <3>1, <3>2, Zenon
  <2>3. run.for = got[a].for /\ run.outcome = "rows" /\ run.rows = RunAt(got[a].on)
    BY <2>2
  <2>4. PICK n \in Nat \ {0} : n = at[a] + 1
    BY <1>1
  <2>5. ProceedTo(a, n, g)
    BY <1>5, <2>2, <2>4 DEF RunQuery
  <2>6. at'[a] = n /\ got'[a].listed = got[a].listed /\ got'[a].runs = g.runs /\ EndRule(a, n)
    BY <1>2, <2>2, <2>5, OneOn DEF EndRule
  <2>7. GoesOn(a, at[a] + 1)
    BY <2>4, <2>6 DEF GoesOn, EndRule
  <2>8. Took(a, run)
    BY <2>1, <2>2, <2>3, <2>6, <2>7 DEF Took
  <2> QED BY <2>8
<1>6. CASE RunFails(a)
  <2>1. Op(a).op = "query"
    BY <1>6 DEF RunFails
  <2>2. PICK g \in GotRec, run \in RunRec :
            /\ g = CameTo(a, got[a].for, "failed", {})
            /\ run = [for |-> got[a].for, outcome |-> "failed", rows |-> {}]
            /\ g.runs = Append(got[a].runs, run) /\ g.listed = got[a].listed
            /\ g.end = got[a].end
    <3>1. PICK d \in AnyDate, R \in SUBSET Symbols, o \in Outcomes :
              d = got[a].for /\ R = {} /\ o = "failed"
      BY <1>1, <1>3
    <3>2. \E g \in GotRec : \E run \in RunRec :
              /\ g = CameTo(a, d, o, R) /\ run = [for |-> d, outcome |-> o, rows |-> R]
              /\ g.runs = Append(got[a].runs, run) /\ g.listed = got[a].listed
              /\ g.end = got[a].end
      BY <1>2, CameFacts
    <3> QED BY <3>1, <3>2, Zenon
  <2>3. run.for = got[a].for /\ run.outcome = "failed"
    BY <2>2
  <2>4. CASE req[a].kind = "backtest"
    <3>1. PICK n \in Nat \ {0} : n = at[a] + 1
      BY <1>1
    <3>2. ProceedTo(a, n, g)
      BY <1>6, <2>2, <2>4, <3>1 DEF RunFails
    <3>3. at'[a] = n /\ got'[a].listed = got[a].listed /\ got'[a].runs = g.runs /\ EndRule(a, n)
      BY <1>2, <2>2, <3>2, OneOn DEF EndRule
    <3>4. GoesOn(a, at[a] + 1)
      BY <3>1, <3>3 DEF GoesOn, EndRule
    <3>5. Took(a, run)
      BY <2>1, <2>2, <2>3, <2>4, <3>3, <3>4 DEF Took
    <3> QED BY <3>5
  <2>5. CASE req[a].kind # "backtest"
    <3>1. PICK h \in GotRec : /\ h = [g EXCEPT !.end = "error"] /\ h.end = "error"
                              /\ h.runs = g.runs /\ h.listed = g.listed
      BY EndFacts
    <3>2. ProceedTo(a, at[a], h)
      BY <1>6, <2>2, <2>5, <3>1 DEF RunFails
    <3>3. got'[a] = h
      BY <2>2, <3>1, <3>2, EndsHere
    <3>4. Took(a, run)
      BY <2>1, <2>2, <2>3, <3>1, <3>3 DEF Took
    <3> QED BY <3>4
  <2> QED BY <2>4, <2>5
<1> QED BY <1>4, <1>5, <1>6 DEF Finishes

LEMMA OutcomeKept ==
    ASSUME NEW r, NEW run, table' = table, r.kind # "scan" \/ activeDate' = activeDate
    PROVE  OutcomeTrue(r, run)' <=> OutcomeTrue(r, run)
BY DEF OutcomeTrue, RunAt, Exists

\* A step that adds nothing to what the dates came to.
LEMMA PrepareSound ==
    ASSUME NEW a \in Apis, RunsTrue(a), GapsOK(a), got[a].end = "none",
           req'[a] = req[a], table' = table, req[a].kind # "scan" \/ activeDate' = activeDate,
           got'[a].runs = got[a].runs
    PROVE  RunsTrue(a)' /\ GapsOK(a)'
<1>1. PICK r, rs : r = req[a] /\ rs = got[a].runs
  OBVIOUS
<1>2. \A i \in 1..Len(rs) : OutcomeTrue(r, rs[i])
  BY <1>1 DEF RunsTrue
<1>3. \A i \in 1..Len(rs) : OutcomeTrue(r, rs[i])'
  BY <1>1, <1>2, OutcomeKept
<1>4. RunsTrue(a)'
  BY <1>1, <1>3 DEF RunsTrue
<1>5. \A i \in 1..Len(rs) : rs[i].outcome # "rows" => Tolerated(r, i)
  BY <1>1 DEF GapsOK
<1>6. GapsOK(a)'
  <2>1. req'[a] = r /\ got'[a].runs = rs
    BY <1>1
  <2> QED BY <1>5, <2>1 DEF GapsOK
<1> QED BY <1>4, <1>6

\* A step with which one more date has come to something.
LEMMA FinishSound ==
    ASSUME NEW a \in Apis, RunsTrue(a), GapsOK(a), got[a].end = "none",
           req'[a] = req[a], table' = table, req[a].kind # "scan" \/ activeDate' = activeDate,
           got[a].runs \in Seq(RunRec), NEW run, got'[a].runs = Append(got[a].runs, run),
           OutcomeTrue(req[a], run),
           run.outcome # "rows" =>
               Tolerated(req[a], Len(got[a].runs) + 1) \/ got'[a].end \in {"noprev", "error"}
    PROVE  /\ RunsTrue(a)' /\ GapsOK(a)'
           /\ got'[a].runs[Len(got'[a].runs)] = run
           /\ Len(got'[a].runs) = Len(got[a].runs) + 1
           /\ got'[a].runs[Len(got[a].runs) + 1] = run
           /\ \A i \in 1..Len(got[a].runs) : got'[a].runs[i] = got[a].runs[i]
<1>1. PICK r : r = req[a]
  OBVIOUS
<1>2. PICK rs \in Seq(RunRec) : rs = got[a].runs
  OBVIOUS
<1>3. PICK k \in Nat : k = Len(rs)
  OBVIOUS
<1>4. PICK ns : ns = Append(rs, run)
  OBVIOUS
<1>5. Len(ns) = k + 1 /\ ns[k + 1] = run /\ \A i \in 1..k : ns[i] = rs[i]
  BY <1>3, <1>4, AppendFacts
<1>6. got'[a].runs = ns /\ req'[a] = r
  BY <1>1, <1>2, <1>4
<1>7. \A i \in 1..(k + 1) : i \in 1..k \/ i = k + 1
  OBVIOUS
<1>8. \A i \in 1..(k + 1) : OutcomeTrue(r, ns[i])
  <2>1. \A i \in 1..k : OutcomeTrue(r, rs[i])
    BY <1>1, <1>2, <1>3 DEF RunsTrue
  <2>2. OutcomeTrue(r, run)
    BY <1>1
  <2> QED BY <1>5, <1>7, <2>1, <2>2, Zenon
<1>9. \A i \in 1..(k + 1) : OutcomeTrue(r, ns[i])'
  BY <1>1, <1>8, OutcomeKept
<1>10. RunsTrue(a)'
  BY <1>5, <1>6, <1>9 DEF RunsTrue
<1>11. \A i \in 1..k : rs[i].outcome # "rows" => Tolerated(r, i)
  BY <1>1, <1>2, <1>3 DEF GapsOK
<1>12. run.outcome # "rows" => Tolerated(r, k + 1) \/ got'[a].end \in {"noprev", "error"}
  BY <1>1, <1>2, <1>3
<1>13. \A i \in 1..(k + 1) : ns[i].outcome # "rows" =>
          Tolerated(r, i) \/ (got'[a].end \in {"noprev", "error"} /\ i = k + 1)
  BY <1>5, <1>7, <1>11, <1>12, Zenon
<1>14. GapsOK(a)'
  BY <1>5, <1>6, <1>13 DEF GapsOK
<1> QED BY <1>2, <1>3, <1>5, <1>6, <1>10, <1>14

\* The blocks of a request: their dates, after n micro-steps.
Placed(a, n, W) == n = Lead(req[a]) /\ W = Meant(req[a], got[a].listed)

\* Where NoPrev and Skips are, in blocks.
LEMMA BlockPlaces ==
    ASSUME NEW a \in Apis, req[a] \in Requests, req[a].kind \in MultiKinds,
           NEW n \in Nat, NEW W \in Seq(Dates), Placed(a, n, W),
           NEW j \in 0..(Len(W) - 1), at[a] = n + 4 * j + 1
    PROVE  /\ NoPrev(a) => j + 1 = Len(W)
           /\ Skips(a) => Tolerated(req[a], j + 1)
<1>1. PICK r : r = req[a]
  OBVIOUS
<1>2. r.kind # "backtest" => n = 0
  BY <1>1 DEF Placed, Lead
<1>3. j \in Int
  OBVIOUS
<1>4. n = 0 /\ at[a] = 5 => j = 1
  BY <1>3
<1>5. n = 0 /\ at[a] = 13 => j = 3
  BY <1>3
<1>6. r.kind \in {"entries", "exits"} => Len(W) = 2
  BY <1>1 DEF Placed, Meant
<1>7. r.kind = "changes" => Len(W) = 4
  BY <1>1 DEF Placed, Meant
<1>8. NoPrev(a) => j + 1 = Len(W)
  <2>1. CASE r.kind \in {"entries", "exits"} /\ at[a] = 5
    <3>1. j = 1 /\ Len(W) = 2
      BY <1>2, <1>4, <1>6, <2>1
    <3> QED BY <3>1
  <2>2. CASE r.kind = "changes" /\ at[a] = 13
    <3>1. j = 3 /\ Len(W) = 4
      BY <1>2, <1>5, <1>7, <2>2
    <3> QED BY <3>1
  <2> QED BY <1>1, <2>1, <2>2 DEF NoPrev
<1>9. Skips(a) => Tolerated(r, j + 1)
  BY <1>1, <1>2, <1>4 DEF Skips, Tolerated
<1> QED BY <1>1, <1>8, <1>9

\* A step of a request within a block: to the next micro-step, to the next
\* block or to the end.
LEMMA BlockStep ==
    ASSUME CoreOK, ApisOK, NEW a \in Apis, ApiStep(a), RunsTrue(a), GapsOK(a), ListedThere(a),
           req[a].kind \in MultiKinds,
           NEW n \in Nat, NEW W \in Seq(Dates), Placed(a, n, W), Blocks(Steps(a), n, W),
           NEW j \in 0..(Len(W) - 1), NEW m \in 1..4, at[a] = n + 4 * j + m,
           RanFirst(a, j, W), Phase(a, m, W[j + 1])
    PROVE  /\ RunsTrue(a)' /\ GapsOK(a)' /\ got'[a].listed = got[a].listed
           /\ \/ got'[a].end = "none" /\ BlockAt(a, n, W)'
              \/ got'[a].end = "ok" /\ RanFirst(a, Len(W), W)'
              \/ /\ got'[a].end = "noprev" /\ RanFirst(a, Len(W), W)'
                 /\ got'[a].runs[Len(got'[a].runs)].outcome # "rows"
              \/ got'[a].end = "error"
<1>1. /\ Running(a) /\ req[a] \in Requests /\ req' = req /\ table' = table
      /\ Op(a).op = "count" => (CountFinds(a) \/ Finishes(a)) /\ activeDate' = activeDate
      /\ Op(a).op = "assign" => AssignActive(a) /\ activeDate' = Op(a).date
      /\ Op(a).op = "read" => ReadActive(a) /\ activeDate' = activeDate
      /\ Op(a).op = "query" => Finishes(a) /\ activeDate' = activeDate
  BY ApiEffects
<1>2. got[a].runs \in Seq(RunRec) /\ got[a].end = "none" /\ req[a].kind # "scan"
  BY <1>1, ApiHolds DEF Running, MultiKinds
<1>3. PICK d : d = W[j + 1]
  OBVIOUS
<1>4. /\ m = 1 => Op(a) = Count(d)
      /\ m = 2 => Op(a) = Assign(d)
      /\ m = 3 => Op(a) = Read
      /\ m = 4 => Op(a) = Query
      /\ n + 4 * j + m + 1 <= Len(Steps(a)) <=> m # 4 \/ j + 1 < Len(W)
      /\ n + 4 * j + 4 + 1 <= Len(Steps(a)) <=> j + 1 < Len(W)
      /\ d \in Dates /\ j \in Nat /\ Len(W) \in Nat
      /\ j + 1 < Len(W) => j + 1 \in 0..(Len(W) - 1)
      /\ j + 1 = Len(W) \/ j + 1 < Len(W)
  <2>1. PICK P : P = Steps(a)
    OBVIOUS
  <2>2. Blocks(P, n, W)
    BY <2>1
  <2>3. /\ m = 1 => P[n + 4 * j + m] = Count(W[j + 1])
        /\ m = 2 => P[n + 4 * j + m] = Assign(W[j + 1])
        /\ m = 3 => P[n + 4 * j + m] = Read
        /\ m = 4 => P[n + 4 * j + m] = Query
        /\ n + 4 * j + m + 1 <= Len(P) <=> m # 4 \/ j + 1 < Len(W)
        /\ W[j + 1] \in Dates /\ j \in Nat /\ Len(W) \in Nat
        /\ j + 1 < Len(W) => j + 1 \in 0..(Len(W) - 1)
        /\ j + 1 = Len(W) \/ j + 1 < Len(W)
    BY <2>2, BlockOp
  <2>4. Op(a) = P[n + 4 * j + m]
    BY <2>1 DEF Op
  <2>5. Len(P) = n + 4 * Len(W)
    BY <2>2 DEF Blocks
  <2>6. n + 4 * j + 4 + 1 <= Len(P) <=> j + 1 < Len(W)
    BY <2>3, <2>5
  <2> QED BY <1>3, <2>1, <2>3, <2>4, <2>6
<1>5. /\ m = 1 => Op(a).op = "count" /\ Op(a).date = d
      /\ m = 2 => Op(a).op = "assign" /\ Op(a).date = d
      /\ m = 3 => Op(a).op = "read"
      /\ m = 4 => Op(a).op = "query"
  BY <1>4, OpNames
<1>6. CASE Prepares(a)
  <2>1. m # 4
    BY <1>5, <1>6 DEF Prepares, CountFinds, AssignActive, ReadActive
  <2>2. /\ at'[a] = at[a] + 1 /\ got'[a].listed = got[a].listed /\ EndRule(a, at[a] + 1)
        /\ got'[a].runs = got[a].runs
        /\ CountFinds(a) => got'[a].for = Op(a).date
        /\ AssignActive(a) => got'[a].for = got[a].for
        /\ ReadActive(a) => got'[a].for = got[a].for /\ got'[a].on = activeDate
    BY <1>1, <1>6, PrepareEffects
  <2>3. RunsTrue(a)' /\ GapsOK(a)'
    BY <1>1, <1>2, <2>2, PrepareSound
  <2>4. PICK k \in 2..4 : k = m + 1
    BY <2>1
  <2>5. Phase(a, k, d)'
    <3>1. CASE m = 1
      <4>1. CountFinds(a)
        BY <1>5, <1>6, <3>1 DEF Prepares, AssignActive, ReadActive
      <4> QED BY <1>5, <2>2, <2>4, <3>1, <4>1 DEF Phase
    <3>2. CASE m = 2
      <4>1. AssignActive(a) /\ activeDate' = d /\ got[a].for = d
        BY <1>1, <1>3, <1>5, <3>2 DEF Phase
      <4> QED BY <2>2, <2>4, <3>2, <4>1 DEF Phase
    <3>3. CASE m = 3
      <4>1. ReadActive(a) /\ got[a].for = d /\ activeDate = d
        BY <1>1, <1>3, <1>5, <3>3 DEF Phase
      <4> QED BY <2>2, <2>4, <3>3, <4>1 DEF Phase
    <3> QED BY <2>1, <3>1, <3>2, <3>3
  <2>6. at'[a] = n + 4 * j + k /\ k \in 1..4
    BY <1>4, <2>2, <2>4
  <2>7. RanFirst(a, j, W)'
    BY <2>2 DEF RanFirst
  <2>8. BlockAt(a, n, W)'
    BY <1>3, <2>5, <2>6, <2>7 DEF BlockAt
  <2>9. got'[a].end = "none"
    BY <1>4, <2>1, <2>2 DEF EndRule
  <2> QED BY <2>2, <2>3, <2>8, <2>9
<1>7. CASE Finishes(a)
  <2>1. PICK run \in RunRec : Took(a, run)
    BY <1>1, <1>7, FinishEffects
  <2>2. m \in {1, 4}
    BY <1>4, <1>5, <2>1, OpNames DEF Took
  <2>3. run.for = d
    <3>1. m = 4 => got[a].for = d
      BY <1>3 DEF Phase
    <3> QED BY <1>5, <2>1, <2>2, <3>1 DEF Took
  <2>4. /\ got'[a].runs = Append(got[a].runs, run) /\ got'[a].listed = got[a].listed
        /\ run.outcome = "rows" => m = 4 /\ run.rows = RunAt(got[a].on)
        /\ run.outcome = "missing" => ~Exists(d)
        /\ activeDate' = activeDate
    BY <1>1, <1>5, <2>1, <2>2, <2>3 DEF Took
  <2>5. OutcomeTrue(req[a], run)
    <3>1. run.outcome = "rows" => run.rows = RunAt(run.for)
      <4>1. m = 4 => got[a].on = d
        BY <1>3 DEF Phase
      <4> QED BY <2>3, <2>4, <4>1
    <3>2. req[a].kind = "backtest" => Exists(d)
      <4>1. req[a].kind = "backtest" => W = got[a].listed
        BY DEF Placed, Meant
      <4>2. j + 1 \in 1..Len(W)
        BY <1>4
      <4> QED BY <1>3, <4>1, <4>2 DEF ListedThere
    <3> QED BY <1>2, <2>3, <2>4, <3>1, <3>2 DEF OutcomeTrue
  <2>6. PICK next \in Nat : next = n + 4 * j + 4 + 1
    BY <1>4
  <2>7. \/ /\ at'[a] = next /\ EndRule(a, next)
           /\ run.outcome # "rows" => Tolerated(req[a], j + 1)
        \/ run.outcome # "rows" /\ got'[a].end = "error"
        \/ run.outcome # "rows" /\ got'[a].end = "noprev" /\ j + 1 = Len(W)
    <3>1. CASE m = 1
      <4>1. /\ NoPrev(a) => j + 1 = Len(W)
            /\ Skips(a) => Tolerated(req[a], j + 1)
        BY <1>1, <3>1, BlockPlaces
      <4>2. at[a] + 4 = next
        BY <1>4, <2>6, <3>1
      <4>3. Op(a).op = "count"
        BY <1>5, <3>1
      <4> QED BY <2>1, <4>1, <4>2, <4>3 DEF Took, GoesOn
    <3>2. CASE m = 4
      <4>1. req[a].kind = "backtest" => Tolerated(req[a], j + 1)
        BY DEF Tolerated
      <4>2. at[a] + 1 = next
        BY <1>4, <2>6, <3>2
      <4>3. Op(a).op = "query"
        BY <1>5, <3>2
      <4> QED BY <2>1, <4>1, <4>2, <4>3 DEF Took, GoesOn
    <3> QED BY <2>2, <3>1, <3>2
  <2>8. Len(got[a].runs) = j /\ \A i \in 1..j : got[a].runs[i].for = W[i]
    BY DEF RanFirst
  <2>9. /\ RunsTrue(a)' /\ GapsOK(a)'
        /\ got'[a].runs[Len(got'[a].runs)] = run
        /\ Len(got'[a].runs) = j + 1 /\ got'[a].runs[j + 1] = run
        /\ \A i \in 1..j : got'[a].runs[i] = got[a].runs[i]
    <3>1. run.outcome # "rows" =>
              Tolerated(req[a], Len(got[a].runs) + 1) \/ got'[a].end \in {"noprev", "error"}
      BY <2>7, <2>8
    <3>2. /\ RunsTrue(a)' /\ GapsOK(a)'
          /\ got'[a].runs[Len(got'[a].runs)] = run
          /\ Len(got'[a].runs) = Len(got[a].runs) + 1
          /\ got'[a].runs[Len(got[a].runs) + 1] = run
          /\ \A i \in 1..Len(got[a].runs) : got'[a].runs[i] = got[a].runs[i]
      BY <1>1, <1>2, <2>4, <2>5, <3>1, FinishSound
    <3> QED BY <2>8, <3>2
  <2>10. RanFirst(a, j + 1, W)'
    <3>1. \A i \in 1..(j + 1) : i \in 1..j \/ i = j + 1
      BY <1>4
    <3> QED BY <1>3, <2>3, <2>8, <2>9, <3>1, Zenon DEF RanFirst
  <2>11. CASE at'[a] = next /\ EndRule(a, next)
    <3>1. CASE j + 1 < Len(W)
      <4>1. got'[a].end = "none"
        BY <1>4, <2>6, <2>11, <3>1 DEF EndRule
      <4>2. PICK k \in 0..(Len(W) - 1) : k = j + 1
        BY <1>4, <3>1
      <4>3. at'[a] = n + 4 * k + 1
        BY <1>4, <2>6, <2>11, <4>2
      <4>4. Phase(a, 1, W[k + 1])'
        BY DEF Phase
      <4>5. RanFirst(a, k, W)'
        BY <2>10, <4>2
      <4>6. BlockAt(a, n, W)'
        BY <4>3, <4>4, <4>5 DEF BlockAt
      <4> QED BY <2>4, <2>9, <4>1, <4>6
    <3>2. CASE j + 1 = Len(W)
      <4>1. got'[a].end = "ok"
        BY <1>4, <2>6, <2>11, <3>2 DEF EndRule
      <4>2. RanFirst(a, Len(W), W)'
        BY <2>10, <3>2
      <4> QED BY <2>4, <2>9, <4>1, <4>2
    <3> QED BY <1>4, <3>1, <3>2
  <2>12. CASE run.outcome # "rows" /\ got'[a].end = "noprev" /\ j + 1 = Len(W)
    <3>1. RanFirst(a, Len(W), W)'
      BY <2>10, <2>12
    <3> QED BY <2>4, <2>9, <2>12, <3>1
  <2> QED BY <2>4, <2>7, <2>9, <2>11, <2>12
<1>8. m \in {1, 2, 3, 4}
  OBVIOUS
<1> QED BY <1>1, <1>5, <1>6, <1>7, <1>8 DEF Prepares

\* ListSnapshots, the first step of a backtest.
LEMMA ListStep ==
    ASSUME CoreOK, ApisOK, NEW a \in Apis, ApiStep(a), ListSnapshots(a), Len(got[a].runs) = 0
    PROVE  /\ req'[a].kind = "backtest" /\ Len(got'[a].runs) = 0
           /\ ListedThere(a)' /\ got'[a].listed \in Seq(Dates)
           /\ \/ got'[a].end = "none" /\ BlockAt(a, 1, got[a].listed)'
              \/ got'[a].end = "ok" /\ RanFirst(a, Len(got[a].listed), got[a].listed)'
<1>1. /\ Running(a) /\ req' = req /\ table' = table /\ Op(a).op = "list"
      /\ \A d : RunAt(d)' = RunAt(d) /\ (Exists(d)' <=> Exists(d))
  BY ApiEffects DEF ListSnapshots
<1>2. /\ req[a] \in Requests /\ at[a] = 1 /\ got[a] \in GotRec /\ req[a].kind = "backtest"
  BY <1>1, ApiHolds DEF Running
<1>3. PICK s \in Descending({d \in Dates : Exists(d)}) :
          ProceedTo(a, at[a] + 1, [got[a] EXCEPT !.listed = s])
  BY DEF ListSnapshots
<1>4. s \in Seq(Dates) /\ \A i \in 1..Len(s) : Exists(s[i])
  BY ListedFacts
<1>5. PICK g \in GotRec : g = [got[a] EXCEPT !.listed = s]
  BY <1>2, <1>4 DEF GotRec
<1>6. g.listed = s /\ g.runs = got[a].runs /\ g.end = "none"
  BY <1>1, <1>2, <1>5 DEF GotRec, Running
<1>7. PICK n \in Nat \ {0} : n = 2
  OBVIOUS
<1>8. ProceedTo(a, n, g)
  BY <1>2, <1>3, <1>5, <1>7
<1>9. /\ at'[a] = n
      /\ got'[a] = (IF n > Len(Program(req[a], s)) THEN [g EXCEPT !.end = "ok"] ELSE g)
  BY <1>2, <1>6, <1>8, Proceeds
<1>10. got'[a].listed = s /\ got'[a].runs = got[a].runs
  BY <1>6, <1>9 DEF GotRec
<1>11. Blocks(Program(req[a], s), 1, s)
  BY <1>2, <1>4, ProgramBlocks DEF Meant, Lead
<1>12. PICK l \in Nat : l = Len(s)
  BY <1>4
<1>13. Len(Program(req[a], s)) = 1 + 4 * l
  BY <1>11, <1>12 DEF Blocks
<1>14. Len(got'[a].runs) = 0
  BY <1>10
<1>15. \A i \in 1..0 : FALSE
  OBVIOUS
<1>16. RanFirst(a, 0, s)'
  BY <1>14, <1>15, Zenon DEF RanFirst
<1>17. req'[a].kind = "backtest" /\ got'[a].listed \in Seq(Dates) /\ ListedThere(a)'
  <2>1. \A i \in 1..Len(s) : Exists(s[i])'
    BY <1>1, <1>4, Zenon
  <2> QED BY <1>1, <1>2, <1>4, <1>10, <2>1 DEF ListedThere
<1>18. CASE l = 0
  <2>1. n > Len(Program(req[a], s))
    BY <1>7, <1>13, <1>18
  <2>2. got'[a].end = "ok"
    BY <1>9, <2>1 DEF GotRec
  <2>3. RanFirst(a, Len(s), s)'
    BY <1>12, <1>16, <1>18
  <2>4. RanFirst(a, Len(got[a].listed), got[a].listed)'
    BY <1>10, <2>3
  <2> QED BY <1>14, <1>17, <2>2, <2>4, Zenon
<1>19. CASE l # 0
  <2>1. ~(n > Len(Program(req[a], s)))
    BY <1>7, <1>13, <1>19
  <2>2. got'[a].end = "none"
    BY <1>6, <1>9, <2>1
  <2>3. 0 \in 0..(Len(s) - 1) /\ 1 \in 1..4 /\ n = 1 + 4 * 0 + 1
    BY <1>7, <1>12, <1>19
  <2>4. Phase(a, 1, s[0 + 1])'
    BY DEF Phase
  <2>5. BlockAt(a, 1, s)'
    BY <1>9, <1>16, <2>3, <2>4, Zenon DEF BlockAt
  <2>6. BlockAt(a, 1, got[a].listed)'
    BY <1>10, <2>5
  <2> QED BY <1>14, <1>17, <2>2, <2>6, Zenon
<1> QED BY <1>18, <1>19

LEMMA ListErrs ==
    ASSUME ApisOK, NEW a \in Apis, Running(a), ListFails(a)
    PROVE  /\ got'[a].end = "error" /\ got'[a].runs = got[a].runs
           /\ got'[a].listed = got[a].listed
<1>1. got[a] \in GotRec
  BY ApiHolds DEF Running
<1>2. PICK h \in GotRec : /\ h = [got[a] EXCEPT !.end = "error"] /\ h.end = "error"
                          /\ h.runs = got[a].runs /\ h.listed = got[a].listed
  BY <1>1, EndFacts
<1>3. got'[a] = h
  BY <1>2, EndsHere DEF ListFails
<1> QED BY <1>2, <1>3

\* With no date taken, nothing is claimed of what the dates came to.
LEMMA NothingTaken ==
    ASSUME NEW a \in Apis, Len(got'[a].runs) = 0
    PROVE  RunsTrue(a)' /\ GapsOK(a)'
<1>1. \A i \in 1..Len(got'[a].runs) : FALSE
  OBVIOUS
<1> QED BY <1>1 DEF RunsTrue, GapsOK

LEMMA ListedKept ==
    ASSUME NEW a \in Apis, ListedThere(a), table' = table, got'[a].listed = got[a].listed
    PROVE  ListedThere(a)'
BY DEF ListedThere, Exists

\* A step of a point-in-time query, a detector or a backtest.
LEMMA MultiStep ==
    ASSUME CoreOK, ApisOK, NEW a \in Apis, ApiStep(a), req[a].kind \in MultiKinds, Sound(a)
    PROVE  Sound(a)'
<1>1. Running(a) /\ req[a] \in Requests /\ req' = req /\ table' = table
  BY ApiEffects
<1>2. got[a].listed \in Seq(Dates)
  BY <1>1, ApiHolds DEF Running
<1>3. PICK r \in Requests : r = req[a]
  BY <1>1
<1>4. PICK l \in Seq(Dates) : l = got[a].listed
  BY <1>2
<1>5. r.kind \in MultiKinds /\ req'[a] = r /\ r.kind # "scan" /\ r.kind # "select"
  BY <1>1, <1>3 DEF MultiKinds
<1>6. RunsTrue(a) /\ GapsOK(a) /\ ListedThere(a) /\ Begun(a) /\ got[a].end = "none"
  BY <1>1 DEF Sound, Place, Running
<1>7. PICK n \in Nat : n = Lead(r)
  BY DEF Lead
<1>8. PICK W \in Seq(Dates) : W = Meant(r, l)
  BY <1>5, ProgramBlocks DEF MultiKinds
<1>9. Blocks(Steps(a), n, W) /\ (r.kind = "backtest" => Steps(a)[1] = List)
  BY <1>3, <1>4, <1>5, <1>7, <1>8, ProgramBlocks DEF MultiKinds, Steps
<1>10. ASSUME \/ got'[a].end = "none" /\ Begun(a)'
              \/ got'[a].end = "ok" /\ TookAll(a)'
              \/ /\ got'[a].end = "noprev" /\ TookAll(a)'
                 /\ got'[a].runs[Len(got'[a].runs)].outcome # "rows"
              \/ got'[a].end = "error"
       PROVE  Place(a)'
  BY <1>5, <1>10 DEF Place
<1>11. CASE r.kind = "backtest" /\ at[a] = 1 /\ Len(got[a].runs) = 0
  <2>1. Op(a).op = "list"
    BY <1>9, <1>11, OpNames DEF Op
  <2>2. ListSnapshots(a) \/ ListFails(a)
    BY <2>1, ApiEffects
  <2>3. CASE ListSnapshots(a)
    <3>1. /\ Len(got'[a].runs) = 0 /\ ListedThere(a)'
          /\ \/ got'[a].end = "none" /\ BlockAt(a, 1, got[a].listed)'
             \/ got'[a].end = "ok" /\ RanFirst(a, Len(got[a].listed), got[a].listed)'
      BY <1>11, <2>3, ListStep
    <3>2. Meant(req[a], got[a].listed)' = got'[a].listed /\ Lead(req[a])' = 1
      BY <1>5, <1>11 DEF Meant, Lead
    <3>3. \/ got'[a].end = "none" /\ Begun(a)'
          \/ got'[a].end = "ok" /\ TookAll(a)'
      BY <3>1, <3>2 DEF Begun, TookAll
    <3>4. RunsTrue(a)' /\ GapsOK(a)'
      BY <3>1, NothingTaken
    <3> QED BY <1>10, <3>1, <3>3, <3>4 DEF Sound
  <2>4. CASE ListFails(a)
    <3>1. /\ got'[a].end = "error" /\ got'[a].runs = got[a].runs
          /\ got'[a].listed = got[a].listed
      BY <1>1, <2>4, ListErrs
    <3>2. RunsTrue(a)' /\ GapsOK(a)'
      BY <1>11, <3>1, NothingTaken
    <3>3. ListedThere(a)'
      BY <1>1, <1>6, <3>1, ListedKept
    <3> QED BY <1>10, <3>1, <3>2, <3>3 DEF Sound
  <2> QED BY <2>2, <2>3, <2>4
<1>12. CASE BlockAt(a, n, W)
  <2>1. PICK j \in 0..(Len(W) - 1), m \in 1..4 :
            at[a] = n + 4 * j + m /\ RanFirst(a, j, W) /\ Phase(a, m, W[j + 1])
    BY <1>12 DEF BlockAt
  <2>2. Placed(a, n, W)
    BY <1>3, <1>4, <1>7, <1>8 DEF Placed
  <2>3. /\ RunsTrue(a)' /\ GapsOK(a)' /\ got'[a].listed = got[a].listed
        /\ \/ got'[a].end = "none" /\ BlockAt(a, n, W)'
           \/ got'[a].end = "ok" /\ RanFirst(a, Len(W), W)'
           \/ /\ got'[a].end = "noprev" /\ RanFirst(a, Len(W), W)'
              /\ got'[a].runs[Len(got'[a].runs)].outcome # "rows"
           \/ got'[a].end = "error"
    BY <1>6, <1>9, <2>1, <2>2, BlockStep
  <2>4. Meant(req[a], got[a].listed)' = W /\ Lead(req[a])' = n
    BY <1>4, <1>5, <1>7, <1>8, <2>3
  <2>5. BlockAt(a, n, W)' => Begun(a)'
    BY <2>4 DEF Begun
  <2>6. RanFirst(a, Len(W), W)' => TookAll(a)'
    BY <2>4 DEF TookAll
  <2>7. Place(a)'
    BY <1>10, <2>3, <2>5, <2>6
  <2>8. ListedThere(a)'
    BY <1>1, <1>6, <2>3, ListedKept
  <2> QED BY <2>3, <2>7, <2>8 DEF Sound
<1> QED BY <1>3, <1>4, <1>6, <1>7, <1>8, <1>11, <1>12 DEF Begun

\* A step of a scan, which runs on whatever date is active.
LEMMA ScanStep ==
    ASSUME CoreOK, ApisOK, NEW a \in Apis, ApiStep(a), req[a].kind = "scan", Sound(a)
    PROVE  Sound(a)'
<1>1. /\ Running(a) /\ req[a] \in Requests /\ req' = req /\ table' = table
      /\ Op(a).op = "read" => ReadActive(a) /\ activeDate' = activeDate
      /\ Op(a).op = "query" => Finishes(a) /\ activeDate' = activeDate
  BY ApiEffects
<1>2. /\ got[a].listed \in Seq(Dates) /\ at[a] \in 1..Len(Steps(a))
      /\ got[a].runs \in Seq(RunRec)
  BY <1>1, ApiHolds DEF Running
<1>3. Len(Steps(a)) = 2 /\ Steps(a)[1] = Read /\ Steps(a)[2] = Query
  BY <1>1, <1>2, ScanProgram DEF Steps
<1>4. at[a] \in {1, 2}
  BY <1>2, <1>3
<1>5. RunsTrue(a) /\ GapsOK(a) /\ ListedThere(a) /\ got[a].end = "none"
      /\ (at[a] = 2 => got[a].on = activeDate)
  BY <1>1 DEF Sound, Place, Running
<1>6. ASSUME got'[a].end # "noprev", got'[a].end = "none" /\ at'[a] = 2 => got'[a].on = activeDate',
             got'[a].listed = got[a].listed, RunsTrue(a)', GapsOK(a)'
      PROVE  Sound(a)'
  <2>1. req'[a].kind = "scan" /\ req'[a].kind # "select" /\ req'[a].kind \notin MultiKinds
    BY <1>1 DEF MultiKinds
  <2>2. Place(a)'
    BY <1>6, <2>1 DEF Place
  <2>3. ListedThere(a)'
    BY <1>1, <1>5, <1>6, ListedKept
  <2> QED BY <1>6, <2>2, <2>3 DEF Sound
<1>7. CASE at[a] = 1
  <2>1. ReadActive(a) /\ activeDate' = activeDate
    BY <1>1, <1>3, <1>7, OpNames DEF Op
  <2>2. /\ got'[a].on = activeDate /\ got'[a].runs = got[a].runs /\ got'[a].listed = got[a].listed
        /\ EndRule(a, at[a] + 1)
    BY <1>1, <2>1, PrepareEffects DEF Prepares
  <2>3. RunsTrue(a)' /\ GapsOK(a)'
    BY <1>1, <1>5, <2>1, <2>2, PrepareSound
  <2>4. got'[a].end # "noprev"
    BY <2>2 DEF EndRule
  <2> QED BY <1>6, <2>1, <2>2, <2>3, <2>4
<1>8. CASE at[a] = 2
  <2>1. Op(a).op = "query"
    BY <1>3, <1>8, OpNames DEF Op
  <2>2. Finishes(a) /\ activeDate' = activeDate /\ got[a].on = activeDate
    BY <1>1, <1>5, <1>8, <2>1
  <2>3. PICK run \in RunRec : Took(a, run)
    BY <1>1, <2>2, FinishEffects
  <2>4. OutcomeTrue(req[a], run)
    BY <2>1, <2>2, <2>3 DEF Took, OutcomeTrue
  <2>5. /\ got'[a].runs = Append(got[a].runs, run) /\ got'[a].listed = got[a].listed
        /\ run.outcome # "rows" => got'[a].end = "error"
        /\ (at'[a] = at[a] + 1 /\ got'[a].end # "noprev") \/ got'[a].end = "error"
    BY <2>1, <2>3 DEF Took, GoesOn, EndRule
  <2>6. RunsTrue(a)' /\ GapsOK(a)'
    BY <1>1, <1>2, <1>5, <2>2, <2>4, <2>5, FinishSound
  <2>7. at'[a] = at[a] + 1 => at'[a] # 2
    BY <1>8
  <2> QED BY <1>6, <2>5, <2>6, <2>7
<1> QED BY <1>4, <1>7, <1>8

\* Selecting a date runs nothing.
LEMMA SelectStep ==
    ASSUME CoreOK, ApisOK, NEW a \in Apis, ApiStep(a), req[a].kind = "select", Sound(a)
    PROVE  Sound(a)'
<1>1. /\ Running(a) /\ req[a] \in Requests /\ req' = req /\ table' = table
      /\ Op(a).op = "count" => (CountFinds(a) \/ Finishes(a)) /\ activeDate' = activeDate
      /\ Op(a).op = "assign" => AssignActive(a)
  BY ApiEffects
<1>2. /\ got[a].listed \in Seq(Dates) /\ at[a] \in 1..Len(Steps(a))
      /\ got[a].runs \in Seq(RunRec)
  BY <1>1, ApiHolds DEF Running
<1>3. /\ Len(Steps(a)) = 3
      /\ Steps(a)[1] = Count(req[a].date) /\ Steps(a)[2] = Count(req[a].date)
      /\ Steps(a)[3] = Assign(req[a].date)
  BY <1>1, <1>2, SelectProgram DEF Steps
<1>4. at[a] \in {1, 2, 3}
  BY <1>2, <1>3
<1>5. Op(a).op \in {"count", "assign"}
  BY <1>3, <1>4, OpNames DEF Op
<1>6. req'[a].kind = "select" /\ req'[a].kind # "scan" /\ req'[a].kind \notin MultiKinds
  BY <1>1 DEF MultiKinds
<1>7. RunsTrue(a) /\ GapsOK(a) /\ ListedThere(a) /\ got[a].end = "none" /\ Len(got[a].runs) = 0
  BY <1>1 DEF Sound, Place, Running
<1>8. Meant(req[a], got[a].listed)' = <<>>
  BY <1>6 DEF Meant
<1>9. CASE Prepares(a)
  <2>1. got'[a].runs = got[a].runs /\ got'[a].listed = got[a].listed /\ EndRule(a, at[a] + 1)
    BY <1>1, <1>9, PrepareEffects
  <2>2. RunsTrue(a)' /\ GapsOK(a)'
    BY <1>7, <2>1, NothingTaken
  <2>3. ListedThere(a)'
    BY <1>1, <1>7, <2>1, ListedKept
  <2>4. got'[a].end # "noprev"
    BY <2>1 DEF EndRule
  <2>5. RanFirst(a, 0, <<>>)'
    BY <1>7, <2>1 DEF RanFirst
  <2>6. TookAll(a)'
    BY <1>8, <2>5 DEF TookAll
  <2>7. Place(a)'
    BY <1>6, <1>7, <2>1, <2>4, <2>6 DEF Place
  <2> QED BY <2>2, <2>3, <2>7 DEF Sound
<1>10. CASE Finishes(a)
  <2>1. PICK run \in RunRec : Took(a, run)
    BY <1>1, <1>10, FinishEffects
  <2>2. Op(a).op = "count"
    BY <1>5, <2>1 DEF Took
  <2>3. ~Skips(a) /\ ~NoPrev(a)
    BY DEF Skips, NoPrev
  <2>4. /\ run.outcome # "rows" /\ got'[a].end = "error" /\ got'[a].listed = got[a].listed
        /\ got'[a].runs = Append(got[a].runs, run)
    BY <2>1, <2>2, <2>3 DEF Took
  <2>5. OutcomeTrue(req[a], run)
    BY <2>1, <2>4 DEF Took, OutcomeTrue
  <2>6. RunsTrue(a)' /\ GapsOK(a)'
    BY <1>1, <1>2, <1>7, <2>2, <2>4, <2>5, FinishSound
  <2>7. ListedThere(a)'
    BY <1>1, <1>7, <2>4, ListedKept
  <2>8. Place(a)'
    BY <1>6, <2>4 DEF Place
  <2> QED BY <2>6, <2>7, <2>8 DEF Sound
<1> QED BY <1>1, <1>5, <1>9, <1>10 DEF Prepares

\* A request of which nothing changes, nor the table and the active date.
LEMMA SoundKept ==
    ASSUME NEW a \in Apis, Sound(a), req'[a] = req[a], at'[a] = at[a], got'[a] = got[a],
           UNCHANGED <<table, activeDate>>
    PROVE  Sound(a)'
<1>1. RunsTrue(a)'
  <2>1. PICK r, rs : r = req[a] /\ rs = got[a].runs
    OBVIOUS
  <2>2. \A i \in 1..Len(rs) : OutcomeTrue(r, rs[i])'
    BY <2>1, OutcomeKept DEF Sound, RunsTrue
  <2> QED BY <2>1, <2>2 DEF RunsTrue
<1>2. GapsOK(a)'
  BY DEF Sound, GapsOK
<1>3. ListedThere(a)'
  BY ListedKept DEF Sound
<1>4. \A k, W : RanFirst(a, k, W)' <=> RanFirst(a, k, W)
  BY DEF RanFirst
<1>5. \A m, d : Phase(a, m, d)' <=> Phase(a, m, d)
  BY DEF Phase
<1>6. \A n, W : BlockAt(a, n, W)' <=> BlockAt(a, n, W)
  BY <1>4, <1>5 DEF BlockAt
<1>7. PICK n, W, k : n = Lead(req[a]) /\ W = Meant(req[a], got[a].listed) /\ k = Len(W)
  OBVIOUS
<1>8. Lead(req[a])' = n /\ Meant(req[a], got[a].listed)' = W
  BY <1>7
<1>9. Begun(a)' <=> Begun(a)
  BY <1>6, <1>7, <1>8 DEF Begun
<1>10. TookAll(a)' <=> TookAll(a)
  BY <1>4, <1>7, <1>8 DEF TookAll
<1>11. Place(a)'
  BY <1>9, <1>10 DEF Sound, Place
<1> QED BY <1>1, <1>2, <1>3, <1>11 DEF Sound

\* A request that has just come.
LEMMA SoundStart ==
    ASSUME NEW a \in Apis, NEW r \in Requests, req'[a] = r, at'[a] = 1, got'[a] = NothingYet
    PROVE  Sound(a)'
<1>1. /\ Len(got'[a].runs) = 0 /\ got'[a].end = "none" /\ got'[a].listed = <<>>
  BY DEF NothingYet
<1>2. RunsTrue(a)' /\ GapsOK(a)'
  BY <1>1, NothingTaken
<1>3. ListedThere(a)'
  BY <1>1 DEF ListedThere
<1>4. ASSUME r.kind \in MultiKinds PROVE Begun(a)'
  <2>1. CASE r.kind = "backtest"
    BY <1>1, <2>1 DEF Begun
  <2>2. CASE r.kind # "backtest"
    <3>1. PICK W \in Seq(Dates) : W = Meant(r, <<>>)
      BY <1>4, EmptySeq, ProgramBlocks DEF MultiKinds
    <3>2. Len(W) >= 1 /\ Len(W) \in Nat
      BY <1>4, <2>2, <3>1 DEF Meant, MultiKinds
    <3>3. 0 \in 0..(Len(W) - 1) /\ 1 \in 1..4 /\ 1 = 0 + 4 * 0 + 1
      BY <3>2
    <3>4. RanFirst(a, 0, W)'
      BY <1>1 DEF RanFirst
    <3>5. Phase(a, 1, W[0 + 1])'
      BY DEF Phase
    <3>6. BlockAt(a, 0, W)'
      <4>1. at'[a] = 0 + 4 * 0 + 1
        BY <3>3
      <4> QED BY <3>3, <3>4, <3>5, <4>1, Zenon DEF BlockAt
    <3>7. Meant(req[a], got[a].listed)' = W /\ Lead(req[a])' = 0
      BY <1>1, <2>2, <3>1 DEF Lead
    <3> QED BY <3>6, <3>7 DEF Begun
  <2> QED BY <2>1, <2>2
<1>5. at'[a] # 2 /\ got'[a].end \notin {"ok", "noprev"}
  BY <1>1
<1>6. Place(a)'
  BY <1>1, <1>4, <1>5 DEF Place
<1> QED BY <1>2, <1>3, <1>6 DEF Sound

\* A step that nobody else's step disturbs.
LEMMA StepSound ==
    ASSUME TypeInv, SoundInv, [Next]_vars
    PROVE  SoundInv'
<1> SUFFICES ASSUME NEW a \in Apis, req'[a] # NoReq, a \notin disturbed' \cup reloaded'
             PROVE  Sound(a)'
  BY DEF SoundInv
<1>1. CoreOK /\ ApisOK
  BY DEF TypeInv
<1>2. CASE UNCHANGED vars
  <2>1. UNCHANGED <<table, activeDate, req, at, got, disturbed, reloaded>>
    BY <1>2 DEF vars, storeVars, apiVars, historyVars
  <2>2. Sound(a)
    BY <2>1 DEF SoundInv
  <2> QED BY <2>1, <2>2, SoundKept
<1>3. CASE Next
  <2>1. Observe
    BY <1>3 DEF Next
  <2>2. CASE req[a] = NoReq
    <3>1. at[a] = 1 /\ got[a] = NothingYet
      BY <1>1, <2>2 DEF ApisOK
    <3>2. \E r \in Requests : ApiArrives(a, r)
      <4>1. req' # req
        BY <2>2
      <4>2. ~Restart
        BY DEF Restart
      <4>3. \A p \in Pages : ~(PageArrives(p) \/ PageStep(p))
        <5>1. ASSUME NEW p \in Pages, PageArrives(p) \/ PageStep(p) PROVE FALSE
          <6>1. UNCHANGED apiVars
            BY <5>1, PageTypes DEF TypeInv
          <6> QED BY <4>1, <6>1 DEF apiVars
        <5> QED BY <5>1
      <4>4. ~(NewDay \/ TTLExpires \/ Shutdown)
        BY <4>1 DEF NewDay, TTLExpires, Shutdown, apiVars
      <4>5. \A b \in Apis : ~ApiStep(b)
        BY <1>1, <4>1, ApiEffects
      <4>6. PICK b \in Apis : ApiLeaves(b) \/ \E r \in Requests : ApiArrives(b, r)
        BY <1>3, <4>2, <4>3, <4>4, <4>5 DEF Next, WhileUp
      <4>7. req \in [Apis -> Requests \cup {NoReq}]
        BY <1>1 DEF ApisOK
      <4>8. ~ApiLeaves(b)
        BY <2>2, <4>7 DEF ApiLeaves
      <4>9. PICK r \in Requests : ApiArrives(b, r)
        BY <4>6, <4>8
      <4>10. b = a
        BY <2>2, <4>7, <4>9 DEF ApiArrives
      <4> QED BY <4>9, <4>10
    <3>3. PICK r \in Requests : ApiArrives(a, r)
      BY <3>2
    <3>4. req'[a] = r /\ at' = at /\ got' = got
      BY <1>1, <3>3 DEF ApiArrives, ApisOK
    <3> QED BY <3>1, <3>4, SoundStart
  <2>3. CASE req[a] # NoReq
    <3>1. /\ a \notin disturbed \cup reloaded /\ table' = table
          /\ at'[a] = at[a] => activeDate' = activeDate
      BY <2>1, <2>3 DEF Observe
    <3>2. Sound(a)
      BY <2>3, <3>1 DEF SoundInv
    <3>3. ASSUME req'[a] = req[a], at'[a] = at[a], got'[a] = got[a]
          PROVE  Sound(a)'
      BY <3>1, <3>2, <3>3, SoundKept
    <3>4. ASSUME NEW p \in Pages, PageArrives(p) \/ PageStep(p) PROVE Sound(a)'
      <4>1. UNCHANGED apiVars
        BY <3>4, PageTypes DEF TypeInv
      <4> QED BY <3>3, <4>1 DEF apiVars
    <3>5. CASE NewDay \/ TTLExpires \/ Shutdown
      BY <3>3, <3>5 DEF NewDay, TTLExpires, Shutdown, apiVars
    <3>6. CASE Restart
      <4>1. req'[a] = NoReq
        BY <3>6 DEF Restart
      <4> QED BY <4>1
    <3>7. CASE ApiStep(a)
      <4>1. req[a] \in Requests
        BY <1>1, <3>7, ApiMoves
      <4>2. req[a].kind \in MultiKinds \cup {"scan", "select"}
        BY <4>1, RequestFacts DEF AllKinds, MultiKinds
      <4> QED BY <1>1, <3>2, <3>7, <4>2, MultiStep, ScanStep, SelectStep
    <3>8. ASSUME NEW b \in Apis, b # a, ApiStep(b) PROVE Sound(a)'
      <4>1. /\ req[b] \in Requests
            /\ \E n \in Nat \ {0}, g \in GotRec : ProceedTo(b, n, g)
        BY <1>1, <3>8, ApiMoves
      <4>2. req' = req /\ at'[a] = at[a] /\ got'[a] = got[a]
        <5>1. PICK n \in Nat \ {0}, g \in GotRec : ProceedTo(b, n, g)
          BY <4>1
        <5>2. req' = req /\ at' = [at EXCEPT ![b] = at'[b]] /\ got' = [got EXCEPT ![b] = got'[b]]
          BY <1>1, <5>1 DEF ProceedTo, ApisOK
        <5> QED BY <1>1, <3>8, <5>2 DEF ApisOK
      <4> QED BY <3>3, <4>2
    <3>9. ASSUME NEW b \in Apis, ApiLeaves(b) \/ \E r \in Requests : ApiArrives(b, r)
          PROVE  Sound(a)'
      <4>1. /\ req \in [Apis -> Requests \cup {NoReq}] /\ at \in [Apis -> Nat \ {0}]
            /\ got \in [Apis -> GotRec]
        BY <1>1 DEF ApisOK
      <4>2. CASE ApiLeaves(b)
        <5>1. b # a
          BY <4>1, <4>2 DEF ApiLeaves
        <5> QED BY <3>3, <4>1, <4>2, <5>1 DEF ApiLeaves
      <4>3. CASE \E r \in Requests : ApiArrives(b, r)
        <5>1. PICK r \in Requests : ApiArrives(b, r)
          BY <4>3
        <5>2. b # a
          BY <2>3, <5>1 DEF ApiArrives
        <5> QED BY <3>3, <4>1, <5>1, <5>2 DEF ApiArrives
      <4> QED BY <3>9, <4>2, <4>3
    <3> QED BY <1>3, <3>4, <3>5, <3>6, <3>7, <3>8, <3>9 DEF Next, WhileUp
  <2> QED BY <2>2, <2>3
<1> QED BY <1>2, <1>3

LEMMA InitSound ==
    ASSUME Init
    PROVE  SoundInv
BY DEF Init, Started, SoundInv

THEOREM SoundRequests == Spec => []SoundInv
<1>1. Init => SoundInv
  BY InitSound
<1>2. TypeInv /\ SoundInv /\ [Next]_vars => SoundInv'
  BY StepSound
<1> QED BY <1>1, <1>2, Types, PTL DEF Spec

\* A request that has ended and is sound is exact.
LEMMA SoundIsExact ==
    ASSUME ApisOK, NEW a \in Apis, req[a] # NoReq, Sound(a)
    PROVE  Exact(a)
<1>1. /\ req[a] \in Requests /\ got[a].listed \in Seq(Dates)
      /\ got[a].runs \in Seq(RunRec)
  BY ApiHolds
<1>2. PICK r \in Requests : r = req[a]
  BY <1>1
<1>3. PICK l \in Seq(Dates) : l = got[a].listed
  BY <1>1
<1>4. PICK k \in Nat : k = Len(got[a].runs)
  BY <1>1
<1>5. PICK F : F = [i \in 1..k |-> got[a].runs[i].for]
  OBVIOUS
<1>6. PICK W \in Seq(Dates) : W = Meant(r, l)
  <2>1. CASE r.kind \in {"scan", "select"}
    BY <2>1, EmptySeq DEF Meant
  <2>2. CASE r.kind \notin {"scan", "select"}
    <3>1. r.kind \in MultiKinds
      BY <2>2, RequestFacts DEF AllKinds, MultiKinds
    <3> QED BY <3>1, ProgramBlocks DEF MultiKinds
  <2> QED BY <2>1, <2>2
<1>7. ASSUME got[a].end \in {"ok", "noprev"}, r.kind # "scan"
      PROVE  F = W
  <2>1. k = Len(W) /\ \A i \in 1..k : got[a].runs[i].for = W[i]
    BY <1>2, <1>3, <1>4, <1>6, <1>7 DEF Sound, Place, TookAll, RanFirst
  <2>2. W = [i \in 1..k |-> W[i]]
    BY <2>1
  <2>3. F = [i \in 1..k |-> W[i]]
    BY <1>5, <2>1
  <2> QED BY <2>2, <2>3
<1>8. got[a].end \in {"ok", "noprev"} /\ req[a].kind # "scan" =>
          [i \in 1..Len(got[a].runs) |-> got[a].runs[i].for] = Meant(req[a], got[a].listed)
  <2>1. [i \in 1..Len(got[a].runs) |-> got[a].runs[i].for] = F
    BY <1>4, <1>5
  <2>2. Meant(req[a], got[a].listed) = W
    BY <1>2, <1>3, <1>6
  <2> QED BY <1>2, <1>7, <2>1, <2>2
<1>9. /\ \A i \in 1..Len(got[a].runs) : OutcomeTrue(req[a], got[a].runs[i])
      /\ got[a].end = "noprev" => got[a].runs[Len(got[a].runs)].outcome # "rows"
  BY DEF Sound, RunsTrue, Place
<1>10. \A i \in 1..Len(got[a].runs) :
          got[a].runs[i].outcome # "rows" =>
              Tolerated(req[a], i) \/ (got[a].end \in {"noprev", "error"} /\ i = Len(got[a].runs))
  BY DEF Sound, GapsOK
<1> QED BY <1>8, <1>9, <1>10, Zenon DEF Exact

\* A handler during which nobody else moves activeDate and the table does not
\* change is exact, whichever of its statements fail: every Run is on the date
\* it was meant for, a date called missing is not there, and an answer has taken
\* every date the request names or lists, in order.  What RunBacktest leaves out
\* of its listed dates are those whose own statement failed.
THEOREM HandlersAreExact == Spec => []UndisturbedIsExact
<1>1. TypeInv /\ SoundInv => UndisturbedIsExact
  <2> SUFFICES ASSUME TypeInv, SoundInv, NEW a \in Apis, got[a].end # "none", a \notin disturbed \cup reloaded
               PROVE  Exact(a)
    BY DEF UndisturbedIsExact
  <2>1. ApisOK
    BY DEF TypeInv
  <2>2. req[a] # NoReq
    BY <2>1 DEF ApisOK, NothingYet
  <2>3. Sound(a)
    BY <2>2 DEF SoundInv
  <2> QED BY <2>1, <2>2, <2>3, SoundIsExact
<1> QED BY <1>1, Types, SoundRequests, PTL
=============================================================================
