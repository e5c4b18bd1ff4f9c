-------------------------- MODULE StudyStoreProofs --------------------------
(***************************************************************************)
(* Proofs about the study store, for every set of keys, users, requests    *)
(* and every JSONL file.                                                   *)
(***************************************************************************)
EXTENDS StudyStore, TLAPS, FiniteSetTheorems, WellFoundedInduction

\* The part of the type invariant that is about the store.
StoreOK ==
    /\ mode \in {"down", "seeding", "up"}
    /\ seedAt \in 1..(Len(Seed) + 1)
    /\ all \in Seq(Studies)
    /\ byKey \in [Keys -> Studies \cup {NoStudy}]
    /\ sql \in [Keys -> Studies \cup {NoStudy}]
    /\ \A k \in Keys : byKey[k] # NoStudy => byKey[k].key = k
    /\ \A k \in Keys : sql[k] # NoStudy => sql[k].key = k
    /\ unsaved \subseteq Keys /\ hidden \subseteq Keys

\* The part that is about the requests.
RequestsOK ==
    /\ pc \in [Writers -> PC]
    /\ DOMAIN task = Writers /\ \A w \in Writers : RequestOK(w)

LEMMA TypeOKParts == TypeOK <=> StoreOK /\ RequestsOK
BY DEF TypeOK, StoreOK, RequestsOK

\* A study has a key; NoStudy is not a study.
LEMMA StudyFacts ==
    /\ \A st \in Studies : st.key \in Keys /\ st # NoStudy
    /\ Seed \in Seq(Studies) /\ Len(Seed) \in Nat
    /\ \A i \in 1..Len(Seed) : Seed[i] \in Studies
<1>1. \A st \in Studies : st.key \in Keys /\ st.key # 0
  BY StudyAssumption DEF Studies
<1>2. NoStudy.key = 0
  BY DEF NoStudy
<1>3. Seed \in Seq(Studies)
  BY StudyAssumption
<1> QED BY <1>1, <1>2, <1>3

\* s lists what f has on D.
Lists(s, f, D) ==
    /\ Len(s) \in Nat
    /\ s = [i \in 1..Len(s) |-> s[i]]
    /\ \A i \in 1..Len(s) : \E d \in D : s[i] = f[d]
    /\ \A d \in D : \E i \in 1..Len(s) : s[i] = f[d]

\* InOrder lists a finite set.
LEMMA InOrderLists ==
    ASSUME NEW f, NEW D, IsFiniteSet(D), NEW s \in InOrder(f, D)
    PROVE  Lists(s, f, D)
<1> DEFINE n == Cardinality(D)
<1>1. n \in Nat
  BY FS_CardinalityType
<1> HIDE DEF n
<1>2. PICK p \in Bijection(1..n, D) : s = [i \in 1..n |-> f[p[i]]]
  BY DEF InOrder, n
<1>3. /\ p \in [1..n -> D]
      /\ \A d \in D : \E i \in 1..n : p[i] = d
  BY <1>2 DEF Bijection, Injection, Surjection
<1>4. Len(s) = n /\ DOMAIN s = 1..n
  BY <1>1, <1>2
<1>5. \A i \in 1..n : s[i] = f[p[i]]
  BY <1>2
<1>6. s = [i \in 1..Len(s) |-> s[i]]
  BY <1>2, <1>4
<1>7. \A i \in 1..Len(s) : \E d \in D : s[i] = f[d]
  BY <1>3, <1>4, <1>5
<1>8. \A d \in D : \E i \in 1..Len(s) : s[i] = f[d]
  BY <1>3, <1>4, <1>5
<1> QED BY <1>1, <1>4, <1>6, <1>7, <1>8 DEF Lists

\* The initial state satisfies the invariant.
LEMMA InitInv == Init => Inv
<1> SUFFICES ASSUME Init PROVE Inv
  OBVIOUS
<1> USE StudyFacts DEF Init
<1>1. StoreOK
  BY DEF StoreOK
<1>2. RequestsOK
  BY DEF RequestsOK, RequestOK, PC, NoTask
<1>3. MemoryIsDisk /\ IndexIsList /\ DownIsEmpty /\ OnlyWhileUp
  BY DEF MemoryIsDisk, IndexIsList, DownIsEmpty, OnlyWhileUp
<1> QED BY <1>1, <1>2, <1>3, TypeOKParts DEF Inv

\* Opening from the table.
LEMMA OpenFromSQLInv == ASSUME Inv, OpenFromSQL PROVE Inv'
<1> DEFINE D == {k \in Keys : sql[k] # NoStudy}
<1>0. StoreOK /\ RequestsOK
  BY TypeOKParts DEF Inv
<1>1. IsFiniteSet(D)
  BY StudyAssumption, FS_Subset
<1>2. Lists(all', sql, D)
  BY <1>1, InOrderLists DEF OpenFromSQL
<1>3. /\ byKey' = sql /\ sql' = sql /\ mode' = "up" /\ unsaved' = {} /\ hidden' = {}
      /\ seedAt' = seedAt /\ UNCHANGED <<pc, task>>
  BY DEF OpenFromSQL, reqVars
<1>4. \A k \in Keys : sql[k] # NoStudy => sql[k] \in Studies /\ sql[k].key = k
  BY <1>0 DEF StoreOK
<1>5. \A i \in 1..Len(all') : all'[i] \in Studies /\ sql[all'[i].key] # NoStudy
  BY <1>2, <1>4 DEF Lists
<1>6. all' \in Seq(Studies)
  BY <1>2, <1>5 DEF Lists
<1>7. StoreOK'
  BY <1>0, <1>3, <1>6 DEF StoreOK
<1>8. RequestsOK'
  BY <1>0, <1>3 DEF RequestsOK, RequestOK
<1>9. IndexIsList'
  BY <1>2, <1>3, <1>5 DEF IndexIsList, Lists
<1>10. MemoryIsDisk' /\ DownIsEmpty' /\ OnlyWhileUp'
  BY <1>3 DEF MemoryIsDisk, DownIsEmpty, OnlyWhileUp
<1> QED BY <1>7, <1>8, <1>9, <1>10, TypeOKParts DEF Inv, TypeOK, StoreOK, RequestsOK

\* Opening from the JSONL file, up to the first line.
LEMMA OpenFromSeedInv == ASSUME Inv, OpenFromSeed PROVE Inv'
<1>0. StoreOK /\ RequestsOK /\ DownIsEmpty /\ IndexIsList
  BY TypeOKParts DEF Inv
<1>1. /\ mode = "down" /\ mode' = "seeding"
      /\ unsaved' = {} /\ hidden' = {k \in Keys : sql[k] # NoStudy}
      /\ UNCHANGED <<seedAt, all, byKey, sql, pc, task>>
  BY DEF OpenFromSeed, reqVars
<1>2. all = <<>> /\ byKey = [k \in Keys |-> NoStudy]
  BY <1>0, <1>1 DEF DownIsEmpty
<1>3. StoreOK'
  BY <1>0, <1>1 DEF StoreOK
<1>4. RequestsOK'
  BY <1>0, <1>1 DEF RequestsOK, RequestOK
<1>5. MemoryIsDisk' /\ IndexIsList' /\ DownIsEmpty' /\ OnlyWhileUp'
  BY <1>1, <1>2 DEF MemoryIsDisk, IndexIsList, DownIsEmpty, OnlyWhileUp, Inv
<1> QED BY <1>3, <1>4, <1>5 DEF Inv, TypeOK, StoreOK, RequestsOK

\* Importing and saving one line of the file.
LEMMA SeedOneInv == ASSUME Inv, SeedOne PROVE Inv'
<1> DEFINE st == Seed[seedAt]
<1>0. StoreOK /\ RequestsOK /\ MemoryIsDisk /\ IndexIsList
  BY TypeOKParts DEF Inv
<1>1. st \in Studies /\ st.key \in Keys /\ st # NoStudy
  BY <1>0, StudyFacts DEF SeedOne, StoreOK
<1>2. /\ all' = Append(all, st)
      /\ byKey' = [byKey EXCEPT ![st.key] = st]
      /\ sql' = [sql EXCEPT ![st.key] = st]
      /\ unsaved' = unsaved /\ hidden' = hidden \ {st.key}
      /\ seedAt' = seedAt + 1 /\ seedAt <= Len(Seed)
      /\ mode = "seeding" /\ mode' = mode /\ UNCHANGED <<pc, task>>
  BY DEF SeedOne, reqVars
<1> HIDE DEF st
<1>3. /\ all' \in Seq(Studies) /\ Len(all) \in Nat /\ Len(all') = Len(all) + 1
      /\ \A i \in 1..Len(all) : all'[i] = all[i]
      /\ all'[Len(all) + 1] = st
      /\ \A i \in 1..Len(all) : all[i] \in Studies /\ all[i].key \in Keys
  BY <1>0, <1>1, <1>2, StudyFacts DEF StoreOK
<1>4. StoreOK'
  <2>1. seedAt' \in 1..(Len(Seed) + 1)
    BY <1>0, <1>2, StudyFacts DEF StoreOK
  <2>2. /\ byKey' \in [Keys -> Studies \cup {NoStudy}]
        /\ sql' \in [Keys -> Studies \cup {NoStudy}]
    BY <1>0, <1>1, <1>2 DEF StoreOK
  <2>3. \A k \in Keys : /\ byKey'[k] = IF k = st.key THEN st ELSE byKey[k]
                        /\ sql'[k] = IF k = st.key THEN st ELSE sql[k]
    BY <1>0, <1>1, <1>2 DEF StoreOK
  <2>4. \A k \in Keys : /\ byKey'[k] # NoStudy => byKey'[k].key = k
                        /\ sql'[k] # NoStudy => sql'[k].key = k
    BY <1>0, <2>3 DEF StoreOK
  <2> QED BY <1>0, <1>2, <1>3, <2>1, <2>2, <2>4 DEF StoreOK
<1>5. RequestsOK'
  BY <1>0, <1>2 DEF RequestsOK, RequestOK
<1>6. \A k \in Keys : /\ byKey'[k] = IF k = st.key THEN st ELSE byKey[k]
                      /\ sql'[k] = IF k = st.key THEN st ELSE sql[k]
  BY <1>0, <1>1, <1>2 DEF StoreOK
<1>7. MemoryIsDisk'
  BY <1>0, <1>2, <1>6 DEF MemoryIsDisk
<1>8. IndexIsList'
  <2>1. ASSUME NEW k \in Keys, byKey'[k] # NoStudy
        PROVE  \E i \in 1..Len(all') : all'[i] = byKey'[k]
    <3>1. CASE k = st.key
      BY <1>3, <1>6, <3>1
    <3>2. CASE k # st.key
      <4>1. PICK i \in 1..Len(all) : all[i] = byKey[k]
        BY <1>0, <1>6, <2>1, <3>2 DEF IndexIsList
      <4> QED BY <1>3, <1>6, <3>2, <4>1
    <3> QED BY <3>1, <3>2
  <2>2. ASSUME NEW i \in 1..Len(all')
        PROVE  byKey'[all'[i].key] # NoStudy \/ all'[i].key \in unsaved'
    <3>1. CASE i = Len(all) + 1
      BY <1>1, <1>3, <1>6, <3>1
    <3>2. CASE i \in 1..Len(all)
      <4>1. byKey[all[i].key] # NoStudy \/ all[i].key \in unsaved
        BY <1>0, <3>2 DEF IndexIsList
      <4> QED BY <1>1, <1>2, <1>3, <1>6, <3>2, <4>1
    <3> QED BY <1>3, <2>2, <3>1, <3>2
  <2> QED BY <2>1, <2>2 DEF IndexIsList
<1>9. DownIsEmpty' /\ OnlyWhileUp'
  BY <1>2 DEF DownIsEmpty, OnlyWhileUp, Inv
<1> QED BY <1>4, <1>5, <1>7, <1>8, <1>9 DEF Inv, TypeOK, StoreOK, RequestsOK

\* The store has been opened; the process ends.
LEMMA SeedDoneInv == ASSUME Inv, SeedDone PROVE Inv'
<1>0. StoreOK /\ RequestsOK /\ MemoryIsDisk /\ IndexIsList
  BY TypeOKParts DEF Inv
<1>1. /\ mode = "seeding" /\ mode' = "up" /\ seedAt' = 1
      /\ UNCHANGED <<all, byKey, sql, pc, task, unsaved, hidden>>
  BY DEF SeedDone, reqVars
<1>2. StoreOK'
  BY <1>0, <1>1, StudyFacts DEF StoreOK
<1>3. RequestsOK'
  BY <1>0, <1>1 DEF RequestsOK, RequestOK
<1>4. MemoryIsDisk' /\ IndexIsList' /\ DownIsEmpty' /\ OnlyWhileUp'
  BY <1>0, <1>1 DEF MemoryIsDisk, IndexIsList, DownIsEmpty, OnlyWhileUp
<1> QED BY <1>2, <1>3, <1>4 DEF Inv, TypeOK, StoreOK, RequestsOK

LEMMA ProcessEndsInv == ASSUME Inv, ProcessEnds PROVE Inv'
<1>0. StoreOK /\ RequestsOK
  BY TypeOKParts DEF Inv
<1>1. /\ mode' = "down" /\ seedAt' = 1 /\ all' = <<>>
      /\ byKey' = [k \in Keys |-> NoStudy] /\ sql' = sql /\ unsaved' = {} /\ hidden' = {}
      /\ pc' = [w \in Writers |-> "idle"] /\ task' = [w \in Writers |-> NoTask]
  BY DEF ProcessEnds
<1>2. StoreOK'
  BY <1>0, <1>1, StudyFacts DEF StoreOK
<1>3. RequestsOK'
  BY <1>1 DEF RequestsOK, RequestOK, PC, NoTask
<1>4. MemoryIsDisk' /\ IndexIsList' /\ DownIsEmpty' /\ OnlyWhileUp'
  BY <1>1 DEF MemoryIsDisk, IndexIsList, DownIsEmpty, OnlyWhileUp
<1> QED BY <1>2, <1>3, <1>4 DEF Inv, TypeOK, StoreOK, RequestsOK

-----------------------------------------------------------------------------
(* Requests *)

\* A request that leaves the store alone.
LEMMA OnlyRequests ==
    ASSUME Inv, RequestsOK', mode = "up", UNCHANGED <<memVars, sql, unsaved, hidden>>
    PROVE  Inv'
<1>0. StoreOK /\ MemoryIsDisk /\ IndexIsList /\ DownIsEmpty
  BY TypeOKParts DEF Inv
<1>1. UNCHANGED <<mode, seedAt, all, byKey, sql, unsaved, hidden>>
  BY DEF memVars
<1>2. StoreOK'
  BY <1>0, <1>1 DEF StoreOK
<1>3. MemoryIsDisk' /\ IndexIsList' /\ DownIsEmpty' /\ OnlyWhileUp'
  BY <1>0, <1>1 DEF MemoryIsDisk, IndexIsList, DownIsEmpty, OnlyWhileUp
<1> QED BY <1>2, <1>3 DEF Inv, TypeOK, StoreOK, RequestsOK

\* An answered request is forgotten.
LEMMA AnswerOK ==
    ASSUME NEW w \in Writers, RequestsOK, Answer(w)
    PROVE  RequestsOK'
BY DEF RequestsOK, RequestOK, Answer, PC, NoTask

\* A request goes from one place to another with the same task.
LEMMA GotoOK ==
    ASSUME NEW w \in Writers, RequestsOK, pc[w] # "idle",
           NEW where \in PC \ {"idle"}, Goto(w, where),
           where = "get" => task[w].kind \in {"save", "remove", "update"},
           where \in {"quota", "preview"} => task[w].kind = "save",
           where = "upsert" => task[w].kind \in {"save", "create", "update"},
           where = "delete" => task[w].kind \in {"remove", "delete"}
    PROVE  RequestsOK'
<1>1. pc' = [pc EXCEPT ![w] = where] /\ task' = task
  BY DEF Goto
<1>2. pc' \in [Writers -> PC] /\ DOMAIN task' = Writers
  BY <1>1 DEF RequestsOK
<1>3. ASSUME NEW v \in Writers PROVE RequestOK(v)'
  <2>1. CASE v = w
    BY <1>1, <2>1 DEF RequestsOK, RequestOK
  <2>2. CASE v # w
    BY <1>1, <2>2 DEF RequestsOK, RequestOK
  <2> QED BY <2>1, <2>2
<1> QED BY <1>2, <1>3 DEF RequestsOK

\* A new request.
LEMMA ArriveOK ==
    ASSUME NEW w \in Writers, NEW t \in Tasks, RequestsOK, Arrive(w, t)
    PROVE  RequestsOK'
<1> DEFINE u == IF t.kind = "save" /\ ~IsAdmin(t.by) THEN OwnTask(t) ELSE t
           where == CASE t.kind = "create" -> "upsert" [] t.kind = "delete" -> "delete" [] OTHER -> "get"
<1>1. pc' = [pc EXCEPT ![w] = where] /\ task' = [task EXCEPT ![w] = u]
  BY DEF Arrive
<1>2. \/ t \in [by : Users \cup Admins, kind : {"save"}, study : Drafts]
      \/ t \in [by : Users \cup Admins, kind : {"remove"}, study : Names]
      \/ t \in [by : {NoOwner}, kind : {"create", "update"}, study : Drafts]
      \/ t \in [by : {NoOwner}, kind : {"delete"}, study : Names]
  BY DEF Tasks
<1>3. /\ t \in Requests
      /\ t.kind \in AllKinds
      /\ t.kind \in {"save", "create", "update"} => t.study.text \in Texts
      /\ t.kind = "save" => t.by \in Users \cup Admins
  <2> USE StudyAssumption DEF Requests, AllKinds, Owners, Drafts, Names
  <2>1. CASE t \in [by : Users \cup Admins, kind : {"save"}, study : Drafts]
    BY <2>1
  <2>2. CASE t \in [by : Users \cup Admins, kind : {"remove"}, study : Names]
    BY <2>2
  <2>3. CASE t \in [by : {NoOwner}, kind : {"create", "update"}, study : Drafts]
    BY <2>3
  <2>4. CASE t \in [by : {NoOwner}, kind : {"delete"}, study : Names]
    BY <2>4
  <2> QED BY <1>2, <2>1, <2>2, <2>3, <2>4
<1>3a. /\ u \in Requests
       /\ u.kind = t.kind
       /\ u.kind \in {"save", "create", "update"} => u.study.text \in Texts
  <2>1. CASE t.kind = "save" /\ ~IsAdmin(t.by)
    <3>1. /\ t.study.key \in Keys
          /\ t.by \in Owners
      BY <1>3, <2>1 DEF Requests, Owners
    <3>2. OwnTask(t) \in Requests
      BY <1>3, <2>1, <3>1 DEF OwnTask, Requests, AllKinds
    <3>3. OwnTask(t).kind = t.kind /\ OwnTask(t).study.text = t.study.text
      BY DEF OwnTask
    <3> QED BY <1>3, <2>1, <3>2, <3>3
  <2>2. CASE ~(t.kind = "save" /\ ~IsAdmin(t.by))
    BY <1>3, <2>2
  <2> QED BY <2>1, <2>2
<1>4. /\ where \in {"upsert", "delete", "get"}
      /\ where = "get" => t.kind \in {"save", "remove", "update"}
      /\ where = "upsert" => t.kind = "create"
      /\ where = "delete" => t.kind = "delete"
  BY <1>3 DEF AllKinds
<1>5. u # NoTask
  BY <1>3, <1>3a DEF NoTask, AllKinds
<1> HIDE DEF u, where
<1>6. pc' \in [Writers -> PC] /\ DOMAIN task' = Writers
  BY <1>1, <1>4 DEF RequestsOK, PC
<1>7. ASSUME NEW v \in Writers PROVE RequestOK(v)'
  <2>1. CASE v = w
    <3>1. pc'[v] = where /\ task'[v] = u
      BY <1>1, <2>1 DEF RequestsOK
    <3> QED BY <1>3a, <1>4, <1>5, <3>1 DEF RequestOK
  <2>2. CASE v # w
    BY <1>1, <2>2 DEF RequestsOK, RequestOK
  <2> QED BY <2>1, <2>2
<1> QED BY <1>6, <1>7 DEF RequestsOK

\* The steps that only look at the store.
LEMMA LookingInv ==
    ASSUME Inv, NEW w \in Writers,
           Get(w) \/ CheckQuota(w) \/ Preview(w) \/ Refuse(w) \/ DeleteNotFound(w)
    PROVE  Inv'
<1>0. RequestsOK
  BY TypeOKParts DEF Inv
<1>1. UNCHANGED <<memVars, sql, unsaved, hidden>>
  BY DEF Get, CheckQuota, Preview, Refuse, DeleteNotFound
<1>2. RequestsOK'
  <2>1. CASE Answer(w)
    BY <1>0, <2>1, AnswerOK
  <2>2. CASE Get(w) /\ ~Answer(w)
    <3>1. pc[w] = "get"
      BY <2>2 DEF Get
    <3>2. \/ task[w].kind = "save" /\ (Goto(w, "quota") \/ Goto(w, "preview"))
          \/ task[w].kind = "remove" /\ Goto(w, "delete")
          \/ task[w].kind = "update" /\ Goto(w, "upsert")
      BY <2>2 DEF Get
    <3> QED BY <1>0, <3>1, <3>2, GotoOK DEF PC
  <2>3. CASE CheckQuota(w) /\ ~Answer(w)
    <3>1. pc[w] = "quota" /\ Goto(w, "preview") /\ task[w].kind = "save"
      BY <1>0, <2>3 DEF CheckQuota, RequestsOK, RequestOK
    <3> QED BY <1>0, <3>1, GotoOK DEF PC
  <2>4. CASE Preview(w)
    <3>1. pc[w] = "preview" /\ Goto(w, "upsert") /\ task[w].kind = "save"
      BY <1>0, <2>4 DEF Preview, RequestsOK, RequestOK
    <3> QED BY <1>0, <3>1, GotoOK DEF PC
  <2> QED BY <2>1, <2>2, <2>3, <2>4 DEF Refuse, DeleteNotFound
<1>3. mode = "up"
  BY DEF Inv, OnlyWhileUp, Get, CheckQuota, Preview, Refuse, DeleteNotFound
<1> QED BY <1>1, <1>2, <1>3, OnlyRequests

\* What a request that upserts carries is a study, once normalised.
LEMMA NormalisedIsStudy ==
    ASSUME RequestsOK, NEW w \in Writers, pc[w] = "upsert"
    PROVE  Normalised(task[w].study) \in Studies
<1> DEFINE st == task[w].study
<1>1. task[w] \in Requests /\ st.text \in Texts
  BY DEF RequestsOK, RequestOK
<1>2. st \in [key : Keys, owner : Owners \cup {NoOwner}, text : Texts \cup {""}]
  BY <1>1 DEF Requests
<1>3. (IF st.owner = NoOwner THEN Global ELSE st.owner) \in Owners
  BY <1>2 DEF Owners
<1> QED BY <1>1, <1>2, <1>3 DEF Normalised, Studies

\* A non-empty set of natural numbers has a least member.
LEMMA LeastMember ==
    ASSUME NEW T \in SUBSET Nat, T # {}
    PROVE  \E x \in T : \A y \in T : x <= y
<1>1. PICK x \in T : \A y \in T : ~(<<y, x>> \in OpToRel(<, Nat))
  BY NatLessThanWellFounded, WFMin
<1>2. \A y \in T : ~(y < x)
  BY <1>1 DEF OpToRel
<1> QED BY <1>2

\* What UpsertMemory does to the list and the index: the study is there, the
\* entries of other keys stay, and nothing else comes in.
Upserted(st) ==
    /\ all' \in Seq(Studies)
    /\ byKey' \in [Keys -> Studies \cup {NoStudy}]
    /\ \A k \in Keys : byKey'[k] = IF k = st.key THEN st ELSE byKey[k]
    /\ \E i \in 1..Len(all') : all'[i] = st
    /\ \A i \in 1..Len(all) : all[i].key # st.key => i \in 1..Len(all') /\ all'[i] = all[i]
    /\ \A i \in 1..Len(all') : all'[i].key = st.key \/ (i \in 1..Len(all) /\ all'[i] = all[i])

LEMMA UpsertMemoryFacts ==
    ASSUME StoreOK, IndexIsList, NEW st \in Studies, UpsertMemory(st)
    PROVE  Upserted(st)
<1>1. st.key \in Keys /\ Len(all) \in Nat /\ \A i \in 1..Len(all) : all[i] \in Studies
  BY StudyFacts DEF StoreOK
<1>2. byKey' = [byKey EXCEPT ![st.key] = st]
  BY DEF UpsertMemory
<1>3. /\ byKey' \in [Keys -> Studies \cup {NoStudy}]
      /\ \A k \in Keys : byKey'[k] = IF k = st.key THEN st ELSE byKey[k]
  BY <1>1, <1>2 DEF StoreOK
<1>4. CASE byKey[st.key] # NoStudy
  <2> DEFINE T == {i \in 1..Len(all) : all[i].key = st.key}
  <2>1. T \in SUBSET Nat /\ T # {}
    <3>1. PICK i \in 1..Len(all) : all[i] = byKey[st.key]
      BY <1>1, <1>4 DEF IndexIsList
    <3>2. all[i].key = st.key
      BY <1>1, <1>4, <3>1 DEF StoreOK
    <3> QED BY <1>1, <3>2
  <2>2. PICK m \in T : \A j \in T : m <= j
    BY <2>1, LeastMember
  <2>3. all' = [i \in 1..Len(all) |->
                  IF all[i].key = st.key /\ \A j \in 1..(i - 1) : all[j].key # st.key
                  THEN st ELSE all[i]]
    BY <1>4 DEF UpsertMemory
  <2>4. all' \in Seq(Studies) /\ Len(all') = Len(all)
    BY <1>1, <2>3
  <2>5. \A i \in 1..Len(all) :
           all'[i] = IF all[i].key = st.key /\ \A j \in 1..(i - 1) : all[j].key # st.key
                     THEN st ELSE all[i]
    BY <2>3
  <2>6. all'[m] = st /\ m \in 1..Len(all')
    <3>1. \A j \in 1..(m - 1) : all[j].key # st.key
      BY <1>1, <2>2
    <3> QED BY <1>1, <2>2, <2>4, <2>5, <3>1
  <2> HIDE DEF T
  <2> QED BY <1>3, <2>4, <2>5, <2>6 DEF Upserted
<1>5. CASE byKey[st.key] = NoStudy
  <2>1. all' = Append(all, st)
    BY <1>5 DEF UpsertMemory
  <2>2. /\ all' \in Seq(Studies) /\ Len(all') = Len(all) + 1
        /\ \A i \in 1..Len(all) : all'[i] = all[i]
        /\ all'[Len(all) + 1] = st
    BY <1>1, <2>1 DEF StoreOK
  <2> QED BY <1>1, <1>3, <2>2 DEF Upserted
<1> QED BY <1>4, <1>5

\* The list and the index stay in step through an upsert.
LEMMA UpsertedIndexIsList ==
    ASSUME StoreOK, IndexIsList, NEW st \in Studies, Upserted(st),
           \A k \in Keys \ {st.key} : k \in unsaved => k \in unsaved'
    PROVE  IndexIsList'
<1>1. ASSUME NEW k \in Keys, byKey'[k] # NoStudy
      PROVE  \E i \in 1..Len(all') : all'[i] = byKey'[k]
  <2>1. CASE k = st.key
    BY <1>1, <2>1 DEF Upserted
  <2>2. CASE k # st.key
    <3>1. byKey'[k] = byKey[k] /\ byKey[k].key = k
      BY <1>1, <2>2 DEF Upserted, StoreOK
    <3>2. PICK i \in 1..Len(all) : all[i] = byKey[k]
      BY <1>1, <3>1 DEF IndexIsList
    <3> QED BY <2>2, <3>1, <3>2 DEF Upserted
  <2> QED BY <2>1, <2>2
<1>2. ASSUME NEW i \in 1..Len(all')
      PROVE  byKey'[all'[i].key] # NoStudy \/ all'[i].key \in unsaved'
  <2>1. st.key \in Keys /\ st # NoStudy
    BY StudyFacts
  <2>2. CASE all'[i].key = st.key
    BY <2>1, <2>2 DEF Upserted
  <2>3. CASE all'[i].key # st.key
    <3>1. i \in 1..Len(all) /\ all'[i] = all[i]
      BY <1>2, <2>3 DEF Upserted
    <3>2. all[i].key \in Keys
      BY <3>1, StudyFacts DEF StoreOK
    <3>3. byKey[all[i].key] # NoStudy \/ all[i].key \in unsaved
      BY <3>1 DEF IndexIsList
    <3> QED BY <2>3, <3>1, <3>2, <3>3 DEF Upserted
  <2> QED BY <2>2, <2>3
<1> QED BY <1>1, <1>2 DEF IndexIsList

\* A save, whether or not it reaches the table.
LEMMA UpsertInv ==
    ASSUME Inv, NEW w \in Writers, Upsert(w) \/ UpsertFails(w)
    PROVE  Inv'
<1> DEFINE st == Normalised(task[w].study)
<1>0. StoreOK /\ RequestsOK /\ MemoryIsDisk /\ IndexIsList /\ DownIsEmpty
  BY TypeOKParts DEF Inv
<1>1. pc[w] = "upsert" /\ UpsertMemory(st) /\ Answer(w)
  BY DEF Upsert, UpsertFails
<1>2. st \in Studies
  BY <1>0, <1>1, NormalisedIsStudy
<1>3. \/ sql' = [sql EXCEPT ![st.key] = st] /\ unsaved' = unsaved \ {st.key}
      \/ sql' = sql /\ unsaved' = unsaved \cup {st.key}
  BY DEF Upsert, UpsertFails, SaveToSQL
<1>3a. hidden' = hidden \ {st.key}
  BY DEF Upsert, UpsertFails
<1>4. mode' = mode /\ seedAt' = seedAt
  BY <1>1 DEF UpsertMemory
<1> HIDE DEF st
<1>5. Upserted(st)
  BY <1>0, <1>1, <1>2, UpsertMemoryFacts
<1>6. st.key \in Keys /\ st # NoStudy
  BY <1>2, StudyFacts
<1>7. /\ sql' \in [Keys -> Studies \cup {NoStudy}]
      /\ \A k \in Keys : sql'[k] = sql[k] \/ (k = st.key /\ sql'[k] = st)
  BY <1>0, <1>2, <1>3, <1>6 DEF StoreOK
<1>8. StoreOK'
  <2>1. \A k \in Keys : byKey'[k] # NoStudy => byKey'[k].key = k
    BY <1>0, <1>5 DEF StoreOK, Upserted
  <2>2. \A k \in Keys : sql'[k] # NoStudy => sql'[k].key = k
    BY <1>0, <1>7 DEF StoreOK
  <2>3. unsaved' \subseteq Keys /\ hidden' \subseteq Keys
    BY <1>0, <1>3, <1>3a, <1>6 DEF StoreOK
  <2>4. all' \in Seq(Studies) /\ byKey' \in [Keys -> Studies \cup {NoStudy}]
    BY <1>5 DEF Upserted
  <2> QED BY <1>0, <1>4, <1>7, <2>1, <2>2, <2>3, <2>4 DEF StoreOK
<1>9. RequestsOK'
  BY <1>0, <1>1, AnswerOK
<1>10. MemoryIsDisk'
  <2> SUFFICES ASSUME mode # "down", NEW k \in Keys
               PROVE  /\ k \notin unsaved' \cup hidden' => byKey'[k] = sql'[k]
                      /\ k \in hidden' => byKey'[k] = NoStudy /\ sql'[k] # NoStudy
    BY <1>0, <1>3a, <1>4 DEF MemoryIsDisk, StoreOK
  <2>1. CASE k = st.key
    BY <1>0, <1>3, <1>3a, <1>5, <1>6, <2>1 DEF Upserted, StoreOK
  <2>2. CASE k # st.key
    BY <1>0, <1>3, <1>3a, <1>5, <1>7, <2>2 DEF Upserted, MemoryIsDisk
  <2> QED BY <2>1, <2>2
<1>11. IndexIsList'
  BY <1>0, <1>2, <1>3, <1>5, UpsertedIndexIsList
<1>12. DownIsEmpty' /\ OnlyWhileUp'
  BY <1>1, <1>4 DEF DownIsEmpty, OnlyWhileUp, Inv
<1> QED BY <1>8, <1>9, <1>10, <1>11, <1>12 DEF Inv, TypeOK, StoreOK, RequestsOK

\* A deletion that reaches the table.
LEMMA DeleteInv ==
    ASSUME Inv, NEW w \in Writers, Delete(w)
    PROVE  Inv'
<1> DEFINE k == task[w].study.key
           D == {i \in 1..Len(all) : all[i].key # k}
<1>0. StoreOK /\ RequestsOK /\ MemoryIsDisk /\ IndexIsList
  BY TypeOKParts DEF Inv
<1>1. /\ pc[w] = "delete" /\ Answer(w)
      /\ byKey' = [byKey EXCEPT ![k] = NoStudy]
      /\ sql' = [sql EXCEPT ![k] = NoStudy]
      /\ all' \in InOrder(all, D)
      /\ unsaved' = unsaved \ {k} /\ hidden' = hidden
      /\ byKey[k] # NoStudy
      /\ mode' = mode /\ seedAt' = seedAt
  BY DEF Delete
<1>2. Len(all) \in Nat /\ \A i \in 1..Len(all) : all[i] \in Studies /\ all[i].key \in Keys
  BY <1>0, StudyFacts DEF StoreOK
<1>3. IsFiniteSet(D)
  <2>1. IsFiniteSet(1..Len(all))
    BY <1>2, FS_Interval
  <2> QED BY <2>1, FS_Subset
<1>4. Lists(all', all, D)
  BY <1>1, <1>3, InOrderLists
<1>5. \A i \in 1..Len(all') : all'[i] \in Studies /\ all'[i].key # k /\ \E d \in 1..Len(all) : all'[i] = all[d]
  BY <1>2, <1>4 DEF Lists
<1>6. all' \in Seq(Studies)
  BY <1>4, <1>5 DEF Lists
<1>7. \A i \in 1..Len(all) : all[i].key # k => \E j \in 1..Len(all') : all'[j] = all[i]
  BY <1>4 DEF Lists
<1> HIDE DEF k, D
<1>8. /\ byKey' \in [Keys -> Studies \cup {NoStudy}]
      /\ sql' \in [Keys -> Studies \cup {NoStudy}]
      /\ \A l \in Keys : /\ byKey'[l] = IF l = k THEN NoStudy ELSE byKey[l]
                         /\ sql'[l] = IF l = k THEN NoStudy ELSE sql[l]
  BY <1>0, <1>1 DEF StoreOK
<1>9. StoreOK'
  <2>1. \A l \in Keys : byKey'[l] # NoStudy => byKey'[l].key = l
    BY <1>0, <1>8 DEF StoreOK
  <2>2. \A l \in Keys : sql'[l] # NoStudy => sql'[l].key = l
    BY <1>0, <1>8 DEF StoreOK
  <2> QED BY <1>0, <1>1, <1>6, <1>8, <2>1, <2>2 DEF StoreOK
<1>10. RequestsOK'
  BY <1>0, <1>1, AnswerOK
<1>11. MemoryIsDisk'
  BY <1>0, <1>1, <1>8 DEF MemoryIsDisk, StoreOK
<1>12. IndexIsList'
  <2>1. ASSUME NEW l \in Keys, byKey'[l] # NoStudy
        PROVE  \E i \in 1..Len(all') : all'[i] = byKey'[l]
    <3>1. l # k /\ byKey'[l] = byKey[l] /\ byKey[l].key = l
      BY <1>0, <1>8, <2>1 DEF StoreOK
    <3>2. PICK i \in 1..Len(all) : all[i] = byKey[l]
      BY <1>0, <2>1, <3>1 DEF IndexIsList
    <3> QED BY <1>7, <3>1, <3>2
  <2>2. ASSUME NEW i \in 1..Len(all')
        PROVE  byKey'[all'[i].key] # NoStudy \/ all'[i].key \in unsaved'
    <3>1. PICK d \in 1..Len(all) : all'[i] = all[d]
      BY <1>5
    <3>2. all[d].key \in Keys /\ all[d].key # k
      BY <1>2, <1>5, <3>1
    <3>3. byKey[all[d].key] # NoStudy \/ all[d].key \in unsaved
      BY <1>0 DEF IndexIsList
    <3> QED BY <1>1, <1>8, <3>1, <3>2, <3>3
  <2> QED BY <2>1, <2>2 DEF IndexIsList
<1>13. DownIsEmpty' /\ OnlyWhileUp'
  BY <1>1 DEF DownIsEmpty, OnlyWhileUp, Inv
<1> QED BY <1>9, <1>10, <1>11, <1>12, <1>13 DEF Inv, TypeOK, StoreOK, RequestsOK

\* A deletion that does not: only the index changes.
LEMMA DeleteFailsInv ==
    ASSUME Inv, NEW w \in Writers, DeleteFails(w)
    PROVE  Inv'
<1> DEFINE k == task[w].study.key
<1>0. StoreOK /\ RequestsOK /\ MemoryIsDisk /\ IndexIsList
  BY TypeOKParts DEF Inv
<1>1. /\ pc[w] = "delete" /\ Answer(w)
      /\ byKey' = [byKey EXCEPT ![k] = NoStudy]
      /\ unsaved' = unsaved \cup {k} /\ byKey[k] # NoStudy
      /\ UNCHANGED <<mode, seedAt, all, sql, hidden>>
  BY DEF DeleteFails
<1>2. k \in Keys
  BY <1>0, <1>1 DEF RequestsOK, RequestOK, Requests
<1>3. Len(all) \in Nat /\ \A i \in 1..Len(all) : all[i].key \in Keys
  BY <1>0, StudyFacts DEF StoreOK
<1> HIDE DEF k
<1>4. /\ byKey' \in [Keys -> Studies \cup {NoStudy}]
      /\ \A l \in Keys : byKey'[l] = IF l = k THEN NoStudy ELSE byKey[l]
  BY <1>0, <1>1 DEF StoreOK
<1>5. StoreOK'
  <2>1. \A l \in Keys : byKey'[l] # NoStudy => byKey'[l].key = l
    BY <1>0, <1>4 DEF StoreOK
  <2> QED BY <1>0, <1>1, <1>2, <1>4, <2>1 DEF StoreOK
<1>6. RequestsOK'
  BY <1>0, <1>1, AnswerOK
<1>7. MemoryIsDisk'
  BY <1>0, <1>1, <1>4 DEF MemoryIsDisk, StoreOK
<1>8. IndexIsList'
  BY <1>0, <1>1, <1>3, <1>4 DEF IndexIsList
<1>9. DownIsEmpty' /\ OnlyWhileUp'
  BY <1>1 DEF DownIsEmpty, OnlyWhileUp, Inv
<1> QED BY <1>5, <1>6, <1>7, <1>8, <1>9 DEF Inv, TypeOK, StoreOK, RequestsOK

\* Every step keeps the invariant.
LEMMA NextInv == ASSUME Inv, [Next]_vars PROVE Inv'
<1>1. CASE OpenFromSQL
  BY <1>1, OpenFromSQLInv
<1>2. CASE OpenFromSeed
  BY <1>2, OpenFromSeedInv
<1>3. CASE SeedOne
  BY <1>3, SeedOneInv
<1>4. CASE SeedDone
  BY <1>4, SeedDoneInv
<1>5. CASE ProcessEnds
  BY <1>5, ProcessEndsInv
<1>6. ASSUME NEW w \in Writers, RequestStep(w) PROVE Inv'
  BY <1>6, LookingInv, UpsertInv, DeleteInv, DeleteFailsInv DEF RequestStep
<1>7. ASSUME NEW w \in Writers, NEW t \in Tasks, Arrive(w, t) PROVE Inv'
  <2>1. RequestsOK
    BY TypeOKParts DEF Inv
  <2>2. RequestsOK' /\ mode = "up" /\ UNCHANGED <<memVars, sql, unsaved, hidden>>
    BY <1>7, <2>1, ArriveOK DEF Arrive
  <2> QED BY <2>2, OnlyRequests
<1>8. CASE UNCHANGED vars
  BY <1>8 DEF vars, Inv, TypeOK, RequestOK, MemoryIsDisk, IndexIsList, DownIsEmpty, OnlyWhileUp
<1> QED BY <1>1, <1>2, <1>3, <1>4, <1>5, <1>6, <1>7, <1>8 DEF Next

\* The inductive invariant of the study store holds in every state.
THEOREM StoreInvariance == Spec => []Inv
BY InitInv, NextInv, PTL DEF Spec

\* Studies are stored under their own key and with an owner, and a request is
\* only where its kind can be.
THEOREM StoreTypeCorrect == Spec => []TypeOK
<1>1. Inv => TypeOK
  BY DEF Inv
<1> QED BY <1>1, StoreInvariance, PTL

\* Outside the keys whose last write was answered with an error and the rows
\* the start could not read, what the process answers is what the table holds,
\* through every interleaving of requests, failed statements, kills and
\* reseeding.
THEOREM MemoryIsDiskAlways == Spec => []MemoryIsDisk
<1>1. Inv => MemoryIsDisk
  BY DEF Inv
<1> QED BY <1>1, StoreInvariance, PTL

\* Get and All agree, save for studies whose deletion failed.
THEOREM IndexIsListAlways == Spec => []IndexIsList
<1>1. Inv => IndexIsList
  BY DEF Inv
<1> QED BY <1>1, StoreInvariance, PTL
=============================================================================
