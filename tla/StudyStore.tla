----------------------------- MODULE StudyStore -----------------------------
(***************************************************************************)
(* The study store (internal/study/store.go) and the handlers that write   *)
(* to it: the dashboard's save, delete and import (internal/serve,         *)
(* applyStudy) and the API's create, update, delete and import             *)
(* (internal/api).  The store keeps every study three times: in the list   *)
(* `all`, in the index `byKey`, and in the table `studies`.  Its methods   *)
(* hold the store's mutex, so each is one step; a handler makes several    *)
(* calls, and between them any other handler runs.  A statement may fail   *)
(* and the process may be killed; the table survives.                      *)
(*                                                                         *)
(* A study is its key, its owner and a text that stands for the rest; keys *)
(* are numbered in string order.                                           *)
(***************************************************************************)
EXTENDS Listing

CONSTANTS
    Keys, Users, Admins, Texts,
    Global,         \* user.GlobalID
    Unlimited,      \* users of the pro tier
    FreeStudyQuota, \* 0: no quota
    Seed,           \* the lines of SCANNER_STUDIES_PATH
    Writers,        \* request goroutines
    Kinds,          \* kinds of requests the clients send
    Named,          \* owners a request may name: "" for none
    MaxAll          \* bound: entries of the list

NoOwner == ""
NoStudy == [key |-> 0, owner |-> NoOwner, text |-> ""]

Owners  == Users \cup Admins \cup {Global}
Studies == [key : Keys, owner : Owners, text : Texts]

\* save and remove come from the dashboard, the others from the API: create
\* (also each study of an import), update and delete.
AllKinds == {"save", "remove", "create", "update", "delete"}

Drafts  == [key : Keys, owner : Named, text : Texts]
Names   == [key : Keys, owner : {NoOwner}, text : {""}]

\* The API's handlers do not look at who asks.
Tasks ==
    {t \in     [by : Users \cup Admins, kind : {"save"}, study : Drafts]
          \cup [by : Users \cup Admins, kind : {"remove"}, study : Names]
          \cup [by : {NoOwner}, kind : {"create", "update"}, study : Drafts]
          \cup [by : {NoOwner}, kind : {"delete"}, study : Names] : t.kind \in Kinds}

ASSUME StudyAssumption ==
    /\ IsFiniteSet(Keys) /\ Keys \subseteq Nat \ {0}
    /\ NoOwner \notin Owners
    /\ Unlimited \subseteq Users
    /\ FreeStudyQuota \in Nat
    /\ Seed \in Seq(Studies)
    /\ Kinds \subseteq AllKinds
    /\ Named \subseteq Owners \cup {NoOwner}
    /\ MaxAll \in Nat

VARIABLES
    mode,       \* the process: "down", "seeding" or "up"
    seedAt,     \* next line of Seed to be saved, while seeding
    all,        \* s.all
    byKey,      \* s.byKey: NoStudy where the key is missing
    sql,        \* the table studies
    pc, task,   \* where each request is, and what it wants
    unsaved,    \* history: keys whose last write did not reach the table
    hidden      \* history: keys of rows that the last start could not read

memVars == <<mode, seedAt, all, byKey>>
reqVars == <<pc, task>>
vars == <<mode, seedAt, all, byKey, sql, pc, task, unsaved, hidden>>

NoTask == [by |-> NoOwner, kind |-> "none", study |-> NoStudy]

PC == {"idle", "get", "quota", "preview", "upsert", "delete"}

-----------------------------------------------------------------------------
(* OpenStoreWithDB *)

\* loadFromSQL succeeds and finds studies: SELECT ... ORDER BY key.
OpenFromSQL ==
    /\ mode = "down"
    /\ \E k \in Keys : sql[k] # NoStudy
    /\ all' \in InOrder(sql, {k \in Keys : sql[k] # NoStudy})
    /\ byKey' = sql
    /\ mode' = "up"
    /\ unsaved' = {}
    /\ hidden' = {}
    /\ UNCHANGED <<seedAt, sql, reqVars>>

\* The table is empty, or loadFromSQL failed: import the JSONL file instead.
\* The rows of a table that could not be read stay where they are.
OpenFromSeed ==
    /\ mode = "down"
    /\ mode' = "seeding"
    /\ hidden' = {k \in Keys : sql[k] # NoStudy}
    /\ unsaved' = {}
    /\ UNCHANGED <<seedAt, all, byKey, sql, reqVars>>

\* One line is imported (importJSONLFile) and saved to the table.  The code
\* imports all lines before it saves the first; nobody sees the store's memory
\* before OpenStoreWithDB returns.
SeedOne ==
    /\ mode = "seeding"
    /\ seedAt <= Len(Seed)
    /\ all' = Append(all, Seed[seedAt])
    /\ byKey' = [byKey EXCEPT ![Seed[seedAt].key] = Seed[seedAt]]
    /\ sql' = [sql EXCEPT ![Seed[seedAt].key] = Seed[seedAt]]
    /\ hidden' = hidden \ {Seed[seedAt].key}
    /\ seedAt' = seedAt + 1
    /\ UNCHANGED <<mode, reqVars, unsaved>>

SeedDone ==
    /\ mode = "seeding"
    /\ seedAt > Len(Seed)
    /\ mode' = "up"
    /\ seedAt' = 1
    /\ UNCHANGED <<all, byKey, sql, reqVars, unsaved, hidden>>

\* The process ends wherever it is: killed, shut down, or refusing to start
\* because a seed could not be saved.
ProcessEnds ==
    /\ mode # "down"
    /\ mode' = "down"
    /\ seedAt' = 1
    /\ all' = <<>>
    /\ byKey' = [k \in Keys |-> NoStudy]
    /\ pc' = [w \in Writers |-> "idle"]
    /\ task' = [w \in Writers |-> NoTask]
    /\ unsaved' = {}
    /\ hidden' = {}
    /\ UNCHANGED sql

-----------------------------------------------------------------------------
(* Requests *)

IsAdmin(u) == u \in Admins

Goto(w, where) == pc' = [pc EXCEPT ![w] = where] /\ UNCHANGED task

Answer(w) ==
    /\ pc' = [pc EXCEPT ![w] = "idle"]
    /\ task' = [task EXCEPT ![w] = NoTask]

\* applyStudy forces a user's studies to be their own.
OwnTask(t) ==
    [by |-> t.by, kind |-> t.kind,
     study |-> [key |-> t.study.key, owner |-> t.by, text |-> t.study.text]]

Arrive(w, t) ==
    /\ mode = "up"
    /\ pc[w] = "idle"
    /\ task' = [task EXCEPT ![w] =
          IF t.kind = "save" /\ ~IsAdmin(t.by) THEN OwnTask(t) ELSE t]
    /\ pc' = [pc EXCEPT ![w] =
          CASE t.kind = "create" -> "upsert" [] t.kind = "delete" -> "delete" [] OTHER -> "get"]
    /\ UNCHANGED <<memVars, sql, unsaved, hidden>>

\* A study of this key, if any, is one the requester may change.
MayChange(t) ==
    LET existing == byKey[t.study.key] IN
    existing = NoStudy \/ IsAdmin(t.by) \/ existing.owner = t.by

\* s.studies.Get and what the handler makes of it.
Get(w) ==
    LET t == task[w]
        exists == byKey[t.study.key] # NoStudy
        capped == ~IsAdmin(t.by) /\ t.by \notin Unlimited /\ FreeStudyQuota > 0
    IN
    /\ pc[w] = "get"
    /\ \/ /\ t.kind = "save" /\ MayChange(t)
          /\ Goto(w, IF ~exists /\ capped THEN "quota" ELSE "preview")
       \/ /\ t.kind = "remove" /\ MayChange(t)
          /\ Goto(w, "delete")
       \/ /\ t.kind = "update" /\ exists
          /\ Goto(w, "upsert")
       \/ /\ IF t.kind = "update" THEN ~exists ELSE ~MayChange(t)
          /\ Answer(w)
    /\ UNCHANGED <<memVars, sql, unsaved, hidden>>

Owned(u) == {i \in 1..Len(all) : all[i].owner = u}

\* The loop over s.studies.All() of applyStudy.
CheckQuota(w) ==
    /\ pc[w] = "quota"
    /\ IF Cardinality(Owned(task[w].by)) >= FreeStudyQuota THEN Answer(w) ELSE Goto(w, "preview")
    /\ UNCHANGED <<memVars, sql, unsaved, hidden>>

\* s.preview runs the study, waiting for Server.mu and perhaps a scan.
Preview(w) ==
    /\ pc[w] = "preview"
    /\ Goto(w, "upsert")
    /\ UNCHANGED <<memVars, sql, unsaved, hidden>>

\* The key or WHERE is empty, a clause is not allowed, the preview fails, the
\* user is not in the group: an error is answered.
Refuse(w) ==
    /\ pc[w] \in {"get", "preview", "upsert"}
    /\ Answer(w)
    /\ UNCHANGED <<memVars, sql, unsaved, hidden>>

\* Mutant: the default owner is only applied to what is written to the table.
NormalisedNot(st) == st

\* Upsert's defaults.
Normalised(st) ==
    [key |-> st.key, owner |-> IF st.owner = NoOwner THEN Global ELSE st.owner, text |-> st.text]

\* Mutant: a replaced study stays as it was in the list.
UpsertMemoryIndexOnly(st) ==
    /\ \/ byKey[st.key] # NoStudy /\ UNCHANGED all
       \/ byKey[st.key] = NoStudy /\ Len(all) < MaxAll /\ all' = Append(all, st)
    /\ byKey' = [byKey EXCEPT ![st.key] = st]
    /\ UNCHANGED <<mode, seedAt>>

\* The list and the index: the first entry with the key is replaced, or the
\* study is appended when the index has no such key.
UpsertMemory(st) ==
    /\ \/ /\ byKey[st.key] # NoStudy
          /\ all' = [i \in 1..Len(all) |->
                IF all[i].key = st.key /\ \A j \in 1..(i - 1) : all[j].key # st.key
                THEN st ELSE all[i]]
       \/ /\ byKey[st.key] = NoStudy
          /\ Len(all) < MaxAll
          /\ all' = Append(all, st)
    /\ byKey' = [byKey EXCEPT ![st.key] = st]
    /\ UNCHANGED <<mode, seedAt>>

\* Mutant: INSERT OR IGNORE.
SaveToSQLIgnores(st) ==
    sql' = IF sql[st.key] = NoStudy THEN [sql EXCEPT ![st.key] = st] ELSE sql

\* saveToSQL: INSERT OR REPLACE.
SaveToSQL(st) == sql' = [sql EXCEPT ![st.key] = st]

Upsert(w) ==
    LET st == Normalised(task[w].study) IN
    /\ pc[w] = "upsert"
    /\ UpsertMemory(st)
    /\ SaveToSQL(st)
    /\ unsaved' = unsaved \ {st.key}
    /\ hidden' = hidden \ {st.key}
    /\ Answer(w)

\* saveToSQL fails: the error is answered, the memory stays changed.
UpsertFails(w) ==
    LET st == Normalised(task[w].study) IN
    /\ pc[w] = "upsert"
    /\ UpsertMemory(st)
    /\ unsaved' = unsaved \cup {st.key}
    /\ hidden' = hidden \ {st.key}
    /\ Answer(w)
    /\ UNCHANGED sql

DeleteNotFound(w) ==
    /\ pc[w] = "delete"
    /\ byKey[task[w].study.key] = NoStudy
    /\ Answer(w)
    /\ UNCHANGED <<memVars, sql, unsaved, hidden>>

Delete(w) ==
    LET k == task[w].study.key IN
    /\ pc[w] = "delete"
    /\ byKey[k] # NoStudy
    /\ byKey' = [byKey EXCEPT ![k] = NoStudy]
    /\ sql' = [sql EXCEPT ![k] = NoStudy]
    /\ all' \in InOrder(all, {i \in 1..Len(all) : all[i].key # k})
    /\ unsaved' = unsaved \ {k}
    /\ Answer(w)
    /\ UNCHANGED <<mode, seedAt, hidden>>

\* The DELETE statement fails: the index has lost the key, the list has not.
DeleteFails(w) ==
    LET k == task[w].study.key IN
    /\ pc[w] = "delete"
    /\ byKey[k] # NoStudy
    /\ byKey' = [byKey EXCEPT ![k] = NoStudy]
    /\ unsaved' = unsaved \cup {k}
    /\ Answer(w)
    /\ UNCHANGED <<mode, seedAt, all, sql, hidden>>

-----------------------------------------------------------------------------

Init ==
    /\ mode = "down"
    /\ seedAt = 1
    /\ all = <<>>
    /\ byKey = [k \in Keys |-> NoStudy]
    /\ sql = [k \in Keys |-> NoStudy]
    /\ pc = [w \in Writers |-> "idle"]
    /\ task = [w \in Writers |-> NoTask]
    /\ unsaved = {}
    /\ hidden = {}

RequestStep(w) ==
    \/ Get(w) \/ CheckQuota(w) \/ Preview(w) \/ Refuse(w)
    \/ Upsert(w) \/ UpsertFails(w)
    \/ DeleteNotFound(w) \/ Delete(w) \/ DeleteFails(w)

Next ==
    \/ OpenFromSQL \/ OpenFromSeed \/ SeedOne \/ SeedDone \/ ProcessEnds
    \/ \E w \in Writers : RequestStep(w) \/ \E t \in Tasks : Arrive(w, t)

Spec == Init /\ [][Next]_vars

-----------------------------------------------------------------------------

Requests ==
    [by : Owners \cup {NoOwner}, kind : AllKinds,
     study : [key : Keys, owner : Owners \cup {NoOwner}, text : Texts \cup {""}]]

\* Which requests can be where, and what they carry.
RequestOK(w) ==
    /\ task[w] \in Requests \cup {NoTask}
    /\ pc[w] = "idle" <=> task[w] = NoTask
    /\ task[w].kind \in {"save", "create", "update"} => task[w].study.text \in Texts
    /\ pc[w] = "get" => task[w].kind \in {"save", "remove", "update"}
    /\ pc[w] \in {"quota", "preview"} => task[w].kind = "save"
    /\ pc[w] = "upsert" => task[w].kind \in {"save", "create", "update"}
    /\ pc[w] = "delete" => task[w].kind \in {"remove", "delete"}

\* Types of the variables; a study is stored under its own key and with an
\* owner, whatever the request left out.
TypeOK ==
    /\ mode \in {"down", "seeding", "up"}
    /\ seedAt \in 1..(Len(Seed) + 1)
    /\ all \in Seq(Studies)
    /\ byKey \in [Keys -> Studies \cup {NoStudy}]
    /\ sql \in [Keys -> Studies \cup {NoStudy}]
    /\ \A k \in Keys : byKey[k] # NoStudy => byKey[k].key = k
    /\ \A k \in Keys : sql[k] # NoStudy => sql[k].key = k
    /\ pc \in [Writers -> PC]
    /\ DOMAIN task = Writers /\ \A w \in Writers : RequestOK(w)
    /\ unsaved \subseteq Keys /\ hidden \subseteq Keys

\* Through saves, deletes, failed statements, kills and reseeding, what the
\* index answers is what a restart would find, with two exceptions: keys whose
\* last write was answered with an error, and rows that the start could not
\* read.  Of the latter the index knows nothing until the key is saved again.
MemoryIsDisk ==
    mode # "down" =>
        /\ \A k \in Keys \ (unsaved \cup hidden) : byKey[k] = sql[k]
        /\ \A k \in hidden : byKey[k] = NoStudy /\ sql[k] # NoStudy

\* Get and All agree: a study the index finds is in the list, and a study of
\* the list is found unless its deletion failed.
IndexIsList ==
    /\ \A k \in Keys : byKey[k] # NoStudy => \E i \in 1..Len(all) : all[i] = byKey[k]
    /\ \A i \in 1..Len(all) : byKey[all[i].key] # NoStudy \/ all[i].key \in unsaved

\* A process that is down has no memory.
DownIsEmpty ==
    mode = "down" => all = <<>> /\ byKey = [k \in Keys |-> NoStudy] /\ seedAt = 1

\* Requests are served while the process is up.
OnlyWhileUp == mode # "up" => \A w \in Writers : pc[w] = "idle"

\* The inductive invariant.
Inv == TypeOK /\ MemoryIsDisk /\ IndexIsList /\ DownIsEmpty /\ OnlyWhileUp

=============================================================================
