------------------------- MODULE SubscriptionStore -------------------------
(***************************************************************************)
(* internal/study.SubscriptionStore: who is subscribed to which study, in  *)
(* memory and in the table subscriptions, seeded from a JSONL file while   *)
(* the table is empty.  The write lock is held through each method, so a   *)
(* method is a step; a SQL statement may fail.                             *)
(***************************************************************************)
EXTENDS Integers, FiniteSets

CONSTANTS
    Pairs,      \* user and study key
    SubFile     \* the pairs of the JSONL file

VARIABLES
    subTable,   \* the table subscriptions
    subs,       \* SubscriptionStore.subs
    seed,       \* pairs that Open has still to write to the table
    subUnsaved  \* history: pairs whose last write failed

subVars == <<subTable, subs, seed, subUnsaved>>

Failed(p, ok) == subUnsaved' = IF ok THEN subUnsaved \ {p} ELSE subUnsaved \cup {p}

\* OpenSubscriptionStoreWithDB: the table, or the file when it is empty.
OpenSubs ==
    /\ subs' = IF subTable # {} THEN subTable ELSE SubFile
    /\ seed' = IF subTable # {} THEN {} ELSE SubFile
    /\ subUnsaved' = seed'
    /\ UNCHANGED subTable

\* seedSQL: one pair; its error is dropped.
SeedOne(p, ok) ==
    /\ p \in seed
    /\ seed' = seed \ {p}
    /\ subTable' = IF ok THEN subTable \cup {p} ELSE subTable
    /\ Failed(p, ok)
    /\ UNCHANGED subs

\* Subscribe, from the handler that has found the study and from ImportJSON.
Subscribe(p, ok) ==
    /\ subs' = subs \cup {p}
    /\ subTable' = IF ok THEN subTable \cup {p} ELSE subTable
    /\ Failed(p, ok)
    /\ UNCHANGED seed

Unsubscribe(p, ok) ==
    /\ subs' = subs \ {p}
    /\ subTable' = IF ok THEN subTable \ {p} ELSE subTable
    /\ Failed(p, ok)
    /\ UNCHANGED seed

\* The memory of the process is lost.
Forget ==
    /\ subs' = {} /\ seed' = {} /\ subUnsaved' = {}
    /\ UNCHANGED subTable

Init == subTable = {} /\ subs = {} /\ seed = {} /\ subUnsaved = {}

\* What the handlers of a running server do.
Request == \E p \in Pairs, ok \in BOOLEAN : Subscribe(p, ok) \/ Unsubscribe(p, ok)

TypeOK == subTable \subseteq Pairs /\ subs \subseteq Pairs /\ seed \subseteq SubFile

\* Memory and table agree on every pair, except those whose last write was
\* answered with an error: repeating a failed request, whatever was done in
\* between, makes them agree again.
SubsAgree == \A p \in Pairs \ subUnsaved : p \in subs <=> p \in subTable
=============================================================================
