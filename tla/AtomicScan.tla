----------------------------- MODULE AtomicScan -----------------------------
(***************************************************************************)
(* What scan.Universe promises its callers (server refresh, CLI digest):   *)
(* seen from outside, a scan is one step.  Load errors are logged while it *)
(* runs; the answer holds exactly the eligible symbols whose load was not  *)
(* logged as failed, each once and in symbol order, unless the context was *)
(* cancelled, in which case it holds some of them and nothing else.  The   *)
(* answer does not say which of the two it is: that is the code's contract *)
(* too (Universe returns no error).                                        *)
(***************************************************************************)
EXTENDS Integers, Sequences, Functions

CONSTANT Symbols    \* the list of symbols; a symbol is its rank in string order

Jobs == 1..Len(Symbols)

VARIABLES
    eligible,   \* positions whose bars make an eligible row
    cancelled,
    failed,
    returned,
    answer      \* the rows returned, a sequence of positions

vars == <<eligible, cancelled, failed, returned, answer>>

Init ==
    /\ eligible \in SUBSET Jobs
    /\ cancelled \in BOOLEAN
    /\ failed = {}
    /\ returned = FALSE
    /\ answer = <<>>

Cancel ==
    /\ ~returned
    /\ ~cancelled
    /\ cancelled' = TRUE
    /\ UNCHANGED <<eligible, failed, returned, answer>>

LogFailure(j) ==
    /\ ~returned
    /\ failed' = failed \cup {j}
    /\ UNCHANGED <<eligible, cancelled, returned, answer>>

Answer ==
    /\ ~returned
    /\ answer' \in Seq(eligible \ failed)
    /\ IsInjective(answer')
    /\ \A k \in 1..Len(answer') : \A l \in 1..Len(answer') :
          k < l => Symbols[answer'[k]] <= Symbols[answer'[l]]
    /\ ~cancelled => Range(answer') = eligible \ failed
    /\ returned' = TRUE
    /\ UNCHANGED <<eligible, cancelled, failed>>

Next ==
    \/ Cancel
    \/ \E j \in Jobs : LogFailure(j)
    \/ Answer

Spec == Init /\ [][Next]_vars
=============================================================================
