---------------------------- MODULE MCStudyStore ----------------------------
(* Two keys, one of them in the JSONL file.                                *)
EXTENDS StudyStore, TLC

AnyWriter == Permutations(Writers)

MCSeed  == <<[key |-> 1, owner |-> "global", text |-> "a"]>>
=============================================================================
