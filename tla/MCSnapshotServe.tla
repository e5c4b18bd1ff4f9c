-------------------------- MODULE MCSnapshotServe --------------------------
(* Two trading days, the second with one more symbol; the study accepts one  *)
(* symbol on each day, a different one, so that running on the wrong day     *)
(* shows.  The liveness run has a single day.                                *)
EXTENDS SnapshotServe

MCDates   == {1, 2}
MCNowTs   == 3
MCFull    == <<{"A"}, {"A", "B"}>>
MCAccepts == [d \in MCDates \cup {MCNowTs} |-> IF d = 1 THEN {"A"} ELSE {"B"}]

OneDate    == {1}
OneFull    == <<{"A"}>>
OneAccepts == [d \in {1, MCNowTs} |-> {"A"}]
=============================================================================
