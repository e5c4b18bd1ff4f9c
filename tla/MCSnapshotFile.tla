--------------------------- MODULE MCSnapshotFile ---------------------------
(* Five days: 2 is a weekend day, 3 and 5 are holidays, so that weekdays      *)
(* without bars are backfilled from older ones and the clock runs ahead of    *)
(* the newest bar.  Symbol b makes rows later than a.                         *)
EXTENDS SnapshotFile

MCFirstRow == [s \in Symbols |-> IF s = "a" THEN 1 ELSE 4]
=============================================================================
