-------------------------- MODULE MCScanUniverse --------------------------
(* Three symbols listed out of order, with last bars on three different    *)
(* days, and two workers: fewer workers than symbols, so that a worker     *)
(* comes back for a second job and the results channel can be full.        *)
EXTENDS ScanUniverse

MCSymbols == <<2, 3, 1>>
MCBarTs   == <<6, 5, 7>>
MCNow     == 9
=============================================================================
