------------------------------ MODULE MCFollower ------------------------------
(* Two tunings, one that takes every report and one that averages, on a bar  *)
(* of two beats.  The second holds a candidate jump for longer than a source *)
(* may be silent, as Coarse does below 120 BPM.                              *)
EXTENDS Follower

Tuning(fine, coarse) == [p \in Precisions |-> IF p = "fine" THEN fine ELSE coarse]

Acquires == Tuning(1, 2)
Thresholds == Tuning(1, 1)
Holds == Tuning(2, 4)
Observations == Tuning(2, 3)

ReportLags == {-1, 0, 2}
Mistakes == {-3}
=============================================================================
