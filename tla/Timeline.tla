------------------------------ MODULE Timeline ------------------------------
(* Where steps fall on the sample clock: the part of a clock the scheduler   *)
(* and the control thread use (core/sync/src/clock.rs and internal.rs,       *)
(* core/sequencer/src/scheduler.rs).                                         *)
(*                                                                           *)
(* A clock is piecewise linear, so between two changes it is the place of    *)
(* step 0 and the length of a step.  Both are kept in half samples, which    *)
(* makes tempi a factor of two apart and the rounding to a sample exact.     *)
EXTENDS Integers

CONSTANTS
    Swing        \* quarters of a step by which odd steps come late

\* At most half a step; the code allows a third (MAX_SHUFFLE_BEATS).
ASSUME SwingAssumption == Swing \in 0 .. 2

Clock == [anchor : Int, len : Nat \ {0}]

\* Half samples from the origin to step k.
StepPosition(c, k) == c.anchor + k * c.len + (k % 2) * Swing * (c.len \div 4)

\* The sample step k is queued at: rounded, and never before the origin.
StepSample(c, k) ==
    LET x == StepPosition(c, k) IN IF x <= 0 THEN 0 ELSE (x + 1) \div 2

\* The first step queued at or after a sample: one step back from where the
\* sample falls, in case swing made that step late, then forward.
FirstStepAtOrAfter(c, sample) ==
    LET behind == (2 * sample - c.anchor) \div c.len
        from   == IF behind <= 1 THEN 0 ELSE behind - 1
    IN  CHOOSE k \in from .. from + 3 :
            /\ StepSample(c, k) >= sample
            /\ \A j \in from .. k - 1 : StepSample(c, j) < sample

\* Half a step after a place in half samples, as a whole sample.
HalfStepAfter(c, place) ==
    LET x == place + c.len \div 2 IN IF x <= 0 THEN 0 ELSE (x + 1) \div 2

\* Another tempo from sample now on, the beat continuous there.
SetTempo(c, len, now) ==
    [anchor |-> 2 * now - ((2 * now - c.anchor) * len) \div c.len, len |-> len]

\* The same tempo, moved by whole samples.
Moved(c, samples) == [c EXCEPT !.anchor = @ + 2 * samples]

\* The same tempo, step 0 exactly on a sample.
RestartAt(c, sample) == [c EXCEPT !.anchor = 2 * sample]
=============================================================================
