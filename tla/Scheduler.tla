----------------------------- MODULE Scheduler -----------------------------
(* The cursor that walks the pattern (core/sequencer/src/scheduler.rs), as   *)
(* the operators of a record: the next step, whether it plays, the           *)
(* configured length of a run and the step the current run ends at.          *)
EXTENDS Integers

NoLimit == -1

Stopped == [next |-> 0, playing |-> FALSE, stopAfter |-> NoLimit, stopAt |-> NoLimit]

\* Starts a run at a step.
StartAt(s, step) ==
    [s EXCEPT !.next = step,
              !.playing = TRUE,
              !.stopAt = IF s.stopAfter = NoLimit THEN NoLimit ELSE step + s.stopAfter]

\* Steps of the run still to play, counting from unplayed.
Remaining(s, unplayed) ==
    LET from == IF unplayed < s.next THEN unplayed ELSE s.next
    IN  IF s.stopAt > from THEN s.stopAt - from ELSE 0

\* Mutant: the end of the run stays where it was.
SeekFixedEnd(s, step, unplayed) == [s EXCEPT !.next = step]

\* Moves the cursor of the current run.
Seek(s, step, unplayed) ==
    [s EXCEPT !.next = step,
              !.stopAt = IF @ = NoLimit THEN NoLimit ELSE step + Remaining(s, unplayed)]

Stop(s) == [s EXCEPT !.playing = FALSE]

SetStopAfter(s, n) ==
    [s EXCEPT !.stopAfter = n,
              !.stopAt = IF n = NoLimit THEN NoLimit ELSE s.next + n]

\* The run has scheduled its last step.
AtEnd(s) == s.stopAt # NoLimit /\ s.next >= s.stopAt

Advance(s) == [s EXCEPT !.next = @ + 1]
=============================================================================
