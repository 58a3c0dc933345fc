------------------------------ MODULE MCEngine ------------------------------
(* Small instances of the engine.  A sample stands for a render block of     *)
(* about 16 ms: a step is four of them, the lookahead six, a commit point    *)
(* two, the snap grace and a flam one; that is 240 BPM, 100 ms and blocks of *)
(* about 700 frames, the proportions of a fast pattern on a large buffer.    *)
EXTENDS Engine

Back == {-2}
BackAndForth == {-2, 3}

\* A follower's slew and a nudge of more than a step.
SmallSlews == {-1, 1}
LargeSlews == {-5}

\* The calls of a run, by the slots of its queue: three are too few for a step
\* and two flushes.
JumpOps(n) == {"start", "resync", "jump", "stop", "mode"}
NudgeOps(n) == {"start", "replan"}
ResyncOps(n) == {"start", "resync", "jump", "stopAfter"}
RestartOps(n) ==
    IF n = 3 THEN {"start", "jump", "param"}
    ELSE {"start", "resync", "jump", "stopAfter", "tempo", "replan"}
=============================================================================
