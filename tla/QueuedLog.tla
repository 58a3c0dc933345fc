----------------------------- MODULE QueuedLog -----------------------------
(* The control thread's record of the steps it queued and where              *)
(* (QueuedLog in core/engine/src/control.rs).  An entry has a step, the      *)
(* sample of its earliest event and the sample of its grid hit; the log is   *)
(* the sequence of the last QueuedMemory entries, oldest first.              *)
EXTENDS Integers, SequencesExt

CONSTANTS
    QueuedMemory \* entries remembered

PushEntry(log, q) ==
    LET all == Append(log, q)
    IN  IF Len(all) > QueuedMemory THEN Tail(all) ELSE all

\* How many of the newest entries have their hit at or after a sample.
NewestFrom(log, sample) ==
    Max({n \in 0 .. Len(log) : \A i \in Len(log) - n + 1 .. Len(log) : log[i].sample >= sample})

\* Forgets the entries a flush at sample took back.
FlushLog(log, sample) == SubSeq(log, 1, Len(log) - NewestFrom(log, sample))

\* Mutant: the flush lands on the hit it should keep.
FlushOnHit(log, i, commit) == Max({commit} \cup {log[j].sample : j \in 1 .. i})

\* The flush that keeps the i oldest entries whole and takes back the rest.
FlushAfter(log, i, commit) == Max({commit} \cup {log[j].sample + 1 : j \in 1 .. i})

\* Mutant: a step is told heard by its hit, whatever its grace note did.
HeardByHit(log, commit) ==
    Max({n \in 0 .. Len(log) : \A i \in 1 .. n : log[i].sample < commit})

\* How many of the oldest entries are heard whole: each begins before the
\* flush that keeps the ones in front of it.
HeardWhole(log, commit) ==
    Max({n \in 0 .. Len(log) :
            \A i \in 1 .. n : log[i].first < FlushAfter(log, i - 1, commit)})

\* Splits the log at commit into what is heard and what is dropped; heard and
\* dropped are the empty sequence or one entry.
Cut(log, commit) ==
    LET n == HeardWhole(log, commit) IN
    [flush   |-> FlushAfter(log, n, commit),
     heard   |-> IF n = 0 THEN <<>> ELSE <<log[n]>>,
     dropped |-> IF n = Len(log) THEN <<>> ELSE <<log[n + 1]>>]
=============================================================================
