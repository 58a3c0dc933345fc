------------------------------ MODULE Follower ------------------------------
(* Following an external tempo source (core/sync/src/follower.rs): how the   *)
(* follower finds the source's phase, loses it, and tells a jump of the      *)
(* source from a bad report.                                                 *)
(*                                                                           *)
(* A unit of time is a unit of phase: source, estimate and output run at the *)
(* tempo the source reports, and only their distances on the bar matter.     *)
(* What a filter gain or a slew does with a distance is to take some whole   *)
(* units of it away, perhaps none.                                           *)
EXTENDS Integers, Sequences, FiniteSetsExt

CONSTANTS
    Bar, Beat,     \* units in a bar and in a beat
    Kinds,         \* what sources report: their place in the "bar" or the "beat"
    Precisions,    \* names of tunings, and their parts
    AcquireObs, JumpThreshold, JumpHold, JumpObs,
    LockTimeout,   \* LOCK_TIMEOUT_S
    MaxAhead,      \* MAX_AHEAD_S
    ReportPeriod,  \* longest time without a usable report of a source that is there
    Lags,          \* how old reports are when they arrive
    Errors,        \* how wrong a bad report is
    Shifts,        \* how far the source jumps
    Rewinds,       \* how far the consumer's sample clock goes back
    MaxTrouble     \* bound: how often something goes wrong or is asked for

ASSUME FollowerAssumption ==
    /\ Beat \in Nat \ {0} /\ Bar \in Nat \ {0} /\ Bar % Beat = 0
    /\ Kinds \subseteq {"bar", "beat"}
    /\ AcquireObs \in [Precisions -> Nat \ {0}]
    /\ JumpThreshold \in [Precisions -> Nat]
    /\ JumpHold \in [Precisions -> Nat]
    /\ JumpObs \in [Precisions -> Nat \ {0}]
    /\ LockTimeout \in Nat /\ MaxAhead \in Nat
    /\ ReportPeriod \in 1 .. LockTimeout
    /\ Lags \subseteq Int /\ Errors \subseteq Int /\ Shifts \subseteq Int
    /\ Rewinds \subseteq Nat /\ MaxTrouble \in Nat

\* The age of a last report too old to matter, and that of none.
Forgotten == LockTimeout + 1
Never == LockTimeout + 2

\* A candidate jump this old has been held long enough for any report.
Oldest == LockTimeout + Max({JumpHold[p] : p \in Precisions})

NoJump == [count |-> 0]

VARIABLES
    precision,
    lock,           \* Acquire, Reacquire or Track
    locked,
    acquired,       \* reports averaged so far, no more than it takes
    jump,           \* a run of outliers that agree: a candidate jump
    resync,         \* resync_requested
    age,            \* now - last_observation
    discontinuity,  \* of the last call: the caller takes it at once
    off,            \* from the estimate to the source, on the bar
    gap,            \* from the output to the estimate
    kind,           \* external: what the source reports
    quiet,          \* external: the source is silent
    trouble,        \* how often something went wrong so far
    run,            \* history: the outliers since the last report that agreed
    settled         \* history: found the source, and nothing went wrong since

followerVars == <<precision, lock, locked, acquired, jump, resync, age, off, gap>>
worldVars == <<kind, quiet, trouble>>
vars == <<followerVars, discontinuity, worldVars, run, settled>>

Modulus(k) == IF k = "bar" THEN Bar ELSE Beat

\* wrap: x in [-m / 2, m / 2).
Wrap(x, m) == IF 2 * (x % m) >= m THEN (x % m) - m ELSE x % m

Abs(x) == IF x < 0 THEN -x ELSE x

\* What a gain takes away of a distance.
PartsOf(err) == IF err < 0 THEN err .. 0 ELSE 0 .. err

\* The output is where the source is.
InPlace == gap = 0 /\ off % Modulus(kind) = 0

\* A follower as set_clock_mode makes it: new, then reset to the current beat.
Init ==
    /\ precision \in Precisions
    /\ lock = "acquire" /\ locked = FALSE /\ acquired = 0
    /\ jump = NoJump /\ resync = FALSE
    /\ age = Never /\ discontinuity = FALSE
    /\ off \in 0 .. Bar - 1 /\ gap = 0
    /\ kind \in Kinds /\ quiet = TRUE /\ trouble = 0
    /\ run = <<>> /\ settled = FALSE

-----------------------------------------------------------------------------
(* One report                                                                *)

\* Our own sample clock went back: the history is of another time.
WentBack(lag) == lag - age > LockTimeout

\* Not stale, not too far ahead, and newer than what was used.
Accepted(lag) ==
    /\ lag \in -MaxAhead .. LockTimeout
    /\ lag < age \/ WentBack(lag)

\* The estimate moves by d: away from the output, closer to the source.
MoveEstimate(d) == off' = (off - d) % Bar /\ gap' = gap + d

\* snap_output, with the estimate moved by d.
Snap(d) ==
    /\ off' = (off - d) % Bar /\ gap' = 0
    /\ discontinuity' = TRUE
    /\ lock' = "track" /\ locked' = TRUE /\ acquired' = 0

\* Mutant: the report it begins with is not counted.
BeginAcquireAtZero(outErr, stays) ==
    /\ jump' = NoJump /\ run' = <<>>
    /\ IF AcquireObs[precision] = 1
       THEN Snap(outErr - gap)
       ELSE /\ MoveEstimate(outErr - gap)
            /\ lock' = "acquire" /\ acquired' = 0 /\ locked' = stays
            /\ discontinuity' = FALSE

\* begin_acquire: the estimate restarts on the report, outErr from the output,
\* which follows at once if one report will do.  stays: whether the follower
\* counts as locked meanwhile.
BeginAcquire(outErr, stays) ==
    /\ jump' = NoJump /\ run' = <<>>
    /\ IF AcquireObs[precision] = 1
       THEN Snap(outErr - gap)
       ELSE /\ MoveEstimate(outErr - gap)
            /\ lock' = "acquire" /\ acquired' = 1 /\ locked' = stays
            /\ discontinuity' = FALSE

\* The next reports of an acquisition are averaged until they are enough.
Acquire(estErr) ==
    /\ \E d \in PartsOf(estErr) :
        IF acquired + 1 >= AcquireObs[precision]
        THEN Snap(d)
        ELSE /\ MoveEstimate(d)
             /\ acquired' = acquired + 1
             /\ discontinuity' = FALSE
             /\ UNCHANGED <<lock, locked>>
    /\ UNCHANGED <<jump, run>>

\* Mutant: the candidate jump outlives a report that agrees.
TrackKeepsJump(estErr) ==
    /\ \E d \in PartsOf(estErr) : MoveEstimate(d)
    /\ lock' = "track" /\ locked' = TRUE
    /\ run' = <<>>
    /\ discontinuity' = FALSE
    /\ UNCHANGED <<acquired, jump>>

\* A report that agrees, of a follower that tracks or was only away (and then
\* has no candidate jump).
Track(estErr) ==
    /\ \E d \in PartsOf(estErr) : MoveEstimate(d)
    /\ lock' = "track" /\ locked' = TRUE
    /\ jump' = NoJump /\ run' = <<>>
    /\ discontinuity' = FALSE
    /\ UNCHANGED acquired

Threshold(m) == Min({JumpThreshold[precision], (9 * m) \div 20})

\* The candidate jump with one more outlier: in its mean if it agrees, a new
\* candidate if it does not.
Extended(estErr, lag, m) ==
    LET delta == Wrap(estErr - jump.offset, m) IN
    IF jump # NoJump /\ Abs(delta) <= Threshold(m)
    THEN {[jump EXCEPT !.count = @ + 1, !.offset = @ + d] : d \in PartsOf(delta)}
    ELSE {[count |-> 1, since |-> lag, offset |-> estErr]}

Held(j, lag) == j.since - lag >= JumpHold[precision] /\ j.count >= JumpObs[precision]

\* Ignored by the estimate, unless it has kept coming: then the source jumped.
Outlier(estErr, lag, m) ==
    /\ \E j \in Extended(estErr, lag, m) :
        IF Held(j, lag)
        THEN Snap(j.offset) /\ jump' = NoJump
        ELSE /\ jump' = j
             /\ locked' = TRUE /\ discontinuity' = FALSE
             /\ UNCHANGED <<lock, acquired, off, gap>>
    /\ run' = Append(run, [err |-> estErr, age |-> lag])

\* observe, with a phase in units of m that is wrong by e.
PhaseReport(lag, m, e) ==
    LET estErr == Wrap(off + e, m)
        outErr == Wrap(off + gap + e, m)
        afresh == WentBack(lag) \/ resync \/ (lock = "acquire" /\ acquired = 0)
    IN  /\ Accepted(lag)
        /\ age' = lag
        /\ resync' = FALSE
        /\ \/ afresh /\ BeginAcquire(outErr, locked /\ ~WentBack(lag))
           \/ ~afresh /\ lock = "acquire" /\ Acquire(estErr)
           \/ ~afresh /\ lock = "reacquire" /\ Abs(outErr) > Threshold(m)
              /\ BeginAcquire(outErr, FALSE)
           \/ ~afresh /\ lock = "reacquire" /\ Abs(outErr) <= Threshold(m) /\ Track(estErr)
           \/ ~afresh /\ lock = "track" /\ Abs(estErr) <= Threshold(m) /\ Track(estErr)
           \/ ~afresh /\ lock = "track" /\ Abs(estErr) > Threshold(m) /\ Outlier(estErr, lag, m)
        /\ UNCHANGED precision

\* observe, with a tempo and no phase: there is nothing to align.
TempoReport(lag) ==
    /\ Accepted(lag)
    /\ age' = lag
    /\ lock' = IF WentBack(lag) THEN "acquire" ELSE IF lock = "reacquire" THEN "track" ELSE lock
    /\ acquired' = IF WentBack(lag) THEN 0 ELSE acquired
    /\ locked' = TRUE
    /\ discontinuity' = FALSE
    /\ UNCHANGED <<precision, jump, resync, off, gap, run>>

-----------------------------------------------------------------------------
(* The control tick                                                          *)

Aged(n, most) == IF n < most THEN n + 1 ELSE n

\* Mutant: a source that was away is found again like a new one.
LoseToAcquire == locked' = FALSE /\ jump' = NoJump /\ lock' = "acquire"

\* advance, for a source that has not reported for too long.
Lose ==
    /\ locked' = FALSE /\ jump' = NoJump
    /\ lock' = IF lock = "track" THEN "reacquire" ELSE lock

\* The output may have closed a unit of its gap.
Slew ==
    \/ UNCHANGED gap
    \/ locked /\ lock = "track" /\ gap > 0 /\ gap' = gap - 1
    \/ locked /\ lock = "track" /\ gap < 0 /\ gap' = gap + 1

\* A unit of time passes, and advance is called.
Tick ==
    /\ quiet \/ age < ReportPeriod
    /\ age' = IF age = Never THEN Never ELSE Aged(age, Forgotten)
    /\ IF locked /\ age' > LockTimeout
       THEN Lose
       ELSE /\ jump' = IF jump = NoJump THEN NoJump ELSE [jump EXCEPT !.since = Aged(@, Oldest)]
            /\ UNCHANGED <<locked, lock>>
    /\ Slew
    /\ run' = [i \in DOMAIN run |-> [run[i] EXCEPT !.age = Aged(@, Oldest)]]
    /\ discontinuity' = FALSE
    /\ UNCHANGED <<precision, acquired, resync, off>>

-----------------------------------------------------------------------------
(* The source, the user and the consumer's clock                             *)

\* The source was found once the follower tracks it and the output is in place.
GoodReport(lag) ==
    /\ ~quiet /\ PhaseReport(lag, Modulus(kind), 0)
    /\ UNCHANGED worldVars
    /\ settled' = (settled \/ (lock' = "track" /\ InPlace'))

TempoOnly(lag) == ~quiet /\ TempoReport(lag) /\ UNCHANGED <<worldVars, settled>>

TimePasses == Tick /\ UNCHANGED <<worldVars, settled>>

ComeBack ==
    /\ quiet /\ quiet' = FALSE
    /\ discontinuity' = FALSE
    /\ UNCHANGED <<followerVars, kind, trouble, run, settled>>

Trouble == trouble < MaxTrouble /\ trouble' = trouble + 1

GoQuiet ==
    /\ Trouble /\ ~quiet
    /\ quiet' = TRUE
    /\ discontinuity' = FALSE
    /\ UNCHANGED <<followerVars, kind, run, settled>>

SetPrecision ==
    /\ Trouble
    /\ \E p \in Precisions \ {precision} : precision' = p
    /\ jump' = NoJump
    /\ lock' = IF lock = "track" THEN "reacquire" ELSE lock
    /\ discontinuity' = FALSE
    /\ UNCHANGED <<locked, acquired, resync, age, off, gap, kind, quiet, run, settled>>

RequestResync ==
    /\ Trouble /\ ~resync
    /\ resync' = TRUE
    /\ discontinuity' = FALSE
    /\ settled' = FALSE
    /\ UNCHANGED <<precision, lock, locked, acquired, jump, age, off, gap, kind, quiet, run>>

\* A glitch, a tap, or where the source was before it jumped.
BadReport(lag) ==
    /\ Trouble /\ ~quiet
    /\ \E k \in Kinds, e \in Errors : PhaseReport(lag, Modulus(k), e)
    /\ settled' = FALSE
    /\ UNCHANGED <<kind, quiet>>

SourceJumps ==
    /\ Trouble
    /\ \E x \in Shifts : off' = (off + x) % Bar
    /\ discontinuity' = FALSE
    /\ settled' = FALSE
    /\ UNCHANGED <<precision, lock, locked, acquired, jump, resync, age, gap, kind, quiet, run>>

\* The consumer's sample clock starts again from an earlier time; the source
\* plays on.
Rewind ==
    /\ Trouble /\ age # Never
    /\ jump # NoJump => jump.since < Oldest
    /\ \E r \in Rewinds :
        /\ age' = age - r /\ off' = (off + r) % Bar
        /\ jump' = IF jump = NoJump THEN NoJump ELSE [jump EXCEPT !.since = @ - r]
        /\ run' = [i \in DOMAIN run |-> [run[i] EXCEPT !.age = @ - r]]
    /\ discontinuity' = FALSE
    /\ settled' = FALSE
    /\ UNCHANGED <<precision, lock, locked, acquired, resync, gap, kind, quiet>>

Next ==
    \/ \E lag \in Lags : GoodReport(lag) \/ TempoOnly(lag) \/ BadReport(lag)
    \/ TimePasses \/ ComeBack \/ GoQuiet
    \/ SetPrecision \/ RequestResync \/ SourceJumps \/ Rewind

Spec == Init /\ [][Next]_vars

\* Time passes, a silent source comes back, and a source that is there goes on
\* reporting its phase.  Gains and slews are above zero: what they take away of
\* a distance adds up to a unit in the end.
FairSpec ==
    /\ Spec
    /\ WF_vars(TimePasses) /\ WF_vars(ComeBack)
    /\ SF_vars(\E lag \in Lags : GoodReport(lag))
    /\ SF_vars(\E lag \in Lags : GoodReport(lag) /\ off' # off)
    /\ SF_vars(TimePasses /\ gap' # gap)

-----------------------------------------------------------------------------
(* What the follower promises.                                               *)

\* What a report may change.
AlignmentTypeOK ==
    /\ lock \in {"acquire", "reacquire", "track"}
    /\ locked \in BOOLEAN /\ discontinuity \in BOOLEAN
    /\ acquired \in Nat /\ \E p \in Precisions : acquired < AcquireObs[p]
    /\ jump = NoJump \/ jump \in [count : Nat \ {0}, since : Int, offset : Int]
    /\ off \in 0 .. Bar - 1 /\ gap \in Int
    /\ run \in Seq([err : Int, age : Int])

\* Every variable stays in its range (FollowerClock).
TypeOK ==
    /\ AlignmentTypeOK
    /\ precision \in Precisions /\ resync \in BOOLEAN
    /\ age \in Int /\ age <= Never
    /\ kind \in Kinds /\ quiet \in BOOLEAN /\ trouble \in 0 .. MaxTrouble

\* Whoever is locked has heard from the source within the timeout, also when
\* reports come late or early and our own clock goes back (is_locked).
LockIsFresh == locked => age <= LockTimeout

\* The same place in the beat, up to t.
Close(x, y, t) == Abs(Wrap(x - y, Beat)) <= t

\* Each of the outliers from the i-th on agrees with the next.
AgreeFrom(outliers, i) ==
    \A j \in i .. Len(outliers) - 1 :
        Close(outliers[j + 1].err, outliers[j].err, 2 * JumpThreshold[precision])

\* The last n outliers are enough to believe in a jump.
Sustained(outliers, n) ==
    LET first == Len(outliers) - n + 1 IN
    /\ n >= JumpObs[precision]
    /\ outliers[first].age - outliers[Len(outliers)].age >= JumpHold[precision]
    /\ AgreeFrom(outliers, first)

\* A candidate is what it counts: the last of the outliers, beginning when it
\* says, all in one place.
IsRunOf(j, outliers) ==
    LET first == Len(outliers) - j.count + 1 IN
    /\ first >= 1
    /\ outliers[first].age = j.since
    /\ AgreeFrom(outliers, first)
    /\ Close(outliers[Len(outliers)].err, j.offset, JumpThreshold[precision])

\* The candidate jump never counts a report from before one that agreed, before
\* the source was lost or before the tuning changed (Jump).
JumpIsRun == jump # NoJump => IsRunOf(jump, run)

\* A follower that tracks a source jumps after it only when it was asked to,
\* when our clock went back, or when enough reports in a row, over long enough,
\* agreed on another place (docs/adr/0006, "A single late packet never snaps").
SnapsAreEarned ==
    [][discontinuity' /\ lock = "track" /\ ~resync /\ ~WentBack(age') =>
          \E n \in 1 .. Len(run') : Sustained(run', n)]_vars

\* A follower that found its source never jumps while nothing goes wrong but
\* silences, late and repeated reports and changes of precision (docs/adr/0006,
\* "if the next phase report is within the jump threshold, tracking simply
\* resumes").
NoNeedlessSnap == [][settled /\ settled' => ~discontinuity']_vars

\* Whatever went wrong, in the end the output is where the source is and the
\* follower says so: no mix of lost reports, jumps and rewinds leaves it waiting
\* for an acquisition or a candidate jump that never completes.
Converges == <>[](locked /\ lock = "track" /\ InPlace)
=============================================================================
