------------------------------- MODULE TapTempo -------------------------------
(* Tap tempo: taps become a tempo and a beat position                        *)
(* (core/sync/src/tap.rs).                                                   *)
(*                                                                           *)
(* Time is relative: the newest tap made is at 0 and the taps remembered lie *)
(* at or before it, so a tap that is dropped only moves them back.  A median *)
(* is kept doubled, as it may fall between two integers.                     *)
EXTENDS Integers, Sequences, FiniteSets, SequencesExt

CONSTANTS
    TapTimeout,   \* TAP_TIMEOUT_S: a longer pause starts a new sequence
    Taps,         \* TAPS: taps remembered
    ShortestBeat, \* the beat at MAX_BPM
    BeatLengths,        \* the intervals a tapper taps at
    Displacements,\* how far off a tap that fails may be
    SettledAfter       \* taps at one interval after which that is the tempo

VARIABLES
    taps,         \* when the taps of the sequence were, oldest first
    outliers,     \* outlier intervals in a row
    tapAnswer,    \* what the last tap returned
    tapper        \* who taps: the beat meant, how far off it the newest tap is,
                  \* taps at this beat so far, and whether one of them failed

tapVars == <<taps, outliers, tapAnswer, tapper>>

NoBeat == [twice |-> 0, offset |-> 0]

TapInit ==
    /\ taps = <<>> /\ outliers = 0
    /\ tapAnswer = NoBeat
    /\ tapper \in [beat : BeatLengths, off : {0}, taps : {0}, failed : {FALSE}]

-----------------------------------------------------------------------------
(* The numbers *)

\* Twice the median of a non-empty sequence.
TwiceMedian(s) ==
    LET sorted == SortSeq(s, <)
        n == Len(s)
    IN  sorted[(n + 1) \div 2] + sorted[n \div 2 + 1]

IntervalsOf(ts) == [i \in 1 .. Len(ts) - 1 |-> ts[i + 1] - ts[i]]

\* Twice median_interval.
TwiceInterval(ts) == TwiceMedian(IntervalsOf(ts))

\* BOUNCE_FRACTION and OUTLIER_FRACTION, against twice a median.
IsBounce(interval, twice) == 40 * interval < 7 * twice
IsOutlier(interval, twice) ==
    8 * interval > 5 * twice \/ 8 * interval < 3 * twice

\* A tap's offset from the nearest beat through the newest tap; half a beat
\* away counts as late.  Doubled, as the beat is.
TwiceOffset(t, twice) ==
    LET m == (2 * t) % twice
    IN  IF 2 * m > twice THEN m - twice ELSE m

\* Four times what fitted_last_beat adds to the newest tap.
FourOffsets(ts, twice) ==
    LET newest == Last(ts)
    IN  TwiceMedian([i \in DOMAIN ts |-> TwiceOffset(ts[i] - newest, twice)])

-----------------------------------------------------------------------------
(* tap *)

PushTap(ts, t) == Append(IF Len(ts) = Taps THEN Tail(ts) ELSE ts, t)

\* The second outlier in a row.  Alike: a new tempo, of which the two newest
\* taps are kept.  One long and one short: the tap between them was displaced.
SecondOutlier(ts, interval) ==
    LET n == Len(ts)
        previous == ts[n] - ts[n - 1]
    IN  IF IsOutlier(interval, 2 * previous)
        THEN [taps |-> Front(ts), outliers |-> 0]
        ELSE [taps |-> <<ts[n - 1], ts[n]>>, outliers |-> 0]

\* Mutant: a single outlier is taken for a new tempo.
SiftedAtOnce(ts, interval) ==
    IF Len(ts) >= 2 /\ IsOutlier(interval, TwiceInterval(ts)) THEN SecondOutlier(ts, interval)
    ELSE [taps |-> ts, outliers |-> 0]

\* What a tap this long after the newest one leaves of those before it.
Sifted(ts, interval) ==
    IF Len(ts) < 2 THEN [taps |-> ts, outliers |-> outliers]
    ELSE IF ~IsOutlier(interval, TwiceInterval(ts)) THEN [taps |-> ts, outliers |-> 0]
    ELSE IF outliers = 0 THEN [taps |-> ts, outliers |-> 1]
    ELSE SecondOutlier(ts, interval)

\* The observation after a tap is pushed.
Observed(ts) ==
    IF Len(ts) < 2 \/ TwiceInterval(ts) < 2 * ShortestBeat THEN NoBeat
    ELSE [twice |-> TwiceInterval(ts), offset |-> FourOffsets(ts, TwiceInterval(ts))]

\* A tap dt after the newest one made.
Tap(dt) ==
    LET ts == [i \in DOMAIN taps |-> taps[i] - dt]
        interval == -Last(ts)
        Keep(sifted) ==
            /\ taps' = PushTap(sifted.taps, 0)
            /\ outliers' = sifted.outliers
            /\ tapAnswer' = Observed(taps')
        Ignore == taps' = ts /\ tapAnswer' = NoBeat /\ UNCHANGED outliers
    IN  IF ts = <<>> THEN Keep([taps |-> <<>>, outliers |-> outliers])
        ELSE IF interval > TapTimeout \/ interval < 0
             THEN Keep([taps |-> <<>>, outliers |-> 0])
        ELSE IF interval = 0 \/ (Len(ts) >= 2 /\ IsBounce(interval, TwiceInterval(ts))) THEN Ignore
        ELSE Keep(Sifted(ts, interval))

-----------------------------------------------------------------------------
(* The tapper *)

\* Enough taps that one of them may go wrong.
Counted == IF tapper.taps < SettledAfter THEN tapper.taps + 1 ELSE SettledAfter
MayFail == tapper.taps = SettledAfter /\ ~tapper.failed

TapOnBeat ==
    /\ Tap(tapper.beat - tapper.off)
    /\ tapper' = [tapper EXCEPT !.off = 0, !.taps = Counted]

TapDisplaced ==
    \E d \in Displacements :
        /\ MayFail
        /\ 2 * d < tapper.beat /\ -2 * d < tapper.beat
        /\ Tap(tapper.beat + d)
        /\ tapper' = [tapper EXCEPT !.off = d, !.failed = TRUE]

\* The tap before this one is forgotten.
TapAfterMissing ==
    /\ MayFail
    /\ Tap(2 * tapper.beat)
    /\ tapper' = [tapper EXCEPT !.failed = TRUE]

\* The switch bounces: a second tap at once or right after the newest.
TapTwice ==
    \E dt \in {0, 1} :
        /\ MayFail
        /\ Tap(dt)
        /\ tapper' = [tapper EXCEPT !.off = dt, !.failed = TRUE]

\* The tapper changes to another beat, or stops to think.
TapAnew ==
    \E b \in BeatLengths \ {tapper.beat} : \E dt \in {b, TapTimeout + 1} :
        /\ Tap(dt)
        /\ tapper' = [beat |-> b, off |-> 0, taps |-> 1, failed |-> FALSE]

TapNext == TapOnBeat \/ TapDisplaced \/ TapAfterMissing \/ TapTwice \/ TapAnew

-----------------------------------------------------------------------------
(* Properties *)

\* The answer is the beat meant: its length, and where the nearest one is.
IsBeatMeant ==
    /\ tapAnswer.twice = 2 * tapper.beat
    /\ tapAnswer.offset = -4 * tapper.off

(* Whatever was tapped before, so many taps at one interval make it the      *)
(* tempo, and they are the beats; from then on one tap may be early or late  *)
(* by less than half a beat, missing or double without moving either, even   *)
(* when it is the newest (tap.rs, "so one early or late tap, even the        *)
(* newest, does not drag the grid").                                         *)
GridHolds ==
    /\ tapper.taps = SettledAfter /\ tapAnswer # NoBeat => IsBeatMeant
    /\ tapper.taps = SettledAfter /\ ~tapper.failed => tapAnswer # NoBeat
=============================================================================
