------------------------------- MODULE MidiClock -------------------------------
(* MIDI clock input: pulses become a tempo and a bar phase                   *)
(* (core/sync/src/midi.rs).                                                  *)
(*                                                                           *)
(* The tempo is a least-squares line through the newest pulses, with one     *)
(* slope for all runs (a run begins at a Start or Continue) and an intercept *)
(* for each.  Times and indices are relative to the newest pulse received,   *)
(* runs to the current one; periods are in parts of a time unit, Fine each.  *)
EXTENDS Integers, Sequences, SequencesExt

LOCAL INSTANCE FiniteSetsExt

CONSTANTS
    Fine,         \* parts of a unit of time a period is measured in
    Bar,          \* pulses in a bar
    Window,       \* WINDOW: pulses in the fit
    MinFit,       \* MIN_FIT: pulses before the first report
    MaxRejected,  \* MAX_REJECTED: misfits in a row that restart the fit
    ConfirmFit,   \* CONFIRM_FIT: pulses that confirm a tempo after a stall
    MinPeriod,    \* the pulse period at MAX_BPM
    MaxPeriod,    \* the pulse period at MIN_BPM, and the longest gap
    PulsePeriods, \* the pulse periods the source plays at
    Spacing,      \* how far apart a driver releases what it held back
    Stalls,       \* how late the first pulse after a stall may come
    Wilds,        \* by how much a single stamp may be off
    Steady,       \* pulses on time after which the tempo is known
    MaxMessages,  \* bound: Start, Continue and Stop messages
    MaxTroubles   \* bound: stalls, wild stamps and changes of tempo

VARIABLES
    running,      \* Start or Continue was seen without a later Stop
    pulses,       \* pulses since Start, modulo the bar
    fit,          \* the pulses of the tempo fit, oldest first
    rejected,     \* misfits in a row
    heardAny,     \* last_pulse is known
    reported,     \* reported_period: the last one reported, or NoPeriod
    afterStall,   \* the fit restarted after an unexplained gap
    midiAnswer,   \* what the last handle returned
    source        \* the sender and its driver

midiVars == <<running, pulses, fit, rejected, heardAny, reported, afterStall, midiAnswer, source>>

NoPeriod == 0
TempoOnly == -1
NoPulseReport == [period |-> NoPeriod, phase |-> TempoOnly]

\* The sender: its period, whether it plays, the pulse of the bar it sends next,
\* how far off its time the newest was stamped, whether the driver still holds pulses back,
\* pulses on time in a row, whether the period ever changed, and whether a Start
\* or Continue is newer than any pulse.
MidiInit ==
    /\ running = FALSE /\ pulses = 0
    /\ fit = <<>> /\ rejected = 0 /\ heardAny = FALSE
    /\ reported = NoPeriod /\ afterStall = FALSE
    /\ midiAnswer = NoPulseReport
    /\ source \in [period : PulsePeriods, playing : {FALSE}, at : {0}, off : {0}, held : {FALSE}, steady : {0},
                   moved : {FALSE}, restarted : {TRUE}, messages : {0}, troubles : {0}]

-----------------------------------------------------------------------------
(* The fit: points [index, sample, run] *)

Newest(points, n) == SubSeq(points, Len(points) - n + 1, Len(points))

Total(points, x) == MapThenSumSet(LAMBDA i : points[i][x], DOMAIN points)

\* n times the within-run sum of products of two coordinates.
Moment(points, x, y) ==
    Len(points) * MapThenSumSet(LAMBDA i : points[i][x] * points[i][y], DOMAIN points)
        - Total(points, x) * Total(points, y)

OfRun(points, r) == SelectSeq(points, LAMBDA p : p.run = r)
RunsOf(points) == {points[i].run : i \in DOMAIN points}

\* The sum of the runs' moments, each about a centre of its own.
Pooled(points, x, y) ==
    LET size == FoldSet(LAMBDA r, n : n * Len(OfRun(points, r)), 1, RunsOf(points))
    IN  MapThenSumSet(LAMBDA r : (size \div Len(OfRun(points, r))) * Moment(OfRun(points, r), x, y),
                      RunsOf(points))

Ratio(covariance, variance) ==
    IF variance = 0 THEN NoPeriod ELSE (Fine * covariance) \div variance

\* Mutant: one intercept for all runs.
SlopeOfOne(points) ==
    IF Len(points) < MinFit THEN NoPeriod
    ELSE Ratio(Moment(points, "index", "sample"), Moment(points, "index", "index"))

\* line: the slope of the pooled fit through the points, or NoPeriod.
Slope(points) ==
    IF Len(points) < MinFit THEN NoPeriod
    ELSE Ratio(Pooled(points, "index", "sample"), Pooled(points, "index", "index"))

MayBe(full, half, whole) ==
    {full} \cup IF whole /\ full # NoPeriod /\ half # NoPeriod THEN {2 * half - full} ELSE {}

\* period: the slope of the window.  Once it is full, whether the newest half
\* is taken for a tempo on the move, and its trend extrapolated, depends on the
\* jitter; here it may be.
PeriodsOf(points) ==
    {p \in MayBe(Slope(points), Slope(Newest(points, Window \div 2)), Len(points) = Window) : p > 0}

InRange(p) == p \in Fine * MinPeriod .. Fine * MaxPeriod

\* OUTLIER_FRACTION
MoreThanHalf(miss, period) == 2 * miss > period \/ -2 * miss > period

\* predict, for the pulse after the newest: the sample is more than half a
\* period off the line of the current run.
Misfits(points, index, sample, p) ==
    LET now == OfRun(points, 0)
        n == Len(now)
    IN  MoreThanHalf(
            Fine * (n * sample - Total(now, "sample"))
                - Slope(points) * (n * index - Total(now, "index")),
            n * p)

-----------------------------------------------------------------------------
(* handle *)

\* The fit as seen from a pulse dt after the newest one.
Rebased(points, dt) ==
    [i \in DOMAIN points |-> [points[i] EXCEPT !.index = @ - 1, !.sample = @ - dt]]

Origin == [index |-> 0, sample |-> 0, run |-> 0]
Added(points) == Append(IF Len(points) = Window THEN Tail(points) ELSE points, Origin)

\* Slower than the slowest tempo: the clock paused.
Paused(dt) == heardAny /\ dt > MaxPeriod

Known(points) == Len(points) >= MinFit /\ Last(points).run = 0

Judged(points, periods) ==
    IF periods = {} THEN {"taken"}
    ELSE {IF ~Misfits(points, 0, 0, p) THEN "taken"
          ELSE IF rejected + 1 < MaxRejected THEN "stray" ELSE "afresh" : p \in periods}

\* accept_timing: a stamp is taken into the fit, taken as the first of a new
\* one, or not used: because it does not advance, or because it strays.
Verdicts(points, dt) ==
    IF Paused(dt) THEN {"afresh"}
    ELSE IF heardAny /\ dt <= 0 THEN {"stale"}
    ELSE Judged(points, IF Known(points) THEN PeriodsOf(points) ELSE {})

\* Mutant: the tempo of a fresh fit is believed at once.
DiffersNever(p) == FALSE

\* CONFIRM_FRACTION: more than a tenth off the last one reported.
Differs(p) ==
    reported # NoPeriod /\ 10 * p \notin 9 * reported .. 11 * reported

\* The report of a pulse whose stamp was added to the fit.
Report(stalled) ==
    \E periods \in {{p \in PeriodsOf(fit') : InRange(p)}} :
        \/ /\ periods = {}
           /\ midiAnswer' = NoPulseReport /\ afterStall' = stalled /\ UNCHANGED reported
        \/ \E p \in periods :
              IF stalled /\ Differs(p) /\ Len(fit') < ConfirmFit
              THEN midiAnswer' = NoPulseReport /\ afterStall' = TRUE /\ UNCHANGED reported
              ELSE /\ midiAnswer' = [period |-> p, phase |-> IF running THEN pulses ELSE TempoOnly]
                   /\ afterStall' = FALSE
                   /\ reported' = p

CountPulse == pulses' = IF running THEN (pulses + 1) % Bar ELSE pulses

\* clock.  The pulse counts whatever its stamp looks like.
Clock(dt) ==
    /\ CountPulse
    /\ heardAny' = TRUE
    /\ UNCHANGED running
    /\ \E points \in {Rebased(fit, dt)} : \E verdict \in Verdicts(points, dt) :
        \/ /\ verdict \in {"taken", "afresh"}
           /\ fit' = Added(IF verdict = "taken" THEN points ELSE <<>>)
           /\ rejected' = 0
           /\ Report(afterStall \/ Paused(dt))
        \/ /\ verdict \in {"stale", "stray"}
           /\ fit' = points
           /\ rejected' = IF verdict = "stray" THEN rejected + 1 ELSE rejected
           /\ midiAnswer' = NoPulseReport
           /\ UNCHANGED <<afterStall, reported>>

\* Start and Continue begin a new run.
NewRun == fit' = [i \in DOMAIN fit |-> [fit[i] EXCEPT !.run = @ - 1]]

Restart(count) ==
    /\ running' = TRUE
    /\ pulses' = count
    /\ NewRun
    /\ afterStall' = FALSE
    /\ midiAnswer' = NoPulseReport
    /\ UNCHANGED <<rejected, heardAny, reported>>

Stop ==
    /\ running' = FALSE
    /\ midiAnswer' = NoPulseReport
    /\ UNCHANGED <<pulses, fit, rejected, heardAny, reported, afterStall>>

-----------------------------------------------------------------------------
(* The sender and its driver *)

Trouble == source.troubles < MaxTroubles
Bounded(n) == IF n < Steady THEN n + 1 ELSE Steady
PhaseSent == IF source.playing THEN (source.at + 1) % Bar ELSE source.at

\* The next pulse is off by so much: the time since the newest one.
After(off) == source.period + off - source.off

\* The pulse comes on time, or as soon as the driver has released those before.
PulseSent ==
    LET off == IF source.held THEN Max({0, source.off + Spacing - source.period}) ELSE 0
        dt == After(off)
    IN  /\ ~source.restarted
        /\ Clock(dt)
        /\ source' = [source EXCEPT !.at = PhaseSent, !.off = off, !.held = off > 0,
                                    !.steady = IF dt = source.period THEN Bounded(@) ELSE 0]

\* The first pulse after a Start or Continue may come at any phase.
PulseRestarted ==
    \E dt \in {1, source.period + 1} :
        /\ source.restarted
        /\ Clock(dt)
        /\ source' = [source EXCEPT !.at = PhaseSent, !.off = 0, !.held = FALSE, !.restarted = FALSE]

\* The driver stalls, and has held back this pulse and those after it.
PulseStalled ==
    \E late \in Stalls :
        /\ Trouble /\ source.steady = Steady /\ ~source.restarted
        /\ Clock(After(late))
        /\ source' = [source EXCEPT !.at = PhaseSent, !.off = late, !.held = TRUE, !.steady = 0,
                                    !.troubles = @ + 1]

\* A single stamp is wrong.
PulseWild ==
    \E off \in Wilds :
        /\ Trouble /\ source.steady = Steady /\ ~source.restarted
        /\ Clock(After(off))
        /\ source' = [source EXCEPT !.at = PhaseSent, !.off = off, !.steady = 0, !.troubles = @ + 1]

\* The sender changes its tempo.
TempoMoved ==
    \E p \in PulsePeriods \ {source.period} :
        /\ Trouble /\ ~source.held
        /\ source' = [source EXCEPT !.period = p, !.moved = TRUE, !.steady = 0, !.troubles = @ + 1]
        /\ UNCHANGED <<running, pulses, fit, rejected, heardAny, reported, afterStall, midiAnswer>>

MaySend == source.messages < MaxMessages

\* No Start or Continue comes while a driver catches up or the tempo after a
\* stall waits to be confirmed: it would end the wait, and the false tempo of
\* what was held back would be reported.
Calm == ~source.held /\ ~afterStall

StartSent ==
    /\ MaySend /\ Calm
    /\ Restart(0)
    /\ source' = [source EXCEPT !.playing = TRUE, !.at = 0, !.restarted = TRUE, !.messages = @ + 1]

ContinueSent ==
    /\ MaySend /\ Calm
    /\ Restart(pulses)
    /\ source' = [source EXCEPT !.playing = TRUE, !.restarted = TRUE, !.messages = @ + 1]

StopSent ==
    /\ MaySend
    /\ Stop
    /\ source' = [source EXCEPT !.playing = FALSE, !.messages = @ + 1]

MidiNext ==
    \/ PulseSent \/ PulseRestarted \/ PulseStalled \/ PulseWild \/ TempoMoved
    \/ StartSent \/ ContinueSent \/ StopSent

-----------------------------------------------------------------------------
(* Properties *)

(* Whatever stamps came before, so many pulses on time make the tempo known: *)
(* every pulse then reports it exactly, through Starts and Continues that    *)
(* shift the phase of the clock (midi.rs, "so a phase restart at Start does  *)
(* not bend the tempo").                                                     *)
TempoIsExact ==
    source.steady = Steady =>
        /\ reported = Fine * source.period
        /\ midiAnswer.period \in {NoPeriod, reported}

(* A clock that keeps its tempo never has one more than a tenth off reported *)
(* for it, whatever its driver holds back or stamps wrongly (midi.rs, "that  *)
(* tempo must never be reported").                                           *)
NoFalseTempo ==
    ~source.moved /\ midiAnswer # NoPulseReport =>
        10 * midiAnswer.period \in 9 * Fine * source.period .. 11 * Fine * source.period

(* A steady clock is reported exactly, and no clock is reported falsely.     *)
TempoHolds == TempoIsExact /\ NoFalseTempo
=============================================================================
