-------------------------------- MODULE Voices --------------------------------
(* The ten synthesized voices (dsp: kick, snare, tom, rim, clap, hats,       *)
(* cowbell) as Kit drives them: what a hit, a rendered sample, a choke and a *)
(* change of a control do to the state a voice keeps from one sample to the  *)
(* next.  An amplitude is an integer, Full standing for 1.0 and 0 for        *)
(* anything below the threshold at which the code lets a state go.           *)
EXTENDS Integers, FiniteSetsExt

CONSTANTS Full,        \* the amplitude of a hit at full velocity
          BurstEvery   \* samples between two bursts of the clap

ASSUME VoicesAssumption == Full \in Nat \ {0} /\ BurstEvery \in Nat \ {0}

Decays == {1, 2}       \* what a long and a short ring lose in a sample
QUICK == 2             \* what clicks, ramps, offsets and chokes lose

Kinds == {"kick", "snare", "tom", "rim", "clap", "cowbell", "hat"}

Fade(x, rate) == IF x > rate THEN x - rate ELSE 0

\* Mutant: a smoother that falls short of a lower target.
GlideShort(x, target) ==
    IF x < target THEN x + 1 ELSE IF x > target + 1 THEN x - 1 ELSE x

\* A smoother, of which each voice has its own: one step towards the target, and
\* on it once close.
Glide(x, target) == IF x < target THEN x + 1 ELSE IF x > target THEN x - 1 ELSE x

\* The memory of a filter outlasts its input.
Filtered(memory, x) == IF x > memory THEN x ELSE Fade(memory, QUICK)

Flip(phase) == 1 - phase      \* an oscillator or noise generator that moved on

\* What a strike makes of the energy that is left.
Root(n) == CHOOSE r \in 0 .. n : r * r >= n /\ (r = 0 \/ (r - 1) * (r - 1) < n)
Least(a, b) == IF a < b THEN a ELSE b
Most(a, b) == IF a > b THEN a ELSE b

-----------------------------------------------------------------------------
(* The bass drum: body, pitch sweep and click, restarted by every hit.       *)

FreshKick(c) ==
    [active |-> FALSE, amp |-> 0, pitch |-> 0, click |-> 0, pulse |-> 0,
     gain |-> 0, coef |-> 0, level |-> c.level]

ResetKick(x) == [x EXCEPT !.active = FALSE, !.amp = 0, !.pitch = 0, !.click = 0, !.pulse = 0]

\* A change of the sample rate ends the hit; the level is the new one at once.
RerateKick(x, c) == [ResetKick(x) EXCEPT !.level = c.level]

HitKick(x, c, v) ==
    [ResetKick(x) EXCEPT
        !.active = TRUE, !.amp = Full, !.pitch = v, !.click = v, !.gain = v,
        !.coef = c.decay, !.level = IF x.active THEN @ ELSE c.level]

SampleKick(x, c) ==
    LET y == [x EXCEPT !.pulse = Filtered(@, x.click), !.amp = Fade(@, x.coef),
                       !.pitch = Fade(@, 1), !.click = Fade(@, QUICK),
                       !.level = Glide(@, c.level)]
    IN  IF y.amp = 0 /\ y.click = 0 THEN ResetKick(y) ELSE y

-----------------------------------------------------------------------------
(* The snare: two body modes and noise.  The body restarts at phase 0, and   *)
(* what it last put out fades away under the new hit.                        *)

FreshSnare(c) ==
    [active |-> FALSE, phase |-> 0, low |-> 0, high |-> 0, blip |-> 0, wires |-> 0,
     snap |-> 0, offset |-> 0, lastBody |-> 0, filters |-> 0, noise |-> 0,
     gain |-> 0, coef |-> 0, level |-> c.level]

IdleSnare(x) ==
    [x EXCEPT !.active = FALSE, !.phase = 0, !.low = 0, !.high = 0, !.blip = 0,
              !.wires = 0, !.snap = 0, !.filters = 0, !.offset = 0, !.lastBody = 0]

\* A new sample rate: the noise begins again, the level stays.
RerateSnare(x) == [IdleSnare(x) EXCEPT !.noise = 0]

\* Mutant: the body restarts without a trace of the last hit.
HitSnareDry(x, c, v) ==
    [x EXCEPT
        !.active = TRUE, !.phase = 0, !.low = Full, !.high = Full, !.blip = Full,
        !.wires = v, !.snap = v, !.gain = v, !.coef = c.decay,
        !.offset = 0,
        !.level = IF x.active THEN @ ELSE c.level]

HitSnare(x, c, v) ==
    [x EXCEPT
        !.active = TRUE, !.phase = 0, !.low = Full, !.high = Full, !.blip = Full,
        !.wires = v, !.snap = v, !.gain = v, !.coef = c.decay,
        !.offset = IF x.active THEN x.lastBody ELSE 0,
        !.level = IF x.active THEN @ ELSE c.level]

SampleSnare(x, c) ==
    LET level == Glide(x.level, c.level)
        body  == IF x.phase = 0 THEN 0 ELSE Least(Most(x.low, x.high), Least(x.gain, level))
        y == [x EXCEPT !.phase = 1, !.level = level,
                       !.low = Fade(@, x.coef), !.high = Fade(@, QUICK),
                       !.blip = Fade(@, QUICK), !.wires = Fade(@, x.coef),
                       !.snap = Fade(@, QUICK), !.offset = Fade(@, QUICK),
                       !.filters = Filtered(@, Full), !.noise = Flip(@)]
    IN  IF y.low = 0 /\ y.high = 0 /\ y.wires = 0 /\ y.snap = 0 /\ y.offset = 0
        THEN IdleSnare(y)
        ELSE [y EXCEPT !.lastBody = body + x.offset]

-----------------------------------------------------------------------------
(* A tom: a hit on a ringing one adds its energy, and a ramp takes the       *)
(* amplitude from what it was to what it becomes.                            *)

FreshTom(c) ==
    [active |-> FALSE, phase |-> 0, amp |-> 0, ramp |-> 0, pitch |-> 0, attack |-> 0,
     filter |-> 0, noise |-> 0, coef |-> 0, level |-> c.level]

ResetTom(x, c) ==
    [x EXCEPT !.active = FALSE, !.phase = 0, !.amp = 0, !.ramp = 0, !.pitch = 0,
              !.attack = 0, !.filter = 0, !.level = c.level]

RerateTom(x, c) == [ResetTom(x, c) EXCEPT !.noise = 0]

HitTom(x, c, v) ==
    LET current == x.amp - x.ramp
        target  == Least(Root(current * current + v * v), Full)
    IN  IF x.active
        THEN [x EXCEPT !.amp = target, !.ramp = target - current, !.pitch = Most(@, v),
                       !.attack = Most(@, v), !.coef = c.decay]
        ELSE [x EXCEPT !.active = TRUE, !.phase = 0, !.amp = v, !.ramp = 0, !.pitch = v,
                       !.attack = v, !.filter = 0, !.coef = c.decay, !.level = c.level]

SampleTom(x, c) ==
    LET attack == Fade(x.attack, QUICK)
        y == [x EXCEPT !.phase = 1, !.attack = attack,
                       !.filter = IF attack = 0 THEN 0 ELSE Filtered(@, x.attack),
                       !.noise = IF x.attack > 0 THEN Flip(@) ELSE @,
                       !.level = Glide(@, c.level), !.amp = Fade(@, x.coef),
                       !.ramp = Fade(@, QUICK), !.pitch = Fade(@, QUICK)]
    IN  IF y.amp = 0 /\ y.attack = 0 THEN ResetTom(y, c) ELSE y

-----------------------------------------------------------------------------
(* The rimshot: two resonators a hit adds an impulse to, and a click.        *)

FreshRim(c) ==
    [active |-> FALSE, low |-> 0, high |-> 0, clickOn |-> FALSE, click |-> 0,
     clickFilter |-> 0, highpass |-> 0, coef |-> 0, level |-> c.level]

ResetRim(x) ==
    [x EXCEPT !.active = FALSE, !.low = 0, !.high = 0, !.clickOn = FALSE, !.click = 0,
              !.clickFilter = 0, !.highpass = 0]

RerateRim(x) == ResetRim(x)

\* The impulse meets the ring at any phase: it adds to it or takes from it.
Struck(ring, v) == {Least(ring + v, Full), IF ring > v THEN ring - v ELSE v - ring}

StrikeRim(x, c, v, low, high) ==
    [x EXCEPT !.active = TRUE, !.low = low, !.high = high, !.clickOn = TRUE,
              !.click = Least(@ + v, Full), !.coef = c.decay,
              !.level = IF x.active THEN @ ELSE c.level]

HitRim(x, c, v) ==
    {StrikeRim(x, c, v, low, high) : low \in Struck(x.low, v), high \in Struck(x.high, v)}

SampleRim(x, c) ==
    LET click == IF x.clickOn THEN Fade(x.click, QUICK) ELSE x.click
        ring  == IF x.clickOn THEN Filtered(x.clickFilter, x.click) ELSE 0
        off   == x.clickOn /\ click = 0 /\ ring = 0
        mix   == Most(ring, Most(x.low, x.high))
        y == [x EXCEPT !.low = Fade(@, x.coef), !.high = Fade(@, QUICK), !.click = click,
                       !.clickOn = @ /\ ~ off, !.clickFilter = ring,
                       !.highpass = Filtered(@, mix), !.level = Glide(@, c.level)]
    IN  IF y.low = 0 /\ y.high = 0 /\ y.click = 0 /\ y.highpass = 0 THEN ResetRim(y) ELSE y

-----------------------------------------------------------------------------
(* The clap: a schedule of bursts, the last of which opens the tail, and     *)
(* amplifiers that follow the envelopes of both.                             *)

BURSTS == 4
Onset(burst) == burst * BurstEvery

FreshClap(c) ==
    [active |-> FALSE, elapsed |-> 0, next |-> BURSTS, burst |-> 0, burstAmp |-> 0,
     tail |-> 0, tailAmp |-> 0, filters |-> 0, noise |-> 0, gain |-> 0, coef |-> 0,
     level |-> c.level]

\* Mutant: the filters are not cleared.
IdleClapRinging(x) ==
    [x EXCEPT !.active = FALSE, !.elapsed = 0, !.next = BURSTS, !.burst = 0,
              !.burstAmp = 0, !.tail = 0, !.tailAmp = 0]

IdleClap(x) ==
    [x EXCEPT !.active = FALSE, !.elapsed = 0, !.next = BURSTS, !.burst = 0,
              !.burstAmp = 0, !.tail = 0, !.tailAmp = 0, !.filters = 0]

\* A new sample rate: the onsets are placed anew, the noise begins again.
RerateClap(x) == [IdleClap(x) EXCEPT !.noise = 0]

HitClap(x, c, v) ==
    [x EXCEPT !.active = TRUE, !.elapsed = 0, !.next = 0, !.gain = v, !.coef = c.decay,
              !.level = IF x.active THEN @ ELSE c.level]

\* The schedule at one sample: an onset arms the burst, the last one the tail.
Scheduled(x) ==
    IF x.next = BURSTS THEN x
    ELSE IF x.elapsed < Onset(x.next) THEN [x EXCEPT !.elapsed = @ + 1]
    ELSE [x EXCEPT !.elapsed = @ + 1, !.next = @ + 1, !.burst = x.gain,
                   !.tail = IF x.next + 1 = BURSTS THEN Most(@, x.gain) ELSE @]

Ended(y) ==
    /\ y.next = BURSTS
    /\ y.burst = 0 /\ y.burstAmp = 0 /\ y.tail = 0 /\ y.tailAmp = 0

SampleClap(x, c) ==
    LET s == Scheduled(x)
        y == [s EXCEPT !.burstAmp = Glide(@, s.burst), !.tailAmp = Glide(@, s.tail),
                       !.burst = Fade(@, QUICK), !.tail = Fade(@, s.coef),
                       !.filters = Filtered(@, Full), !.noise = Flip(@),
                       !.level = Glide(@, c.level)]
    IN  IF Ended(y) THEN IdleClap(y) ELSE y

-----------------------------------------------------------------------------
(* The cowbell: two stages of decay, and a slew after them.                  *)

FreshCowbell(c) ==
    [active |-> FALSE, osc |-> 0, fast |-> 0, tail |-> 0, env |-> 0, filter |-> 0,
     coef |-> 0, level |-> c.level]

ResetCowbell(x) ==
    [x EXCEPT !.active = FALSE, !.fast = 0, !.tail = 0, !.env = 0, !.filter = 0]

RerateCowbell(x) == ResetCowbell(x)

HitCowbell(x, c, v) ==
    LET from == IF x.active THEN x ELSE [ResetCowbell(x) EXCEPT !.osc = 0, !.level = c.level]
    IN  [from EXCEPT !.active = TRUE, !.fast = Most(@, v), !.tail = Most(@, v),
                     !.coef = c.decay]

SampleCowbell(x, c) ==
    LET y == [x EXCEPT !.env = Glide(@, x.fast + x.tail), !.fast = Fade(@, QUICK),
                       !.tail = Fade(@, x.coef), !.filter = Filtered(@, Full),
                       !.osc = Flip(@), !.level = Glide(@, c.level)]
    IN  IF y.fast = 0 /\ y.tail = 0 /\ y.env = 0 THEN ResetCowbell(y) ELSE y

-----------------------------------------------------------------------------
(* A hi-hat: oscillators that are never restarted, an envelope, and a gain   *)
(* that follows it.                                                          *)

CHOKE == 3

FreshHat(c) ==
    [active |-> FALSE, oscs |-> 0, env |-> 0, gain |-> 0, filters |-> 0, coef |-> 0,
     level |-> c.level]

ResetHat(x, c) ==
    [x EXCEPT !.active = FALSE, !.env = 0, !.gain = 0, !.filters = 0, !.level = c.level]

\* A new sample rate is all that sets the oscillators back.
RerateHat(x, c) == [ResetHat(x, c) EXCEPT !.oscs = 0]

HitHat(x, c, v) == [x EXCEPT !.active = TRUE, !.env = v, !.coef = c.decay]

ChokeHat(x) == IF x.active THEN [x EXCEPT !.coef = CHOKE] ELSE x

SampleHat(x, c) ==
    LET y == [x EXCEPT !.gain = Glide(@, x.env), !.env = Fade(@, x.coef), !.oscs = Flip(@),
                       !.filters = Filtered(@, Full), !.level = Glide(@, c.level)]
    IN  IF y.env = 0 /\ y.gain = 0 THEN ResetHat(y, c) ELSE y

-----------------------------------------------------------------------------
(* The trait Voice: the methods of whichever voice it is.                    *)

Fresh(kind, c) ==
    CASE kind = "kick" -> FreshKick(c) [] kind = "snare" -> FreshSnare(c)
      [] kind = "tom" -> FreshTom(c) [] kind = "rim" -> FreshRim(c)
      [] kind = "clap" -> FreshClap(c) [] kind = "cowbell" -> FreshCowbell(c)
      [] kind = "hat" -> FreshHat(c)

\* A hit of velocity 0 is no hit.
Hits(kind, x, c, v) ==
    IF v = 0 THEN {x}
    ELSE CASE kind = "kick" -> {HitKick(x, c, v)} [] kind = "snare" -> {HitSnare(x, c, v)}
           [] kind = "tom" -> {HitTom(x, c, v)} [] kind = "rim" -> HitRim(x, c, v)
           [] kind = "clap" -> {HitClap(x, c, v)} [] kind = "cowbell" -> {HitCowbell(x, c, v)}
           [] kind = "hat" -> {HitHat(x, c, v)}

Sample(kind, x, c) ==
    IF ~ x.active THEN x
    ELSE CASE kind = "kick" -> SampleKick(x, c) [] kind = "snare" -> SampleSnare(x, c)
           [] kind = "tom" -> SampleTom(x, c) [] kind = "rim" -> SampleRim(x, c)
           [] kind = "clap" -> SampleClap(x, c) [] kind = "cowbell" -> SampleCowbell(x, c)
           [] kind = "hat" -> SampleHat(x, c)

\* Kick, tom and hats take a level at once while they are idle, the others
\* with the next hit.
Applied(kind, x, c) ==
    IF kind \in {"kick", "tom", "hat"} /\ ~ x.active THEN [x EXCEPT !.level = c.level] ELSE x

\* What a change of the sample rate leaves of a voice.
Rerated(kind, x, c) ==
    CASE kind = "kick" -> RerateKick(x, c) [] kind = "snare" -> RerateSnare(x)
      [] kind = "tom" -> RerateTom(x, c) [] kind = "rim" -> RerateRim(x)
      [] kind = "clap" -> RerateClap(x) [] kind = "cowbell" -> RerateCowbell(x)
      [] kind = "hat" -> RerateHat(x, c)

\* What keeps moving from hit to hit: two hits differ by it, as on the hardware.
Drift == {"noise", "oscs"}

\* The amplitude of the wave at the next sample, before the smoothed level.
Heard(kind, x) ==
    CASE kind = "kick" -> x.amp
      [] kind = "snare" -> IF x.phase = 0 THEN x.offset ELSE x.lastBody
      [] kind = "tom" -> x.amp - x.ramp
      [] kind = "rim" -> x.highpass
      [] kind = "clap" -> Most(x.burstAmp, x.tailAmp)
      [] kind = "cowbell" -> x.env
      [] kind = "hat" -> x.gain

================================================================================
