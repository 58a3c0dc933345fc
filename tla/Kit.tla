---------------------------------- MODULE Kit ----------------------------------
(* The kit (dsp/kit.rs): ten voices, their controls, and the closed hat that *)
(* chokes the open one.  A step is a call of the render thread: a hit, a     *)
(* control, a sample of every voice, or a new sample rate.                   *)
EXTENDS Voices

CONSTANTS Velocities, Levels, MaxCalls

VARIABLES voices,    \* the voices, by slot
          params,    \* the controls of every slot
          calls,     \* bound: hits, control changes and rate changes so far
          unchoked   \* history: samples since a closed hat was hit, and the open hat was not

kitVars == <<voices, params, calls, unchoked>>

ASSUME KitAssumption ==
    Velocities \subseteq 0 .. Full /\ Levels \subseteq Nat /\ MaxCalls \in Nat

KICK == 0
SNARE == 1
LOW_TOM == 2
MID_TOM == 3
HIGH_TOM == 4
RIM == 5
CLAP == 6
CLOSED_HAT == 7
OPEN_HAT == 8
COWBELL == 9
Slots == 0 .. 9

Kind(slot) ==
    CASE slot = KICK -> "kick" [] slot = SNARE -> "snare"
      [] slot \in {LOW_TOM, MID_TOM, HIGH_TOM} -> "tom" [] slot = RIM -> "rim"
      [] slot = CLAP -> "clap" [] slot \in {CLOSED_HAT, OPEN_HAT} -> "hat"
      [] slot = COWBELL -> "cowbell"

Controls == [decay : Decays, level : Levels]

IsActive == \E slot \in Slots : voices[slot].active

Called == calls < MaxCalls /\ calls' = calls + 1

Never == -1
\* Samples a choked hat takes to fall silent: its envelope, then the gain behind it.
ChokeSamples == 2 * Full

KitInit ==
    /\ params = [slot \in Slots |-> [decay |-> 1, level |-> CHOOSE l \in Levels : \A m \in Levels : m <= l]]
    /\ voices = [slot \in Slots |-> Applied(Kind(slot), Fresh(Kind(slot), params[slot]), params[slot])]
    /\ calls = 0 /\ unchoked = Never

\* Mutant: a silent closed hat chokes the open one.
ChokedBySlot(slot, v) ==
    IF slot = CLOSED_HAT
    THEN [voices EXCEPT ![OPEN_HAT] = ChokeHat(@)] ELSE voices

Choked(slot, v) ==
    IF slot = CLOSED_HAT /\ v > 0
    THEN [voices EXCEPT ![OPEN_HAT] = ChokeHat(@)] ELSE voices

Trigger(slot, v) ==
    /\ Called
    /\ LET choked == Choked(slot, v)
       IN  \E x \in Hits(Kind(slot), choked[slot], params[slot], v) :
              voices' = [choked EXCEPT ![slot] = x]
    /\ unchoked' = IF v = 0 THEN unchoked
                   ELSE IF slot = CLOSED_HAT THEN 0
                   ELSE IF slot = OPEN_HAT THEN Never ELSE unchoked
    /\ UNCHANGED params

SetParam(slot, c) ==
    /\ Called /\ c # params[slot]
    /\ params' = [params EXCEPT ![slot] = c]
    /\ voices' = [voices EXCEPT ![slot] = Applied(Kind(slot), @, c)]
    /\ UNCHANGED unchoked

SetSampleRate ==
    /\ Called
    /\ voices' = [slot \in Slots |-> Rerated(Kind(slot), voices[slot], params[slot])]
    /\ UNCHANGED <<params, unchoked>>

Process ==
    /\ voices' = [slot \in Slots |-> Sample(Kind(slot), voices[slot], params[slot])]
    /\ unchoked' = IF unchoked \in 0 .. ChokeSamples THEN unchoked + 1 ELSE unchoked
    /\ UNCHANGED <<params, calls>>

KitNext ==
    \/ \E slot \in Slots :
          \/ \E v \in Velocities : Trigger(slot, v)
          \/ \E c \in Controls : SetParam(slot, c)
    \/ SetSampleRate
    \/ Process

\* The audio callback asks for samples as long as there is one.
KitSpec == KitInit /\ [][KitNext]_kitVars /\ WF_kitVars(Process)

-----------------------------------------------------------------------------

Settled(x) == [f \in DOMAIN x \ Drift |-> x[f]]

\* A voice that has fallen silent keeps nothing that its next hit is heard by:
\* whatever was played, choked or changed before, the hit sounds like the first
\* one under these controls, but for noise and free oscillators that run on
\* (reset_state, go_idle, and what trigger sets; voice.rs: the level too is the
\* new one exactly).
NothingLeftOver ==
    \A slot \in Slots :
        LET fresh == Fresh(Kind(slot), params[slot])
            Sounds(x, v) == {Settled(y) : y \in Hits(Kind(slot), x, params[slot], v)}
        IN  ~ voices[slot].active /\ voices[slot] # fresh =>
                \A v \in Velocities \ {0} : Sounds(voices[slot], v) = Sounds(fresh, v)

\* A hit on a voice that still sounds, a choke or a control starts where the
\* wave is: only the kick, which restarts by design, may jump (the modules' notes
\* on retriggers).
RetriggerIsSeamless ==
    [][calls' # calls => \A slot \in Slots \ {KICK} :
          voices[slot].active /\ voices'[slot].active =>
              Heard(Kind(slot), voices'[slot]) = Heard(Kind(slot), voices[slot])]_kitVars

\* A closed hat silences an open one in time, unless the open hat is hit again;
\* nothing else does (Kit::trigger, choke).
ChokeHolds ==
    /\ unchoked > ChokeSamples => ~ voices[OPEN_HAT].active
    /\ voices[OPEN_HAT].active /\ voices[OPEN_HAT].coef = CHOKE => unchoked # Never

\* A voice that is silent, or has been silenced, is as if it had never sounded.
SilenceHolds == NothingLeftOver /\ ChokeHolds

\* Every hit dies away, and the kit falls silent: no pair of envelopes, ramps
\* and filters keeps a voice awake (the idle tests of process).
HitsEnd == IsActive ~> ~ IsActive

================================================================================
