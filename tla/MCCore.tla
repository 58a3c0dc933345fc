------------------------------- MODULE MCCore -------------------------------
(* What is asked only for steps it must never take: the ring and the         *)
(* sequence lock between the control and the audio thread, and the sources   *)
(* of the beat: the taps, the MIDI clock, two players that claim one number  *)
(* on a network that delays and loses packets, and one that follows a deck   *)
(* or a mixer while its user changes what is followed.                       *)
(* They share no state and are checked side by side: a behaviour is one of   *)
(* one of them, chosen at the start, and the others rest in an initial state.*)
EXTENDS EventQueue, SharedTiming, TapTempo, MidiClock, ProlinkJoin, ProlinkSource,
        TLC

CONSTANTS e1, e2, u1, u2, MaxDisturbed

VARIABLE part    \* the part that moves

joinVars == vars    \* of ProlinkJoin
coreVars == <<ringVars, lockVars, tapVars, midiVars, joinVars, sourceVars, part>>

MCEvents == {e1, e2}
MCDisplacements == (-4 .. 4) \ {0}
MCWilds == {40, -6}
MCConfigured == [p \in Players |-> 5]
Units == Permutations(Players)    \* alike: no property names one

CoreInit ==
    /\ part \in {"ring", "lock", "tap", "midi", "join", "follow"}
    /\ RingInit /\ LockInit
    /\ TapInit /\ (part # "tap" => tapper.beat = 6)
    /\ MidiInit /\ (part # "midi" => source.period = 4)
    /\ Init
    /\ SourceInit /\ (part # "follow" => mastered[1] = 0 /\ playing = {})

\* Bounds of the part that follows.  So many changes, losses and commands in all,
\* the fewer the more periods went by before, and no such limit where nobody plays
\* and no command comes; packets pile up behind each other, and receive threads
\* are preempted, at the start and in a booth where nothing changes or is lost.
Busy == now = 0 /\ changes' = 0 /\ missed' = 0
UnderWay == Cardinality(queue) + Cardinality(batch)
Disturbed ==
    /\ \/ changes' + missed' + commands' + now' <= MaxDisturbed
       \/ playing' = {} /\ commands' = 0 /\ copies' = {}
    /\ ~Busy => /\ UnderWay' > 1 => UnderWay' < UnderWay
                /\ \A port \in Ports : held'[port] \subseteq held[port]

CoreNext ==
    /\ UNCHANGED part
    /\ \/ /\ part = "ring" /\ RingNext
          /\ UNCHANGED <<lockVars, tapVars, midiVars, joinVars, sourceVars>>
       \/ /\ part = "lock" /\ LockNext
          /\ UNCHANGED <<ringVars, tapVars, midiVars, joinVars, sourceVars>>
       \/ /\ part = "tap" /\ TapNext
          /\ UNCHANGED <<ringVars, lockVars, midiVars, joinVars, sourceVars>>
       \/ /\ part = "midi" /\ MidiNext
          /\ UNCHANGED <<ringVars, lockVars, tapVars, joinVars, sourceVars>>
       \/ /\ part = "join" /\ Next
          /\ UNCHANGED <<ringVars, lockVars, tapVars, midiVars, sourceVars>>
       \/ /\ part = "follow" /\ SourceNext /\ Disturbed
          /\ UNCHANGED <<ringVars, lockVars, tapVars, midiVars, joinVars>>

CoreSpec == CoreInit /\ [][CoreNext]_coreVars
=============================================================================
