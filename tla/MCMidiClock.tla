----------------------------- MODULE MCMidiClock ------------------------------
(* The MIDI clock by itself.                                                 *)
EXTENDS MidiClock

MCWilds == {40, -6}

MidiSpec == MidiInit /\ [][MidiNext]_midiVars
================================================================================
