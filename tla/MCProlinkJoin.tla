---------------------------- MODULE MCProlinkJoin ----------------------------
(* One or two units, configured alike.                                       *)
EXTENDS ProlinkJoin

CONSTANTS a, b

Alike == [p \in Players |-> 5]

\* Bound: a network that lost a packet delays none.
LateOrLost == lost' > 0 => \A m \in net' : m.age = 0

\* Next with that bound, which only losses and time could pass.
MCNext ==
    \/ \E p \in Players : Start(p) \/ FindInterface(p) \/ Poll(p)
    \/ \E p \in Players, m \in net : Deliver(p, m)
    \/ \E d \in Decks : PlugIn(d) \/ DeckAnnounces(d)
    \/ \E d \in Decks, p \in Players : DeckDefends(d, p)
    \/ \E p \in Players : MixerIntends(p) \/ Confirms(p)
    \/ \E m \in net : MixerAssigns(m) \/ (Lose(m) /\ LateOrLost)
    \/ Tick /\ LateOrLost

MCSpec == Init /\ [][MCNext]_vars /\ WF_vars(MCNext)
==============================================================================
