------------------------------ MODULE ProlinkJoin ------------------------------
(* Several player5 units joining one Pro DJ Link network that also holds     *)
(* decks and a mixer (core/sync/src/prolink/join.rs, and the announcement    *)
(* half of the tracker in source.rs that feeds it).                          *)
(*                                                                           *)
(* Time passes in startup steps of 300 ms; timers count down.  A unit polls  *)
(* within a step of its deadline: the source thread sleeps until it.         *)
(* Hellos and first-stage claims carry no number and change nothing at a     *)
(* receiver, so they are remembered by the sender but do not travel.         *)
EXTENDS Naturals, Sequences, FiniteSets

CONSTANTS
    Players,       \* units running player5, all under the default name
    Numbers,       \* device numbers
    Configured,    \* the number each unit is configured to claim
    Interfaced,    \* units whose interface address is configured
    TwoInterfaces, \* units that hear their broadcasts from another address
    Decks,         \* numbers of the decks that are or may be plugged in
    DeckPeriod,    \* longest time a unit hears nothing of a deck, in whole steps
    Assignable,    \* what a mixer may assign; 0 is "any"; {}: no mixer
    MaxDelay,      \* longest a packet travels
    MaxLost        \* how many packets the network may lose

NoNumber == 0

\* Who a packet is from, as far as its bytes tell: the MAC address, or only
\* the name, which all units share.
Named == "player5"
Deck == "deck"
Mixer == "mixer"
Elsewhere == "otherInterface"

ASSUME JoinAssumption ==
    /\ {Named, Deck, Mixer, Elsewhere} \cap Players = {}
    /\ NoNumber \notin Numbers
    /\ Configured \in [Players -> Numbers] /\ Interfaced \subseteq Players
    /\ TwoInterfaces \subseteq Players
    /\ Decks \subseteq Numbers
    /\ DeckPeriod \in Nat \ {0}
    /\ Assignable \subseteq Numbers \cup {NoNumber}
    /\ MaxDelay \in Nat /\ MaxLost \in Nat

KEEP_ALIVE == 5          \* 1.5 s
LISTEN_BEFORE_CLAIM == 7 \* 2.1 s
ECHO_WINDOW == 10        \* 3 s
ECHO_MEMORY == 8
Repeats == 3

VARIABLES
    phase,      \* of each unit: where its joiner is
    count,      \* packets of this phase sent so far
    number,     \* the number it holds or claims
    interfaced, \* units that know their interface address
    listen,     \* time until the listening period is over
    next,       \* time until the joiner wants to be polled
    sent,       \* recent broadcasts of the unit, oldest first
    mixer,      \* external: what the mixer has done about each unit
    firstDecks, \* external: numbers of the decks there from the start
    decks,      \* external: numbers of the decks plugged in
    deckNext,   \* external: time until a deck must announce itself
    net,        \* packets on their way
    lost        \* how many the network has lost

unitVars == <<phase, count, number, interfaced, listen, next, sent>>
worldVars == <<mixer, firstDecks, decks, deckNext, lost>>
vars == <<phase, count, number, interfaced, listen, next, sent, mixer, firstDecks, decks,
          deckNext, net, lost>>

Phases == {"off", "waiting", "hello", "stage1", "stage2", "stage3", "joined", "yielded"}
Claiming == {"hello", "stage1", "stage2", "stage3"}
Numbered == {"stage2", "stage3", "keepAlive"}
Mixed == {"idle", "asking", "assigned"}

\* n tells the repeats of one claim apart.
Packet(kind, num, n, who) == [kind |-> kind, number |-> num, n |-> n, who |-> who]

\* A packet on its way from sender to a unit, which sees it come from addr.
Message(to, sender, addr, packet) ==
    [to |-> to, sender |-> sender, addr |-> addr, packet |-> packet, age |-> 0]

Init ==
    /\ phase = [p \in Players |-> "off"]
    /\ count = [p \in Players |-> 0]
    /\ number = Configured
    /\ interfaced = Interfaced
    /\ listen = [p \in Players |-> LISTEN_BEFORE_CLAIM]
    /\ next = [p \in Players |-> 0]
    /\ sent = [p \in Players |-> <<>>]
    /\ mixer = [p \in Players |-> "idle"]
    /\ firstDecks \in SUBSET Decks /\ decks = firstDecks
    /\ deckNext \in [Decks -> 0 .. DeckPeriod]
    /\ net = {} /\ lost = 0

-----------------------------------------------------------------------------
(* The joiner on its own: the listening period begins, the address is found, *)
(* and poll sends at most one packet per call.                               *)

Start(p) ==
    /\ phase[p] = "off"
    /\ phase' = [phase EXCEPT ![p] = "waiting"]
    /\ UNCHANGED <<count, number, interfaced, listen, next, sent, net>>
    /\ UNCHANGED worldVars

\* From any traffic, unless it was configured.
FindInterface(p) ==
    /\ phase[p] # "off"
    /\ p \notin interfaced
    /\ interfaced' = interfaced \cup {p}
    /\ UNCHANGED <<phase, count, number, listen, next, sent, net>>
    /\ UNCHANGED worldVars

\* The poll has something to do.
Due(p) ==
    \/ phase[p] = "waiting" /\ p \in interfaced
    \/ phase[p] \in Claiming \cup {"joined"} /\ next[p] = 0

\* stage has packets left, or prev has none and stage begins.
In(p, stage, prev) ==
    \/ phase[p] = stage /\ (stage = "joined" \/ count[p] < Repeats)
    \/ phase[p] = prev /\ (prev = "waiting" \/ count[p] = Repeats)

Repeat(p, stage) == IF phase[p] = stage THEN count[p] + 1 ELSE 1

Fresh(entry) == entry.age <= ECHO_WINDOW

\* remember_sent: forget what is too old, then the oldest if there are eight.
\* Entries are in the order they were sent, so those too old are the first.
Remember(entries, packet) ==
    LET stale == Cardinality({i \in 1 .. Len(entries) : ~Fresh(entries[i])})
        forgotten == IF Len(entries) - stale >= ECHO_MEMORY THEN stale + 1 ELSE stale
    IN  Append(SubSeq(entries, forgotten + 1, Len(entries)), [packet |-> packet, age |-> 0])

\* A broadcast reaches every unit; the sender's copy comes back to it from its
\* own address or, on a host with two interfaces, from another one.
Copies(p, packet) ==
    {Message(q, p, IF q = p /\ p \in TwoInterfaces THEN Elsewhere ELSE p, packet)
        : q \in Players}

\* Mutant: the keep-alives of a unit that joined reach nobody.
BroadcastOfClaims(p, packet) ==
    /\ sent' = [sent EXCEPT ![p] = Remember(@, packet)]
    /\ net' = net \cup (IF packet.kind \in Numbered \ {"keepAlive"} THEN Copies(p, packet) ELSE {})

Broadcast(p, packet) ==
    /\ sent' = [sent EXCEPT ![p] = Remember(@, packet)]
    /\ net' = net \cup (IF packet.kind \in Numbered THEN Copies(p, packet) ELSE {})

Send(p, stage, packet, wait) ==
    /\ phase' = [phase EXCEPT ![p] = stage]
    /\ count' = [count EXCEPT ![p] = IF stage = "joined" THEN 0 ELSE Repeat(p, stage)]
    /\ next' = [next EXCEPT ![p] = wait]
    /\ Broadcast(p, packet)
    /\ UNCHANGED <<number, interfaced, listen>>
    /\ UNCHANGED worldVars

SendHello(p) ==
    /\ Due(p) /\ In(p, "hello", "waiting")
    /\ Send(p, "hello", Packet("hello", NoNumber, 0, Named), 1)

SendClaimStage1(p) ==
    /\ Due(p) /\ In(p, "stage1", "hello")
    /\ Send(p, "stage1", Packet("stage1", NoNumber, Repeat(p, "stage1"), p), 1)

\* The first stage is over before the listening period is.
KeepListening(p) ==
    /\ Due(p) /\ phase[p] = "stage1" /\ count[p] = Repeats
    /\ listen[p] > 0
    /\ next' = [next EXCEPT ![p] = listen[p]]
    /\ UNCHANGED <<phase, count, number, interfaced, listen, sent, net>>
    /\ UNCHANGED worldVars

\* Mutant: the number goes on the wire without waiting for the listening period.
SendClaimStage2Early(p) ==
    /\ Due(p) /\ In(p, "stage2", "stage1")
    /\ Send(p, "stage2", Packet("stage2", number[p], Repeat(p, "stage2"), p), 1)

SendClaimStage2(p) ==
    /\ Due(p) /\ In(p, "stage2", "stage1")
    /\ phase[p] = "stage1" => listen[p] = 0
    /\ Send(p, "stage2", Packet("stage2", number[p], Repeat(p, "stage2"), p), 1)

SendClaimStage3(p) ==
    /\ Due(p) /\ In(p, "stage3", "stage2")
    /\ Send(p, "stage3", Packet("stage3", number[p], Repeat(p, "stage3"), Named), 1)

\* The first of them in the call that ends the claim.
SendKeepAlive(p) ==
    /\ Due(p) /\ In(p, "joined", "stage3")
    /\ Send(p, "joined", Packet("keepAlive", number[p], 0, p), KEEP_ALIVE)

Poll(p) ==
    \/ SendHello(p) \/ SendClaimStage1(p) \/ KeepListening(p)
    \/ SendClaimStage2(p) \/ SendClaimStage3(p) \/ SendKeepAlive(p)

-----------------------------------------------------------------------------
(* The announcement packets a unit acts on.                                  *)

\* Mutant: only our name at our address is ours.
IsOwnByAddress(p, m) == m.addr = p /\ p \in interfaced

\* An echo of a recent broadcast, whatever address it comes from; or our name
\* at our address.
IsOwn(p, m) ==
    \/ \E i \in 1 .. Len(sent[p]) : Fresh(sent[p][i]) /\ sent[p][i].packet = m.packet
    \/ m.addr = p /\ p \in interfaced

\* Mutant: a claim by another device is no conflict.
NumberAnnounced(p, m) ==
    /\ m.packet.kind \in Numbered \cup {"inUse"}
    /\ ~IsOwn(p, m)
    /\ phase' = [phase EXCEPT ![p] =
          IF m.packet.number = number[p] /\ m.packet.kind \in {"keepAlive", "inUse"}
          THEN "yielded" ELSE @]
    /\ UNCHANGED <<count, number, next>>

\* Mutant: a number we have joined with is not given up.
NumberSeenClaiming(p, m) ==
    /\ m.packet.kind \in Numbered \cup {"inUse"}
    /\ ~IsOwn(p, m)
    /\ phase' = [phase EXCEPT ![p] =
          IF m.packet.number = number[p] /\ @ # "joined" THEN "yielded" ELSE @]
    /\ UNCHANGED <<count, number, next>>

\* Another device announced, claimed or defended a number.
NumberSeen(p, m) ==
    /\ m.packet.kind \in Numbered \cup {"inUse"}
    /\ ~IsOwn(p, m)
    /\ phase' = [phase EXCEPT ![p] = IF m.packet.number = number[p] THEN "yielded" ELSE @]
    /\ UNCHANGED <<count, number, next>>

AssignmentIntention(p, m) ==
    /\ m.packet.kind = "intention"
    /\ UNCHANGED <<phase, count, number, next>>

\* Takes the number, and goes straight to the final stage.
Assignment(p, m) ==
    /\ m.packet.kind = "assign"
    /\ IF phase[p] \notin Claiming
       THEN UNCHANGED <<phase, count, number, next>>
       ELSE /\ number' = [number EXCEPT ![p] =
                             IF m.packet.number = NoNumber THEN @ ELSE m.packet.number]
            /\ phase' = [phase EXCEPT ![p] = "stage3"]
            /\ count' = [count EXCEPT ![p] = IF phase[p] = "stage3" THEN @ ELSE 0]
            /\ next' = [next EXCEPT ![p] = IF phase[p] = "stage3" THEN @ ELSE 0]

\* Someone confirmed the claim: skip the rest of the final stage.
AssignmentFinished(p, m) ==
    /\ m.packet.kind = "finished"
    /\ LET cut == phase[p] = "stage3" /\ count[p] > 0
       IN  /\ count' = [count EXCEPT ![p] = IF cut THEN Repeats ELSE @]
           /\ next' = [next EXCEPT ![p] = IF cut THEN 0 ELSE @]
    /\ UNCHANGED <<phase, number>>

OwnPacket(p, m) ==
    /\ IsOwn(p, m)
    /\ UNCHANGED <<phase, count, number, next>>

\* Whether the mixer's announcement is answered with a request for a number.
Requests(p, m) ==
    /\ m.packet.kind = "intention"
    /\ phase[p] \in {"stage1", "stage2"} /\ p \in interfaced

Deliver(p, m) ==
    /\ m \in net /\ m.to = p
    /\ \/ phase[p] = "off" /\ UNCHANGED <<phase, count, number, next>>
       \/ /\ phase[p] # "off"
          /\ \/ OwnPacket(p, m) \/ NumberSeen(p, m) \/ AssignmentIntention(p, m)
             \/ Assignment(p, m) \/ AssignmentFinished(p, m)
    /\ net' = (net \ {m}) \cup
              (IF phase[p] # "off" /\ Requests(p, m)
               THEN {Message(Mixer, p, p, Packet("request", NoNumber, 0, p))} ELSE {})
    /\ UNCHANGED <<interfaced, listen, sent>>
    /\ UNCHANGED worldVars

-----------------------------------------------------------------------------
(* External: the decks, the mixer, the network and the clock.                *)

DeckPacket(kind, num) == Packet(kind, num, 0, Deck)
ToUnit(p, who, packet) == Message(p, who, who, packet)

PlugIn(d) ==
    /\ d \in Decks \ decks
    /\ decks' = decks \cup {d}
    /\ UNCHANGED <<mixer, firstDecks, deckNext, net, lost>>
    /\ UNCHANGED unitVars

\* Not twice in a step.
DeckAnnounces(d) ==
    /\ d \in decks /\ deckNext[d] < DeckPeriod
    /\ net' = net \cup {ToUnit(p, Deck, DeckPacket("keepAlive", d)) : p \in Players}
    /\ deckNext' = [deckNext EXCEPT ![d] = DeckPeriod]
    /\ UNCHANGED <<mixer, firstDecks, decks, lost>>
    /\ UNCHANGED unitVars

\* A deck that has just heard its number claimed may defend it.
DeckDefends(d, p) ==
    /\ d \in decks /\ phase[p] \in {"stage2", "stage3", "joined"} /\ number[p] = d
    /\ Len(sent[p]) > 0 /\ sent[p][Len(sent[p])].age = 0
    /\ sent[p][Len(sent[p])].packet.number = d
    /\ ToUnit(p, Deck, DeckPacket("inUse", d)) \notin net
    /\ net' = net \cup {ToUnit(p, Deck, DeckPacket("inUse", d))}
    /\ UNCHANGED worldVars
    /\ UNCHANGED unitVars

\* A mixer with channel ports answers a unit that is claiming.
MixerIntends(p) ==
    /\ Assignable # {} /\ mixer[p] = "idle"
    /\ phase[p] = "stage1" /\ count[p] > 0
    /\ mixer' = [mixer EXCEPT ![p] = "asking"]
    /\ net' = net \cup {ToUnit(p, Mixer, Packet("intention", NoNumber, 0, Mixer))}
    /\ UNCHANGED <<firstDecks, decks, deckNext, lost>>
    /\ UNCHANGED unitVars

MixerAssigns(m) ==
    /\ m \in net /\ m.packet.kind = "request" /\ mixer[m.sender] = "asking"
    /\ \E n \in Assignable :
          net' = (net \ {m}) \cup {ToUnit(m.sender, Mixer, Packet("assign", n, 0, Mixer))}
    /\ mixer' = [mixer EXCEPT ![m.sender] = "assigned"]
    /\ UNCHANGED <<firstDecks, decks, deckNext, lost>>
    /\ UNCHANGED unitVars

\* Any device present may confirm a final-stage claim.
Confirms(p) ==
    /\ decks # {} \/ Assignable # {}
    /\ phase[p] = "stage3" /\ count[p] \in 1 .. Repeats - 1
    /\ Len(sent[p]) > 0 /\ sent[p][Len(sent[p])].age = 0
    /\ net' = net \cup {ToUnit(p, Deck, Packet("finished", NoNumber, 0, Deck))}
    /\ net' # net
    /\ UNCHANGED worldVars
    /\ UNCHANGED unitVars

Lose(m) ==
    /\ m \in net /\ lost < MaxLost
    /\ net' = net \ {m} /\ lost' = lost + 1
    /\ UNCHANGED <<mixer, firstDecks, decks, deckNext>>
    /\ UNCHANGED unitVars

Minus1(n) == IF n = 0 THEN 0 ELSE n - 1

\* Time waits for every deadline, for packets that travelled long enough and for
\* the announcements of decks: their travel is part of DeckPeriod.
Tick ==
    /\ \A p \in Players : ~Due(p)
    /\ \A m \in net : m.age < MaxDelay
    /\ \A m \in net : m.sender = Deck => m.packet.kind # "keepAlive"
    /\ \A d \in decks : deckNext[d] > 0
    /\ next' = [p \in Players |-> Minus1(next[p])]
    /\ listen' = [p \in Players |-> IF phase[p] = "off" THEN listen[p] ELSE Minus1(listen[p])]
    /\ sent' = [p \in Players |-> [i \in DOMAIN sent[p] |->
                   [sent[p][i] EXCEPT !.age = IF @ > ECHO_WINDOW THEN @ ELSE @ + 1]]]
    /\ net' = {[m EXCEPT !.age = @ + 1] : m \in net}
    /\ deckNext' = [d \in DOMAIN deckNext |->
                       IF d \in decks THEN deckNext[d] - 1 ELSE deckNext[d]]
    /\ UNCHANGED <<phase, count, number, interfaced, mixer, firstDecks, decks, lost>>

Next ==
    \/ \E p \in Players : Start(p) \/ FindInterface(p) \/ Poll(p)
    \/ \E p \in Players, m \in net : Deliver(p, m)
    \/ \E d \in Decks : PlugIn(d) \/ DeckAnnounces(d)
    \/ \E d \in Decks, p \in Players : DeckDefends(d, p)
    \/ \E p \in Players : MixerIntends(p) \/ Confirms(p)
    \/ \E m \in net : MixerAssigns(m) \/ Lose(m)
    \/ Tick

Spec == Init /\ [][Next]_vars
FairSpec == Spec /\ WF_vars(Next)

-----------------------------------------------------------------------------
(* What the joiner promises.                                                 *)

Packets == [kind : {"hello", "stage1"} \cup Numbered \cup
                      {"inUse", "intention", "request", "assign", "finished"},
            number : Numbers \cup {NoNumber},
            n : 0 .. Repeats,
            who : Players \cup {Named, Deck, Mixer}]

Messages == [to : Players \cup {Mixer}, sender : Players \cup {Deck, Mixer},
             addr : Players \cup {Deck, Mixer, Elsewhere},
             packet : Packets, age : 0 .. MaxDelay]

\* Everything but the echo memory.
ProtocolTypeOK ==
    /\ phase \in [Players -> Phases]
    /\ count \in [Players -> 0 .. Repeats]
    /\ number \in [Players -> Numbers]
    /\ interfaced \subseteq Players
    /\ listen \in [Players -> 0 .. LISTEN_BEFORE_CLAIM]
    /\ next \in [Players -> 0 .. LISTEN_BEFORE_CLAIM]
    /\ mixer \in [Players -> Mixed]
    /\ decks \subseteq Decks
    /\ deckNext \in [Decks -> 0 .. DeckPeriod]
    /\ net \subseteq Messages
    /\ lost \in 0 .. MaxLost

\* Every variable stays in its range (Phase and the fields of Joiner).
TypeOK ==
    /\ ProtocolTypeOK
    /\ firstDecks \subseteq decks
    /\ sent \in [Players -> Seq([packet : Packets, age : 0 .. ECHO_WINDOW + 1])]

Announces(m, p) == m.sender = p /\ m.packet.kind \in Numbered

\* What a step may do to a unit that yielded: nothing, and no packet of its.
QuietStep(p) ==
    phase[p] = "yielded" =>
        /\ phase'[p] = "yielded"
        /\ \A m \in net' \ net : m.age = 0 => m.sender # p

\* A unit that gave its number up is never heard of again, whatever else
\* arrives: no later assignment, confirmation or poll revives it (yield_to,
\* on_assignment, poll).
QuietOnceYielded == [][\A p \in Players : QuietStep(p)]_vars

\* A unit gives its number up only to somebody else, even when its own
\* broadcasts come back from another address (is_own_announcement).
YieldsToOthers ==
    [][\A p \in Players : phase[p] # "yielded" /\ phase'[p] = "yielded" =>
          \E m \in net \ net' : m.to = p /\ m.sender # p]_vars

\* As long as the network lost nothing, a deck that was there first never sees its
\* number claimed by a unit no mixer gave it to: the listening period outlasts
\* its silence (LISTEN_BEFORE_CLAIM_NS).
DecksUndisturbed ==
    lost = 0 =>
        \A m \in net, p \in Players :
            Announces(m, p) /\ mixer[p] # "assigned" => m.packet.number \notin firstDecks

Clash ==
    \E p, q \in Players :
        p # q /\ phase[p] = "joined" /\ phase[q] = "joined" /\ number[p] = number[q]

\* Two units never hold one number, though neither can see the other's phase
\* and both were configured to claim it.
OneHolder == ~Clash

\* A unit's number is on the wire before its listening period is over only if
\* a mixer assigned one.
ListensOrIsAssigned ==
    \A m \in net, p \in Players :
        Announces(m, p) /\ listen[p] > 0 => mixer[p] = "assigned"

\* Past the first stage a unit has listened or has a mixer's number; packets of
\* a mixer's exchange are where the exchange says.
JoinInv ==
    /\ ProtocolTypeOK
    /\ \A p \in Players :
          phase[p] \in {"stage2", "stage3", "joined"} /\ listen[p] > 0 => mixer[p] = "assigned"
    /\ \A m \in net :
          /\ m.packet.kind = "assign" => m.to \in Players /\ mixer[m.to] = "assigned"
          /\ m.packet.kind = "request" => m.sender \in Players
    /\ ListensOrIsAssigned

\* A deck gets its number back from every running unit that has it, joined or not,
\* also when it is plugged in later or the network loses a packet of either: the
\* deck announces itself again.
DeckGetsItsNumber ==
    \A d \in Decks, p \in Players :
        d \in decks /\ phase[p] # "off" /\ number[p] = d
            ~> phase[p] = "yielded" \/ number[p] # d

\* Two units that ended up on one number do not both keep it.
NoLastingClash == Clash ~> ~Clash
=============================================================================
