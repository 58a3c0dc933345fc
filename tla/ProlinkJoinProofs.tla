-------------------------- MODULE ProlinkJoinProofs --------------------------
(* For any number of units, decks and mixers, any delay and any loss: a      *)
(* unit's number is on the wire only after it has listened or a mixer        *)
(* assigned one, and a unit that yielded stays quiet. Where echoes are       *)
(* prompt, a unit yields to others only; until something is lost, the decks  *)
(* that were there first keep their numbers; and where losses and delay      *)
(* leave a claim to be heard, a number has one holder.                       *)
EXTENDS ProlinkJoin, FiniteSetTheorems, SequenceTheorems, TLAPS

(* What the constants give the provers. *)
LEMMA JoinFacts ==
    /\ NoNumber \notin Numbers
    /\ Configured \in [Players -> Numbers] /\ Interfaced \subseteq Players
    /\ DeckPeriod \in Nat \ {0} /\ MaxDelay \in Nat /\ MaxLost \in Nat
    /\ Decks \subseteq Numbers
    /\ Assignable \subseteq Numbers \cup {NoNumber}
    /\ "deck" \notin Players /\ "mixer" \notin Players
  BY JoinAssumption DEF Named, Deck, Mixer, Elsewhere

(* A packet that has just been sent is a packet on its way. *)
LEMMA MessageType ==
    ASSUME NEW to \in Players \cup {Mixer}, NEW sender \in Players \cup {Deck, Mixer},
           NEW addr \in Players \cup {Deck, Mixer, Elsewhere}, NEW packet \in Packets
    PROVE  /\ Message(to, sender, addr, packet) \in Messages
           /\ Message(to, sender, addr, packet).to = to
           /\ Message(to, sender, addr, packet).sender = sender
           /\ Message(to, sender, addr, packet).packet = packet
           /\ Message(to, sender, addr, packet).age = 0
  BY JoinFacts DEF Message, Messages

(* The packets of the protocol are packets. *)
LEMMA PacketType ==
    ASSUME NEW kind \in {"hello", "stage1", "stage2", "stage3", "keepAlive", "inUse",
                         "intention", "request", "assign", "finished"},
           NEW num \in Numbers \cup {NoNumber}, NEW n \in 0 .. Repeats,
           NEW who \in Players \cup {Named, Deck, Mixer}
    PROVE  /\ Packet(kind, num, n, who) \in Packets
           /\ Packet(kind, num, n, who).kind = kind
           /\ Packet(kind, num, n, who).number = num
  BY DEF Packet, Packets, Numbered

(* Nothing has happened yet. *)
LEMMA InitJoin == Init => JoinInv
<1> SUFFICES ASSUME Init PROVE JoinInv
  OBVIOUS
<1>1. ProtocolTypeOK
  BY JoinFacts DEF Init, ProtocolTypeOK, Phases, Repeats, LISTEN_BEFORE_CLAIM, Mixed
<1>2. \A p \in Players : phase[p] = "off"
  BY DEF Init
<1>3. QED
  BY <1>1, <1>2 DEF Init, JoinInv, ListensOrIsAssigned

(* New packets keep the packet part of the invariant when each is typed and  *)
(* lawful by itself, and no unit loses its assignment or gains listening     *)
(* time.                                                                     *)
Lawful(m) ==
    /\ m \in Messages
    /\ m.packet.kind = "assign" => m.to \in Players /\ mixer'[m.to] = "assigned"
    /\ m.packet.kind = "request" => m.sender \in Players
    /\ \A p \in Players : Announces(m, p) /\ listen'[p] > 0 => mixer'[p] = "assigned"

LEMMA NetKept ==
    ASSUME JoinInv,
           \A m \in net' : m \in net \/ Lawful(m),
           \A p \in Players : mixer[p] = "assigned" => mixer'[p] = "assigned",
           \A p \in Players : listen'[p] > 0 => listen[p] > 0
    PROVE  /\ net' \subseteq Messages
           /\ \A m \in net' :
                 /\ m.packet.kind = "assign" => m.to \in Players /\ mixer'[m.to] = "assigned"
                 /\ m.packet.kind = "request" => m.sender \in Players
           /\ ListensOrIsAssigned'
<1>1. net' \subseteq Messages
  BY DEF JoinInv, ProtocolTypeOK, Lawful
<1>2. ASSUME NEW m \in net'
      PROVE  /\ m.packet.kind = "assign" => m.to \in Players /\ mixer'[m.to] = "assigned"
             /\ m.packet.kind = "request" => m.sender \in Players
  BY <1>2 DEF JoinInv, Lawful
<1>3. ASSUME NEW m \in net', NEW p \in Players, Announces(m, p), listen'[p] > 0
      PROVE  mixer'[p] = "assigned"
  BY <1>3 DEF JoinInv, Lawful, ListensOrIsAssigned
<1>4. ListensOrIsAssigned'
  BY <1>3 DEF ListensOrIsAssigned, Announces
<1>5. QED
  BY <1>1, <1>2, <1>4

(* Whatever poll sends, when it may send it. *)
LEMMA SendKeepsInv ==
    ASSUME JoinInv,
           NEW p \in Players, NEW stage \in Claiming \cup {"joined"},
           NEW packet \in Packets, NEW wait \in 0 .. LISTEN_BEFORE_CLAIM,
           Send(p, stage, packet, wait),
           Repeat(p, stage) \in 0 .. Repeats \/ stage = "joined",
           packet.kind \notin {"assign", "request"},
           stage \in {"stage2", "stage3", "joined"} /\ listen[p] > 0 => mixer[p] = "assigned",
           packet.kind \in Numbered /\ listen[p] > 0 => mixer[p] = "assigned"
    PROVE  JoinInv'
<1>1. UNCHANGED <<number, interfaced, listen, mixer, decks, deckNext, lost>>
  BY DEF Send, worldVars
<1>2. ASSUME NEW m \in net' PROVE m \in net \/ Lawful(m)
  <2>1. CASE m \in net
    BY <2>1
  <2>2. CASE m \in Copies(p, packet)
    <3>1. PICK q \in Players : m = Message(q, p, IF q = p /\ p \in TwoInterfaces THEN Elsewhere ELSE p, packet)
      BY <2>2 DEF Copies
    <3>2. m \in Messages /\ m.to = q /\ m.sender = p /\ m.packet = packet
      BY <3>1, MessageType
    <3>3. \A r \in Players : Announces(m, r) /\ listen'[r] > 0 => mixer'[r] = "assigned"
      BY <1>1, <3>2 DEF Announces
    <3>4. QED
      BY <3>2, <3>3 DEF Lawful
  <2>3. m \in net \cup Copies(p, packet)
    BY DEF Send, Broadcast
  <2>4. QED
    BY <2>1, <2>2, <2>3
<1>3. /\ net' \subseteq Messages
      /\ \A m \in net' :
            /\ m.packet.kind = "assign" => m.to \in Players /\ mixer'[m.to] = "assigned"
            /\ m.packet.kind = "request" => m.sender \in Players
      /\ ListensOrIsAssigned'
  BY <1>1, <1>2, NetKept
<1>4. phase' \in [Players -> Phases] /\ next' \in [Players -> 0 .. LISTEN_BEFORE_CLAIM]
  BY DEF Send, JoinInv, ProtocolTypeOK, Phases, Claiming
<1>5. count' \in [Players -> 0 .. Repeats]
  <2>1. (IF stage = "joined" THEN 0 ELSE Repeat(p, stage)) \in 0 .. Repeats
    BY DEF Repeats
  <2>2. QED
    BY <2>1 DEF Send, JoinInv, ProtocolTypeOK
<1>6. ProtocolTypeOK'
  BY <1>1, <1>3, <1>4, <1>5 DEF JoinInv, ProtocolTypeOK
<1>7. ASSUME NEW q \in Players, phase'[q] \in {"stage2", "stage3", "joined"}, listen'[q] > 0
      PROVE  mixer'[q] = "assigned"
  <2>1. q # p => phase'[q] = phase[q]
    BY DEF Send, JoinInv, ProtocolTypeOK
  <2>2. phase'[p] = stage
    BY DEF Send, JoinInv, ProtocolTypeOK
  <2>3. QED
    BY <1>1, <1>7, <2>1, <2>2 DEF JoinInv
<1>8. QED
  BY <1>3, <1>6, <1>7 DEF JoinInv

(* What is due has been sent fewer than three times, or is the next stage.   *)
LEMMA RepeatType ==
    ASSUME ProtocolTypeOK, NEW p \in Players, NEW stage \in Claiming, NEW prev, prev # stage,
           In(p, stage, prev)
    PROVE  Repeat(p, stage) \in 0 .. Repeats
  BY DEF In, Repeat, Repeats, Claiming, ProtocolTypeOK

(* Every poll keeps the invariant: the number is in the second stage's       *)
(* packets at the earliest, and that stage begins with the listening period  *)
(* over, or was skipped for an assignment.                                   *)
LEMMA PollKeepsInv ==
    ASSUME JoinInv, NEW p \in Players, Poll(p)
    PROVE  JoinInv'
<1>1. /\ ProtocolTypeOK /\ number[p] \in Numbers /\ 0 \in 0 .. Repeats
      /\ NoNumber \in Numbers \cup {NoNumber}
      /\ Named \in Players \cup {Named, Deck, Mixer}
  BY DEF JoinInv, ProtocolTypeOK, Repeats
<1>2. 1 \in 0 .. LISTEN_BEFORE_CLAIM /\ KEEP_ALIVE \in 0 .. LISTEN_BEFORE_CLAIM
  BY DEF LISTEN_BEFORE_CLAIM, KEEP_ALIVE
<1>3. phase[p] \in {"stage2", "stage3", "joined"} /\ listen[p] > 0 => mixer[p] = "assigned"
  BY DEF JoinInv
<1>4. CASE SendHello(p)
  <2>1. Repeat(p, "hello") \in 0 .. Repeats
    BY <1>1, <1>4, RepeatType DEF SendHello, Claiming
  <2>2. /\ Packet("hello", NoNumber, 0, Named) \in Packets
        /\ Packet("hello", NoNumber, 0, Named).kind = "hello"
    BY <1>1 DEF Packet, Packets
  <2>3. QED
    BY <1>2, <1>4, <2>1, <2>2, SendKeepsInv DEF SendHello, Claiming, Numbered
<1>5. CASE SendClaimStage1(p)
  <2>1. Repeat(p, "stage1") \in 0 .. Repeats
    BY <1>1, <1>5, RepeatType DEF SendClaimStage1, Claiming
  <2>2. /\ Packet("stage1", NoNumber, Repeat(p, "stage1"), p) \in Packets
        /\ Packet("stage1", NoNumber, Repeat(p, "stage1"), p).kind = "stage1"
    BY <2>1, PacketType
  <2>3. QED
    BY <1>2, <1>5, <2>1, <2>2, SendKeepsInv DEF SendClaimStage1, Claiming, Numbered
<1>6. CASE KeepListening(p)
  <2>1. UNCHANGED <<phase, count, number, interfaced, listen, net, mixer, decks, deckNext, lost>>
    BY <1>6 DEF KeepListening, worldVars
  <2>2. next' \in [Players -> 0 .. LISTEN_BEFORE_CLAIM]
    BY <1>1, <1>6 DEF KeepListening, ProtocolTypeOK
  <2>3. ProtocolTypeOK'
    BY <1>1, <2>1, <2>2 DEF ProtocolTypeOK
  <2>4. QED
    BY <2>1, <2>3 DEF JoinInv, ListensOrIsAssigned
<1>7. CASE SendClaimStage2(p)
  <2>1. Repeat(p, "stage2") \in 0 .. Repeats
    BY <1>1, <1>7, RepeatType DEF SendClaimStage2, Claiming
  <2>2. /\ Packet("stage2", number[p], Repeat(p, "stage2"), p) \in Packets
        /\ Packet("stage2", number[p], Repeat(p, "stage2"), p).kind = "stage2"
    BY <1>1, <2>1, PacketType
  <2>3. listen[p] > 0 => mixer[p] = "assigned"
    BY <1>1, <1>3, <1>7 DEF SendClaimStage2, In, ProtocolTypeOK
  <2>4. QED
    BY <1>2, <1>7, <2>1, <2>2, <2>3, SendKeepsInv DEF SendClaimStage2, Claiming
<1>8. CASE SendClaimStage3(p)
  <2>1. Repeat(p, "stage3") \in 0 .. Repeats
    BY <1>1, <1>8, RepeatType DEF SendClaimStage3, Claiming
  <2>2. /\ Packet("stage3", number[p], Repeat(p, "stage3"), Named) \in Packets
        /\ Packet("stage3", number[p], Repeat(p, "stage3"), Named).kind = "stage3"
    BY <1>1, <2>1, PacketType
  <2>3. listen[p] > 0 => mixer[p] = "assigned"
    BY <1>3, <1>8 DEF SendClaimStage3, In
  <2>4. QED
    BY <1>2, <1>8, <2>1, <2>2, <2>3, SendKeepsInv DEF SendClaimStage3, Claiming
<1>9. CASE SendKeepAlive(p)
  <2>1. /\ Packet("keepAlive", number[p], 0, p) \in Packets
        /\ Packet("keepAlive", number[p], 0, p).kind = "keepAlive"
    BY <1>1, PacketType
  <2>2. listen[p] > 0 => mixer[p] = "assigned"
    BY <1>3, <1>9 DEF SendKeepAlive, In
  <2>3. QED
    BY <1>2, <1>9, <2>1, <2>2, SendKeepsInv DEF SendKeepAlive
<1>10. QED
  BY <1>4, <1>5, <1>6, <1>7, <1>8, <1>9 DEF Poll

(* A step that leaves the joiners' phases, the timers and the decks alone    *)
(* and only adds lawful packets.                                             *)
LEMMA WorldKeepsInv ==
    ASSUME JoinInv, UNCHANGED unitVars, UNCHANGED decks,
           mixer' \in [Players -> Mixed],
           \A p \in Players : mixer[p] = "assigned" => mixer'[p] = "assigned",
           deckNext' \in [Decks -> 0 .. DeckPeriod],
           lost' \in 0 .. MaxLost,
           \A m \in net' : m \in net \/ Lawful(m)
    PROVE  JoinInv'
<1>1. UNCHANGED <<phase, count, number, interfaced, listen, next, decks>>
  BY DEF unitVars
<1>2. /\ net' \subseteq Messages
      /\ \A m \in net' :
            /\ m.packet.kind = "assign" => m.to \in Players /\ mixer'[m.to] = "assigned"
            /\ m.packet.kind = "request" => m.sender \in Players
      /\ ListensOrIsAssigned'
  BY <1>1, NetKept
<1>3. ProtocolTypeOK'
  BY <1>1, <1>2 DEF JoinInv, ProtocolTypeOK
<1>4. \A p \in Players :
          phase'[p] \in {"stage2", "stage3", "joined"} /\ listen'[p] > 0 => mixer'[p] = "assigned"
  BY <1>1 DEF JoinInv
<1>5. QED
  BY <1>2, <1>3, <1>4 DEF JoinInv

(* A packet from a deck or a mixer to a unit. *)
LEMMA ToUnitType ==
    ASSUME NEW p, p \in Players, NEW who \in {Deck, Mixer}, NEW packet \in Packets
    PROVE  /\ ToUnit(p, who, packet) \in Messages
           /\ ToUnit(p, who, packet).to = p
           /\ ToUnit(p, who, packet).sender = who
           /\ ToUnit(p, who, packet).packet = packet
  BY JoinFacts DEF ToUnit, Message, Messages

(* A packet from a deck or a mixer to a unit says nothing of our numbers.    *)
LEMMA ForeignIsLawful ==
    ASSUME NEW p \in Players, NEW who \in {Deck, Mixer},
           NEW kind \in {"keepAlive", "inUse", "intention", "finished"},
           NEW num \in Numbers \cup {NoNumber}
    PROVE  Lawful(ToUnit(p, who, Packet(kind, num, 0, who)))
<1> DEFINE pk == Packet(kind, num, 0, who)
<1> DEFINE m == ToUnit(p, who, pk)
<1>1. pk \in Packets /\ pk.kind = kind
  BY PacketType DEF Repeats
<1>2. m \in Messages /\ m.sender = who /\ m.packet = pk
  BY <1>1, MessageType DEF ToUnit
<1>3. \A q \in Players : ~Announces(m, q)
  BY <1>2, JoinFacts DEF Announces, Deck, Mixer
<1>4. QED
  BY <1>1, <1>2, <1>3 DEF Lawful

(* The decks keep the invariant. *)
LEMMA DeckAnnouncesKeepsInv ==
    ASSUME JoinInv, NEW d \in Decks, DeckAnnounces(d)
    PROVE  JoinInv'
<1>1. d \in Numbers \cup {NoNumber}
  BY JoinFacts
<1>2. \A q \in Players : Lawful(ToUnit(q, Deck, DeckPacket("keepAlive", d)))
  BY <1>1, ForeignIsLawful DEF DeckPacket
<1>3. \A m \in net' : m \in net \/ Lawful(m)
  BY <1>2 DEF DeckAnnounces
<1>4. deckNext' \in [Decks -> 0 .. DeckPeriod]
  BY JoinFacts DEF DeckAnnounces, JoinInv, ProtocolTypeOK
<1>5. QED
  BY <1>3, <1>4, WorldKeepsInv DEF DeckAnnounces, JoinInv, ProtocolTypeOK

LEMMA DeckDefendsKeepsInv ==
    ASSUME JoinInv, NEW d \in Decks, NEW p \in Players, DeckDefends(d, p)
    PROVE  JoinInv'
<1>1. Lawful(ToUnit(p, Deck, DeckPacket("inUse", d)))
  BY JoinFacts, ForeignIsLawful DEF DeckPacket
<1>2. \A m \in net' : m \in net \/ Lawful(m)
  BY <1>1 DEF DeckDefends
<1>3. QED
  BY <1>2, WorldKeepsInv DEF DeckDefends, worldVars, JoinInv, ProtocolTypeOK

(* The mixer keeps the invariant: what it assigns goes to a unit it has      *)
(* noted as assigned.                                                        *)
LEMMA MixerKeepsInv ==
    ASSUME JoinInv
    PROVE  /\ \A p \in Players : MixerIntends(p) => JoinInv'
           /\ \A p \in Players : Confirms(p) => JoinInv'
           /\ \A m \in net : MixerAssigns(m) => JoinInv'
<1>1. ASSUME NEW p \in Players, MixerIntends(p) PROVE JoinInv'
  <2>1. Lawful(ToUnit(p, Mixer, Packet("intention", NoNumber, 0, Mixer)))
    BY ForeignIsLawful
  <2>2. \A m \in net' : m \in net \/ Lawful(m)
    BY <1>1, <2>1 DEF MixerIntends
  <2>3. /\ mixer' \in [Players -> Mixed]
        /\ \A q \in Players : mixer[q] = "assigned" => mixer'[q] = "assigned"
    BY <1>1 DEF MixerIntends, JoinInv, ProtocolTypeOK, Mixed
  <2>4. QED
    BY <1>1, <2>2, <2>3, WorldKeepsInv DEF MixerIntends, JoinInv, ProtocolTypeOK
<1>2. ASSUME NEW p \in Players, Confirms(p) PROVE JoinInv'
  <2>1. Lawful(ToUnit(p, Deck, Packet("finished", NoNumber, 0, Deck)))
    BY ForeignIsLawful
  <2>2. \A m \in net' : m \in net \/ Lawful(m)
    BY <1>2, <2>1 DEF Confirms
  <2>3. QED
    BY <1>2, <2>2, WorldKeepsInv DEF Confirms, worldVars, JoinInv, ProtocolTypeOK
<1>3. ASSUME NEW m \in net, MixerAssigns(m) PROVE JoinInv'
  <2>1. m.sender \in Players
    BY <1>3 DEF MixerAssigns, JoinInv
  <2>2. PICK n \in Assignable :
            net' = (net \ {m}) \cup {ToUnit(m.sender, Mixer, Packet("assign", n, 0, Mixer))}
    BY <1>3 DEF MixerAssigns
  <2> DEFINE pk == Packet("assign", n, 0, Mixer)
  <2> DEFINE x == ToUnit(m.sender, Mixer, pk)
  <2>3. pk \in Packets /\ pk.kind = "assign"
    BY JoinFacts, PacketType DEF Repeats
  <2> HIDE DEF pk
  <2>4. x \in Messages /\ x.to = m.sender /\ x.sender = Mixer /\ x.packet = pk
    BY <2>1, <2>3, ToUnitType
  <2>5. /\ mixer' \in [Players -> Mixed] /\ mixer'[m.sender] = "assigned"
        /\ \A q \in Players : mixer[q] = "assigned" => mixer'[q] = "assigned"
    BY <1>3, <2>1 DEF MixerAssigns, JoinInv, ProtocolTypeOK, Mixed
  <2>6. \A q \in Players : ~Announces(x, q)
    BY <2>4, JoinFacts DEF Announces, Mixer
  <2>7. Lawful(x)
    BY <2>1, <2>3, <2>4, <2>5, <2>6 DEF Lawful
  <2>8. \A y \in net' : y \in net \/ Lawful(y)
    BY <2>2, <2>7 DEF pk
  <2>9. QED
    BY <1>3, <2>5, <2>8, WorldKeepsInv DEF MixerAssigns, JoinInv, ProtocolTypeOK
<1>4. QED
  BY <1>1, <1>2, <1>3

(* What a packet does to the unit it is delivered to: only an assignment     *)
(* takes it past the first stage.                                            *)
LEMMA DeliverKeepsInv ==
    ASSUME JoinInv, NEW p \in Players, NEW m \in net, Deliver(p, m)
    PROVE  JoinInv'
<1>1. UNCHANGED <<interfaced, listen, mixer, decks, deckNext, lost>>
  BY DEF Deliver, worldVars
<1>2. ASSUME NEW x \in net' PROVE x \in net \/ Lawful(x)
  <2>1. CASE x \in net
    BY <2>1
  <2>2. CASE x \notin net
    <3> DEFINE pk == Packet("request", NoNumber, 0, p)
    <3>1. x = Message(Mixer, p, p, pk)
      BY <1>2, <2>2 DEF Deliver
    <3>2. pk \in Packets /\ pk.kind = "request"
      BY PacketType DEF Repeats
    <3>3. x \in Messages /\ x.sender = p /\ x.packet = pk
      BY <3>1, <3>2, MessageType
    <3>4. \A q \in Players : ~Announces(x, q)
      BY <3>2, <3>3 DEF Announces, Numbered
    <3>5. QED
      BY <3>2, <3>3, <3>4 DEF Lawful
  <2>3. QED
    BY <2>1, <2>2
<1>3. /\ net' \subseteq Messages
      /\ \A x \in net' :
            /\ x.packet.kind = "assign" => x.to \in Players /\ mixer'[x.to] = "assigned"
            /\ x.packet.kind = "request" => x.sender \in Players
      /\ ListensOrIsAssigned'
  BY <1>1, <1>2, NetKept
<1>4. /\ phase \in [Players -> Phases] /\ count \in [Players -> 0 .. Repeats]
      /\ number \in [Players -> Numbers] /\ next \in [Players -> 0 .. LISTEN_BEFORE_CLAIM]
      /\ m.packet.number \in Numbers \cup {NoNumber}
      /\ m.to = p
  BY DEF JoinInv, ProtocolTypeOK, Messages, Packets, Deliver
<1>5. /\ phase' \in [Players -> Phases] /\ count' \in [Players -> 0 .. Repeats]
      /\ number' \in [Players -> Numbers] /\ next' \in [Players -> 0 .. LISTEN_BEFORE_CLAIM]
      /\ \A q \in Players : \/ phase'[q] = phase[q]
                            \/ phase'[q] = "yielded"
                            \/ q = p /\ m.packet.kind = "assign"
  <2>1. CASE UNCHANGED <<phase, count, number, next>>
    BY <1>4, <2>1
  <2>2. CASE NumberSeen(p, m)
    BY <1>4, <2>2 DEF NumberSeen, Phases
  <2>3. CASE Assignment(p, m)
    <3>1. CASE phase[p] \notin Claiming
      BY <1>4, <2>3, <3>1 DEF Assignment
    <3>2. CASE phase[p] \in Claiming
      <4>1. /\ phase' = [phase EXCEPT ![p] = "stage3"]
            /\ number' = [number EXCEPT ![p] =
                             IF m.packet.number = NoNumber THEN @ ELSE m.packet.number]
            /\ count' = [count EXCEPT ![p] = IF phase[p] = "stage3" THEN @ ELSE 0]
            /\ next' = [next EXCEPT ![p] = IF phase[p] = "stage3" THEN @ ELSE 0]
            /\ m.packet.kind = "assign"
        BY <2>3, <3>2 DEF Assignment
      <4>2. phase' \in [Players -> Phases] /\ \A q \in Players \ {p} : phase'[q] = phase[q]
        BY <1>4, <4>1 DEF Phases
      <4>3. number' \in [Players -> Numbers]
        BY <1>4, <4>1
      <4>4. count' \in [Players -> 0 .. Repeats]
        BY <1>4, <4>1 DEF Repeats
      <4>5. next' \in [Players -> 0 .. LISTEN_BEFORE_CLAIM]
        BY <1>4, <4>1 DEF LISTEN_BEFORE_CLAIM
      <4>6. QED
        BY <4>1, <4>2, <4>3, <4>4, <4>5
    <3>3. QED
      BY <3>1, <3>2
  <2>4. CASE AssignmentFinished(p, m)
    BY <1>4, <2>4 DEF AssignmentFinished, Repeats, LISTEN_BEFORE_CLAIM
  <2>5. QED
    BY <2>1, <2>2, <2>3, <2>4 DEF Deliver, OwnPacket, AssignmentIntention
<1>6. ProtocolTypeOK'
  BY <1>1, <1>3, <1>5 DEF JoinInv, ProtocolTypeOK
<1>7. \A q \in Players :
          phase'[q] \in {"stage2", "stage3", "joined"} /\ listen'[q] > 0 => mixer'[q] = "assigned"
  BY <1>1, <1>4, <1>5 DEF JoinInv
<1>8. QED
  BY <1>3, <1>6, <1>7 DEF JoinInv

(* Time only takes listening time away, and waits for what must happen. *)
LEMMA TickKeepsInv ==
    ASSUME JoinInv, Tick
    PROVE  JoinInv'
<1>1. UNCHANGED <<phase, count, number, interfaced, mixer, decks, lost>>
  BY DEF Tick
<1>2. ProtocolTypeOK /\ \A n \in 0 .. LISTEN_BEFORE_CLAIM : Minus1(n) \in 0 .. LISTEN_BEFORE_CLAIM
  BY DEF JoinInv, Minus1, LISTEN_BEFORE_CLAIM
<1>3. next' \in [Players -> 0 .. LISTEN_BEFORE_CLAIM]
  BY <1>2 DEF Tick, ProtocolTypeOK
<1>4. listen' \in [Players -> 0 .. LISTEN_BEFORE_CLAIM]
  BY <1>2 DEF Tick, ProtocolTypeOK
<1>5. \A p \in Players : listen'[p] > 0 => listen[p] > 0
  BY <1>2 DEF Tick, ProtocolTypeOK, Minus1, LISTEN_BEFORE_CLAIM
<1>6. deckNext' \in [Decks -> 0 .. DeckPeriod]
  BY <1>2, JoinFacts DEF Tick, ProtocolTypeOK
<1>7. ASSUME NEW x \in net'
      PROVE  \E m \in net : /\ x.to = m.to /\ x.sender = m.sender /\ x.packet = m.packet
                            /\ x \in Messages
  <2>1. PICK m \in net : x = [m EXCEPT !.age = @ + 1] /\ m.age < MaxDelay
    <3>1. net' = {[m EXCEPT !.age = @ + 1] : m \in net} /\ \A m \in net : m.age < MaxDelay
      BY DEF Tick
    <3>2. QED
      BY <1>7, <3>1
  <2>2. m \in Messages
    BY <1>2 DEF ProtocolTypeOK
  <2>3. x.to = m.to /\ x.sender = m.sender /\ x.packet = m.packet /\ x \in Messages
    BY <2>1, <2>2, JoinFacts DEF Messages
  <2>4. QED
    BY <2>3
<1>8. net' \subseteq Messages
  BY <1>7
<1>9. ProtocolTypeOK'
  BY <1>1, <1>2, <1>3, <1>4, <1>6, <1>8 DEF ProtocolTypeOK
<1>10. \A x \in net' :
          /\ x.packet.kind = "assign" => x.to \in Players /\ mixer'[x.to] = "assigned"
          /\ x.packet.kind = "request" => x.sender \in Players
  BY <1>1, <1>7 DEF JoinInv
<1>11. ListensOrIsAssigned'
  <2>1. ASSUME NEW x \in net', NEW p \in Players, Announces(x, p), listen'[p] > 0
        PROVE  mixer'[p] = "assigned"
    <3>1. PICK m \in net : x.sender = m.sender /\ x.packet = m.packet
      BY <1>7
    <3>2. Announces(m, p) /\ listen[p] > 0
      BY <1>5, <2>1, <3>1 DEF Announces
    <3>3. QED
      BY <1>1, <3>2 DEF JoinInv, ListensOrIsAssigned
  <2>2. QED
    BY <2>1 DEF ListensOrIsAssigned, Announces
<1>12. \A p \in Players :
          phase'[p] \in {"stage2", "stage3", "joined"} /\ listen'[p] > 0 => mixer'[p] = "assigned"
  BY <1>1, <1>5 DEF JoinInv
<1>13. QED
  BY <1>9, <1>10, <1>11, <1>12 DEF JoinInv

(* The steps that send nothing. *)
LEMMA SilentKeepsInv ==
    ASSUME JoinInv
    PROVE  /\ \A p \in Players : Start(p) \/ FindInterface(p) => JoinInv'
           /\ \A d \in Decks : PlugIn(d) => JoinInv'
           /\ \A m \in net : Lose(m) => JoinInv'
<1>1. ASSUME NEW p \in Players, Start(p) PROVE JoinInv'
  <2>1. /\ UNCHANGED <<count, number, interfaced, listen, next, net, mixer, decks, deckNext, lost>>
        /\ phase' = [phase EXCEPT ![p] = "waiting"]
    BY <1>1 DEF Start, worldVars
  <2>2. ProtocolTypeOK'
    BY <2>1 DEF JoinInv, ProtocolTypeOK, Phases
  <2>3. \A q \in Players : phase'[q] \in {"stage2", "stage3", "joined"} => phase'[q] = phase[q]
    BY <2>1 DEF JoinInv, ProtocolTypeOK
  <2>4. QED
    BY <2>1, <2>2, <2>3 DEF JoinInv, ListensOrIsAssigned
<1>2. ASSUME NEW p \in Players, FindInterface(p) PROVE JoinInv'
  <2>1. /\ UNCHANGED <<phase, count, number, listen, next, net, mixer, decks, deckNext, lost>>
        /\ interfaced' = interfaced \cup {p}
    BY <1>2 DEF FindInterface, worldVars
  <2>2. ProtocolTypeOK'
    BY <2>1 DEF JoinInv, ProtocolTypeOK
  <2>3. QED
    BY <2>1, <2>2 DEF JoinInv, ListensOrIsAssigned
<1>3. ASSUME NEW d \in Decks, PlugIn(d) PROVE JoinInv'
  <2>1. /\ UNCHANGED <<phase, count, number, interfaced, listen, next, net, mixer, deckNext, lost>>
        /\ decks' = decks \cup {d}
    BY <1>3 DEF PlugIn, unitVars
  <2>2. ProtocolTypeOK'
    BY <2>1 DEF JoinInv, ProtocolTypeOK
  <2>3. QED
    BY <2>1, <2>2 DEF JoinInv, ListensOrIsAssigned
<1>4. ASSUME NEW m \in net, Lose(m) PROVE JoinInv'
  <2>1. UNCHANGED unitVars /\ UNCHANGED <<mixer, decks, deckNext>> /\ net' \subseteq net
    BY <1>4 DEF Lose
  <2>2. lost' \in 0 .. MaxLost
    BY <1>4, JoinFacts DEF Lose, JoinInv, ProtocolTypeOK
  <2>3. QED
    BY <2>1, <2>2, WorldKeepsInv DEF JoinInv, ProtocolTypeOK
<1>5. QED
  BY <1>1, <1>2, <1>3, <1>4

(* Every step keeps the invariant. *)
LEMMA StepJoin == JoinInv /\ [Next]_vars => JoinInv'
<1> SUFFICES ASSUME JoinInv, [Next]_vars PROVE JoinInv'
  OBVIOUS
<1>1. CASE \E p \in Players : Start(p) \/ FindInterface(p) \/ Poll(p)
  BY <1>1, SilentKeepsInv, PollKeepsInv
<1>2. CASE \E p \in Players, m \in net : Deliver(p, m)
  BY <1>2, DeliverKeepsInv
<1>3. CASE \E d \in Decks : PlugIn(d) \/ DeckAnnounces(d)
  <2>1. PICK d \in Decks : PlugIn(d) \/ DeckAnnounces(d)
    BY <1>3
  <2>2. CASE PlugIn(d)
    BY <2>2, SilentKeepsInv
  <2>3. CASE DeckAnnounces(d)
    BY <2>3, DeckAnnouncesKeepsInv
  <2>4. QED
    BY <2>1, <2>2, <2>3
<1>4. CASE \E d \in Decks, p \in Players : DeckDefends(d, p)
  BY <1>4, DeckDefendsKeepsInv
<1>5. CASE \E p \in Players : MixerIntends(p) \/ Confirms(p)
  BY <1>5, MixerKeepsInv
<1>6. CASE \E m \in net : MixerAssigns(m) \/ Lose(m)
  BY <1>6, MixerKeepsInv, SilentKeepsInv
<1>7. CASE Tick
  BY <1>7, TickKeepsInv
<1>8. CASE UNCHANGED vars
  BY <1>8 DEF vars, JoinInv, ProtocolTypeOK, ListensOrIsAssigned
<1>9. QED
  BY <1>1, <1>2, <1>3, <1>4, <1>5, <1>6, <1>7, <1>8 DEF Next

(* A unit's own polls are over once it yielded; those of others are theirs.  *)
LEMMA PollIsQuiet ==
    ASSUME JoinInv, NEW p \in Players, NEW q \in Players, Poll(q)
    PROVE  QuietStep(p)
<1> SUFFICES ASSUME phase[p] = "yielded"
             PROVE  phase'[p] = "yielded" /\ \A m \in net' \ net : m.sender # p
  BY DEF QuietStep
<1>1. Due(q)
  BY DEF Poll, SendHello, SendClaimStage1, KeepListening, SendClaimStage2, SendClaimStage3,
         SendKeepAlive
<1>2. q # p
  BY <1>1 DEF Due, Claiming
<1>3. CASE KeepListening(q)
  BY <1>3 DEF KeepListening
<1>4. CASE \E stage, packet, wait : Send(q, stage, packet, wait)
  <2>1. PICK stage, packet, wait : Send(q, stage, packet, wait)
    BY <1>4
  <2>2. phase'[p] = phase[p]
    BY <1>2, <2>1 DEF Send, JoinInv, ProtocolTypeOK
  <2>3. \A m \in net' \ net : m \in Copies(q, packet)
    BY <2>1 DEF Send, Broadcast
  <2>4. \A m \in Copies(q, packet) : m.sender = q
    BY DEF Copies, Message
  <2>5. QED
    BY <1>2, <2>2, <2>3, <2>4
<1>5. QED
  BY <1>3, <1>4 DEF Poll, SendHello, SendClaimStage1, SendClaimStage2, SendClaimStage3,
                    SendKeepAlive

(* Nothing that is delivered revives it or makes it answer. *)
LEMMA DeliverIsQuiet ==
    ASSUME JoinInv, NEW p \in Players, NEW q \in Players, NEW m \in net, Deliver(q, m)
    PROVE  QuietStep(p)
<1> SUFFICES ASSUME phase[p] = "yielded"
             PROVE  phase'[p] = "yielded" /\ \A x \in net' \ net : x.sender # p
  BY DEF QuietStep
<1>1. phase \in [Players -> Phases]
  BY DEF JoinInv, ProtocolTypeOK
<1>2. phase'[p] = "yielded"
  <2>1. CASE UNCHANGED phase
    BY <2>1
  <2>2. CASE NumberSeen(q, m)
    BY <1>1, <2>2 DEF NumberSeen
  <2>3. CASE Assignment(q, m)
    <3>1. phase[q] \in Claiming => q # p
      BY DEF Claiming
    <3>2. QED
      BY <1>1, <2>3, <3>1 DEF Assignment
  <2>4. QED
    BY <2>1, <2>2, <2>3 DEF Deliver, OwnPacket, AssignmentIntention, AssignmentFinished
<1>3. ASSUME NEW x \in net' \ net PROVE x.sender # p
  <2>1. Requests(q, m) /\ x = Message(Mixer, q, q, Packet("request", NoNumber, 0, q))
    BY <1>3 DEF Deliver
  <2>2. x.sender = q /\ q # p
    BY <2>1 DEF Requests, Message
  <2>3. QED
    BY <2>2
<1>4. QED
  BY <1>2, <1>3

(* The rest of the world sends in its own name. *)
LEMMA WorldIsQuiet ==
    ASSUME JoinInv, NEW p \in Players, UNCHANGED phase,
           \A m \in net' \ net : m.age = 0 => m.sender \in {Deck, Mixer}
    PROVE  QuietStep(p)
  BY JoinFacts DEF QuietStep, Deck, Mixer

(* No step at all disturbs the silence. *)
LEMMA StepIsQuiet ==
    ASSUME JoinInv, [Next]_vars, NEW p \in Players
    PROVE  QuietStep(p)
<1>1. CASE \E q \in Players : Start(q) \/ FindInterface(q) \/ Poll(q)
  <2>1. ASSUME NEW q \in Players, Start(q) \/ FindInterface(q) PROVE QuietStep(p)
    BY <2>1 DEF Start, FindInterface, QuietStep, JoinInv, ProtocolTypeOK
  <2>2. QED
    BY <1>1, <2>1, PollIsQuiet
<1>2. CASE \E q \in Players, m \in net : Deliver(q, m)
  BY <1>2, DeliverIsQuiet
<1>3. CASE \E d \in Decks : PlugIn(d) \/ DeckAnnounces(d)
  <2>1. PICK d \in Decks : PlugIn(d) \/ DeckAnnounces(d)
    BY <1>3
  <2>2. \A m \in net' \ net : m.sender = Deck
    BY <2>1 DEF PlugIn, DeckAnnounces, ToUnit, Message
  <2>3. QED
    BY <2>1, <2>2, WorldIsQuiet DEF PlugIn, DeckAnnounces, unitVars
<1>4. CASE \E d \in Decks, q \in Players : DeckDefends(d, q)
  <2>1. UNCHANGED phase /\ \A m \in net' \ net : m.sender = Deck
    BY <1>4 DEF DeckDefends, ToUnit, Message, unitVars
  <2>2. QED
    BY <2>1, WorldIsQuiet
<1>5. CASE \E q \in Players : MixerIntends(q) \/ Confirms(q)
  <2>1. UNCHANGED phase /\ \A m \in net' \ net : m.sender \in {Deck, Mixer}
    BY <1>5 DEF MixerIntends, Confirms, ToUnit, Message, unitVars
  <2>2. QED
    BY <2>1, WorldIsQuiet
<1>6. CASE \E m \in net : MixerAssigns(m) \/ Lose(m)
  <2>1. UNCHANGED phase /\ \A m \in net' \ net : m.sender \in {Deck, Mixer}
    BY <1>6 DEF MixerAssigns, Lose, ToUnit, Message, unitVars
  <2>2. QED
    BY <2>1, WorldIsQuiet
<1>7. CASE Tick
  <2>1. ASSUME NEW x \in net' PROVE x.age # 0
    <3>1. PICK m \in net : x = [m EXCEPT !.age = @ + 1]
      BY <1>7 DEF Tick
    <3>2. m \in Messages
      BY DEF JoinInv, ProtocolTypeOK
    <3>3. QED
      BY <3>1, <3>2, JoinFacts DEF Messages
  <2>2. QED
    BY <1>7, <2>1, WorldIsQuiet DEF Tick
<1>8. CASE UNCHANGED vars
  BY <1>8 DEF vars, QuietStep
<1>9. QED
  BY <1>1, <1>2, <1>3, <1>4, <1>5, <1>6, <1>7, <1>8 DEF Next

(* The invariant holds throughout. *)
THEOREM JoinInvariant == Spec => []JoinInv
<1>1. QED
  BY InitJoin, StepJoin, PTL DEF Spec

(* A number is on the wire before the listening period is over only if a     *)
(* mixer assigned one, for every set of units and decks.                     *)
THEOREM ListensFirstOrAssigned == Spec => []ListensOrIsAssigned
<1>1. JoinInv => ListensOrIsAssigned
  BY DEF JoinInv
<1>2. QED
  BY <1>1, JoinInvariant, PTL

(* A unit that yielded stays quiet, for every set of units and decks and     *)
(* whatever the network does.                                                *)
THEOREM YieldedIsQuiet == Spec => QuietOnceYielded
<1>1. JoinInv /\ [Next]_vars => [\A p \in Players : QuietStep(p)]_vars
  BY StepIsQuiet
<1>2. QED
  BY <1>1, JoinInvariant, PTL DEF Spec, QuietOnceYielded

-----------------------------------------------------------------------------
(* The echo memory                                                           *)

Entries == [packet : Packets, age : 0 .. ECHO_WINDOW + 1]

\* The last to be sent is the youngest.
Ordered(entries) ==
    \A i, j \in 1 .. Len(entries) : i <= j => entries[j].age <= entries[i].age

\* How far the sends of a unit may be ahead of one in each step: a number a mixer
\* assigns is claimed at once, and a claim that is confirmed ends at once.
Ahead(p) ==
    LET waits == IF next[p] = 0 THEN 0 ELSE 1
    IN  IF phase[p] = "yielded" THEN 3
        ELSE IF phase[p] = "joined" THEN 2 + waits
        ELSE IF phase[p] = "stage3" THEN (IF count[p] = Repeats THEN 2 ELSE 1 + waits)
        ELSE IF phase[p] \in Claiming THEN waits
        ELSE 0

Spaced(p) ==
    \A i \in 1 .. Len(sent[p]) :
        Fresh(sent[p][i]) => Len(sent[p]) - i + 1 <= sent[p][i].age + Ahead(p)

\* What a unit's own broadcast says of a number, on its way back to it.
Echo(m) ==
    m.to \in Players /\ m.sender = m.to /\ m.packet.kind \in Numbered \cup {"inUse"}

Remembered(m, entries) ==
    \E i \in 1 .. Len(entries) : entries[i].packet = m.packet /\ entries[i].age = m.age

\* The broadcasts of a unit are remembered in the order of their ages.
MemoryInv ==
    /\ firstDecks \subseteq decks
    /\ sent \in [Players -> Seq(Entries)]
    /\ \A p \in Players : Ordered(sent[p])

\* Every echo on its way is of a broadcast the unit remembers.
EchoInv ==
    /\ \A p \in Players : Spaced(p)
    /\ \A m \in net : Echo(m) => Remembered(m, sent[m.to])

\* An echo is back within a second and a half: between a broadcast and its echo a
\* unit sends fewer packets than it remembers.
EchoesArePrompt == MaxDelay + 3 <= ECHO_MEMORY

(* Remembering one more forgets entries from the front: those that are too   *)
(* old, and one that eight fresh entries follow, itself counted.             *)
LEMMA RememberIsFifo ==
    ASSUME NEW s \in Seq(Entries), Ordered(s), NEW packet \in Packets
    PROVE  \E drop \in 0 .. Len(s) :
              LET t == Remember(s, packet)
              IN  /\ t \in Seq(Entries)
                  /\ Len(t) = Len(s) - drop + 1
                  /\ \A i \in 1 .. Len(s) - drop : t[i] = s[i + drop]
                  /\ t[Len(t)] = [packet |-> packet, age |-> 0]
                  /\ \A i \in 1 .. drop : Fresh(s[i]) => Len(s) - i + 1 >= ECHO_MEMORY
<1> DEFINE Old == {i \in 1 .. Len(s) : ~Fresh(s[i])}
           stale == Cardinality(Old)
           drop == IF Len(s) - stale >= ECHO_MEMORY THEN stale + 1 ELSE stale
           kept == SubSeq(s, drop + 1, Len(s))
           new == [packet |-> packet, age |-> 0]
<1>1. Len(s) \in Nat /\ \A i \in 1 .. Len(s) : s[i] \in Entries
  BY LenProperties, ElementOfSeq
<1>2. stale \in 0 .. Len(s)
  <2>1. IsFiniteSet(1 .. Len(s)) /\ Cardinality(1 .. Len(s)) = Len(s)
    <3>1. 1 \in Int /\ Len(s) \in Int
      BY <1>1
    <3>2. /\ IsFiniteSet(1 .. Len(s))
          /\ Cardinality(1 .. Len(s)) = (IF 1 > Len(s) THEN 0 ELSE Len(s) - 1 + 1)
      BY <3>1, FS_Interval
    <3> HIDE DEF drop, kept, new
    <3>3. QED
      BY <1>1, <3>2
  <2>2. Old \in SUBSET (1 .. Len(s))
    OBVIOUS
  <2>3. IsFiniteSet(Old) /\ stale <= Cardinality(1 .. Len(s))
    BY <2>1, <2>2, FS_Subset
  <2>4. stale \in Nat
    BY <2>3, FS_CardinalityType
  <2> HIDE DEF stale
  <2>5. QED
    BY <1>1, <2>1, <2>3, <2>4
<1>3. ASSUME NEW i \in 1 .. Len(s), Fresh(s[i]) PROVE stale < i
  <2>1. IsFiniteSet(1 .. i - 1) /\ Cardinality(1 .. i - 1) = i - 1
    <3>1. i - 1 \in Int /\ 1 \in Int
      BY <1>1
    <3>2. IsFiniteSet(1 .. i - 1)
          /\ Cardinality(1 .. i - 1) = (IF 1 > i - 1 THEN 0 ELSE (i - 1) - 1 + 1)
      BY <3>1, FS_Interval
    <3>3. QED
      BY <1>1, <3>2
  <2>2. Old \in SUBSET (1 .. i - 1)
    <3>1. ASSUME NEW j \in Old PROVE j \in 1 .. i - 1
      <4>1. j \in 1 .. Len(s) /\ ~Fresh(s[j])
        OBVIOUS
      <4>2. s[j].age \in Nat /\ s[i].age \in Nat
        BY <1>1, <4>1 DEF Entries
      <4>3. s[j].age > ECHO_WINDOW /\ s[i].age <= ECHO_WINDOW
        BY <1>3, <4>1, <4>2 DEF Fresh, ECHO_WINDOW
      <4>4. i <= j => s[j].age <= s[i].age
        BY <4>1 DEF Ordered
      <4>5. QED
        BY <1>1, <4>1, <4>2, <4>3, <4>4 DEF ECHO_WINDOW
    <3>2. QED
      BY <3>1
  <2>3. stale <= Cardinality(1 .. i - 1)
    BY <2>1, <2>2, FS_Subset
  <2> HIDE DEF stale
  <2>4. QED
    BY <1>1, <1>2, <2>1, <2>3
<1> HIDE DEF stale
<1>4. drop \in 0 .. Len(s)
  BY <1>1, <1>2 DEF ECHO_MEMORY
<1>5. \A i \in 1 .. drop : Fresh(s[i]) => Len(s) - i + 1 >= ECHO_MEMORY
  <2>1. ASSUME NEW i \in 1 .. drop, Fresh(s[i]) PROVE Len(s) - i + 1 >= ECHO_MEMORY
    <3>1. i \in 1 .. Len(s) /\ stale < i
      BY <1>1, <1>3, <1>4, <2>1
    <3>2. QED
      BY <1>1, <1>2, <3>1 DEF ECHO_MEMORY
  <2>2. QED
    BY <2>1
<1>6. Remember(s, packet) = Append(kept, new)
  BY DEF Remember, stale
<1> HIDE DEF drop
<1>7. /\ kept \in Seq(Entries)
      /\ Len(kept) = Len(s) - drop
      /\ \A i \in 1 .. Len(s) - drop : kept[i] = s[i + drop]
  <2>1. /\ drop + 1 \in Int /\ Len(s) \in Int
        /\ \A i \in drop + 1 .. Len(s) : s[i] \in Entries
    BY <1>1, <1>4
  <2>2. /\ kept \in Seq(Entries)
        /\ Len(kept) = IF drop + 1 <= Len(s) THEN Len(s) - (drop + 1) + 1 ELSE 0
        /\ \A i \in 1 .. Len(s) - (drop + 1) + 1 : kept[i] = s[drop + 1 + i - 1]
    BY <2>1, SubSeqProperties
  <2> HIDE DEF kept
  <2>3. Len(s) - (drop + 1) + 1 = Len(s) - drop
    BY <1>1, <1>4
  <2>4. Len(kept) = Len(s) - drop
    BY <1>1, <1>4, <2>2
  <2>5. \A i \in 1 .. Len(s) - drop : drop + 1 + i - 1 = i + drop
    BY <1>1, <1>4
  <2>6. QED
    BY <2>2, <2>3, <2>4, <2>5
<1> HIDE DEF kept
<1>8. new \in Entries
  BY DEF Entries, ECHO_WINDOW
<1> HIDE DEF new
<1>9. /\ Append(kept, new) \in Seq(Entries)
      /\ Len(Append(kept, new)) = Len(s) - drop + 1
      /\ \A i \in 1 .. Len(s) - drop : Append(kept, new)[i] = s[i + drop]
      /\ Append(kept, new)[Len(s) - drop + 1] = new
  BY <1>1, <1>4, <1>7, <1>8, AppendProperties
<1>10. QED
  BY <1>4, <1>5, <1>6, <1>9 DEF new

(* What is remembered stays in order.                                        *)
LEMMA RememberKeepsOrder ==
    ASSUME NEW s \in Seq(Entries), Ordered(s), NEW packet \in Packets
    PROVE  Remember(s, packet) \in Seq(Entries) /\ Ordered(Remember(s, packet))
<1> DEFINE t == Remember(s, packet)
<1>1. PICK drop \in 0 .. Len(s) :
         /\ t \in Seq(Entries)
         /\ Len(t) = Len(s) - drop + 1
         /\ \A i \in 1 .. Len(s) - drop : t[i] = s[i + drop]
         /\ t[Len(t)] = [packet |-> packet, age |-> 0]
  BY RememberIsFifo
<1>2. /\ Len(s) \in Nat /\ Len(t) \in Nat
      /\ \A i \in 1 .. Len(s) : s[i].age \in Nat
      /\ \A i \in 1 .. Len(s) - drop : i + drop \in 1 .. Len(s)
  <2>1. Len(s) \in Nat /\ \A i \in 1 .. Len(s) : s[i] \in Entries
    BY LenProperties, ElementOfSeq
  <2> HIDE DEF t
  <2>2. QED
    BY <1>1, <2>1 DEF Entries
<1> HIDE DEF t
<1>3. \A i \in 1 .. Len(t) : i \in 1 .. Len(s) - drop \/ i = Len(t)
  <2>1. Len(t) = Len(s) - drop + 1 /\ Len(s) \in Nat
    BY <1>1, <1>2
  <2>2. QED
    BY <2>1
<1>4. Ordered(t)
  <2>1. ASSUME NEW i \in 1 .. Len(t), NEW j \in 1 .. Len(t), i <= j
        PROVE  t[j].age <= t[i].age
    <3>1. CASE j \in 1 .. Len(s) - drop
      <4>1. i \in 1 .. Len(s) - drop
        BY <1>1, <1>2, <2>1, <3>1
      <4>2. i + drop <= j + drop
        BY <1>2, <2>1
      <4>3. QED
        BY <1>1, <1>2, <3>1, <4>1, <4>2 DEF Ordered
    <3>2. CASE j = Len(t)
      <4>1. t[j].age = 0
        BY <1>1, <3>2
      <4>2. CASE i = Len(t)
        BY <3>2, <4>1, <4>2
      <4>3. CASE i \in 1 .. Len(s) - drop
        <5>1. t[i] = s[i + drop] /\ s[i + drop].age \in Nat
          BY <1>1, <1>2, <4>3
        <5>2. QED
          BY <4>1, <5>1
      <4>4. QED
        BY <1>3, <2>1, <4>2, <4>3
    <3>3. QED
      BY <1>3, <2>1, <3>1, <3>2
  <2>2. QED
    BY <2>1 DEF Ordered
<1>5. QED
  BY <1>1, <1>4 DEF t

(* A poll sends one packet or none.                                          *)
LEMMA PollBroadcasts ==
    ASSUME JoinInv, NEW p \in Players, Poll(p)
    PROVE  /\ UNCHANGED <<firstDecks, decks>>
           /\ sent' = sent \/ \E packet \in Packets : Broadcast(p, packet)
<1>1. number[p] \in Numbers
  BY DEF JoinInv, ProtocolTypeOK
<1>2. ASSUME NEW stage, NEW packet \in Packets, NEW wait, Send(p, stage, packet, wait)
      PROVE  UNCHANGED <<firstDecks, decks>> /\ Broadcast(p, packet)
  BY <1>2 DEF Send, worldVars
<1>3. CASE KeepListening(p)
  BY <1>3 DEF KeepListening, worldVars
<1>4. CASE SendHello(p)
  BY <1>2, <1>4, PacketType DEF SendHello, Repeats
<1>5. CASE SendClaimStage1(p)
  <2>1. In(p, "stage1", "hello")
    BY <1>5 DEF SendClaimStage1
  <2>2. Repeat(p, "stage1") \in 0 .. Repeats
    BY <2>1, RepeatType DEF JoinInv, Claiming
  <2>3. QED
    BY <1>2, <1>5, <2>2, PacketType DEF SendClaimStage1
<1>6. CASE SendClaimStage2(p)
  <2>1. In(p, "stage2", "stage1")
    BY <1>6 DEF SendClaimStage2
  <2>2. Repeat(p, "stage2") \in 0 .. Repeats
    BY <2>1, RepeatType DEF JoinInv, Claiming
  <2>3. QED
    BY <1>1, <1>2, <1>6, <2>2, PacketType DEF SendClaimStage2
<1>7. CASE SendClaimStage3(p)
  <2>1. In(p, "stage3", "stage2")
    BY <1>7 DEF SendClaimStage3
  <2>2. Repeat(p, "stage3") \in 0 .. Repeats
    BY <2>1, RepeatType DEF JoinInv, Claiming
  <2>3. QED
    BY <1>1, <1>2, <1>7, <2>2, PacketType DEF SendClaimStage3
<1>8. CASE SendKeepAlive(p)
  BY <1>1, <1>2, <1>8, PacketType DEF SendKeepAlive, Repeats
<1>9. QED
  BY <1>3, <1>4, <1>5, <1>6, <1>7, <1>8 DEF Poll

\* What a step of time makes of an age.
Older(a) == IF a > ECHO_WINDOW THEN a ELSE a + 1

(* All that is remembered grows old.                                         *)
LEMMA MemoryAges ==
    ASSUME MemoryInv, Tick, NEW p \in Players
    PROVE  /\ sent'[p] \in Seq(Entries) /\ sent[p] \in Seq(Entries)
           /\ Len(sent'[p]) = Len(sent[p]) /\ Len(sent[p]) \in Nat
           /\ \A i \in 1 .. Len(sent[p]) :
                 /\ sent'[p][i].age = Older(sent[p][i].age)
                 /\ sent'[p][i].packet = sent[p][i].packet
                 /\ sent[p][i].age \in 0 .. ECHO_WINDOW + 1
<1> DEFINE s == sent[p]
           Grown(e) == [e EXCEPT !.age = IF @ > ECHO_WINDOW THEN @ ELSE @ + 1]
<1>1. s \in Seq(Entries)
  BY DEF MemoryInv
<1>2. Len(s) \in Nat /\ DOMAIN s = 1 .. Len(s) /\ \A i \in 1 .. Len(s) : s[i] \in Entries
  BY <1>1, LenProperties, ElementOfSeq
<1>3. sent'[p] = [i \in 1 .. Len(s) |-> Grown(s[i])]
  BY <1>2 DEF Tick
<1>4. ASSUME NEW e \in Entries
      PROVE  /\ Grown(e) \in Entries /\ Grown(e).age = Older(e.age)
             /\ Grown(e).packet = e.packet /\ e.age \in 0 .. ECHO_WINDOW + 1
  BY <1>4 DEF Entries, ECHO_WINDOW, Older
<1> HIDE DEF s, Grown
<1>5. sent'[p] \in [1 .. Len(s) -> Entries]
  BY <1>2, <1>3, <1>4
<1>6. sent'[p] \in Seq(Entries)
  BY <1>2, <1>5, SeqDef
<1>7. Len(sent'[p]) = Len(s)
  BY <1>2, <1>5, <1>6, LenProperties
<1>8. \A i \in 1 .. Len(s) : sent'[p][i] = Grown(s[i])
  BY <1>3
<1>9. QED
  BY <1>1, <1>2, <1>4, <1>6, <1>7, <1>8 DEF s

(* Time keeps the order of what is remembered.                               *)
LEMMA TickKeepsMemory ==
    ASSUME MemoryInv, Tick
    PROVE  MemoryInv'
<1>1. sent' \in [Players -> Seq(Entries)]
  <2>1. DOMAIN sent' = Players /\ sent' = [p \in Players |-> sent'[p]]
    BY DEF Tick
  <2>2. QED
    BY MemoryAges, <2>1
<1>2. ASSUME NEW p \in Players PROVE Ordered(sent'[p])
  <2>1. ASSUME NEW i \in 1 .. Len(sent[p]), NEW j \in 1 .. Len(sent[p]), i <= j
        PROVE  sent'[p][j].age <= sent'[p][i].age
    <3>1. sent[p][j].age <= sent[p][i].age
      BY <2>1 DEF MemoryInv, Ordered
    <3>2. \A a, b \in 0 .. ECHO_WINDOW + 1 : a <= b => Older(a) <= Older(b)
      BY DEF ECHO_WINDOW, Older
    <3>3. QED
      BY MemoryAges, <3>1, <3>2
  <2>2. QED
    BY MemoryAges, <2>1 DEF Ordered
<1>3. UNCHANGED <<firstDecks, decks>>
  BY DEF Tick
<1>4. QED
  BY <1>1, <1>2, <1>3 DEF MemoryInv, Ordered

(* Every step keeps the order of what is remembered.                         *)
LEMMA StepMemory == JoinInv /\ MemoryInv /\ [Next]_vars => MemoryInv'
<1> SUFFICES ASSUME JoinInv, MemoryInv, [Next]_vars PROVE MemoryInv'
  OBVIOUS
<1>1. CASE sent' = sent /\ firstDecks' = firstDecks /\ decks \subseteq decks'
  BY <1>1 DEF MemoryInv, Ordered
<1>2. CASE Tick
  BY <1>2, TickKeepsMemory
<1>3. CASE \E p \in Players : Poll(p)
  <2>1. PICK p \in Players : Poll(p)
    BY <1>3
  <2>2. UNCHANGED <<firstDecks, decks>>
    BY <2>1, PollBroadcasts
  <2>3. ASSUME NEW packet \in Packets, Broadcast(p, packet) PROVE MemoryInv'
    <3>1. sent' = [sent EXCEPT ![p] = Remember(@, packet)]
      BY <2>3 DEF Broadcast
    <3>2. Remember(sent[p], packet) \in Seq(Entries) /\ Ordered(Remember(sent[p], packet))
      BY RememberKeepsOrder DEF MemoryInv
    <3>3. sent' \in [Players -> Seq(Entries)] /\ \A q \in Players : Ordered(sent'[q])
      BY <3>1, <3>2 DEF MemoryInv
    <3>4. QED
      BY <2>2, <3>3 DEF MemoryInv, Ordered
  <2>4. QED
    BY <1>1, <2>1, <2>2, <2>3, PollBroadcasts
<1>4. ASSUME NEW p \in Players PROVE Start(p) \/ FindInterface(p) => MemoryInv'
  BY <1>1 DEF Start, FindInterface, worldVars
<1>5. ASSUME NEW p \in Players, NEW m \in net PROVE Deliver(p, m) => MemoryInv'
  BY <1>1 DEF Deliver, worldVars
<1>6. ASSUME \/ \E d \in Decks : PlugIn(d) \/ DeckAnnounces(d)
             \/ \E d \in Decks, p \in Players : DeckDefends(d, p)
             \/ \E p \in Players : MixerIntends(p) \/ Confirms(p)
             \/ \E m \in net : MixerAssigns(m) \/ Lose(m)
             \/ UNCHANGED vars
      PROVE  MemoryInv'
  BY <1>1, <1>6 DEF PlugIn, DeckAnnounces, DeckDefends, MixerIntends, Confirms, MixerAssigns,
                    Lose, unitVars, worldVars, vars
<1>7. QED
  BY <1>2, <1>3, <1>4, <1>5, <1>6 DEF Next

(* Steps that send nothing of a unit's own keep the memory right when they   *)
(* put no unit further ahead than it may be.                                 *)
LEMMA EchoKept ==
    ASSUME JoinInv, MemoryInv, EchoInv, sent' = sent,
           \A p \in Players : Ahead(p) <= Ahead(p)',
           \A m \in net' \ net : ~Echo(m)
    PROVE  EchoInv'
<1>1. ASSUME NEW p \in Players PROVE Spaced(p)'
  <2>1. ASSUME NEW i \in 1 .. Len(sent[p]), Fresh(sent[p][i])
        PROVE  Len(sent[p]) - i + 1 <= sent[p][i].age + Ahead(p)'
    <3>1. Len(sent[p]) - i + 1 <= sent[p][i].age + Ahead(p)
      BY <2>1 DEF EchoInv, Spaced
    <3>2. Ahead(p) \in Nat /\ Ahead(p)' \in Nat
      BY DEF Ahead
    <3>3. Len(sent[p]) \in Nat /\ sent[p][i].age \in Nat
      <4>1. sent[p] \in Seq(Entries)
        BY DEF MemoryInv
      <4>2. sent[p][i] \in Entries /\ Len(sent[p]) \in Nat
        BY <4>1, LenProperties, ElementOfSeq
      <4>3. QED
        BY <4>2 DEF Entries
    <3>4. Len(sent[p]) - i + 1 \in Int /\ Ahead(p) <= Ahead(p)'
      BY <3>3
    <3>5. \A l \in Int, a, k, n \in Nat : l <= a + k /\ k <= n => l <= a + n
      OBVIOUS
    <3>6. QED
      BY <3>1, <3>2, <3>3, <3>4, <3>5
  <2>2. QED
    BY <2>1 DEF Spaced, Fresh
<1>2. ASSUME NEW m \in net', Echo(m) PROVE Remembered(m, sent[m.to])
  BY <1>2 DEF EchoInv
<1>3. \A m \in net' : Echo(m)' <=> Echo(m)
  BY DEF Echo
<1>4. \A m \in net' : Echo(m)' => Remembered(m, sent[m.to])'
  BY <1>2, <1>3 DEF Remembered
<1>5. QED
  BY <1>1, <1>4 DEF EchoInv

(* A broadcast is remembered before anything of it is under way, and what it *)
(* makes the unit forget is under way no more.                               *)
LEMMA SendKeepsEcho ==
    ASSUME EchoesArePrompt, JoinInv, MemoryInv, EchoInv, NEW p \in Players,
           NEW packet \in Packets, Broadcast(p, packet),
           Ahead(p) <= 2, Ahead(p) + 1 <= Ahead(p)',
           \A q \in Players \ {p} : Ahead(q)' = Ahead(q)
    PROVE  EchoInv'
<1> DEFINE s == sent[p]
           t == Remember(s, packet)
<1>1. s \in Seq(Entries) /\ Ordered(s) /\ Spaced(p)
  BY DEF EchoInv, MemoryInv
<1>2. PICK drop \in 0 .. Len(s) :
         /\ t \in Seq(Entries)
         /\ Len(t) = Len(s) - drop + 1
         /\ \A i \in 1 .. Len(s) - drop : t[i] = s[i + drop]
         /\ t[Len(t)] = [packet |-> packet, age |-> 0]
         /\ \A i \in 1 .. drop : Fresh(s[i]) => Len(s) - i + 1 >= ECHO_MEMORY
  BY <1>1, RememberIsFifo
<1>3. sent' \in [Players -> Seq(Entries)] /\ sent'[p] = t
      /\ \A q \in Players \ {p} : sent'[q] = sent[q]
  BY <1>2 DEF Broadcast, MemoryInv
<1>4. /\ Len(s) \in Nat /\ Len(t) \in Nat
      /\ \A i \in 1 .. Len(s) : s[i].age \in Nat
      /\ \A i \in 1 .. Len(s) - drop : i + drop \in 1 .. Len(s)
  <2>1. Len(s) \in Nat /\ \A i \in 1 .. Len(s) : s[i] \in Entries
    BY <1>1, LenProperties, ElementOfSeq
  <2> HIDE DEF s, t
  <2>2. QED
    BY <1>2, <2>1 DEF Entries
<1>5. Ahead(p) \in Nat /\ Ahead(p)' \in Nat
  BY DEF Ahead
<1> HIDE DEF s, t
<1>6. \A i \in 1 .. Len(t) : i \in 1 .. Len(s) - drop \/ i = Len(t)
  <2>1. Len(t) = Len(s) - drop + 1 /\ Len(s) \in Nat
    BY <1>2, <1>4
  <2>2. QED
    BY <2>1
<1>8. ASSUME NEW q \in Players PROVE Spaced(q)'
  <2>1. CASE q # p
    <3>1. Spaced(q) /\ sent'[q] = sent[q] /\ Ahead(q)' = Ahead(q)
      BY <1>3, <2>1 DEF EchoInv
    <3>2. QED
      BY <3>1 DEF Spaced, Fresh
  <2>2. CASE q = p
    <3>1. ASSUME NEW i \in 1 .. Len(t), Fresh(t[i])
          PROVE  Len(t) - i + 1 <= t[i].age + Ahead(p)'
      <4>1. CASE i \in 1 .. Len(s) - drop
        <5>1. t[i] = s[i + drop] /\ i + drop \in 1 .. Len(s) /\ s[i + drop].age \in Nat
          BY <1>2, <1>4, <4>1
        <5>2. Len(s) - (i + drop) + 1 <= s[i + drop].age + Ahead(p)
          BY <1>1, <3>1, <5>1 DEF Spaced, s
        <5>3. Len(t) - i = Len(s) - (i + drop) + 1
          BY <1>2, <1>4
        <5>4. Len(s) - (i + drop) + 1 \in Int
          BY <1>4
        <5>5. QED
          <6>1. \A j \in Int, a, k, l \in Nat :
                    j <= a + k /\ k + 1 <= l => j + 1 <= a + l
            OBVIOUS
          <6>2. Len(s) - (i + drop) + 1 + 1 <= s[i + drop].age + Ahead(p)'
            BY <1>5, <5>1, <5>2, <5>4, <6>1
          <6>3. QED
            BY <5>1, <5>3, <6>2
      <4>2. CASE i = Len(t)
        <5>1. t[i].age = 0
          BY <1>2, <4>2
        <5>2. QED
          BY <1>4, <1>5, <4>2, <5>1
      <4>3. QED
        BY <1>6, <4>1, <4>2
    <3>2. QED
      BY <1>3, <2>2, <3>1 DEF Spaced, Fresh
  <2>3. QED
    BY <2>1, <2>2
<1>9. ASSUME NEW m \in net', Echo(m) PROVE Remembered(m, sent'[m.to])
  <2>1. CASE m \in net
    <3>1. Remembered(m, sent[m.to])
      BY <1>9, <2>1 DEF EchoInv
    <3>2. CASE m.to # p
      BY <1>3, <1>9, <3>1, <3>2 DEF Echo
    <3>3. CASE m.to = p
      <4>1. PICK i \in 1 .. Len(s) : s[i].packet = m.packet /\ s[i].age = m.age
        BY <3>1, <3>3 DEF Remembered, s
      <4>2. m.age \in 0 .. MaxDelay
        BY <2>1 DEF JoinInv, ProtocolTypeOK, Messages
      <4>3. s[i].age + 3 <= ECHO_MEMORY /\ s[i].age \in Nat
        BY <4>1, <4>2, JoinFacts DEF EchoesArePrompt, ECHO_MEMORY
      <4>4. Fresh(s[i])
        BY <4>3 DEF Fresh, ECHO_MEMORY, ECHO_WINDOW
      <4>5. Len(s) - i + 1 <= s[i].age + Ahead(p)
        BY <1>1, <4>4 DEF Spaced, s
      <4>6. Len(s) - i + 1 < ECHO_MEMORY
        <5>1. \A l, j, a, k \in Nat :
                  l - j + 1 <= a + k /\ a + 3 <= 8 /\ k <= 2 => l - j + 1 < 8
          OBVIOUS
        <5>2. Len(s) \in Nat /\ i \in Nat
          BY <1>4
        <5>3. Ahead(p) \in Nat /\ Ahead(p) <= 2
          BY <1>5
        <5>4. QED
          BY <4>3, <4>5, <5>1, <5>2, <5>3 DEF ECHO_MEMORY
      <4>7. i \notin 1 .. drop
        BY <1>2, <1>4, <4>4, <4>6 DEF ECHO_MEMORY
      <4>8. i - drop \in 1 .. Len(s) - drop /\ (i - drop) + drop = i
        BY <1>4, <4>7
      <4>9. t[i - drop] = s[i] /\ i - drop \in 1 .. Len(t)
        BY <1>2, <1>4, <4>8
      <4>10. QED
        BY <1>3, <3>3, <4>1, <4>9 DEF Remembered
    <3>4. QED
      BY <3>2, <3>3
  <2>2. CASE m \in Copies(p, packet)
    <3>1. m.sender = p /\ m.packet = packet /\ m.age = 0 /\ m.to = p
      BY <1>9, <2>2 DEF Copies, Message, Echo
    <3>2. Len(t) \in 1 .. Len(t) /\ t[Len(t)].packet = packet /\ t[Len(t)].age = 0
      BY <1>2, <1>4
    <3>3. QED
      BY <1>3, <3>1, <3>2 DEF Remembered
  <2>3. QED
    BY <2>1, <2>2 DEF Broadcast
<1>10. \A m \in net' : Echo(m)' => Remembered(m, sent[m.to])'
  BY <1>9 DEF Remembered, Echo
<1>11. QED
  BY <1>8, <1>10 DEF EchoInv

(* A poll is due when nothing more has to be waited for.                     *)
LEMMA PollKeepsEcho ==
    ASSUME EchoesArePrompt, JoinInv, MemoryInv, EchoInv, NEW p \in Players, Poll(p)
    PROVE  EchoInv'
<1>1. /\ phase \in [Players -> Phases] /\ count \in [Players -> 0 .. Repeats]
      /\ next \in [Players -> 0 .. LISTEN_BEFORE_CLAIM]
      /\ number \in [Players -> Numbers]
  BY DEF JoinInv, ProtocolTypeOK
<1>2. CASE KeepListening(p)
  <2>1. /\ UNCHANGED <<phase, count, sent, net>> /\ next[p] = 0
        /\ next' = [next EXCEPT ![p] = listen[p]] /\ listen[p] # 0
    BY <1>2 DEF KeepListening, Due, Claiming
  <2>2. \A q \in Players : Ahead(q) <= Ahead(q)'
    BY <1>1, <2>1 DEF Ahead
  <2>3. QED
    BY <2>1, <2>2, EchoKept
<1>3. ASSUME NEW stage, NEW packet \in Packets, NEW wait, wait \in {1, KEEP_ALIVE},
             Send(p, stage, packet, wait), Ahead(p) <= 2,
             Ahead(p) + 1 <= Ahead(p)'
      PROVE  EchoInv'
  <2>1. \A q \in Players \ {p} : Ahead(q)' = Ahead(q)
    <3>1. /\ phase' = [phase EXCEPT ![p] = stage]
          /\ count' = [count EXCEPT ![p] = IF stage = "joined" THEN 0 ELSE Repeat(p, stage)]
          /\ next' = [next EXCEPT ![p] = wait]
      BY <1>3 DEF Send
    <3>2. ASSUME NEW q \in Players \ {p}
          PROVE  phase'[q] = phase[q] /\ count'[q] = count[q] /\ next'[q] = next[q]
      BY <1>1, <3>1
    <3>3. QED
      BY <3>2 DEF Ahead
  <2>2. Broadcast(p, packet)
    BY <1>3 DEF Send
  <2>3. QED
    BY <1>3, <2>1, <2>2, SendKeepsEcho
<1>4. ASSUME NEW stage \in Claiming \cup {"joined"}, NEW packet, NEW wait \in {1, KEEP_ALIVE},
             Send(p, stage, packet, wait)
      PROVE  /\ phase'[p] = stage /\ next'[p] # 0
             /\ count'[p] = IF stage = "joined" THEN 0 ELSE Repeat(p, stage)
  BY <1>1, <1>4 DEF Send, KEEP_ALIVE
<1>5. Due(p) => phase[p] = "waiting" \/ next[p] = 0
  BY DEF Due
<1>6. CASE SendHello(p)
  <2> DEFINE pk == Packet("hello", NoNumber, 0, Named)
  <2>1. Send(p, "hello", pk, 1) /\ Due(p) /\ phase[p] \in {"hello", "waiting"}
    BY <1>6 DEF SendHello, In
  <2>2. pk \in Packets
    BY PacketType DEF Repeats
  <2> HIDE DEF pk
  <2>3. Ahead(p) = 0
    BY <1>5, <2>1 DEF Ahead, Claiming
  <2>4. Ahead(p)' = 1
    BY <1>4, <2>1 DEF Ahead, Claiming
  <2>5. QED
    BY <1>3, <2>1, <2>2, <2>3, <2>4
<1>7. CASE SendClaimStage1(p)
  <2> DEFINE pk == Packet("stage1", NoNumber, Repeat(p, "stage1"), p)
  <2>1. /\ Send(p, "stage1", pk, 1) /\ Due(p) /\ phase[p] \in {"stage1", "hello"}
        /\ Repeat(p, "stage1") \in 0 .. Repeats
    <3>1. In(p, "stage1", "hello") /\ Send(p, "stage1", pk, 1) /\ Due(p)
      BY <1>7 DEF SendClaimStage1
    <3>2. Repeat(p, "stage1") \in 0 .. Repeats
      BY <3>1, RepeatType DEF JoinInv, Claiming
    <3>3. QED
      BY <3>1, <3>2 DEF In
  <2>2. pk \in Packets
    BY <2>1, PacketType
  <2> HIDE DEF pk
  <2>3. Ahead(p) = 0
    BY <1>5, <2>1 DEF Ahead, Claiming
  <2>4. Ahead(p)' = 1
    BY <1>4, <2>1 DEF Ahead, Claiming
  <2>5. QED
    BY <1>3, <2>1, <2>2, <2>3, <2>4
<1>8. CASE SendClaimStage2(p)
  <2> DEFINE pk == Packet("stage2", number[p], Repeat(p, "stage2"), p)
  <2>1. /\ Send(p, "stage2", pk, 1) /\ Due(p) /\ phase[p] \in {"stage2", "stage1"}
        /\ Repeat(p, "stage2") \in 0 .. Repeats
    <3>1. In(p, "stage2", "stage1") /\ Send(p, "stage2", pk, 1) /\ Due(p)
      BY <1>8 DEF SendClaimStage2
    <3>2. Repeat(p, "stage2") \in 0 .. Repeats
      BY <3>1, RepeatType DEF JoinInv, Claiming
    <3>3. QED
      BY <3>1, <3>2 DEF In
  <2>2. pk \in Packets
    BY <1>1, <2>1, PacketType
  <2> HIDE DEF pk
  <2>3. Ahead(p) = 0
    BY <1>5, <2>1 DEF Ahead, Claiming
  <2>4. Ahead(p)' = 1
    BY <1>4, <2>1 DEF Ahead, Claiming
  <2>5. QED
    BY <1>3, <2>1, <2>2, <2>3, <2>4
<1>9. CASE SendClaimStage3(p)
  <2> DEFINE pk == Packet("stage3", number[p], Repeat(p, "stage3"), Named)
  <2>1. /\ Send(p, "stage3", pk, 1) /\ Due(p)
        /\ (phase[p] = "stage3" /\ count[p] < Repeats) \/ phase[p] = "stage2"
        /\ Repeat(p, "stage3") \in 0 .. Repeats
    <3>1. In(p, "stage3", "stage2") /\ Send(p, "stage3", pk, 1) /\ Due(p)
      BY <1>9 DEF SendClaimStage3
    <3>2. Repeat(p, "stage3") \in 0 .. Repeats
      BY <3>1, RepeatType DEF JoinInv, Claiming
    <3>3. QED
      BY <3>1, <3>2 DEF In
  <2>2. pk \in Packets
    BY <1>1, <2>1, PacketType
  <2> HIDE DEF pk
  <2>3. Ahead(p) \in 0 .. 1
    BY <1>1, <1>5, <2>1 DEF Ahead, Claiming, Repeats
  <2>4. Ahead(p)' = 2
    BY <1>4, <2>1 DEF Ahead, Claiming
  <2>5. QED
    BY <1>3, <2>1, <2>2, <2>3, <2>4
<1>10. CASE SendKeepAlive(p)
  <2> DEFINE pk == Packet("keepAlive", number[p], 0, p)
  <2>1. /\ Send(p, "joined", pk, KEEP_ALIVE) /\ Due(p)
        /\ phase[p] = "joined" \/ (phase[p] = "stage3" /\ count[p] = Repeats)
    <3>1. Send(p, "joined", pk, KEEP_ALIVE) /\ Due(p) /\ In(p, "joined", "stage3")
      BY <1>10 DEF SendKeepAlive
    <3>2. QED
      BY <3>1 DEF In
  <2>2. pk \in Packets
    BY <1>1, PacketType DEF Repeats
  <2> HIDE DEF pk
  <2>3. Ahead(p) = 2
    BY <1>5, <2>1 DEF Ahead, Claiming
  <2>4. Ahead(p)' = 3
    BY <1>4, <2>1 DEF Ahead, Claiming
  <2>5. QED
    BY <1>3, <2>1, <2>2, <2>3, <2>4
<1>11. QED
  BY <1>2, <1>6, <1>7, <1>8, <1>9, <1>10 DEF Poll

(* What arrives puts a unit ahead, never back.                               *)
LEMMA DeliverKeepsEcho ==
    ASSUME JoinInv, MemoryInv, EchoInv, NEW p \in Players, NEW m \in net, Deliver(p, m)
    PROVE  EchoInv'
<1>1. /\ phase \in [Players -> Phases] /\ count \in [Players -> 0 .. Repeats]
      /\ next \in [Players -> 0 .. LISTEN_BEFORE_CLAIM]
  BY DEF JoinInv, ProtocolTypeOK
<1>2. ASSUME NEW q \in Players PROVE Ahead(q) <= Ahead(q)'
  <2>1. CASE UNCHANGED <<phase, count, next>>
    BY <2>1 DEF Ahead
  <2>2. CASE NumberSeen(p, m)
    <3>1. /\ UNCHANGED <<count, next>>
          /\ phase'[q] = phase[q] \/ phase'[q] = "yielded"
      BY <1>1, <2>2 DEF NumberSeen
    <3>2. QED
      BY <3>1 DEF Ahead
  <2>3. CASE Assignment(p, m) /\ phase[p] \in Claiming
    <3>1. CASE phase[p] = "stage3"
      BY <1>1, <2>3, <3>1 DEF Assignment, Ahead
    <3>2. CASE phase[p] # "stage3"
      <4>1. q = p => phase'[q] = "stage3" /\ count'[q] = 0 /\ next'[q] = 0
        BY <1>1, <2>3, <3>2 DEF Assignment
      <4>2. q = p => Ahead(q) \in 0 .. 1 /\ Ahead(q)' = 1
        BY <2>3, <3>2, <4>1 DEF Ahead, Claiming, Repeats
      <4>3. q # p => UNCHANGED <<phase[q], count[q], next[q]>>
        BY <1>1, <2>3, <3>2 DEF Assignment
      <4>4. q # p => Ahead(q)' = Ahead(q) /\ Ahead(q) \in Nat
        BY <4>3 DEF Ahead
      <4>5. QED
        BY <4>2, <4>4
    <3>3. QED
      BY <3>1, <3>2
  <2>4. CASE AssignmentFinished(p, m) /\ UNCHANGED phase
    <3> DEFINE cut == phase[p] = "stage3" /\ count[p] > 0
    <3>1. q = p /\ cut => count'[q] = Repeats
      BY <1>1, <2>4 DEF AssignmentFinished
    <3>2. q # p \/ ~cut => UNCHANGED <<count[q], next[q]>>
      BY <1>1, <2>4 DEF AssignmentFinished
    <3>3. QED
      BY <2>4, <3>1, <3>2 DEF Ahead
  <2>5. QED
    BY <2>1, <2>2, <2>3, <2>4
       DEF Deliver, OwnPacket, AssignmentIntention, Assignment, AssignmentFinished
<1>3. ASSUME NEW x \in net' \ net PROVE ~Echo(x)
  <2>1. x.packet.kind = "request"
    BY <1>3 DEF Deliver, Message, Packet
  <2>2. QED
    BY <2>1 DEF Echo, Numbered
<1>4. sent' = sent
  BY DEF Deliver
<1>5. QED
  BY <1>2, <1>3, <1>4, EchoKept

(* Packets and what is remembered of them grow old together.                 *)
LEMMA TickKeepsEcho ==
    ASSUME EchoesArePrompt, JoinInv, MemoryInv, EchoInv, Tick
    PROVE  EchoInv'
<1>1. ASSUME NEW p \in Players PROVE Spaced(p)'
  <2>1. Ahead(p) \in Nat /\ Ahead(p)' \in Nat
    BY DEF Ahead
  <2>2. Ahead(p) <= Ahead(p)' + 1
    <3>1. /\ phase' = phase /\ count' = count
          /\ next[p] \in Nat /\ next'[p] = Minus1(next[p])
      <4>1. next \in [Players -> 0 .. LISTEN_BEFORE_CLAIM]
        BY DEF JoinInv, ProtocolTypeOK
      <4>2. next[p] \in Nat
        BY <4>1 DEF LISTEN_BEFORE_CLAIM
      <4>3. QED
        BY <4>2 DEF Tick
    <3>2. QED
      BY <3>1 DEF Ahead, Minus1
  <2>3. ASSUME NEW i \in 1 .. Len(sent[p]), Fresh(sent'[p][i])
        PROVE  Len(sent[p]) - i + 1 <= sent'[p][i].age + Ahead(p)'
    <3>1. /\ sent[p][i].age \in 0 .. ECHO_WINDOW + 1
          /\ sent'[p][i].age = Older(sent[p][i].age)
      BY MemoryAges
    <3>2. Fresh(sent[p][i]) /\ sent'[p][i].age = sent[p][i].age + 1
      <4>1. sent'[p][i].age <= ECHO_WINDOW
        BY <2>3 DEF Fresh
      <4>2. \A a \in 0 .. ECHO_WINDOW + 1 :
                Older(a) <= ECHO_WINDOW => a <= ECHO_WINDOW /\ Older(a) = a + 1
        BY DEF ECHO_WINDOW, Older
      <4>3. QED
        BY <3>1, <4>1, <4>2 DEF Fresh
    <3>3. Len(sent[p]) - i + 1 <= sent[p][i].age + Ahead(p)
      BY <3>2 DEF EchoInv, Spaced
    <3>4. Len(sent[p]) - i + 1 \in Int /\ sent[p][i].age \in Nat
      BY <3>1, MemoryAges
    <3>5. \A l \in Int, a, k, n \in Nat : l <= a + k /\ k <= n + 1 => l <= a + 1 + n
      OBVIOUS
    <3>6. QED
      BY <2>1, <2>2, <3>2, <3>3, <3>4, <3>5
  <2>4. QED
    BY <2>3, MemoryAges DEF Spaced, Fresh
<1>2. ASSUME NEW x \in net', Echo(x) PROVE Remembered(x, sent'[x.to])
  <2>1. PICK m \in net : x = [m EXCEPT !.age = @ + 1] /\ m.age < MaxDelay
    <3>1. net' = {[m EXCEPT !.age = @ + 1] : m \in net} /\ \A m \in net : m.age < MaxDelay
      BY DEF Tick
    <3>2. QED
      BY <1>2, <3>1
  <2>2. m \in Messages
    BY DEF JoinInv, ProtocolTypeOK
  <2>3. /\ x.to = m.to /\ x.sender = m.sender /\ x.packet = m.packet /\ x.age = m.age + 1
        /\ m.age \in Nat
    BY <2>1, <2>2, JoinFacts DEF Messages
  <2>4. Remembered(m, sent[m.to]) /\ m.to \in Players
    BY <1>2, <2>3 DEF Echo, EchoInv
  <2>5. PICK i \in 1 .. Len(sent[m.to]) :
           sent[m.to][i].packet = m.packet /\ sent[m.to][i].age = m.age
    BY <2>4 DEF Remembered
  <2>6. ~(m.age > ECHO_WINDOW)
    BY <2>1, <2>3, JoinFacts DEF EchoesArePrompt, ECHO_MEMORY, ECHO_WINDOW
  <2>7. i \in 1 .. Len(sent'[m.to]) /\ sent'[m.to][i].packet = x.packet
        /\ sent'[m.to][i].age = x.age
    BY <2>3, <2>4, <2>5, <2>6, MemoryAges DEF Older
  <2>8. QED
    BY <2>3, <2>7 DEF Remembered
<1>3. \A x \in net' : Echo(x)' => Remembered(x, sent[x.to])'
  BY <1>2 DEF Echo, Remembered
<1>4. QED
  BY <1>1, <1>3, MemoryAges DEF EchoInv

(* Nothing is remembered and nothing under way at the start.                 *)
LEMMA InitMemory == Init => MemoryInv /\ EchoInv
<1> SUFFICES ASSUME Init PROVE MemoryInv /\ EchoInv
  OBVIOUS
<1>1. <<>> \in Seq(Entries) /\ Len(<<>>) = 0
  BY EmptySeq
<1>2. sent = [p \in Players |-> <<>>] /\ net = {} /\ decks = firstDecks
  BY DEF Init
<1>3. \A p \in Players : Len(sent[p]) = 0
  BY <1>1, <1>2
<1>4. MemoryInv
  BY <1>1, <1>2, <1>3 DEF MemoryInv, Ordered
<1>5. EchoInv
  BY <1>2, <1>3 DEF EchoInv, Spaced
<1>6. QED
  BY <1>4, <1>5

(* What a unit's phase, count and timer stay is how far it is ahead.         *)
LEMMA StillAhead ==
    ASSUME UNCHANGED <<phase, count, next>>
    PROVE  \A p \in Players : Ahead(p) <= Ahead(p)'
  BY DEF Ahead

(* Every step keeps the memory right.                                        *)
LEMMA StepEcho ==
    ASSUME EchoesArePrompt, JoinInv, MemoryInv, EchoInv, [Next]_vars
    PROVE  EchoInv'
<1>1. CASE \E p \in Players : Start(p) \/ FindInterface(p) \/ Poll(p)
  <2>1. ASSUME NEW p \in Players, Start(p) PROVE EchoInv'
    <3>1. /\ UNCHANGED <<count, next, sent, net>>
          /\ phase[p] = "off" /\ phase' = [phase EXCEPT ![p] = "waiting"]
      BY <2>1 DEF Start
    <3>2. \A q \in Players : Ahead(q) <= Ahead(q)'
      BY <3>1 DEF Ahead, Claiming, JoinInv, ProtocolTypeOK
    <3>3. QED
      BY <3>1, <3>2, EchoKept
  <2>2. ASSUME NEW p \in Players, FindInterface(p) PROVE EchoInv'
    BY <2>2, StillAhead, EchoKept DEF FindInterface
  <2>3. QED
    BY <1>1, <2>1, <2>2, PollKeepsEcho
<1>2. CASE \E p \in Players, m \in net : Deliver(p, m)
  BY <1>2, DeliverKeepsEcho
<1>3. CASE \/ \E d \in Decks : PlugIn(d) \/ DeckAnnounces(d)
           \/ \E d \in Decks, p \in Players : DeckDefends(d, p)
           \/ \E p \in Players : MixerIntends(p) \/ Confirms(p)
           \/ \E m \in net : MixerAssigns(m) \/ Lose(m)
  <2>1. UNCHANGED unitVars
    BY <1>3 DEF PlugIn, DeckAnnounces, DeckDefends, MixerIntends, Confirms, MixerAssigns, Lose
  <2>2. \A m \in net' \ net : m.sender \in {Deck, Mixer}
    <3>1. CASE \E d \in Decks : PlugIn(d) \/ DeckAnnounces(d)
      BY <3>1 DEF PlugIn, DeckAnnounces, ToUnit, Message
    <3>2. CASE \E d \in Decks, p \in Players : DeckDefends(d, p)
      BY <3>2 DEF DeckDefends, ToUnit, Message
    <3>3. CASE \E p \in Players : MixerIntends(p) \/ Confirms(p)
      BY <3>3 DEF MixerIntends, Confirms, ToUnit, Message
    <3>4. CASE \E m \in net : MixerAssigns(m) \/ Lose(m)
      BY <3>4 DEF MixerAssigns, Lose, ToUnit, Message
    <3>5. QED
      BY <1>3, <3>1, <3>2, <3>3, <3>4
  <2>3. \A m \in net' \ net : ~Echo(m)
    BY <2>2, JoinFacts DEF Echo, Deck, Mixer
  <2>4. QED
    BY <2>1, <2>3, StillAhead, EchoKept DEF unitVars
<1>4. CASE Tick
  BY <1>4, TickKeepsEcho
<1>5. CASE UNCHANGED vars
  BY <1>5, StillAhead, EchoKept DEF vars
<1>6. QED
  BY <1>1, <1>2, <1>3, <1>4, <1>5 DEF Next

(* What a unit remembers is its own wherever it comes from.                  *)
LEMMA EchoIsOwn ==
    ASSUME EchoesArePrompt, JoinInv, MemoryInv, EchoInv, NEW m \in net, Echo(m)
    PROVE  IsOwn(m.to, m)
<1>1. PICK i \in 1 .. Len(sent[m.to]) :
         sent[m.to][i].packet = m.packet /\ sent[m.to][i].age = m.age
  BY DEF EchoInv, Remembered
<1>2. m.age \in 0 .. MaxDelay
  BY DEF JoinInv, ProtocolTypeOK, Messages
<1>3. Fresh(sent[m.to][i])
  BY <1>1, <1>2, JoinFacts DEF Fresh, EchoesArePrompt, ECHO_MEMORY, ECHO_WINDOW
<1>4. QED
  BY <1>1, <1>3 DEF IsOwn

\* What YieldsToOthers says of a step.
YieldsToOther(p) ==
    phase[p] # "yielded" /\ phase'[p] = "yielded" =>
        \E m \in net \ net' : m.to = p /\ m.sender # p

(* Only a number that somebody else announced makes a unit yield.            *)
LEMMA StepYields ==
    ASSUME EchoesArePrompt, JoinInv, MemoryInv, EchoInv, [Next]_vars, NEW p \in Players
    PROVE  YieldsToOther(p)
<1> SUFFICES ASSUME phase[p] # "yielded", phase'[p] = "yielded"
             PROVE  \E m \in net \ net' : m.to = p /\ m.sender # p
  BY DEF YieldsToOther
<1>1. phase \in [Players -> Phases]
  BY DEF JoinInv, ProtocolTypeOK
<1>2. ~UNCHANGED phase
  OBVIOUS
<1>3. ASSUME NEW q \in Players PROVE ~Start(q) /\ ~FindInterface(q)
  BY <1>1, <1>2, <1>3 DEF Start, FindInterface
<1>4. ASSUME NEW q \in Players PROVE ~Poll(q)
  <2>1. ~KeepListening(q)
    BY <1>2 DEF KeepListening
  <2>2. ASSUME NEW stage \in Claiming \cup {"joined"}, NEW packet, NEW wait
        PROVE  ~Send(q, stage, packet, wait)
    BY <1>1, <2>2 DEF Send, Claiming
  <2>3. ~SendHello(q) /\ ~SendClaimStage1(q) /\ ~SendClaimStage2(q)
    BY <2>2 DEF SendHello, SendClaimStage1, SendClaimStage2, Claiming
  <2>4. ~SendClaimStage3(q) /\ ~SendKeepAlive(q)
    BY <2>2 DEF SendClaimStage3, SendKeepAlive, Claiming
  <2>5. QED
    BY <2>1, <2>3, <2>4 DEF Poll
<1>5. ~ \/ \E d \in Decks : PlugIn(d) \/ DeckAnnounces(d)
        \/ \E d \in Decks, q \in Players : DeckDefends(d, q)
        \/ \E q \in Players : MixerIntends(q) \/ Confirms(q)
        \/ \E m \in net : MixerAssigns(m) \/ Lose(m)
        \/ Tick \/ UNCHANGED vars
  BY <1>2 DEF PlugIn, DeckAnnounces, DeckDefends, MixerIntends, Confirms, MixerAssigns, Lose,
              Tick, unitVars, vars
<1>6. PICK q \in Players, m \in net : Deliver(q, m)
  BY <1>3, <1>4, <1>5 DEF Next
<1>7. q = p /\ NumberSeen(p, m)
  <2>1. CASE NumberSeen(q, m)
    BY <1>1, <2>1 DEF NumberSeen
  <2>2. ~Assignment(q, m)
    BY <1>1, <1>2 DEF Assignment
  <2>3. QED
    BY <1>2, <1>6, <2>1, <2>2 DEF Deliver, OwnPacket, AssignmentIntention, AssignmentFinished
<1>8. m.to = p /\ ~IsOwn(p, m) /\ m.packet.kind \in Numbered \cup {"inUse"}
  BY <1>6, <1>7 DEF Deliver, NumberSeen
<1>9. m \notin net'
  BY <1>6, <1>8 DEF Deliver, Message, Packet, Numbered
<1>10. m.sender # p
  BY <1>8, EchoIsOwn DEF Echo
<1>11. QED
  BY <1>8, <1>9, <1>10

(* Every variable stays in its range, and what is remembered is in order.    *)
THEOREM JoinTypes == Spec => []TypeOK
<1>1. Spec => []MemoryInv
  BY InitMemory, StepMemory, JoinInvariant, PTL DEF Spec
<1>2. JoinInv /\ MemoryInv => TypeOK
  BY DEF JoinInv, MemoryInv, TypeOK, Entries
<1>3. QED
  BY <1>1, <1>2, JoinInvariant, PTL

(* Every echo on its way is of a broadcast the unit remembers, however the   *)
(* sends of a claim, an assignment and a confirmation fall together.         *)
THEOREM EchoInvariant ==
    ASSUME EchoesArePrompt
    PROVE  Spec => [](MemoryInv /\ EchoInv)
<1>1. JoinInv /\ MemoryInv /\ EchoInv /\ [Next]_vars => EchoInv'
  BY EchoesArePrompt, StepEcho
<1>2. JoinInv /\ MemoryInv /\ [Next]_vars => MemoryInv'
  BY StepMemory
<1>3. QED
  BY <1>1, <1>2, InitMemory, JoinInvariant, PTL DEF Spec

(* A unit gives its number up only to somebody else, for every set of units  *)
(* and interfaces, as long as its echoes are prompt (is_own_announcement).   *)
THEOREM YieldsOnlyToOthers ==
    ASSUME EchoesArePrompt
    PROVE  Spec => YieldsToOthers
<1>1. JoinInv /\ MemoryInv /\ EchoInv /\ [Next]_vars =>
          [\A p \in Players : phase[p] # "yielded" /\ phase'[p] = "yielded" =>
              \E m \in net \ net' : m.to = p /\ m.sender # p]_vars
  BY EchoesArePrompt, StepYields DEF YieldsToOther
<1>2. QED
  BY <1>1, JoinInvariant, EchoInvariant, PTL DEF Spec, YieldsToOthers

-----------------------------------------------------------------------------
(* The decks that were there first                                           *)

\* A deck is never silent as long as a unit listens.
DecksAreHeard == DeckPeriod < LISTEN_BEFORE_CLAIM

\* What DecksUndisturbed says of a network that lost nothing so far.
DecksLeftAlone ==
    \A m \in net, p \in Players :
        Announces(m, p) /\ mixer[p] # "assigned" => m.packet.number \notin firstDecks

Announcement(p, d) == ToUnit(p, Deck, DeckPacket("keepAlive", d))

\* The unit goes after the number of the deck, of its own accord.
Covets(p, d) ==
    phase[p] \notin {"off", "yielded"} /\ number[p] = d /\ mixer[p] # "assigned"

\* The deck is heard before the listening period is over.
WillHear(p, d) ==
    listen[p] > 0 /\ (deckNext[d] < listen[p] \/ Announcement(p, d) \in net)

\* A unit that covets a deck's number will hear of it in time.
DeckInv ==
    /\ \A p \in Players : phase[p] = "off" => listen[p] = LISTEN_BEFORE_CLAIM
    /\ \A p \in Players : \A i \in 1 .. Len(sent[p]) : sent[p][i].packet.who # Deck
    /\ \A p \in Players, d \in firstDecks : Covets(p, d) => WillHear(p, d)
    /\ DecksLeftAlone

(* An announcement is what it says, and never taken for an echo.             *)
LEMMA AnnouncementIsForeign ==
    ASSUME JoinInv, DeckInv, NEW p \in Players, NEW d \in Decks
    PROVE  /\ Announcement(p, d).to = p /\ Announcement(p, d).sender = Deck
           /\ Announcement(p, d).packet.kind = "keepAlive"
           /\ Announcement(p, d).packet.number = d
           /\ ~IsOwn(p, Announcement(p, d))
<1>1. /\ Announcement(p, d).to = p /\ Announcement(p, d).sender = Deck
      /\ Announcement(p, d).addr = Deck
      /\ Announcement(p, d).packet.kind = "keepAlive"
      /\ Announcement(p, d).packet.number = d
      /\ Announcement(p, d).packet.who = Deck
  BY DEF Announcement, ToUnit, Message, DeckPacket, Packet
<1>2. Deck # p
  BY JoinFacts DEF Deck
<1>3. \A i \in 1 .. Len(sent[p]) : sent[p][i].packet # Announcement(p, d).packet
  BY <1>1 DEF DeckInv
<1>4. QED
  BY <1>1, <1>2, <1>3 DEF IsOwn

(* The rest of the world makes no unit covet anything, and takes no          *)
(* announcement away.                                                        *)
LEMMA DecksKept ==
    ASSUME JoinInv, DeckInv,
           UNCHANGED <<phase, number, listen, sent, firstDecks, deckNext>>,
           \A p \in Players : mixer[p] = "assigned" => mixer'[p] = "assigned",
           \A m \in net \ net' : m.sender # Deck,
           \A m \in net' \ net : m.sender \notin Players,
           firstDecks \subseteq Decks
    PROVE  DeckInv'
<1>1. ASSUME NEW p \in Players, NEW d \in firstDecks, Covets(p, d)'
      PROVE  WillHear(p, d)'
  <2>1. Covets(p, d)
    BY <1>1 DEF Covets
  <2>2. WillHear(p, d)
    BY <2>1 DEF DeckInv
  <2>3. Announcement(p, d).sender = Deck
    BY DEF Announcement, ToUnit, Message
  <2>4. Announcement(p, d)' = Announcement(p, d)
    BY DEF Announcement, ToUnit, Message, DeckPacket, Packet
  <2>5. QED
    BY <2>2, <2>3, <2>4 DEF WillHear
<1>2. ASSUME NEW m \in net', NEW p \in Players, Announces(m, p), mixer'[p] # "assigned"
      PROVE  m.packet.number \notin firstDecks'
  <2>1. m \in net
    BY <1>2 DEF Announces
  <2>2. QED
    BY <1>2, <2>1 DEF DeckInv, DecksLeftAlone
<1>3. DecksLeftAlone'
  BY <1>2 DEF DecksLeftAlone, Announces
<1>4. QED
  BY <1>1, <1>3 DEF DeckInv

LEMMA InitDecks == Init /\ DecksAreHeard => DeckInv
<1> SUFFICES ASSUME Init PROVE DeckInv
  OBVIOUS
<1>1. /\ \A p \in Players : phase[p] = "off" /\ listen[p] = LISTEN_BEFORE_CLAIM
      /\ \A p \in Players : sent[p] = <<>>
      /\ net = {}
  BY DEF Init
<1>2. \A p \in Players : Len(sent[p]) = 0
  BY <1>1
<1>3. QED
  BY <1>1, <1>2 DEF DeckInv, Covets, DecksLeftAlone

(* A packet with a number is sent by a unit that has listened or was given   *)
(* the number by a mixer.                                                    *)
LEMMA SendKeepsDecks ==
    ASSUME JoinInv, MemoryInv, DeckInv, NEW p \in Players,
           NEW stage \in Claiming \cup {"joined"}, NEW packet \in Packets, NEW wait,
           Send(p, stage, packet, wait), phase[p] \notin {"off", "yielded"},
           packet.who # Deck, packet.number = NoNumber \/ packet.number = number[p],
           packet.kind \in Numbered /\ listen[p] > 0 => mixer[p] = "assigned"
    PROVE  DeckInv'
<1>1. /\ UNCHANGED <<number, listen, mixer, firstDecks, decks, deckNext>>
      /\ phase' = [phase EXCEPT ![p] = stage] /\ phase \in [Players -> Phases]
  BY DEF Send, worldVars, JoinInv, ProtocolTypeOK
<1>2. /\ sent' = [sent EXCEPT ![p] = Remember(@, packet)]
      /\ sent \in [Players -> Seq(Entries)]
      /\ net \subseteq net' /\ net' \subseteq net \cup Copies(p, packet)
      /\ packet.kind \notin Numbered => net' = net
  BY DEF Send, Broadcast, MemoryInv
<1>3. ASSUME NEW q \in Players, phase'[q] = "off"
      PROVE  listen'[q] = LISTEN_BEFORE_CLAIM
  BY <1>1, <1>3 DEF DeckInv, Claiming
<1>4. ASSUME NEW q \in Players, NEW i \in 1 .. Len(sent'[q])
      PROVE  sent'[q][i].packet.who # Deck
  <2>1. CASE q # p
    BY <1>2, <1>4, <2>1 DEF DeckInv
  <2>2. CASE q = p
    <3> DEFINE s == sent[p]
               t == Remember(s, packet)
    <3>1. s \in Seq(Entries) /\ Ordered(s)
      BY DEF MemoryInv
    <3>2. PICK drop \in 0 .. Len(s) :
             /\ t \in Seq(Entries)
             /\ Len(t) = Len(s) - drop + 1
             /\ \A j \in 1 .. Len(s) - drop : t[j] = s[j + drop]
             /\ t[Len(t)] = [packet |-> packet, age |-> 0]
      BY <3>1, RememberIsFifo
    <3>3. sent'[q] = t
      BY <1>2, <2>2
    <3>4. Len(s) \in Nat
      BY <3>1, LenProperties
    <3>5. \A j \in 1 .. Len(s) : s[j].packet.who # Deck
      BY DEF DeckInv
    <3> HIDE DEF s, t
    <3>6. i = Len(t) \/ i \in 1 .. Len(s) - drop
      BY <1>4, <3>2, <3>3, <3>4
    <3>7. CASE i = Len(t)
      BY <3>2, <3>3, <3>7
    <3>8. CASE i \in 1 .. Len(s) - drop
      <4>1. t[i] = s[i + drop] /\ i + drop \in 1 .. Len(s)
        BY <3>2, <3>4, <3>8
      <4>2. QED
        BY <3>3, <3>5, <4>1
    <3>9. QED
      BY <3>6, <3>7, <3>8
  <2>3. QED
    BY <2>1, <2>2
<1>5. ASSUME NEW q \in Players, NEW d \in firstDecks, Covets(q, d)'
      PROVE  WillHear(q, d)'
  <2>1. Covets(q, d)
    BY <1>1, <1>5 DEF Covets
  <2>2. WillHear(q, d)
    BY <2>1 DEF DeckInv
  <2>3. Announcement(q, d)' = Announcement(q, d)
    BY DEF Announcement, ToUnit, Message, DeckPacket, Packet
  <2>4. QED
    BY <1>1, <1>2, <2>2, <2>3 DEF WillHear
<1>6. ASSUME NEW m \in net', NEW q \in Players, Announces(m, q), mixer'[q] # "assigned",
             m.packet.number \in firstDecks
      PROVE  FALSE
  <2>1. m \notin net
    BY <1>1, <1>6 DEF DeckInv, DecksLeftAlone
  <2>2. m \in Copies(p, packet) /\ packet.kind \in Numbered
    BY <1>2, <1>6, <2>1
  <2>3. m.sender = p /\ m.packet = packet
    BY <2>2 DEF Copies, Message
  <2>4. q = p /\ packet.number \in firstDecks
    BY <1>6, <2>3 DEF Announces
  <2>5. packet.number = number[p]
    <3>1. NoNumber \notin firstDecks
      BY JoinFacts DEF JoinInv, ProtocolTypeOK, MemoryInv
    <3>2. QED
      BY <2>4, <3>1
  <2>6. Covets(p, packet.number)
    BY <1>1, <1>6, <2>4, <2>5 DEF Covets
  <2>7. listen[p] > 0
    BY <2>4, <2>6 DEF DeckInv, WillHear
  <2>8. QED
    BY <1>1, <1>6, <2>2, <2>4, <2>7
<1>7. DecksLeftAlone'
  BY <1>1, <1>6 DEF DecksLeftAlone, Announces
<1>8. QED
  BY <1>1, <1>3, <1>4, <1>5, <1>7 DEF DeckInv

(* Whatever a poll sends.                                                    *)
LEMMA PollKeepsDecks ==
    ASSUME JoinInv, MemoryInv, DeckInv, NEW p \in Players, Poll(p)
    PROVE  DeckInv'
<1>1. number[p] \in Numbers /\ p # Deck /\ Named # Deck
  BY JoinFacts DEF JoinInv, ProtocolTypeOK, Deck, Named
<1>2. Due(p) => phase[p] \notin {"off", "yielded"}
  BY DEF Due, Claiming
<1>3. CASE KeepListening(p)
  <2>1. /\ UNCHANGED <<phase, number, listen, sent, firstDecks, deckNext, mixer, net>>
    BY <1>3 DEF KeepListening, worldVars
  <2>2. firstDecks \subseteq Decks
    BY DEF MemoryInv, JoinInv, ProtocolTypeOK
  <2>3. QED
    BY <2>1, <2>2, DecksKept
<1>4. CASE SendHello(p)
  <2> DEFINE pk == Packet("hello", NoNumber, 0, Named)
  <2>1. pk \in Packets /\ pk.kind = "hello" /\ pk.number = NoNumber /\ pk.who = Named
    BY PacketType DEF Packet, Repeats
  <2>2. Send(p, "hello", pk, 1) /\ Due(p)
    BY <1>4 DEF SendHello
  <2> HIDE DEF pk
  <2>3. QED
    BY <1>1, <1>2, <2>1, <2>2, SendKeepsDecks DEF Claiming, Numbered
<1>5. CASE SendClaimStage1(p)
  <2> DEFINE pk == Packet("stage1", NoNumber, Repeat(p, "stage1"), p)
  <2>1. Repeat(p, "stage1") \in 0 .. Repeats
    <3>1. In(p, "stage1", "hello")
      BY <1>5 DEF SendClaimStage1
    <3>2. QED
      BY <3>1, RepeatType DEF JoinInv, Claiming
  <2>2. pk \in Packets /\ pk.kind = "stage1" /\ pk.number = NoNumber /\ pk.who = p
    BY <2>1, PacketType DEF Packet
  <2>3. Send(p, "stage1", pk, 1) /\ Due(p)
    BY <1>5 DEF SendClaimStage1
  <2> HIDE DEF pk
  <2>4. QED
    BY <1>1, <1>2, <2>2, <2>3, SendKeepsDecks DEF Claiming, Numbered
<1>6. CASE SendClaimStage2(p)
  <2> DEFINE pk == Packet("stage2", number[p], Repeat(p, "stage2"), p)
  <2>1. In(p, "stage2", "stage1") /\ Send(p, "stage2", pk, 1) /\ Due(p)
        /\ (phase[p] = "stage1" => listen[p] = 0)
    BY <1>6 DEF SendClaimStage2
  <2>2. Repeat(p, "stage2") \in 0 .. Repeats
    BY <2>1, RepeatType DEF JoinInv, Claiming
  <2>3. pk \in Packets /\ pk.kind = "stage2" /\ pk.number = number[p] /\ pk.who = p
    BY <1>1, <2>2, PacketType DEF Packet
  <2>4. listen[p] > 0 => mixer[p] = "assigned"
    <3>1. phase[p] \in {"stage1", "stage2"}
      BY <2>1 DEF In
    <3>2. QED
      BY <2>1, <3>1 DEF JoinInv
  <2> HIDE DEF pk
  <2>5. QED
    BY <1>1, <1>2, <2>1, <2>3, <2>4, SendKeepsDecks DEF Claiming
<1>7. CASE SendClaimStage3(p)
  <2> DEFINE pk == Packet("stage3", number[p], Repeat(p, "stage3"), Named)
  <2>1. In(p, "stage3", "stage2") /\ Send(p, "stage3", pk, 1) /\ Due(p)
    BY <1>7 DEF SendClaimStage3
  <2>2. Repeat(p, "stage3") \in 0 .. Repeats
    BY <2>1, RepeatType DEF JoinInv, Claiming
  <2>3. pk \in Packets /\ pk.kind = "stage3" /\ pk.number = number[p] /\ pk.who = Named
    BY <1>1, <2>2, PacketType DEF Packet
  <2>4. listen[p] > 0 => mixer[p] = "assigned"
    BY <2>1 DEF In, JoinInv
  <2> HIDE DEF pk
  <2>5. QED
    BY <1>1, <1>2, <2>1, <2>3, <2>4, SendKeepsDecks DEF Claiming
<1>8. CASE SendKeepAlive(p)
  <2> DEFINE pk == Packet("keepAlive", number[p], 0, p)
  <2>1. In(p, "joined", "stage3") /\ Send(p, "joined", pk, KEEP_ALIVE) /\ Due(p)
    BY <1>8 DEF SendKeepAlive
  <2>2. pk \in Packets /\ pk.kind = "keepAlive" /\ pk.number = number[p] /\ pk.who = p
    BY <1>1, PacketType DEF Packet, Repeats
  <2>3. listen[p] > 0 => mixer[p] = "assigned"
    BY <2>1 DEF In, JoinInv
  <2> HIDE DEF pk
  <2>4. QED
    BY <1>1, <1>2, <2>1, <2>2, <2>3, SendKeepsDecks DEF Claiming
<1>9. QED
  BY <1>3, <1>4, <1>5, <1>6, <1>7, <1>8 DEF Poll

(* The announcement that a unit takes in is not lost on it.                  *)
LEMMA DeliverKeepsDecks ==
    ASSUME JoinInv, MemoryInv, DeckInv, NEW p \in Players, NEW m \in net, Deliver(p, m)
    PROVE  DeckInv'
<1>1. /\ UNCHANGED <<listen, sent, mixer, firstDecks, decks, deckNext>> /\ m.to = p
      /\ phase \in [Players -> Phases] /\ number \in [Players -> Numbers]
      /\ firstDecks \subseteq Decks
  BY DEF Deliver, worldVars, JoinInv, ProtocolTypeOK, MemoryInv
<1>2. /\ net \ {m} \subseteq net'
      /\ \A x \in net' \ net : x.packet.kind = "request"
  BY DEF Deliver, Message, Packet
<1>3. ASSUME NEW q \in Players, q # p \/ mixer[p] # "assigned" PROVE number'[q] = number[q]
  <2>1. CASE UNCHANGED number
    BY <2>1
  <2>2. CASE Assignment(p, m)
    <3>1. mixer[p] = "assigned"
      BY <1>1, <2>2 DEF Assignment, JoinInv
    <3>2. QED
      BY <1>1, <1>3, <2>2, <3>1 DEF Assignment
  <2>3. QED
    BY <2>1, <2>2 DEF Deliver, OwnPacket, NumberSeen, AssignmentIntention, AssignmentFinished
<1>4. ASSUME NEW q \in Players
      PROVE  /\ phase'[q] = "off" => phase[q] = "off"
             /\ phase'[q] \notin {"off", "yielded"} => phase[q] \notin {"off", "yielded"}
  <2>1. CASE UNCHANGED phase
    BY <2>1
  <2>2. CASE NumberSeen(p, m)
    BY <1>1, <2>2 DEF NumberSeen
  <2>3. CASE Assignment(p, m)
    BY <1>1, <2>3 DEF Assignment, Claiming
  <2>4. QED
    BY <2>1, <2>2, <2>3 DEF Deliver, OwnPacket, AssignmentIntention, AssignmentFinished
<1>5. ASSUME NEW q \in Players, NEW d \in firstDecks, Covets(q, d)'
      PROVE  WillHear(q, d)'
  <2>1. phase'[q] \notin {"off", "yielded"} /\ number'[q] = d /\ mixer[q] # "assigned"
    BY <1>1, <1>5 DEF Covets
  <2>2. Covets(q, d)
    BY <1>3, <1>4, <2>1 DEF Covets
  <2>3. WillHear(q, d)
    BY <2>2 DEF DeckInv
  <2>4. Announcement(q, d)' = Announcement(q, d)
    BY DEF Announcement, ToUnit, Message, DeckPacket, Packet
  <2>5. CASE m # Announcement(q, d)
    BY <1>1, <1>2, <2>3, <2>4, <2>5 DEF WillHear
  <2>6. CASE m = Announcement(q, d)
    <3>1. /\ q = p /\ m.packet.kind = "keepAlive" /\ m.packet.number = d /\ ~IsOwn(p, m)
      BY <1>1, <2>6, AnnouncementIsForeign
    <3>2. phase[p] # "off"
      BY <1>4, <2>1, <3>1
    <3>3. NumberSeen(p, m)
      BY <3>1, <3>2 DEF Deliver, OwnPacket, AssignmentIntention, Assignment, AssignmentFinished
    <3>4. phase'[p] = "yielded"
      BY <1>1, <2>2, <3>1, <3>3 DEF NumberSeen, Covets
    <3>5. QED
      BY <2>1, <3>1, <3>4
  <2>7. QED
    BY <2>5, <2>6
<1>6. DecksLeftAlone'
  <2>1. ASSUME NEW x \in net', NEW q \in Players, Announces(x, q), mixer'[q] # "assigned"
        PROVE  x.packet.number \notin firstDecks'
    <3>1. x \in net
      BY <1>2, <2>1 DEF Announces, Numbered
    <3>2. QED
      BY <1>1, <2>1, <3>1 DEF DeckInv, DecksLeftAlone
  <2>2. QED
    BY <2>1 DEF DecksLeftAlone, Announces
<1>7. QED
  BY <1>1, <1>4, <1>5, <1>6 DEF DeckInv

(* A deck that announces itself will be heard.                               *)
LEMMA AnnounceKeepsDecks ==
    ASSUME JoinInv, MemoryInv, DeckInv, NEW d \in Decks, DeckAnnounces(d)
    PROVE  DeckInv'
<1>1. /\ UNCHANGED <<phase, number, listen, sent, mixer, firstDecks, decks>>
      /\ net' = net \cup {Announcement(p, d) : p \in Players}
      /\ deckNext' = [deckNext EXCEPT ![d] = DeckPeriod]
      /\ deckNext \in [Decks -> 0 .. DeckPeriod] /\ firstDecks \subseteq Decks
  BY DEF DeckAnnounces, unitVars, Announcement, JoinInv, ProtocolTypeOK, MemoryInv
<1>2. ASSUME NEW p \in Players, NEW c \in firstDecks, Covets(p, c)'
      PROVE  WillHear(p, c)'
  <2>1. Covets(p, c)
    BY <1>1, <1>2 DEF Covets
  <2>2. WillHear(p, c)
    BY <2>1 DEF DeckInv
  <2>3. Announcement(p, c)' = Announcement(p, c)
    BY DEF Announcement, ToUnit, Message, DeckPacket, Packet
  <2>4. CASE c = d
    BY <1>1, <2>2, <2>3, <2>4 DEF WillHear
  <2>5. CASE c # d
    BY <1>1, <2>2, <2>3, <2>5 DEF WillHear
  <2>6. QED
    BY <2>4, <2>5
<1>3. DecksLeftAlone'
  <2>1. ASSUME NEW x \in net', NEW q \in Players, Announces(x, q), mixer'[q] # "assigned"
        PROVE  x.packet.number \notin firstDecks'
    <3>1. \A p \in Players : Announcement(p, d).sender = Deck
      BY DEF Announcement, ToUnit, Message
    <3>2. x \in net
      BY <1>1, <2>1, <3>1, JoinFacts DEF Announces, Deck
    <3>3. QED
      BY <1>1, <2>1, <3>2 DEF DeckInv, DecksLeftAlone
  <2>2. QED
    BY <2>1 DEF DecksLeftAlone, Announces
<1>4. QED
  BY <1>1, <1>2, <1>3 DEF DeckInv

(* Time brings the announcement of a deck nearer as fast as the end of the   *)
(* listening period, and waits for it.                                       *)
LEMMA TickKeepsDecks ==
    ASSUME JoinInv, MemoryInv, DeckInv, Tick
    PROVE  DeckInv'
<1>1. /\ UNCHANGED <<phase, number, mixer, firstDecks, decks>>
      /\ listen' = [p \in Players |-> IF phase[p] = "off" THEN listen[p] ELSE Minus1(listen[p])]
      /\ \A m \in net : m.sender = Deck => m.packet.kind # "keepAlive"
      /\ \A d \in decks : deckNext[d] > 0
      /\ deckNext' = [d \in DOMAIN deckNext |->
                         IF d \in decks THEN deckNext[d] - 1 ELSE deckNext[d]]
      /\ net' = {[m EXCEPT !.age = @ + 1] : m \in net}
  BY DEF Tick
<1>2. /\ deckNext \in [Decks -> 0 .. DeckPeriod] /\ firstDecks \subseteq decks
      /\ decks \subseteq Decks /\ listen \in [Players -> 0 .. LISTEN_BEFORE_CLAIM]
  BY DEF JoinInv, ProtocolTypeOK, MemoryInv
<1>3. ASSUME NEW p \in Players, NEW d \in firstDecks, Covets(p, d)'
      PROVE  WillHear(p, d)'
  <2>1. Covets(p, d) /\ phase[p] # "off"
    BY <1>1, <1>3 DEF Covets
  <2>2. WillHear(p, d)
    BY <2>1 DEF DeckInv
  <2>3. Announcement(p, d) \notin net
    BY <1>1, <1>2, AnnouncementIsForeign
  <2>4. deckNext[d] < listen[p] /\ deckNext[d] > 0 /\ deckNext[d] \in Nat /\ listen[p] \in Nat
    BY <1>1, <1>2, <2>2, <2>3, JoinFacts DEF WillHear, LISTEN_BEFORE_CLAIM
  <2>5. deckNext'[d] = deckNext[d] - 1 /\ listen'[p] = Minus1(listen[p])
    BY <1>1, <1>2, <2>1
  <2>6. QED
    BY <2>4, <2>5 DEF WillHear, Minus1
<1>4. ASSUME NEW p \in Players, NEW i \in 1 .. Len(sent'[p])
      PROVE  sent'[p][i].packet.who # Deck
  BY <1>4, MemoryAges DEF DeckInv
<1>5. DecksLeftAlone'
  <2>1. ASSUME NEW x \in net', NEW q \in Players, Announces(x, q), mixer'[q] # "assigned"
        PROVE  x.packet.number \notin firstDecks'
    <3>1. PICK m \in net : x = [m EXCEPT !.age = @ + 1]
      BY <1>1, <2>1
    <3>2. m \in Messages
      BY DEF JoinInv, ProtocolTypeOK
    <3>3. x.sender = m.sender /\ x.packet = m.packet
      BY <3>1, <3>2 DEF Messages
    <3>4. Announces(m, q)
      BY <2>1, <3>3 DEF Announces
    <3>5. QED
      BY <1>1, <2>1, <3>3, <3>4 DEF DeckInv, DecksLeftAlone
  <2>2. QED
    BY <2>1 DEF DecksLeftAlone, Announces
<1>6. \A p \in Players : phase'[p] = "off" => listen'[p] = LISTEN_BEFORE_CLAIM
  BY <1>1 DEF DeckInv
<1>7. QED
  BY <1>1, <1>3, <1>4, <1>5, <1>6 DEF DeckInv

(* A packet that was lost stays lost.                                        *)
LEMMA LossesGrow ==
    ASSUME JoinInv, [Next]_vars, lost' = 0
    PROVE  lost = 0 /\ \A m \in net : ~Lose(m)
<1>1. lost \in Nat
  BY JoinFacts DEF JoinInv, ProtocolTypeOK
<1>2. ASSUME NEW m \in net PROVE ~Lose(m)
  BY <1>1 DEF Lose
<1>3. ASSUME NEW p \in Players, Start(p) \/ FindInterface(p) PROVE lost' = lost
  BY <1>3 DEF Start, FindInterface, worldVars
<1>4. ASSUME NEW p \in Players, Poll(p) PROVE lost' = lost
  BY <1>4 DEF Poll, SendHello, SendClaimStage1, KeepListening, SendClaimStage2, SendClaimStage3,
              SendKeepAlive, Send, worldVars
<1>5. ASSUME NEW p \in Players, NEW m \in net, Deliver(p, m) PROVE lost' = lost
  BY <1>5 DEF Deliver, worldVars
<1>6. ASSUME NEW d \in Decks, PlugIn(d) \/ DeckAnnounces(d) PROVE lost' = lost
  BY <1>6 DEF PlugIn, DeckAnnounces
<1>7. ASSUME NEW d \in Decks, NEW p \in Players, DeckDefends(d, p) PROVE lost' = lost
  BY <1>7 DEF DeckDefends, worldVars
<1>8. ASSUME NEW p \in Players, MixerIntends(p) \/ Confirms(p) PROVE lost' = lost
  BY <1>8 DEF MixerIntends, Confirms, worldVars
<1>9. ASSUME NEW m \in net, MixerAssigns(m) PROVE lost' = lost
  BY <1>9 DEF MixerAssigns
<1>10. ASSUME Tick PROVE lost' = lost
  BY <1>10 DEF Tick
<1>11. ASSUME UNCHANGED vars PROVE lost' = lost
  BY <1>11 DEF vars
<1>12. lost' = lost
  BY <1>2, <1>3, <1>4, <1>5, <1>6, <1>7, <1>8, <1>9, <1>10, <1>11 DEF Next
<1>13. QED
  BY <1>2, <1>12

(* Every step keeps the decks undisturbed, but for the loss of a packet.     *)
LEMMA StepDecks ==
    ASSUME DecksAreHeard, JoinInv, MemoryInv, DeckInv, [Next]_vars, \A m \in net : ~Lose(m)
    PROVE  DeckInv'
<1>1. firstDecks \subseteq Decks /\ phase \in [Players -> Phases]
  BY DEF MemoryInv, JoinInv, ProtocolTypeOK
<1>2. ASSUME NEW p \in Players, Start(p) PROVE DeckInv'
  <2>1. /\ UNCHANGED <<number, listen, sent, net, mixer, firstDecks, deckNext>>
        /\ phase[p] = "off" /\ phase' = [phase EXCEPT ![p] = "waiting"]
    BY <1>2 DEF Start, worldVars
  <2>2. ASSUME NEW q \in Players, NEW d \in firstDecks, Covets(q, d)' PROVE WillHear(q, d)'
    <3>1. CASE q = p
      <4>1. listen'[p] = LISTEN_BEFORE_CLAIM
        BY <2>1 DEF DeckInv
      <4>2. deckNext'[d] \in 0 .. DeckPeriod
        BY <1>1, <2>1 DEF JoinInv, ProtocolTypeOK
      <4>3. QED
        BY <3>1, <4>1, <4>2, JoinFacts DEF WillHear, DecksAreHeard, LISTEN_BEFORE_CLAIM
    <3>2. CASE q # p
      <4>1. Covets(q, d)
        BY <1>1, <2>1, <2>2, <3>2 DEF Covets
      <4>2. Announcement(q, d)' = Announcement(q, d)
        BY DEF Announcement, ToUnit, Message, DeckPacket, Packet
      <4>3. QED
        BY <2>1, <4>1, <4>2 DEF DeckInv, WillHear
    <3>3. QED
      BY <3>1, <3>2
  <2>3. DecksLeftAlone'
    BY <2>1 DEF DeckInv, DecksLeftAlone, Announces
  <2>4. \A q \in Players : phase'[q] = "off" => listen'[q] = LISTEN_BEFORE_CLAIM
    BY <1>1, <2>1 DEF DeckInv
  <2>5. QED
    BY <2>1, <2>2, <2>3, <2>4 DEF DeckInv
<1>3. ASSUME NEW p \in Players, FindInterface(p) PROVE DeckInv'
  BY <1>1, <1>3, DecksKept DEF FindInterface, worldVars
<1>4. ASSUME NEW d \in Decks, PlugIn(d) PROVE DeckInv'
  BY <1>1, <1>4, DecksKept DEF PlugIn, unitVars
<1>5. ASSUME NEW d \in Decks, NEW p \in Players, DeckDefends(d, p) PROVE DeckInv'
  <2>1. \A m \in net' \ net : m.sender = Deck
    BY <1>5 DEF DeckDefends, ToUnit, Message
  <2>2. /\ UNCHANGED <<phase, number, listen, sent, firstDecks, deckNext, mixer>>
        /\ net \subseteq net'
    BY <1>5 DEF DeckDefends, unitVars, worldVars
  <2>3. QED
    BY <1>1, <2>1, <2>2, DecksKept, JoinFacts DEF Deck
<1>6. ASSUME NEW p \in Players, MixerIntends(p) PROVE DeckInv'
  <2>1. \A m \in net' \ net : m.sender = Mixer
    BY <1>6 DEF MixerIntends, ToUnit, Message
  <2>2. /\ UNCHANGED <<phase, number, listen, sent, firstDecks, deckNext>>
        /\ net \subseteq net' /\ mixer' = [mixer EXCEPT ![p] = "asking"] /\ mixer[p] = "idle"
        /\ mixer \in [Players -> Mixed]
    BY <1>6 DEF MixerIntends, unitVars, JoinInv, ProtocolTypeOK
  <2>3. \A q \in Players : mixer[q] = "assigned" => mixer'[q] = "assigned"
    BY <2>2
  <2>4. QED
    BY <1>1, <2>1, <2>2, <2>3, DecksKept, JoinFacts DEF Mixer
<1>7. ASSUME NEW p \in Players, Confirms(p) PROVE DeckInv'
  <2>1. \A m \in net' \ net : m.sender = Deck
    BY <1>7 DEF Confirms, ToUnit, Message
  <2>2. /\ UNCHANGED <<phase, number, listen, sent, firstDecks, deckNext, mixer>>
        /\ net \subseteq net'
    BY <1>7 DEF Confirms, unitVars, worldVars
  <2>3. QED
    BY <1>1, <2>1, <2>2, DecksKept, JoinFacts DEF Deck
<1>8. ASSUME NEW m \in net, MixerAssigns(m) PROVE DeckInv'
  <2>1. /\ UNCHANGED <<phase, number, listen, sent, firstDecks, deckNext>>
        /\ mixer' = [mixer EXCEPT ![m.sender] = "assigned"]
        /\ m.packet.kind = "request" /\ mixer \in [Players -> Mixed]
    BY <1>8 DEF MixerAssigns, unitVars, JoinInv, ProtocolTypeOK
  <2>2. \A q \in Players : mixer[q] = "assigned" => mixer'[q] = "assigned"
    BY <2>1
  <2>3. /\ \A x \in net \ net' : x = m
        /\ \A x \in net' \ net : x.sender = Mixer
    BY <1>8 DEF MixerAssigns, ToUnit, Message
  <2>4. m.sender # Deck
    BY <2>1, JoinFacts DEF JoinInv, Deck
  <2>5. QED
    BY <1>1, <2>1, <2>2, <2>3, <2>4, DecksKept, JoinFacts DEF Mixer
<1>9. ASSUME NEW m \in net PROVE ~Lose(m)
  OBVIOUS
<1>10. CASE UNCHANGED vars
  BY <1>1, <1>10, DecksKept DEF vars
<1>11. QED
  BY <1>2, <1>3, <1>4, <1>5, <1>6, <1>7, <1>8, <1>9, <1>10, PollKeepsDecks, DeliverKeepsDecks,
     AnnounceKeepsDecks, TickKeepsDecks DEF Next

(* As long as nothing was lost, a deck that was there first never sees its   *)
(* number claimed by a unit no mixer gave it to, for every set of units and  *)
(* decks and every delay of other packets (LISTEN_BEFORE_CLAIM_NS).          *)
THEOREM DecksAreSafe ==
    ASSUME DecksAreHeard
    PROVE  Spec => []DecksUndisturbed
<1> DEFINE SafeSoFar == lost = 0 => DeckInv
<1>1. Init => SafeSoFar
  BY DecksAreHeard, InitDecks
<1>2. JoinInv /\ MemoryInv /\ SafeSoFar /\ [Next]_vars => SafeSoFar'
  <2>1. SUFFICES ASSUME JoinInv, MemoryInv, SafeSoFar, [Next]_vars, lost' = 0
                 PROVE  DeckInv'
    OBVIOUS
  <2>2. lost = 0 /\ \A m \in net : ~Lose(m)
    BY <2>1, LossesGrow
  <2>3. QED
    BY <2>1, <2>2, DecksAreHeard, StepDecks
<1>3. JoinInv /\ MemoryInv /\ [Next]_vars => MemoryInv'
  BY StepMemory
<1>4. SafeSoFar => DecksUndisturbed
  BY DEF DeckInv, DecksLeftAlone, DecksUndisturbed
<1>5. QED
  BY <1>1, <1>2, <1>3, <1>4, InitMemory, JoinInvariant, PTL DEF Spec

-----------------------------------------------------------------------------
(* Two units after one number                                                *)

\* No mixer assigns numbers, and before a unit has joined one of its claims has
\* arrived: they outnumber the losses and travel no longer than the final stage
\* lasts, which a confirmation, if anybody is there to confirm, cuts short.
ClaimsAreHeard ==
    /\ Assignable = {}
    /\ \/ MaxLost + MaxDelay < Repeats
       \/ Decks = {} /\ MaxLost < Repeats /\ MaxDelay <= Repeats

Active(p) == phase[p] \notin {"off", "yielded"}
Contend(p, q) == p # q /\ Active(p) /\ Active(q) /\ number[p] = number[q]

\* How many second-stage claims the unit has sent.
Claims(p) ==
    IF phase[p] = "stage2" THEN count[p]
    ELSE IF phase[p] \in {"stage3", "joined"} THEN Repeats ELSE 0

IsClaim(m, p, q, n) ==
    m.packet.kind = "stage2" /\ m.sender = p /\ m.to = q /\ m.packet.n = n

\* The claims of p that are no longer on their way to q.
Missing(p, q) == {n \in 1 .. Claims(p) : \A m \in net : ~IsClaim(m, p, q, n)}

\* None of them has arrived.
Counted(p, q) == Cardinality(Missing(p, q)) <= lost

\* The unit has sent its claim n so long ago that it is in its present phase.
SentBefore(p, n, age) ==
    /\ phase[p] = "stage2" => n + age + next[p] > count[p]
    /\ phase[p] = "stage3" =>
          n + age > Repeats /\ (Decks = {} => n + age + next[p] > Repeats + count[p])
    /\ phase[p] = "joined" =>
          n + age > Repeats /\ (Decks = {} => n + age > 2 * Repeats)
    /\ phase[p] \in {"stage2", "stage3", "joined", "yielded"}

\* A claim tells whose it is and for what number.
Genuine(m) ==
    /\ m.sender \in Players /\ m.packet.who = m.sender
    /\ m.packet.number = Configured[m.sender]
    /\ m.to # m.sender => m.addr = m.sender
    /\ SentBefore(m.sender, m.packet.n, m.age)

\* Of two units after one number, the one that came later has told the other
\* of its claims, but for those that were lost.
HolderInv ==
    /\ \A p \in Players : mixer[p] = "idle"
    /\ number = Configured
    /\ \A p \in Players : \A i \in 1 .. Len(sent[p]) :
          sent[p][i].packet.kind = "stage2" => sent[p][i].packet.who = p
    /\ \A m \in net :
          /\ m.packet.kind = "stage2" => Genuine(m)
          /\ m.packet.kind = "finished" => Decks # {}
    /\ \A p, q \in Players : Contend(p, q) => Counted(p, q) \/ Counted(q, p)

LEMMA ClaimsType ==
    ASSUME JoinInv, NEW p \in Players, NEW q \in Players
    PROVE  /\ Claims(p) \in 0 .. Repeats /\ lost \in Nat
           /\ IsFiniteSet(Missing(p, q)) /\ Cardinality(Missing(p, q)) \in Nat
<1>1. Claims(p) \in 0 .. Repeats
  BY DEF Claims, JoinInv, ProtocolTypeOK, Repeats
<1>2. lost \in Nat
  BY JoinFacts DEF JoinInv, ProtocolTypeOK
<1>3. IsFiniteSet(1 .. Claims(p))
  <2>1. 1 \in Int /\ Claims(p) \in Int
    BY <1>1
  <2>2. QED
    BY <2>1, FS_Interval
<1>4. Missing(p, q) \in SUBSET (1 .. Claims(p))
  BY DEF Missing
<1>5. IsFiniteSet(Missing(p, q))
  BY <1>3, <1>4, FS_Subset
<1>6. QED
  BY <1>1, <1>2, <1>5, FS_CardinalityType

(* While no claim that was on its way disappears, no more are missing.       *)
LEMMA CountedKept ==
    ASSUME JoinInv, NEW p \in Players, NEW q \in Players, Counted(p, q), lost' = lost,
           Claims(p)' \in Int,
           \A n \in 1 .. Claims(p)' :
              \/ n <= Claims(p) /\ \A m \in net : IsClaim(m, p, q, n) =>
                                       \E x \in net' : IsClaim(x, p, q, n)
              \/ \E x \in net' : IsClaim(x, p, q, n)
    PROVE  Counted(p, q)'
<1>1. /\ IsFiniteSet(Missing(p, q)) /\ Cardinality(Missing(p, q)) \in Nat /\ lost \in Nat
      /\ Claims(p) \in Int
  BY ClaimsType
<1>2. Missing(p, q)' \in SUBSET Missing(p, q)
  <2>1. ASSUME NEW n \in Missing(p, q)' PROVE n \in Missing(p, q)
    <3>1. n \in 1 .. Claims(p)' /\ ~ \E x \in net' : IsClaim(x, p, q, n)
      BY <2>1 DEF Missing, IsClaim
    <3>2. n <= Claims(p) /\ \A m \in net : ~IsClaim(m, p, q, n)
      BY <3>1
    <3>3. n \in 1 .. Claims(p)
      BY <1>1, <3>1, <3>2
    <3>4. QED
      BY <3>2, <3>3 DEF Missing
  <2>2. QED
    BY <2>1
<1>3. Cardinality(Missing(p, q)') <= Cardinality(Missing(p, q))
      /\ IsFiniteSet(Missing(p, q)')
  BY <1>1, <1>2, FS_Subset
<1>4. Cardinality(Missing(p, q)') \in Nat
  BY <1>3, FS_CardinalityType
<1>5. QED
  BY <1>1, <1>3, <1>4 DEF Counted

(* The rest of the world tells no claims and takes none away.                *)
LEMMA WorldKeepsHolder ==
    ASSUME JoinInv, HolderInv,
           UNCHANGED <<phase, count, number, sent, mixer, lost>>,
           \A p \in Players : phase[p] \in {"stage2", "stage3"} => next'[p] = next[p],
           \A m \in net : m.packet.kind = "stage2" => m \in net',
           \A m \in net' \ net :
              m.packet.kind # "stage2" /\ (m.packet.kind = "finished" => Decks # {})
    PROVE  HolderInv'
<1>1. ASSUME NEW m \in net', m.packet.kind = "stage2" PROVE Genuine(m)'
  <2>1. m \in net /\ Genuine(m)
    BY <1>1 DEF HolderInv
  <2>2. SentBefore(m.sender, m.packet.n, m.age)'
    BY <2>1 DEF Genuine, SentBefore
  <2>3. QED
    BY <2>1, <2>2 DEF Genuine
<1>2. ASSUME NEW p \in Players, NEW q \in Players, Contend(p, q)'
      PROVE  Counted(p, q)' \/ Counted(q, p)'
  <2>1. Counted(p, q) \/ Counted(q, p)
    BY <1>2 DEF HolderInv, Contend, Active
  <2>2. ASSUME NEW x \in Players, NEW y \in Players, Counted(x, y) PROVE Counted(x, y)'
    <3>1. Claims(x)' = Claims(x) /\ Claims(x) \in Int
      BY ClaimsType DEF Claims
    <3>2. \A n \in 1 .. Claims(x)' :
             n <= Claims(x) /\ \A m \in net : IsClaim(m, x, y, n) =>
                                  \E z \in net' : IsClaim(z, x, y, n)
      BY <3>1 DEF IsClaim
    <3>3. QED
      BY <2>2, <3>1, <3>2, CountedKept
  <2>3. QED
    BY <2>1, <2>2
<1>3. /\ \A p \in Players : mixer'[p] = "idle"
      /\ number' = Configured
      /\ \A p \in Players : \A i \in 1 .. Len(sent'[p]) :
            sent'[p][i].packet.kind = "stage2" => sent'[p][i].packet.who = p
      /\ \A m \in net' : m.packet.kind = "finished" => Decks # {}
  BY DEF HolderInv
<1>4. QED
  BY <1>1, <1>2, <1>3 DEF HolderInv

(* A unit that starts listening has claimed nothing yet.                     *)
LEMMA StartKeepsHolder ==
    ASSUME JoinInv, HolderInv, NEW p \in Players, Start(p)
    PROVE  HolderInv'
<1>1. /\ phase[p] = "off" /\ phase' = [phase EXCEPT ![p] = "waiting"]
      /\ UNCHANGED <<count, number, next, sent, net, mixer, lost>>
      /\ phase \in [Players -> Phases]
  BY DEF Start, worldVars, JoinInv, ProtocolTypeOK
<1>2. ASSUME NEW m \in net', m.packet.kind = "stage2" PROVE Genuine(m)'
  <2>1. Genuine(m)
    BY <1>1, <1>2 DEF HolderInv
  <2>2. m.sender \in Players /\ m.sender # p
    BY <1>1, <2>1 DEF Genuine, SentBefore
  <2>3. phase'[m.sender] = phase[m.sender]
    BY <1>1, <2>2
  <2>4. SentBefore(m.sender, m.packet.n, m.age)'
    BY <1>1, <2>1, <2>3 DEF Genuine, SentBefore
  <2>5. QED
    BY <2>1, <2>4 DEF Genuine
<1>3. ASSUME NEW x \in Players, NEW y \in Players, Contend(x, y)'
      PROVE  Counted(x, y)' \/ Counted(y, x)'
  <2>1. lost' \in Nat
    BY <1>1, ClaimsType
  <2>2. Claims(p)' = 0
    BY <1>1 DEF Claims
  <2>3. \A z \in Players : Counted(p, z)'
    <3>1. ASSUME NEW z \in Players PROVE Missing(p, z)' = {}
      BY <2>2 DEF Missing
    <3>2. QED
      BY <2>1, <3>1, FS_EmptySet DEF Counted
  <2>4. CASE x = p \/ y = p
    BY <2>3, <2>4
  <2>5. CASE x # p /\ y # p
    <3>1. phase'[x] = phase[x] /\ phase'[y] = phase[y]
      BY <1>1, <2>5
    <3>2. Counted(x, y) \/ Counted(y, x)
      BY <1>1, <1>3, <3>1 DEF HolderInv, Contend, Active
    <3>3. Claims(x)' = Claims(x) /\ Claims(y)' = Claims(y)
      BY <1>1, <3>1 DEF Claims
    <3>4. QED
      BY <1>1, <3>2, <3>3 DEF Counted, Missing, IsClaim
  <2>6. QED
    BY <2>4, <2>5
<1>4. QED
  BY <1>1, <1>2, <1>3 DEF HolderInv

(* A broadcast brings the claims that were made earlier nearer to their      *)
(* stage, and a new claim reaches every unit.                                *)
LEMMA SendKeepsHolder ==
    ASSUME JoinInv, MemoryInv, HolderInv, NEW p \in Players,
           NEW stage \in Claiming \cup {"joined"}, NEW packet \in Packets, NEW wait \in Nat,
           Send(p, stage, packet, wait), phase[p] # "waiting" => next[p] = 0, Active(p),
           packet.kind # "finished",
           packet.kind = "stage2" =>
              stage = "stage2" /\ packet.who = p /\ packet.number = number[p],
           stage = "stage2" =>
              /\ packet.kind = "stage2" /\ packet.n = Repeat(p, "stage2") /\ wait = 1
              /\ phase[p] \in {"stage1", "stage2"},
           stage = "stage3" =>
              wait = 1 /\ (phase[p] = "stage3" \/ (phase[p] = "stage2" /\ count[p] = Repeats)),
           stage = "joined" =>
              phase[p] = "joined" \/ (phase[p] = "stage3" /\ count[p] = Repeats),
           stage \in {"hello", "stage1"} => phase[p] \notin {"stage2", "stage3", "joined"}
    PROVE  HolderInv'
<1>1. /\ UNCHANGED <<number, mixer, lost>>
      /\ phase' = [phase EXCEPT ![p] = stage] /\ phase \in [Players -> Phases]
      /\ count' = [count EXCEPT ![p] = IF stage = "joined" THEN 0 ELSE Repeat(p, stage)]
      /\ next' = [next EXCEPT ![p] = wait]
      /\ count \in [Players -> 0 .. Repeats] /\ next \in [Players -> 0 .. LISTEN_BEFORE_CLAIM]
  BY DEF Send, worldVars, JoinInv, ProtocolTypeOK
<1>2. /\ sent' = [sent EXCEPT ![p] = Remember(@, packet)]
      /\ sent \in [Players -> Seq(Entries)]
      /\ net \subseteq net' /\ net' \subseteq net \cup Copies(p, packet)
      /\ packet.kind \in Numbered => Copies(p, packet) \subseteq net'
  BY DEF Send, Broadcast, MemoryInv
<1>3. /\ phase'[p] = stage /\ next'[p] = wait
      /\ count'[p] = IF stage = "joined" THEN 0 ELSE Repeat(p, stage)
      /\ \A q \in Players : q # p =>
            phase'[q] = phase[q] /\ count'[q] = count[q] /\ next'[q] = next[q]
      /\ count[p] \in Nat
  BY <1>1 DEF Repeats
<1>4. ASSUME NEW q \in Players, NEW i \in 1 .. Len(sent'[q]),
             sent'[q][i].packet.kind = "stage2"
      PROVE  sent'[q][i].packet.who = q
  <2>1. CASE q # p
    BY <1>2, <1>4, <2>1 DEF HolderInv
  <2>2. CASE q = p
    <3> DEFINE s == sent[p]
               t == Remember(s, packet)
    <3>1. s \in Seq(Entries) /\ Ordered(s)
      BY DEF MemoryInv
    <3>2. PICK drop \in 0 .. Len(s) :
             /\ t \in Seq(Entries)
             /\ Len(t) = Len(s) - drop + 1
             /\ \A j \in 1 .. Len(s) - drop : t[j] = s[j + drop]
             /\ t[Len(t)] = [packet |-> packet, age |-> 0]
      BY <3>1, RememberIsFifo
    <3>3. sent'[q] = t
      BY <1>2, <2>2
    <3>4. Len(s) \in Nat
      BY <3>1, LenProperties
    <3>5. \A j \in 1 .. Len(s) : s[j].packet.kind = "stage2" => s[j].packet.who = p
      BY DEF HolderInv
    <3> HIDE DEF s, t
    <3>6. i = Len(t) \/ i \in 1 .. Len(s) - drop
      <4>1. i \in 1 .. Len(t) /\ Len(t) = Len(s) - drop + 1
        BY <1>4, <3>2, <3>3
      <4> HIDE DEF s, t
      <4>2. QED
        BY <3>4, <4>1
    <3>7. CASE i = Len(t)
      BY <1>4, <2>2, <3>2, <3>3, <3>7
    <3>8. CASE i \in 1 .. Len(s) - drop
      <4>1. t[i] = s[i + drop] /\ i + drop \in 1 .. Len(s)
        BY <3>2, <3>4, <3>8
      <4>2. QED
        BY <1>4, <2>2, <3>3, <3>5, <4>1
    <3>9. QED
      BY <3>6, <3>7, <3>8
  <2>3. QED
    BY <2>1, <2>2
<1>5. ASSUME NEW m \in Copies(p, packet)
      PROVE  /\ m.sender = p /\ m.packet = packet /\ m.age = 0
             /\ m.to # p => m.addr = p
  BY <1>5 DEF Copies, Message
<1>6. ASSUME NEW m \in net', m.packet.kind = "stage2" PROVE Genuine(m)'
  <2>1. CASE m \in net
    <3>1. Genuine(m) /\ m.age \in Nat /\ m.packet.n \in 0 .. Repeats
      <4>1. m \in Messages /\ Genuine(m)
        BY <1>6, <2>1 DEF HolderInv, JoinInv, ProtocolTypeOK
      <4>2. m.age \in 0 .. MaxDelay /\ m.packet \in Packets
        BY <4>1 DEF Messages
      <4>3. m.packet.n \in 0 .. Repeats
        BY <4>2 DEF Packets
      <4>4. QED
        BY <4>1, <4>2, <4>3, JoinFacts
    <3>2. CASE m.sender # p
      <4>1. SentBefore(m.sender, m.packet.n, m.age)'
        BY <1>3, <3>1, <3>2 DEF Genuine, SentBefore
      <4>2. QED
        BY <3>1, <4>1 DEF Genuine
    <3>3. CASE m.sender = p
      <4> DEFINE n == m.packet.n
                 a == m.age
      <4>1. SentBefore(p, n, a) /\ phase[p] \in {"stage2", "stage3", "joined"}
        BY <3>1, <3>3 DEF Genuine, SentBefore, Active
      <4>2. n \in Nat /\ a \in Nat
        BY <3>1 DEF Repeats
      <4> HIDE DEF n, a
      <4>3. CASE stage = "stage2"
        <5>1. n + a > count[p] /\ count'[p] = count[p] + 1 /\ next'[p] = 1
          BY <1>3, <4>1, <4>2, <4>3 DEF SentBefore, Repeat
        <5>2. n + a + next'[p] > count'[p]
          BY <1>3, <4>2, <5>1
        <5>3. QED
          BY <1>3, <3>1, <3>3, <4>3, <5>2 DEF Genuine, SentBefore, n, a
      <4>4. CASE stage = "stage3"
        <5>1. n + a > Repeats /\ (Decks = {} => n + a + next'[p] > Repeats + count'[p])
          <6>1. CASE phase[p] = "stage2"
            BY <1>3, <4>1, <4>2, <4>4, <6>1 DEF SentBefore, Repeat, Repeats
          <6>2. CASE phase[p] = "stage3"
            BY <1>3, <4>1, <4>2, <4>4, <6>2 DEF SentBefore, Repeat, Repeats
          <6>3. QED
            BY <4>4, <6>1, <6>2
        <5>2. QED
          BY <1>3, <3>1, <3>3, <4>4, <5>1 DEF Genuine, SentBefore, n, a
      <4>5. CASE stage = "joined"
        <5>1. n + a > Repeats /\ (Decks = {} => n + a > 2 * Repeats)
          BY <4>1, <4>2, <4>5 DEF SentBefore, Repeats
        <5>2. QED
          BY <1>3, <3>1, <3>3, <4>5, <5>1 DEF Genuine, SentBefore, n, a
      <4>6. QED
        BY <4>1, <4>3, <4>4, <4>5 DEF Claiming
    <3>4. QED
      BY <3>2, <3>3
  <2>2. CASE m \in Copies(p, packet)
    <3>1. /\ m.sender = p /\ m.packet = packet /\ m.age = 0 /\ (m.to # p => m.addr = p)
          /\ stage = "stage2" /\ packet.who = p /\ packet.number = Configured[p]
      BY <1>5, <1>6, <2>2 DEF HolderInv
    <3>2. count'[p] = packet.n /\ next'[p] = 1 /\ packet.n \in Nat
      BY <1>3, <3>1 DEF Repeats, Packets
    <3>3. packet.n + 0 + next'[p] > count'[p]
      BY <3>2
    <3>4. SentBefore(p, packet.n, 0)'
      BY <1>3, <3>1, <3>3 DEF SentBefore
    <3>5. QED
      BY <3>1, <3>4 DEF Genuine
  <2>3. QED
    BY <1>2, <1>6, <2>1, <2>2
<1>7. ASSUME NEW x \in Players, NEW y \in Players, Contend(x, y)'
      PROVE  Counted(x, y)' \/ Counted(y, x)'
  <2>1. Contend(x, y)
    BY <1>1, <1>3, <1>7 DEF Contend, Active
  <2>2. Counted(x, y) \/ Counted(y, x)
    BY <2>1 DEF HolderInv
  <2>3. ASSUME NEW u \in Players, NEW v \in Players, u # v, Counted(u, v)
        PROVE  Counted(u, v)'
    <3>1. Claims(u) \in Nat
      BY ClaimsType DEF Repeats
    <3>2. CASE u # p \/ stage # "stage2"
      <4>1. Claims(u)' \in Nat /\ Claims(u)' <= Claims(u)
        BY <1>3, <3>1, <3>2 DEF Claims, Claiming
      <4>2. \A n \in 1 .. Claims(u)' : n <= Claims(u)
        BY <3>1, <4>1
      <4>3. \A n \in 1 .. Claims(u)' :
               n <= Claims(u) /\ \A m \in net : IsClaim(m, u, v, n) =>
                                    \E z \in net' : IsClaim(z, u, v, n)
        BY <1>2, <4>2
      <4>4. QED
        BY <1>1, <2>3, <4>1, <4>3, CountedKept
    <3>3. CASE u = p /\ stage = "stage2"
      <4>1. Claims(p)' = packet.n /\ packet.n \in Nat /\ packet.n <= Claims(p) + 1
        <5>1. Claims(p)' = packet.n
          BY <1>3, <3>3 DEF Claims
        <5>2. CASE phase[p] = "stage2"
          BY <1>3, <3>3, <5>1, <5>2 DEF Claims, Repeat
        <5>3. CASE phase[p] = "stage1"
          BY <1>3, <3>3, <5>1, <5>3 DEF Claims, Repeat
        <5>4. QED
          BY <3>3, <5>2, <5>3
      <4>2. \E z \in net' : IsClaim(z, p, v, packet.n)
        <5>1. Message(v, p, p, packet) \in Copies(p, packet)
          BY <2>3, <3>3 DEF Copies
        <5>2. QED
          BY <1>2, <3>3, <5>1 DEF IsClaim, Message, Numbered
      <4>3. \A n \in 1 .. Claims(p)' : n <= Claims(p) \/ n = packet.n
        BY <3>1, <3>3, <4>1
      <4>4. QED
        BY <1>1, <1>2, <2>3, <3>3, <4>1, <4>2, <4>3, CountedKept DEF IsClaim
    <3>4. QED
      BY <3>2, <3>3
  <2>4. x # y
    BY <2>1 DEF Contend
  <2>5. QED
    BY <2>2, <2>3, <2>4
<1>8. \A m \in net' : m.packet.kind = "finished" => Decks # {}
  BY <1>2, <1>5 DEF HolderInv
<1>9. (\A q \in Players : mixer'[q] = "idle") /\ number' = Configured
  BY <1>1 DEF HolderInv
<1>10. QED
  BY <1>4, <1>6, <1>7, <1>8, <1>9 DEF HolderInv

(* Whatever a poll sends.                                                    *)
LEMMA PollKeepsHolder ==
    ASSUME JoinInv, MemoryInv, HolderInv, NEW p \in Players, Poll(p)
    PROVE  HolderInv'
<1>1. number[p] \in Numbers /\ 1 \in Nat /\ KEEP_ALIVE \in Nat
  BY DEF JoinInv, ProtocolTypeOK, KEEP_ALIVE
<1>2. Due(p) /\ phase[p] # "waiting" => next[p] = 0
  BY DEF Due
<1>3. Due(p) => Active(p)
  BY DEF Due, Active, Claiming
<1>4. CASE KeepListening(p)
  <2>1. /\ UNCHANGED <<phase, count, number, sent, mixer, lost, net>>
        /\ phase[p] = "stage1" /\ next' = [next EXCEPT ![p] = listen[p]]
    BY <1>4 DEF KeepListening, worldVars
  <2>2. next \in [Players -> 0 .. LISTEN_BEFORE_CLAIM]
    BY DEF JoinInv, ProtocolTypeOK
  <2>3. \A q \in Players : phase[q] \in {"stage2", "stage3"} => next'[q] = next[q]
    BY <2>1, <2>2
  <2>4. QED
    BY <2>1, <2>3, WorldKeepsHolder
<1>5. ASSUME NEW stage \in {"hello", "stage1"}, NEW num \in Numbers \cup {NoNumber},
             NEW n \in 0 .. Repeats, NEW who \in Players \cup {Named},
             Due(p), phase[p] \in {"waiting", "hello", "stage1"},
             Send(p, stage, Packet(stage, num, n, who), 1)
      PROVE  HolderInv'
  <2> DEFINE pk == Packet(stage, num, n, who)
  <2>1. pk \in Packets /\ pk.kind = stage
    BY PacketType
  <2>2. /\ Send(p, stage, pk, 1) /\ stage \in Claiming \cup {"joined"}
    BY <1>5 DEF Claiming
  <2> HIDE DEF pk
  <2>3. UNCHANGED <<number, mixer, lost, net>>
    BY <2>1, <2>2 DEF Send, Broadcast, worldVars, Numbered
  <2>4. stage # "stage2" /\ stage # "stage3" /\ stage # "joined" /\ stage # "finished"
        /\ phase[p] \notin {"stage2", "stage3", "joined"}
    BY <1>5
  <2>5. QED
    BY <1>1, <1>2, <1>3, <1>5, <2>1, <2>2, <2>4, SendKeepsHolder
<1>6. CASE SendHello(p)
  BY <1>5, <1>6 DEF SendHello, In, Repeats
<1>7. CASE SendClaimStage1(p)
  <2>1. In(p, "stage1", "hello") /\ Due(p)
    BY <1>7 DEF SendClaimStage1
  <2>2. Repeat(p, "stage1") \in 0 .. Repeats
    BY <2>1, RepeatType DEF JoinInv, Claiming
  <2>3. QED
    BY <1>5, <1>7, <2>1, <2>2 DEF SendClaimStage1, In
<1>8. CASE SendClaimStage2(p)
  <2> DEFINE pk == Packet("stage2", number[p], Repeat(p, "stage2"), p)
  <2>1. In(p, "stage2", "stage1") /\ Send(p, "stage2", pk, 1) /\ Due(p)
    BY <1>8 DEF SendClaimStage2
  <2>2. Repeat(p, "stage2") \in 0 .. Repeats
    BY <2>1, RepeatType DEF JoinInv, Claiming
  <2>3. /\ pk \in Packets /\ pk.kind = "stage2" /\ pk.number = number[p] /\ pk.who = p
        /\ pk.n = Repeat(p, "stage2")
    BY <1>1, <2>2, PacketType DEF Packet
  <2>4. phase[p] \in {"stage1", "stage2"}
    BY <2>1 DEF In
  <2> HIDE DEF pk
  <2>5. QED
    BY <1>1, <1>2, <1>3, <2>1, <2>3, <2>4, SendKeepsHolder DEF Claiming
<1>9. CASE SendClaimStage3(p)
  <2> DEFINE pk == Packet("stage3", number[p], Repeat(p, "stage3"), Named)
  <2>1. In(p, "stage3", "stage2") /\ Send(p, "stage3", pk, 1) /\ Due(p)
    BY <1>9 DEF SendClaimStage3
  <2>2. Repeat(p, "stage3") \in 0 .. Repeats
    BY <2>1, RepeatType DEF JoinInv, Claiming
  <2>3. pk \in Packets /\ pk.kind = "stage3"
    BY <1>1, <2>2, PacketType DEF Packet
  <2>4. phase[p] = "stage3" \/ (phase[p] = "stage2" /\ count[p] = Repeats)
    BY <2>1 DEF In
  <2> HIDE DEF pk
  <2>5. QED
    BY <1>1, <1>2, <1>3, <2>1, <2>3, <2>4, SendKeepsHolder DEF Claiming
<1>10. CASE SendKeepAlive(p)
  <2> DEFINE pk == Packet("keepAlive", number[p], 0, p)
  <2>1. In(p, "joined", "stage3") /\ Send(p, "joined", pk, KEEP_ALIVE) /\ Due(p)
    BY <1>10 DEF SendKeepAlive
  <2>2. pk \in Packets /\ pk.kind = "keepAlive"
    BY <1>1, PacketType DEF Packet, Repeats
  <2>3. phase[p] = "joined" \/ (phase[p] = "stage3" /\ count[p] = Repeats)
    BY <2>1 DEF In
  <2> HIDE DEF pk
  <2>4. QED
    BY <1>1, <1>2, <1>3, <2>1, <2>2, <2>3, SendKeepsHolder
<1>11. QED
  BY <1>4, <1>6, <1>7, <1>8, <1>9, <1>10 DEF Poll

(* A claim for its number makes a unit yield: it is not taken for an echo,   *)
(* since it says whose it is.                                                *)
LEMMA ClaimIsHeard ==
    ASSUME HolderInv, NEW p \in Players, NEW q \in Players, Contend(p, q),
           NEW m \in net, NEW n, IsClaim(m, p, q, n), Deliver(q, m), phase \in [Players -> Phases]
    PROVE  phase'[q] = "yielded"
<1>1. /\ m.packet.kind = "stage2" /\ m.packet.who = p /\ m.addr = p /\ p # q
      /\ m.packet.number = number[q] /\ phase[q] # "off"
  BY DEF HolderInv, Genuine, IsClaim, Contend, Active
<1>2. ~IsOwn(q, m)
  <2>1. \A i \in 1 .. Len(sent[q]) : sent[q][i].packet # m.packet
    BY <1>1 DEF HolderInv
  <2>2. QED
    BY <1>1, <2>1 DEF IsOwn
<1>3. NumberSeen(q, m)
  BY <1>1, <1>2 DEF Deliver, OwnPacket, AssignmentIntention, Assignment, AssignmentFinished
<1>4. QED
  BY <1>1, <1>3 DEF NumberSeen

(* What arrives makes a unit yield, or cuts its final stage short.           *)
LEMMA DeliverKeepsHolder ==
    ASSUME JoinInv, HolderInv, NEW p \in Players, NEW m \in net, Deliver(p, m)
    PROVE  HolderInv'
<1>1. /\ UNCHANGED <<sent, mixer, lost>> /\ m.to = p
      /\ phase \in [Players -> Phases] /\ number \in [Players -> Numbers]
      /\ count \in [Players -> 0 .. Repeats] /\ next \in [Players -> 0 .. LISTEN_BEFORE_CLAIM]
  BY DEF Deliver, worldVars, JoinInv, ProtocolTypeOK
<1>2. /\ net \ {m} \subseteq net'
      /\ \A x \in net' \ net : x.packet.kind = "request"
  BY DEF Deliver, Message, Packet
<1>3. ~Assignment(p, m)
  BY <1>1 DEF Assignment, JoinInv, HolderInv
<1>4. /\ number' = number
      /\ \A q \in Players : phase'[q] = phase[q] \/ (phase[q] # "off" /\ phase'[q] = "yielded")
      /\ \A q \in Players :
            \/ count'[q] = count[q] /\ next'[q] = next[q]
            \/ phase[q] = "stage3" /\ Decks # {}
  <2>1. CASE UNCHANGED <<phase, count, number, next>>
    BY <2>1
  <2>2. CASE NumberSeen(p, m) /\ phase[p] # "off"
    BY <1>1, <2>2 DEF NumberSeen
  <2>3. CASE AssignmentFinished(p, m)
    <3>1. Decks # {} /\ UNCHANGED <<phase, number>>
      BY <2>3 DEF AssignmentFinished, HolderInv
    <3>2. /\ count' = [count EXCEPT ![p] = IF phase[p] = "stage3" /\ count[p] > 0
                                           THEN Repeats ELSE @]
          /\ next' = [next EXCEPT ![p] = IF phase[p] = "stage3" /\ count[p] > 0 THEN 0 ELSE @]
      BY <2>3 DEF AssignmentFinished
    <3>3. QED
      BY <1>1, <3>1, <3>2
  <2>4. QED
    BY <1>3, <2>1, <2>2, <2>3 DEF Deliver, OwnPacket, AssignmentIntention
<1>5. ASSUME NEW x \in net', x.packet.kind = "stage2" PROVE Genuine(x)'
  <2>1. x \in net /\ Genuine(x) /\ x.sender \in Players
    BY <1>2, <1>5 DEF HolderInv, Genuine
  <2>2. SentBefore(x.sender, x.packet.n, x.age)'
    BY <1>4, <2>1 DEF Genuine, SentBefore
  <2>3. QED
    BY <2>1, <2>2 DEF Genuine
<1>6. ASSUME NEW x \in Players, NEW y \in Players, Contend(x, y)'
      PROVE  Counted(x, y)' \/ Counted(y, x)'
  <2>1. /\ Contend(x, y) /\ Contend(y, x)
        /\ phase'[x] = phase[x] /\ phase'[y] = phase[y]
        /\ phase'[x] # "yielded" /\ phase'[y] # "yielded"
    BY <1>4, <1>6 DEF Contend, Active
  <2>2. Counted(x, y) \/ Counted(y, x)
    BY <2>1 DEF HolderInv
  <2>3. ASSUME NEW u \in Players, NEW v \in Players, Contend(u, v), Counted(u, v),
               phase'[u] = phase[u], phase'[v] # "yielded"
        PROVE  Counted(u, v)'
    <3>1. Claims(u)' = Claims(u) /\ Claims(u) \in Nat
      BY <1>4, <2>3, ClaimsType DEF Claims, Repeats
    <3>2. \A n : ~IsClaim(m, u, v, n)
      BY <1>1, <2>3, ClaimIsHeard DEF IsClaim
    <3>3. \A n \in 1 .. Claims(u)' :
             n <= Claims(u) /\ \A z \in net : IsClaim(z, u, v, n) =>
                                  \E w \in net' : IsClaim(w, u, v, n)
      BY <1>2, <3>1, <3>2
    <3>4. QED
      BY <1>1, <2>3, <3>1, <3>3, CountedKept
  <2>4. QED
    BY <2>1, <2>2, <2>3
<1>7. /\ \A q \in Players : mixer'[q] = "idle"
      /\ number' = Configured
      /\ \A q \in Players : \A i \in 1 .. Len(sent'[q]) :
            sent'[q][i].packet.kind = "stage2" => sent'[q][i].packet.who = q
      /\ \A x \in net' : x.packet.kind = "finished" => Decks # {}
  BY <1>1, <1>2, <1>4 DEF HolderInv
<1>8. QED
  BY <1>5, <1>6, <1>7 DEF HolderInv

(* A loss is one claim more that is missing, at most, and one loss more.     *)
LEMMA LoseKeepsHolder ==
    ASSUME JoinInv, HolderInv, NEW m \in net, Lose(m)
    PROVE  HolderInv'
<1>1. /\ UNCHANGED <<phase, count, number, next, sent, mixer>>
      /\ net' = net \ {m} /\ lost' = lost + 1
  BY DEF Lose, unitVars
<1>2. ASSUME NEW x \in net', x.packet.kind = "stage2" PROVE Genuine(x)'
  BY <1>1, <1>2 DEF HolderInv, Genuine, SentBefore
<1>3. ASSUME NEW u \in Players, NEW v \in Players, Counted(u, v) PROVE Counted(u, v)'
  <2> DEFINE M == Missing(u, v)
             N == Missing(u, v)'
             k == m.packet.n
  <2>1. /\ IsFiniteSet(M) /\ Cardinality(M) \in Nat /\ lost \in Nat
        /\ Cardinality(M) <= lost
    BY <1>3, ClaimsType DEF Counted
  <2>2. N \subseteq M \cup {k}
    <3>1. Claims(u)' = Claims(u)
      BY <1>1 DEF Claims
    <3>2. ASSUME NEW n \in N, n # k PROVE n \in M
      <4>1. n \in 1 .. Claims(u) /\ \A x \in net' : ~IsClaim(x, u, v, n)
        BY <3>1, <3>2 DEF Missing, IsClaim
      <4>2. ~IsClaim(m, u, v, n)
        BY <3>2 DEF IsClaim
      <4>3. QED
        BY <1>1, <4>1, <4>2 DEF Missing
    <3>3. QED
      BY <3>2
  <2> HIDE DEF M, N, k
  <2>3. /\ IsFiniteSet(M \cup {k})
        /\ Cardinality(M \cup {k}) <= Cardinality(M) + 1
        /\ Cardinality(M \cup {k}) \in Nat
    <3>1. /\ IsFiniteSet(M \cup {k})
          /\ Cardinality(M \cup {k}) = (IF k \in M THEN Cardinality(M) ELSE Cardinality(M) + 1)
      BY <2>1, FS_AddElement
    <3>2. QED
      BY <2>1, <3>1
  <2>4. IsFiniteSet(N) /\ Cardinality(N) <= Cardinality(M \cup {k})
    BY <2>2, <2>3, FS_Subset
  <2>5. Cardinality(N) \in Nat
    BY <2>4, FS_CardinalityType
  <2>6. Cardinality(N) <= lost + 1
    BY <2>1, <2>3, <2>4, <2>5
  <2>7. QED
    BY <1>1, <2>6 DEF Counted, N
<1>4. \A x, y \in Players : Contend(x, y)' => Counted(x, y)' \/ Counted(y, x)'
  BY <1>1, <1>3 DEF HolderInv, Contend, Active
<1>5. QED
  BY <1>1, <1>2, <1>4 DEF HolderInv

(* Time brings every claim and its unit on alike.                            *)
LEMMA TickKeepsHolder ==
    ASSUME JoinInv, MemoryInv, HolderInv, Tick
    PROVE  HolderInv'
<1>1. /\ UNCHANGED <<phase, count, number, mixer, lost>>
      /\ next' = [p \in Players |-> Minus1(next[p])]
      /\ net' = {[m EXCEPT !.age = @ + 1] : m \in net}
  BY DEF Tick
<1>2. ASSUME NEW m \in net
      PROVE  LET x == [m EXCEPT !.age = @ + 1]
             IN  /\ x.to = m.to /\ x.sender = m.sender /\ x.addr = m.addr
                 /\ x.packet = m.packet /\ x.age = m.age + 1 /\ m.age \in Nat
                 /\ m.packet.n \in Nat
  <2>1. m \in Messages
    BY DEF JoinInv, ProtocolTypeOK
  <2>2. m.age \in 0 .. MaxDelay /\ m.packet \in Packets
    BY <2>1 DEF Messages
  <2>3. m.packet.n \in Nat
    BY <2>2 DEF Packets, Repeats
  <2>4. QED
    BY <2>1, <2>2, <2>3, JoinFacts DEF Messages
<1>3. ASSUME NEW x \in net', x.packet.kind = "stage2" PROVE Genuine(x)'
  <2>1. PICK m \in net : x = [m EXCEPT !.age = @ + 1]
    BY <1>1
  <2>2. /\ x.to = m.to /\ x.sender = m.sender /\ x.addr = m.addr
        /\ x.packet = m.packet /\ x.age = m.age + 1 /\ m.age \in Nat /\ m.packet.n \in Nat
    BY <1>2, <2>1
  <2>3. Genuine(m) /\ m.sender \in Players
    BY <1>3, <2>2 DEF HolderInv, Genuine
  <2>4. SentBefore(m.sender, m.packet.n, m.age + 1)'
    <3> DEFINE p == m.sender
               n == m.packet.n
               a == m.age
    <3>1. SentBefore(p, n, a) /\ n \in Nat /\ a \in Nat
      BY <2>2, <2>3 DEF Genuine
    <3>2. /\ next'[p] = Minus1(next[p]) /\ next[p] \in Nat /\ count[p] \in Nat
          /\ phase'[p] = phase[p] /\ count'[p] = count[p]
      BY <1>1, <2>3 DEF JoinInv, ProtocolTypeOK, LISTEN_BEFORE_CLAIM, Repeats
    <3> HIDE DEF p, n, a
    <3>3. next'[p] \in Nat /\ next'[p] + 1 >= next[p]
      BY <3>2 DEF Minus1
    <3>4. \A c \in Nat : /\ n + a + next[p] > c => n + (a + 1) + next'[p] > c
                         /\ n + a > c => n + (a + 1) > c
      BY <3>1, <3>2, <3>3
    <3>5. 3 + count[p] \in Nat /\ 3 \in Nat /\ 2 * 3 \in Nat
      BY <3>2
    <3>6. SentBefore(p, n, a + 1)'
      BY <3>1, <3>2, <3>4, <3>5 DEF SentBefore, Repeats
    <3>7. QED
      BY <3>6 DEF p, n, a
  <2>5. QED
    BY <2>2, <2>3, <2>4 DEF Genuine
<1>4. ASSUME NEW u \in Players, NEW v \in Players, Counted(u, v) PROVE Counted(u, v)'
  <2>1. Claims(u)' = Claims(u) /\ Claims(u) \in Nat
    BY <1>1, ClaimsType DEF Claims, Repeats
  <2>2. ASSUME NEW m \in net, NEW n, IsClaim(m, u, v, n)
        PROVE  \E z \in net' : IsClaim(z, u, v, n)
    <3>1. [m EXCEPT !.age = @ + 1] \in net'
      BY <1>1
    <3>2. QED
      BY <1>2, <2>2, <3>1 DEF IsClaim
  <2>3. \A n \in 1 .. Claims(u)' :
             n <= Claims(u) /\ \A z \in net : IsClaim(z, u, v, n) =>
                                  \E w \in net' : IsClaim(w, u, v, n)
    BY <2>1, <2>2
  <2>4. Claims(u)' \in Int /\ lost' = lost
    BY <1>1, <2>1
  <2>5. QED
    BY <1>4, <2>3, <2>4, CountedKept
<1>5. \A x, y \in Players : Contend(x, y)' => Counted(x, y)' \/ Counted(y, x)'
  BY <1>1, <1>4 DEF HolderInv, Contend, Active
<1>6. ASSUME NEW p \in Players, NEW i \in 1 .. Len(sent'[p]), sent'[p][i].packet.kind = "stage2"
      PROVE  sent'[p][i].packet.who = p
  BY <1>6, MemoryAges DEF HolderInv
<1>7. ASSUME NEW x \in net', x.packet.kind = "finished" PROVE Decks # {}
  <2>1. PICK m \in net : x = [m EXCEPT !.age = @ + 1]
    BY <1>1
  <2>2. m.packet.kind = "finished"
    BY <1>2, <1>7, <2>1
  <2>3. QED
    BY <2>2 DEF HolderInv
<1>8. (\A p \in Players : mixer'[p] = "idle") /\ number' = Configured
  BY <1>1 DEF HolderInv
<1>9. QED
  BY <1>3, <1>5, <1>6, <1>7, <1>8 DEF HolderInv

LEMMA InitHolder == Init => HolderInv
<1> SUFFICES ASSUME Init PROVE HolderInv
  OBVIOUS
<1>1. /\ \A p \in Players : phase[p] = "off" /\ mixer[p] = "idle" /\ sent[p] = <<>>
      /\ number = Configured /\ net = {}
  BY DEF Init
<1>2. \A p \in Players : Len(sent[p]) = 0
  BY <1>1
<1>3. QED
  BY <1>1, <1>2 DEF HolderInv, Contend, Active

(* Without a mixer, every step keeps the account of the claims.              *)
LEMMA StepHolder ==
    ASSUME Assignable = {}, JoinInv, MemoryInv, HolderInv, [Next]_vars
    PROVE  HolderInv'
<1>1. ASSUME NEW p \in Players, FindInterface(p) PROVE HolderInv'
  BY <1>1, WorldKeepsHolder DEF FindInterface, worldVars
<1>2. ASSUME NEW d \in Decks, PlugIn(d) PROVE HolderInv'
  BY <1>2, WorldKeepsHolder DEF PlugIn, unitVars
<1>3. ASSUME NEW d \in Decks, DeckAnnounces(d) PROVE HolderInv'
  <2>1. \A m \in net' \ net : m.packet.kind = "keepAlive"
    BY <1>3 DEF DeckAnnounces, ToUnit, Message, DeckPacket, Packet
  <2>2. UNCHANGED <<phase, count, number, next, sent, mixer, lost>> /\ net \subseteq net'
    BY <1>3 DEF DeckAnnounces, unitVars
  <2>3. QED
    BY <2>1, <2>2, WorldKeepsHolder
<1>4. ASSUME NEW d \in Decks, NEW p \in Players, DeckDefends(d, p) PROVE HolderInv'
  <2>1. \A m \in net' \ net : m.packet.kind = "inUse"
    BY <1>4 DEF DeckDefends, ToUnit, Message, DeckPacket, Packet
  <2>2. UNCHANGED <<phase, count, number, next, sent, mixer, lost>> /\ net \subseteq net'
    BY <1>4 DEF DeckDefends, unitVars, worldVars
  <2>3. QED
    BY <2>1, <2>2, WorldKeepsHolder
<1>5. ASSUME NEW p \in Players, Confirms(p) PROVE HolderInv'
  <2>1. decks # {} /\ decks \subseteq Decks
    BY <1>5 DEF Confirms, JoinInv, ProtocolTypeOK
  <2>2. \A m \in net' \ net : m.packet.kind = "finished"
    BY <1>5 DEF Confirms, ToUnit, Message, Packet
  <2>3. UNCHANGED <<phase, count, number, next, sent, mixer, lost>> /\ net \subseteq net'
    BY <1>5 DEF Confirms, unitVars, worldVars
  <2>4. QED
    BY <2>1, <2>2, <2>3, WorldKeepsHolder
<1>6. ASSUME NEW p \in Players PROVE ~MixerIntends(p)
  BY DEF MixerIntends
<1>7. ASSUME NEW m \in net PROVE ~MixerAssigns(m)
  BY DEF MixerAssigns, JoinInv, HolderInv
<1>8. CASE UNCHANGED vars
  BY <1>8, WorldKeepsHolder DEF vars
<1>9. QED
  BY <1>1, <1>2, <1>3, <1>4, <1>5, <1>6, <1>7, <1>8, StartKeepsHolder, PollKeepsHolder,
     DeliverKeepsHolder, LoseKeepsHolder, TickKeepsHolder DEF Next

(* A unit that has joined has claims that must have arrived.                 *)
LEMMA JoinedIsHeard ==
    ASSUME ClaimsAreHeard, JoinInv, HolderInv, NEW p \in Players, NEW q \in Players,
           phase[p] = "joined"
    PROVE  ~Counted(p, q)
<1>1. Claims(p) = Repeats /\ lost \in 0 .. MaxLost /\ MaxLost \in Nat /\ MaxDelay \in Nat
  BY JoinFacts DEF Claims, JoinInv, ProtocolTypeOK
<1>2. ASSUME NEW m \in net, NEW n \in Nat, IsClaim(m, p, q, n)
      PROVE  /\ m.age \in 0 .. MaxDelay
             /\ n + m.age > Repeats
             /\ Decks = {} => n + m.age > 2 * Repeats
  <2>1. Genuine(m) /\ m \in Messages
    BY <1>2 DEF HolderInv, IsClaim, JoinInv, ProtocolTypeOK
  <2>2. SentBefore(p, n, m.age)
    BY <1>2, <2>1 DEF Genuine, IsClaim
  <2>3. QED
    BY <2>1, <2>2 DEF SentBefore, Messages
<1>3. ASSUME NEW k \in 1 .. Repeats, MaxLost < k,
             \A n \in 1 .. k : \A m \in net : ~IsClaim(m, p, q, n)
      PROVE  ~Counted(p, q)
  <2>1. 1 .. k \in SUBSET Missing(p, q)
    BY <1>1, <1>3 DEF Missing, Repeats
  <2>2. IsFiniteSet(Missing(p, q)) /\ Cardinality(Missing(p, q)) \in Nat
    BY ClaimsType
  <2>3. Cardinality(1 .. k) <= Cardinality(Missing(p, q))
    BY <2>1, <2>2, FS_Subset
  <2>4. Cardinality(1 .. k) = k
    <3>1. 1 \in Int /\ k \in Int /\ k >= 1
      BY DEF Repeats
    <3>2. Cardinality(1 .. k) = IF 1 > k THEN 0 ELSE k - 1 + 1
      BY <3>1, FS_Interval
    <3>3. QED
      BY <3>1, <3>2
  <2>5. lost < k
    BY <1>1, <1>3 DEF Repeats
  <2>6. k \in Nat /\ lost \in Nat
    BY <1>1 DEF Repeats
  <2>7. QED
    BY <2>2, <2>3, <2>4, <2>5, <2>6 DEF Counted
<1>4. CASE MaxLost + MaxDelay < Repeats
  <2> DEFINE k == Repeats - MaxDelay
  <2>1. k \in 1 .. Repeats /\ MaxLost < k
    BY <1>1, <1>4 DEF Repeats
  <2>2. ASSUME NEW n \in 1 .. k, NEW m \in net PROVE ~IsClaim(m, p, q, n)
    <3>1. n \in Nat /\ n + MaxDelay <= Repeats
      BY <1>1, <2>1, <2>2 DEF Repeats
    <3>2. \A a \in 0 .. MaxDelay : ~(n + a > Repeats)
      BY <1>1, <3>1 DEF Repeats
    <3>3. QED
      BY <1>2, <3>1, <3>2
  <2> HIDE DEF k
  <2>3. QED
    BY <1>3, <2>1, <2>2
<1>5. CASE Decks = {} /\ MaxLost < Repeats /\ MaxDelay <= Repeats
  <2>1. Repeats \in 1 .. Repeats
    BY DEF Repeats
  <2>2. ASSUME NEW n \in 1 .. Repeats, NEW m \in net PROVE ~IsClaim(m, p, q, n)
    <3>1. n \in Nat /\ \A a \in 0 .. MaxDelay : ~(n + a > 2 * Repeats)
      BY <1>1, <1>5, <2>2 DEF Repeats
    <3>2. QED
      BY <1>2, <1>5, <3>1
  <2>3. QED
    BY <1>3, <1>5, <2>1, <2>2
<1>6. QED
  BY <1>4, <1>5 DEF ClaimsAreHeard

(* Two units never hold one number, though both were configured to claim it, *)
(* for any number of units (the second-stage claims of poll, and             *)
(* on_number_seen): they are too many to be lost, and travel less long than  *)
(* the claim lasts.                                                          *)
THEOREM NumberHasOneHolder ==
    ASSUME ClaimsAreHeard
    PROVE  Spec => []OneHolder
<1>1. Init => HolderInv
  BY InitHolder
<1>2. JoinInv /\ MemoryInv /\ HolderInv /\ [Next]_vars => HolderInv'
  BY ClaimsAreHeard, StepHolder DEF ClaimsAreHeard
<1>3. JoinInv /\ MemoryInv /\ [Next]_vars => MemoryInv'
  BY StepMemory
<1>4. JoinInv /\ HolderInv => OneHolder
  <2> SUFFICES ASSUME JoinInv, HolderInv, NEW p \in Players, NEW q \in Players, p # q,
                      phase[p] = "joined", phase[q] = "joined", number[p] = number[q]
               PROVE  FALSE
    BY DEF OneHolder, Clash
  <2>1. Contend(p, q)
    BY DEF Contend, Active
  <2>2. Counted(p, q) \/ Counted(q, p)
    BY <2>1 DEF HolderInv
  <2>3. QED
    BY <2>2, ClaimsAreHeard, JoinedIsHeard
<1>5. QED
  BY <1>1, <1>2, <1>3, <1>4, InitMemory, JoinInvariant, PTL DEF Spec
=============================================================================
