-------------------------- MODULE ProlinkSourceProofs --------------------------
(* Whatever devices, tempos, losses and changes there are, the listening     *)
(* half of the Pro DJ Link source observes every beat once, tells a tempo    *)
(* unless it is known, and follows the tempo master.                         *)
EXTENDS ProlinkSource, FiniteSetTheorems, WellFoundedInduction, TLAPS

-----------------------------------------------------------------------------
(* The invariant                                                             *)

InFlight == queue \cup batch \cup UNION {held[port] : port \in Ports}

PeerFields == {"seen", "status", "lastBeat", "interval"}

\* A peer of the table by time t.
PeerOK(peer, t) ==
    /\ DOMAIN peer = PeerFields
    /\ peer.seen \in Nat \cup {Never} /\ peer.status.at \in Nat \cup {Never}
    /\ peer.status.at <= peer.seen /\ peer.seen <= t
    /\ peer.status.at = Never => peer.status = NoStatus

\* A status that claims the role of master was sent by a master of this period.
PacketOK(p) ==
    /\ p.device \in Devices
    /\ p.kind \in {"cdjStatus", "mixerStatus"} /\ p.master => mastered[p.device] = now

SourceShape ==
    /\ now \in Nat /\ stamp \in Nat /\ turn \in {"waits", "batch"}
    /\ turn = "waits" => batch = {}
    /\ DOMAIN held = Ports /\ DOMAIN peers = Devices /\ DOMAIN lastBeats = Devices
    /\ DOMAIN role = Devices /\ DOMAIN mastered = Devices /\ DOMAIN claimed = Devices
    /\ \A d \in Devices : /\ PeerOK(peers[d], now)
                          /\ lastBeats[d].at \in Nat \cup {Never} /\ lastBeats[d].at <= now
                          /\ claimed[d] \in Nat \cup {Never} /\ claimed[d] <= now
                          /\ mastered[d] \in Nat \cup {Never} /\ mastered[d] <= now
    /\ playing \subseteq Devices /\ beatDue \subseteq Devices /\ statusDue \subseteq Devices
    /\ \A p \in copies : p.kind = "beat" /\ p.device \in Devices

\* Packets do not outlive the period they were sent in.
FlightInv ==
    \A rx \in InFlight : rx.at = now /\ rx.stamp \in Nat /\ PacketOK(rx.packet)

\* The last tempo observed was told of the device followed.
ToldInv == lastBpm # NoTempo => toldLast = <<followed, lastBpm>>

\* A device that was heard to be master was one when it said so, and a claim
\* that was heard of late is in the table.
MasterInv ==
    \A d \in Devices :
        /\ Mastering(d) => mastered[d] = now
        /\ peers[d].status # NoStatus /\ peers[d].status.master
           => peers[d].status.at <= mastered[d]
        /\ ClaimHeard(d) => /\ peers[d].status.at = claimed[d]
                            /\ peers[d].status.master /\ ~ peers[d].status.yielding

\* From its tick to the next packet or period the source follows what the table
\* resolves to.
ResolvedInv == turn = "waits" /\ ticked = now => followed = Resolve(peers, target, now)

SourceInv == SourceShape /\ FlightInv /\ ToldInv /\ MasterInv /\ ResolvedInv

\* Packets that are under way, or whose copy is.
About == copies \cup {rx.packet : rx \in InFlight}

Remembered(p) == lastBeats[p.device].at = now /\ lastBeats[p.device].bytes = Bytes(p)

\* In a period a device has one beat under way, which the tracker remembers once
\* it has been given it, and none before it is sent.
BeatsInv ==
    /\ \A p, q \in About : p.kind = "beat" /\ q.kind = "beat" /\ p.device = q.device => p = q
    /\ \A p \in About : p.kind = "beat" => (Remembered(p) <=> BeatId(p) \in seen)
    /\ \A d \in beatDue : /\ lastBeats[d].at # now
                          /\ \A p \in About : p.kind = "beat" => p.device # d
                          /\ \A x \in seen : x[1] # d
    /\ stamp = 0 => /\ About = {} /\ seen = {}
                    /\ \A d \in Devices : lastBeats[d].at # now

LEMMA SourceFacts ==
    /\ Devices \subseteq Nat \ {0} /\ 0 \notin Devices /\ Mixers \subseteq Devices
    /\ STATUS_FRESH \in Nat /\ DEVICE_TIMEOUT \in Nat /\ STATUS_FRESH < DEVICE_TIMEOUT
    /\ DUPLICATE_BEAT \in Nat /\ Never = -1 /\ Master = 0 /\ NoDevice = 0 /\ NoTempo = 0
BY SourceAssumption DEF Never, Master, NoDevice, NoTempo

LEMMA LeastOf ==
  ASSUME NEW S \in SUBSET Nat, S # {}
  PROVE  \E m \in S : \A n \in S : m <= n
<1> DEFINE Below == {0 .. m : m \in S}
<1>1. Below \subseteq FiniteSubsetsOf(Nat) /\ Below # {}
  <2>1. ASSUME NEW m \in S
        PROVE  0 .. m \in FiniteSubsetsOf(Nat)
    <3>1. m \in Int /\ 0 \in Int /\ 0 .. m \in SUBSET Nat
      OBVIOUS
    <3>2. IsFiniteSet(0 .. m)
      BY <3>1, FS_Interval
    <3>3. QED
      BY <3>1, <3>2 DEF FiniteSubsetsOf
  <2>2. QED
    BY <2>1
<1>2. PICK x \in Below : \A y \in Below : <<y, x>> \notin StrictSubsetOrdering(Nat)
  <2> HIDE DEF Below
  <2> QED BY <1>1, FS_StrictSubsetOrderingWellFounded, WFMin
<1>3. PICK m \in S : x = 0 .. m
  OBVIOUS
<1>4. ASSUME NEW n \in S, n < m
      PROVE  FALSE
  <2>1. n \in Nat /\ m \in Nat
    OBVIOUS
  <2>2. (0 .. n) \subseteq (0 .. m) /\ m \in 0 .. m /\ m \notin 0 .. n
    BY <1>4, <2>1
  <2>3. (0 .. n) \in SUBSET Nat /\ (0 .. m) \in SUBSET Nat /\ (0 .. n) # (0 .. m)
    BY <2>1, <2>2
  <2>4. <<0 .. n, 0 .. m>> \in StrictSubsetOrdering(Nat)
    BY <2>2, <2>3 DEF StrictSubsetOrdering
  <2>5. (0 .. n) \in Below
    OBVIOUS
  <2>6. QED
    BY <1>2, <1>3, <2>4, <2>5
<1>5. QED
  BY <1>4

\* The earliest of some packets is one of them.
LEMMA EarliestIsOne ==
    ASSUME NEW S, S # {}, \A rx \in S : rx.stamp \in Nat
    PROVE  Earliest(S) \in S
<1> DEFINE stamps == {rx.stamp : rx \in S}
<1>1. stamps \in SUBSET Nat /\ stamps # {}
  OBVIOUS
<1>2. PICK m \in stamps : \A n \in stamps : m <= n
  BY <1>1, LeastOf
<1>3. \E rx \in S : \A other \in S : rx.stamp <= other.stamp
  BY <1>2
<1>4. QED
  BY <1>3 DEF Earliest

-----------------------------------------------------------------------------
(* The table                                                                 *)

\* What a packet leaves of the table: only its device changes.
Updates(old, new, d, at) ==
    /\ DOMAIN new = Devices /\ \A e \in Devices \ {d} : new[e] = old[e]
    /\ PeerOK(new[d], at)

LEMMA Touches ==
    ASSUME NEW table, NEW d \in Devices, NEW at \in Nat, DOMAIN table = Devices,
           PeerOK(table[d], at)
    PROVE  /\ Updates(table, Touch(table, d, at), d, at)
           /\ Touch(table, d, at)[d].status = table[d].status
<1> DEFINE new == Touch(table, d, at)
           peer == [table[d] EXCEPT !.seen = at]
<1>1. DOMAIN new = Devices /\ new[d] = peer /\ \A e \in Devices \ {d} : new[e] = table[e]
  BY DEF Touch
<1>2. /\ DOMAIN peer = PeerFields /\ peer.seen = at /\ peer.status = table[d].status
  BY DEF PeerOK, PeerFields
<1> HIDE DEF new, peer
<1>3. PeerOK(peer, at)
  BY <1>2, SourceFacts DEF PeerOK
<1>4. QED
  BY <1>1, <1>2, <1>3 DEF Updates, new

LEMMA Beats ==
    ASSUME NEW table, NEW d \in Devices, NEW at \in Nat, DOMAIN table = Devices,
           PeerOK(table[d], at)
    PROVE  /\ Updates(table, Beaten(table, d, at), d, at)
           /\ Beaten(table, d, at)[d].status = table[d].status
<1> DEFINE touched == Touch(table, d, at)
           gap == Minus(at, table[d].lastBeat)
           interval(was) == IF table[d].lastBeat = Never THEN was
                            ELSE IF gap > 0 /\ gap <= 4 * BEAT_WINDOW THEN gap
                            ELSE Never
           new == Beaten(table, d, at)
           old == touched[d]
<1>1. /\ Updates(table, touched, d, at) /\ old.status = table[d].status
  BY Touches
<1>2. DOMAIN touched = Devices /\ DOMAIN old = PeerFields /\ old.seen <= at
  BY <1>1 DEF Updates, PeerOK
<1> HIDE DEF touched
<1>3. new = [touched EXCEPT ![d].lastBeat = at, ![d].interval = interval(@)]
  BY DEF Beaten, touched
<1> HIDE DEF gap, interval, new
<1>4. DOMAIN new = Devices /\ \A e \in Devices \ {d} : new[e] = touched[e]
  BY <1>2, <1>3
<1>5. /\ DOMAIN new[d] = PeerFields /\ new[d].seen = old.seen /\ new[d].status = old.status
  BY <1>2, <1>3 DEF PeerFields
<1>6. PeerOK(new[d], at)
  BY <1>1, <1>5 DEF Updates, PeerOK
<1>7. QED
  BY <1>1, <1>4, <1>5, <1>6 DEF Updates, new

LEMMA Statuses ==
    ASSUME NEW table, NEW p, p.device \in Devices, NEW at \in Nat, DOMAIN table = Devices,
           PeerOK(table[p.device], at)
    PROVE  LET new == WithStatus(table, p, at)
           IN  /\ Updates(table, new, p.device, at)
               /\ new[p.device].status.at = at
               /\ new[p.device].status.master = p.master
               /\ new[p.device].status.yielding = p.yielding
<1> DEFINE d == p.device
           touched == Touch(table, d, at)
           old == touched[d]
           status == [at |-> at, playing |-> p.playing, master |-> p.master,
                      yielding |-> p.yielding]
           new == WithStatus(table, p, at)
<1>1. /\ Updates(table, touched, d, at) /\ old.status = table[d].status
  BY Touches
<1>2. DOMAIN touched = Devices /\ DOMAIN old = PeerFields /\ old.seen = at
  <2>1. old = [table[d] EXCEPT !.seen = at]
    BY DEF Touch
  <2>2. QED
    BY <1>1, <2>1 DEF Updates, PeerOK, PeerFields
<1> HIDE DEF touched
<1>3. new = [touched EXCEPT ![d].status = status]
  BY DEF WithStatus, touched
<1>4. /\ status.at = at /\ status.master = p.master /\ status.yielding = p.yielding
  OBVIOUS
<1> HIDE DEF status, new
<1>5. DOMAIN new = Devices /\ \A e \in Devices \ {d} : new[e] = touched[e]
  BY <1>2, <1>3
<1>6. /\ DOMAIN new[d] = PeerFields /\ new[d].seen = old.seen /\ new[d].status = status
  BY <1>2, <1>3 DEF PeerFields
<1>7. PeerOK(new[d], at)
  BY <1>2, <1>4, <1>6, SourceFacts DEF PeerOK
<1>8. QED
  BY <1>1, <1>4, <1>5, <1>6, <1>7 DEF Updates, new

\* The tick drops no status as young as a fresh one.
LEMMA Expires ==
    ASSUME NEW table, NEW at \in Nat, DOMAIN table = Devices, NEW d \in Devices,
           PeerOK(table[d], at)
    PROVE  /\ DOMAIN Expired(table, at) = Devices
           /\ PeerOK(Expired(table, at)[d], at)
           /\ Expired(table, at)[d] = table[d] \/ Expired(table, at)[d] = NewPeer
           /\ at - table[d].status.at <= STATUS_FRESH => Expired(table, at)[d] = table[d]
<1>1. PeerOK(NewPeer, at)
  BY SourceFacts DEF PeerOK, NewPeer, NoStatus, PeerFields
<1>2. at - table[d].status.at <= STATUS_FRESH => Minus(at, table[d].seen) <= DEVICE_TIMEOUT
  BY SourceFacts DEF Minus, PeerOK
<1>3. QED
  BY <1>1, <1>2 DEF Expired

-----------------------------------------------------------------------------
(* What the source thread does with a packet                                 *)

\* The tempo that is kept is the one told last, of the device still followed.
LEMMA TellsTempo ==
    ASSUME ToldInv, NEW to, followed' = to,
           \/ \E rx, phase : rx.packet.device = to /\ Observe(Observation(rx, phase), to)
           \/ Quiet /\ lastBpm' = BpmAfter(to)
    PROVE  ToldInv'
<1>1. CASE Quiet /\ lastBpm' = BpmAfter(to)
  BY <1>1 DEF ToldInv, Quiet, BpmAfter
<1>2. ASSUME NEW rx, NEW phase, rx.packet.device = to, Observe(Observation(rx, phase), to)
      PROVE  ToldInv'
  <2> DEFINE o == Observation(rx, phase)
  <2>1. o.device = to
    BY <1>2 DEF Observation
  <2> HIDE DEF o
  <2>2. CASE o.tempo # NoTempo
    BY <1>2, <2>1, <2>2 DEF ToldInv, Observe, o
  <2>3. CASE o.tempo = NoTempo
    BY <1>2, <2>3 DEF ToldInv, Observe, BpmAfter, o
  <2>4. QED
    BY <2>2, <2>3
<1>3. QED
  BY <1>1, <1>2

LEMMA TellsUpdate ==
    ASSUME ToldInv, NEW rx, NEW to, followed' = to, TempoUpdate(rx, to)
    PROVE  ToldInv'
BY TellsTempo DEF TempoUpdate

\* The three packets, as what they change of the table.
LEMMA Handles ==
    ASSUME SourceInv, NEW rx \in InFlight, Handle(rx)
    PROVE  LET d == rx.packet.device
           IN  /\ d \in Devices /\ rx.at = now /\ ToldInv'
               /\ DOMAIN peers' = Devices /\ PeerOK(peers'[d], now)
               /\ \A e \in Devices \ {d} : peers'[e] = peers[e]
               /\ \/ peers'[d].status = peers[d].status /\ claimed' = claimed
                  \/ /\ peers'[d].status.at = now /\ DOMAIN claimed' = Devices
                     /\ peers'[d].status.master => mastered[d] = now
                     /\ \A e \in Devices \ {d} : claimed'[e] = claimed[e]
                     /\ \/ claimed'[d] = Never
                        \/ /\ claimed'[d] = now
                           /\ peers'[d].status.master /\ ~ peers'[d].status.yielding
               /\ \/ lastBeats' = lastBeats
                  \/ lastBeats' = [lastBeats EXCEPT ![d] = [at |-> now, bytes |-> Bytes(rx.packet)]]
<1> DEFINE p == rx.packet
           d == p.device
<1>1. d \in Devices /\ rx.at = now /\ now \in Nat
  BY DEF SourceInv, SourceShape, FlightInv, PacketOK
<1>2. /\ DOMAIN peers = Devices /\ PeerOK(peers[d], now) /\ DOMAIN claimed = Devices
      /\ ToldInv
  BY <1>1 DEF SourceInv, SourceShape
<1>3. CASE BeatReceived(rx)
  <2> DEFINE table == Beaten(peers, d, now)
             to == Resolve(table, target, now)
             phase == IF BarMeaningful(d) THEN "bar" ELSE "beat"
  <2>1. /\ Updates(peers, table, d, now) /\ table[d].status = peers[d].status
    BY <1>1, <1>2, Beats
  <2>2. claimed' = claimed
    BY <1>3 DEF BeatReceived
  <2>3. CASE DuplicateBeat(p, now)
    <3>1. peers' = peers /\ lastBeats' = lastBeats /\ followed' = followed /\ lastBpm' = lastBpm
          /\ toldLast' = toldLast
      BY <1>1, <1>3, <2>3 DEF BeatReceived, tableVars, Quiet
    <3>2. ToldInv'
      BY <1>2, <3>1 DEF ToldInv
    <3>3. QED
      BY <1>1, <1>2, <2>2, <3>1, <3>2
  <2>4. CASE ~ DuplicateBeat(p, now)
    <3>1. /\ peers' = table /\ followed' = to
          /\ lastBeats' = [lastBeats EXCEPT ![d] = [at |-> now, bytes |-> Bytes(p)]]
          /\ IF to = d THEN Observe(Observation(rx, phase), to)
                       ELSE Quiet /\ lastBpm' = BpmAfter(to)
      BY <1>1, <1>3, <2>4 DEF BeatReceived
    <3> HIDE DEF table, to, phase
    <3>2. ToldInv'
      BY <1>2, <3>1, TellsTempo
    <3>3. QED
      BY <1>1, <2>1, <2>2, <3>1, <3>2 DEF Updates
  <2>5. QED
    BY <2>3, <2>4
<1>4. CASE StatusReceived(rx)
  <2> DEFINE table == WithStatus(peers, p, now)
             to == Resolve(table, target, now)
  <2>1. /\ Updates(peers, table, d, now)
        /\ table[d].status.at = now /\ table[d].status.master = p.master
        /\ table[d].status.yielding = p.yielding
    BY <1>1, <1>2, Statuses
  <2>2. /\ peers' = table /\ followed' = to /\ lastBeats' = lastBeats
        /\ TempoUpdate(rx, to) \/ (Quiet /\ lastBpm' = BpmAfter(to))
        /\ claimed' = [claimed EXCEPT ![d] = IF p.master /\ ~ p.yielding THEN now ELSE Never]
        /\ p.kind \in {"cdjStatus", "mixerStatus"}
    BY <1>1, <1>4 DEF StatusReceived
  <2> HIDE DEF table, to
  <2>3. ToldInv'
    BY <1>2, <2>2, TellsTempo, TellsUpdate
  <2>4. p.master => mastered[d] = now
    BY <2>2 DEF SourceInv, FlightInv, PacketOK
  <2>5. /\ DOMAIN claimed' = Devices
        /\ \A e \in Devices \ {d} : claimed'[e] = claimed[e]
        /\ claimed'[d] = IF p.master /\ ~ p.yielding THEN now ELSE Never
    BY <1>1, <1>2, <2>2
  <2>6. QED
    BY <1>1, <2>1, <2>2, <2>3, <2>4, <2>5 DEF Updates
<1>5. CASE PresenceReceived(rx)
  <2> DEFINE table == Touch(peers, d, now)
  <2>1. /\ Updates(peers, table, d, now) /\ table[d].status = peers[d].status
    BY <1>1, <1>2, Touches
  <2>2. /\ peers' = table /\ lastBeats' = lastBeats /\ claimed' = claimed
        /\ followed' = followed /\ lastBpm' = lastBpm /\ toldLast' = toldLast
    BY <1>1, <1>5 DEF PresenceReceived, followVars, Quiet
  <2> HIDE DEF table
  <2>3. ToldInv'
    BY <1>2, <2>2 DEF ToldInv
  <2>4. QED
    BY <1>1, <2>1, <2>2, <2>3 DEF Updates
<1>6. QED
  BY <1>3, <1>4, <1>5 DEF Handle

LEMMA InvHandle ==
    ASSUME SourceInv, NEW rx \in InFlight, Handle(rx), InFlight' \subseteq InFlight
    PROVE  SourceInv'
<1> DEFINE d == rx.packet.device
<1>1. /\ d \in Devices /\ rx.at = now /\ ToldInv'
      /\ DOMAIN peers' = Devices /\ PeerOK(peers'[d], now)
      /\ \A e \in Devices \ {d} : peers'[e] = peers[e]
      /\ \/ peers'[d].status = peers[d].status /\ claimed' = claimed
         \/ /\ peers'[d].status.at = now /\ DOMAIN claimed' = Devices
            /\ peers'[d].status.master => mastered[d] = now
            /\ \A e \in Devices \ {d} : claimed'[e] = claimed[e]
            /\ \/ claimed'[d] = Never
               \/ /\ claimed'[d] = now
                  /\ peers'[d].status.master /\ ~ peers'[d].status.yielding
      /\ \/ lastBeats' = lastBeats
         \/ lastBeats' = [lastBeats EXCEPT ![d] = [at |-> now, bytes |-> Bytes(rx.packet)]]
  BY Handles
<1>2. /\ turn' = "batch" /\ held' = held /\ ticked' = ticked /\ stamp' = stamp /\ now' = now
      /\ role' = role /\ playing' = playing /\ statusDue' = statusDue /\ beatDue' = beatDue
      /\ copies' = copies /\ mastered' = mastered
  BY DEF Handle, boothVars
<1> HIDE DEF d
<1>3. SourceShape /\ MasterInv /\ now \in Nat
  BY DEF SourceInv, SourceShape
<1>4. DOMAIN lastBeats' = Devices
      /\ \A e \in Devices : lastBeats'[e].at \in Nat \cup {Never} /\ lastBeats'[e].at <= now
  BY <1>1, <1>3 DEF SourceShape
<1>5. DOMAIN claimed' = Devices
      /\ \A e \in Devices : claimed'[e] \in Nat \cup {Never} /\ claimed'[e] <= now
  BY <1>1, <1>3, SourceFacts DEF SourceShape
<1>6. \A e \in Devices : PeerOK(peers'[e], now)
  BY <1>1, <1>3 DEF SourceShape
<1>7. SourceShape'
  BY <1>1, <1>2, <1>3, <1>4, <1>5, <1>6 DEF SourceShape, PeerOK
<1>8. FlightInv'
  BY <1>2 DEF SourceInv, FlightInv, PacketOK
<1>9. MasterInv'
  <2> SUFFICES ASSUME NEW e \in Devices
               PROVE  /\ Mastering(e)' => mastered'[e] = now
                      /\ peers'[e].status # NoStatus /\ peers'[e].status.master
                         => peers'[e].status.at <= mastered'[e]
                      /\ ClaimHeard(e)' => /\ peers'[e].status.at = claimed'[e]
                                           /\ peers'[e].status.master
                                           /\ ~ peers'[e].status.yielding
    BY <1>2 DEF MasterInv
  <2>1. /\ Mastering(e) => mastered[e] = now
        /\ peers[e].status # NoStatus /\ peers[e].status.master
           => peers[e].status.at <= mastered[e]
        /\ ClaimHeard(e) => /\ peers[e].status.at = claimed[e]
                            /\ peers[e].status.master /\ ~ peers[e].status.yielding
    BY <1>3 DEF MasterInv
  <2>2. Mastering(e)' => mastered'[e] = now
    BY <1>2, <2>1 DEF Mastering
  <2>3. CASE peers'[e].status = peers[e].status /\ claimed'[e] = claimed[e]
    BY <1>2, <2>1, <2>2, <2>3 DEF ClaimHeard
  <2>4. CASE e = d /\ peers'[d].status.at = now /\ (peers'[d].status.master => mastered[d] = now)
             /\ \/ claimed'[d] = Never
                \/ /\ claimed'[d] = now
                   /\ peers'[d].status.master /\ ~ peers'[d].status.yielding
    BY <1>2, <1>3, <2>2, <2>4 DEF ClaimHeard
  <2>5. QED
    BY <1>1, <2>3, <2>4
<1>10. ResolvedInv'
  BY <1>2 DEF ResolvedInv
<1>11. QED
  BY <1>1, <1>7, <1>8, <1>9, <1>10 DEF SourceInv

-----------------------------------------------------------------------------
(* The other steps                                                           *)

LEMMA InvTick ==
    ASSUME SourceInv, TrackerTick
    PROVE  SourceInv'
<1> DEFINE table == Expired(peers, now)
           to == Resolve(table, target, now)
<1>1. /\ turn' = "waits" /\ ticked' = now /\ peers' = table /\ followed' = to
      /\ Quiet /\ lastBpm' = BpmAfter(to)
      /\ target' = target /\ lastBeats' = lastBeats /\ held' = held /\ queue' = queue
      /\ batch' = batch /\ stamp' = stamp /\ now' = now /\ role' = role /\ playing' = playing
      /\ statusDue' = statusDue /\ beatDue' = beatDue /\ copies' = copies
      /\ mastered' = mastered /\ claimed' = claimed
      /\ turn = "batch" => batch = {}
  BY DEF TrackerTick, boothVars
<1>2. SourceShape /\ FlightInv /\ MasterInv /\ ToldInv /\ now \in Nat
  BY DEF SourceInv, SourceShape
<1>3. ASSUME NEW d \in Devices
      PROVE  /\ DOMAIN table = Devices /\ PeerOK(table[d], now)
             /\ table[d] = peers[d] \/ table[d] = NewPeer
             /\ now - peers[d].status.at <= STATUS_FRESH => table[d] = peers[d]
  BY <1>2, Expires DEF SourceShape
<1>4. DOMAIN table = Devices
  BY DEF Expired
<1> HIDE DEF table, to
<1>5. SourceShape'
  BY <1>1, <1>2, <1>3, <1>4 DEF SourceShape, PeerOK
<1>6. FlightInv'
  <2>1. InFlight' = InFlight
    BY <1>1 DEF InFlight
  <2>2. QED
    BY <1>1, <1>2, <2>1 DEF FlightInv, PacketOK
<1>7. MasterInv'
  <2> SUFFICES ASSUME NEW e \in Devices
               PROVE  /\ Mastering(e)' => mastered'[e] = now'
                      /\ peers'[e].status # NoStatus /\ peers'[e].status.master
                         => peers'[e].status.at <= mastered'[e]
                      /\ ClaimHeard(e)' => /\ peers'[e].status.at = claimed'[e]
                                           /\ peers'[e].status.master
                                           /\ ~ peers'[e].status.yielding
    BY DEF MasterInv
  <2>1. /\ Mastering(e) => mastered[e] = now
        /\ peers[e].status # NoStatus /\ peers[e].status.master
           => peers[e].status.at <= mastered[e]
        /\ ClaimHeard(e) => /\ peers[e].status.at = claimed[e]
                            /\ peers[e].status.master /\ ~ peers[e].status.yielding
    BY <1>2 DEF MasterInv
  <2>2. Mastering(e)' => mastered'[e] = now'
    BY <1>1, <2>1 DEF Mastering
  <2>3. peers'[e] = peers[e] \/ peers'[e].status = NoStatus
    BY <1>1, <1>3 DEF NewPeer
  <2>4. ClaimHeard(e)' => ClaimHeard(e) /\ peers'[e] = peers[e]
    BY <1>1, <1>3, <2>1 DEF ClaimHeard
  <2>5. QED
    BY <1>1, <2>1, <2>2, <2>3, <2>4
<1>8. ResolvedInv'
  BY <1>1 DEF ResolvedInv, to
<1>9. ToldInv'
  BY <1>1, <1>2, TellsTempo
<1>10. QED
  BY <1>5, <1>6, <1>7, <1>8, <1>9 DEF SourceInv

\* A step that leaves the table, the choice and what was told, and time: what it
\* sends is a packet of now, and who was master stays or is so now.
LEMMA InvKept ==
    ASSUME SourceInv,
           peers' = peers, lastBeats' = lastBeats, target' = target, followed' = followed,
           lastBpm' = lastBpm, turn' = turn, ticked' = ticked, batch' = batch, now' = now,
           toldLast' = toldLast, claimed' = claimed,
           stamp' \in Nat, DOMAIN held' = Ports, DOMAIN role' = Devices,
           DOMAIN mastered' = Devices,
           \A d \in Devices : /\ mastered'[d] \in {mastered[d], now}
                              /\ Mastering(d)' => mastered'[d] = now,
           playing' \subseteq Devices, beatDue' \subseteq Devices, statusDue' \subseteq Devices,
           \A p \in copies' : p.kind = "beat" /\ p.device \in Devices,
           \A rx \in InFlight' : \/ rx \in InFlight
                                 \/ rx.at = now /\ rx.stamp \in Nat /\ PacketOK(rx.packet)
    PROVE  SourceInv'
<1>1. SourceShape /\ FlightInv /\ MasterInv /\ ToldInv /\ ResolvedInv /\ now \in Nat
  BY DEF SourceInv, SourceShape
<1>2. \A d \in Devices : /\ mastered'[d] \in Nat \cup {Never} /\ mastered[d] <= mastered'[d]
                         /\ mastered'[d] <= now
                         /\ mastered[d] = now => mastered'[d] = now
  BY <1>1, SourceFacts DEF SourceShape
<1>3. SourceShape'
  BY <1>1, <1>2 DEF SourceShape, PeerOK
<1>4. FlightInv'
  BY <1>1, <1>2 DEF FlightInv, PacketOK
<1>5. MasterInv'
  <2> SUFFICES ASSUME NEW e \in Devices
               PROVE  /\ Mastering(e)' => mastered'[e] = now'
                      /\ peers'[e].status # NoStatus /\ peers'[e].status.master
                         => peers'[e].status.at <= mastered'[e]
                      /\ ClaimHeard(e)' => /\ peers'[e].status.at = claimed'[e]
                                           /\ peers'[e].status.master
                                           /\ ~ peers'[e].status.yielding
    BY DEF MasterInv
  <2>1. /\ peers[e].status # NoStatus /\ peers[e].status.master
           => peers[e].status.at <= mastered[e]
        /\ ClaimHeard(e) => /\ peers[e].status.at = claimed[e]
                            /\ peers[e].status.master /\ ~ peers[e].status.yielding
        /\ peers[e].status.at \in Nat \cup {Never}
        /\ mastered[e] \in Nat \cup {Never}
    BY <1>1 DEF MasterInv, SourceShape, PeerOK
  <2>2. ClaimHeard(e)' = ClaimHeard(e)
    BY DEF ClaimHeard
  <2>3. QED
    BY <1>2, <2>1, <2>2, SourceFacts
<1>6. ToldInv' /\ ResolvedInv'
  BY <1>1 DEF ToldInv, ResolvedInv
<1>7. QED
  BY <1>3, <1>4, <1>5, <1>6 DEF SourceInv

LEMMA InvQueue ==
    ASSUME SourceInv, NEW port \in Ports, Queue(port)
    PROVE  SourceInv' /\ InFlight' \subseteq InFlight /\ copies' = copies
<1>1. /\ peers' = peers /\ lastBeats' = lastBeats /\ target' = target /\ followed' = followed
      /\ lastBpm' = lastBpm /\ turn' = turn /\ ticked' = ticked /\ batch' = batch /\ now' = now
      /\ toldLast' = toldLast /\ claimed' = claimed /\ stamp' = stamp /\ role' = role
      /\ mastered' = mastered /\ playing' = playing /\ beatDue' = beatDue
      /\ statusDue' = statusDue /\ copies' = copies
      /\ queue' = queue \cup held[port] /\ held' = [held EXCEPT ![port] = {}]
  BY DEF Queue, tableVars, followVars, boothVars, ghostVars
<1>2. SourceShape /\ MasterInv
  BY DEF SourceInv
<1>3. DOMAIN held' = Ports /\ \A q \in Ports : held'[q] \subseteq held[q]
  BY <1>1, <1>2 DEF SourceShape
<1>4. InFlight' \subseteq InFlight
  BY <1>1, <1>3 DEF InFlight
<1>5. SourceInv'
  BY <1>1, <1>2, <1>3, <1>4, InvKept DEF SourceShape, MasterInv, Mastering
<1>6. QED
  BY <1>1, <1>4, <1>5

LEMMA InvFollow ==
    ASSUME SourceInv, NEW want \in Targets, Follow(want)
    PROVE  SourceInv'
<1>1. /\ peers' = peers /\ lastBeats' = lastBeats /\ target' = want
      /\ followed' = Resolve(peers, want, now) /\ lastBpm' = NoTempo
      /\ turn' = turn /\ ticked' = ticked /\ batch' = batch /\ now' = now
      /\ claimed' = claimed /\ stamp' = stamp /\ role' = role /\ queue' = queue /\ held' = held
      /\ mastered' = mastered /\ playing' = playing /\ beatDue' = beatDue
      /\ statusDue' = statusDue /\ copies' = copies
  BY DEF Follow, tableVars, threadVars, boothVars
<1>2. InFlight' = InFlight
  BY <1>1 DEF InFlight
<1>3. SourceShape'
  BY <1>1 DEF SourceInv, SourceShape, PeerOK
<1>4. FlightInv'
  BY <1>1, <1>2 DEF SourceInv, FlightInv, PacketOK
<1>5. MasterInv'
  BY <1>1 DEF SourceInv, MasterInv, Mastering, ClaimHeard
<1>6. ToldInv' /\ ResolvedInv'
  BY <1>1 DEF ToldInv, ResolvedInv
<1>7. QED
  BY <1>3, <1>4, <1>5, <1>6 DEF SourceInv

\* A packet that is stamped is under way.
LEMMA Sends ==
    ASSUME SourceInv, NEW p, Stamped(p)
    PROVE  /\ stamp' = stamp + 1 /\ stamp' \in Nat \ {0} /\ DOMAIN held' = Ports
           /\ batch' = batch => InFlight' \subseteq InFlight \cup {Received(p)}
           /\ Received(p).at = now /\ Received(p).stamp \in Nat /\ Received(p).packet = p
<1>1. stamp \in Nat /\ DOMAIN held = Ports /\ PortOf(p) \in Ports
  BY DEF SourceInv, SourceShape, PortOf, Ports
<1>2. stamp' = stamp + 1
  BY DEF Stamped
<1>3. /\ Received(p).at = now /\ Received(p).stamp \in Nat /\ Received(p).packet = p
  BY <1>1 DEF Received
<1>4. \/ queue' = queue \cup {Received(p)} /\ held' = held
      \/ held' = [held EXCEPT ![PortOf(p)] = {Received(p)}] /\ queue' = queue
  BY DEF Stamped
<1>5. /\ DOMAIN held' = Ports
      /\ \A port \in Ports : held'[port] \subseteq held[port] \cup {Received(p)}
  BY <1>1, <1>4
<1>6. queue' \subseteq queue \cup {Received(p)}
  BY <1>4
<1>7. batch' = batch => InFlight' \subseteq InFlight \cup {Received(p)}
  <2> SUFFICES ASSUME batch' = batch, NEW rx \in InFlight'
               PROVE  rx \in InFlight \cup {Received(p)}
    OBVIOUS
  <2>1. rx \in queue' \/ rx \in batch \/ \E port \in Ports : rx \in held'[port]
    BY DEF InFlight
  <2>2. QED
    BY <1>5, <1>6, <2>1 DEF InFlight
<1>8. QED
  BY <1>1, <1>2, <1>3, <1>5, <1>7

\* What a step of the booth does: who was master stays noted, or is so now; at
\* most one packet leaves, and nothing was sent before a change.
NotesMasters ==
    /\ DOMAIN role' = Devices /\ DOMAIN mastered' = Devices
    /\ playing' \subseteq Devices /\ beatDue' \subseteq Devices /\ statusDue' \subseteq Devices
    /\ \A d \in Devices : /\ mastered'[d] \in {mastered[d], now}
                          /\ Mastering(d)' => mastered'[d] = now

SendsNothing ==
    /\ held' = held /\ queue' = queue /\ stamp' = stamp /\ copies' = copies
    /\ beatDue' \subseteq beatDue \/ stamp = 0

SendsOne(p) ==
    /\ Stamped(p) /\ PacketOK(p)
    /\ \/ p.kind # "beat" /\ copies' = copies /\ beatDue' = beatDue
       \/ /\ p.kind = "beat" /\ p.device \in beatDue
          /\ copies' \subseteq copies \cup {p} /\ beatDue' = beatDue \ {p.device}
       \/ p \in copies /\ copies' = copies \ {p} /\ beatDue' = beatDue

LEMMA BoothFacts ==
    ASSUME SourceInv
    PROVE  /\ DOMAIN role = Devices /\ DOMAIN mastered = Devices
           /\ playing \subseteq Devices /\ beatDue \subseteq Devices /\ statusDue \subseteq Devices
           /\ \A d \in Devices : Mastering(d) => mastered[d] = now
BY DEF SourceInv, SourceShape, MasterInv

LEMMA PacketsOK ==
    ASSUME SourceInv, NEW d \in Devices
    PROVE  /\ PacketOK(Status(d)) /\ Status(d).kind # "beat"
           /\ PacketOK(Presence(d)) /\ Presence(d).kind # "beat"
           /\ PacketOK(BeatPacket(d)) /\ BeatPacket(d).kind = "beat"
           /\ BeatPacket(d).device = d
BY BoothFacts DEF PacketOK, Status, CdjStatus, MixerStatus, Presence, BeatPacket, Mastering

LEMMA StatusSent ==
    ASSUME SourceInv, NEW d \in Devices, SendStatus(d) \/ LoseStatus(d)
    PROVE  BoothStep /\ NotesMasters /\ (SendsNothing \/ \E p : SendsOne(p))
<1>1. CASE SendStatus(d)
  <2>1. BoothStep /\ mastered' = mastered /\ role' = role
    BY <1>1 DEF SendStatus, Transmit
  <2>2. NotesMasters
    BY <1>1, <2>1, BoothFacts DEF SendStatus, NotesMasters, Mastering
  <2>3. SendsOne(Status(d))
    BY <1>1, PacketsOK DEF SendStatus, Transmit, SendsOne
  <2>4. QED
    BY <2>1, <2>2, <2>3
<1>2. CASE LoseStatus(d)
  <2>1. BoothStep /\ mastered' = mastered /\ role' = role
    BY <1>2 DEF LoseStatus, Transmit
  <2>2. NotesMasters
    BY <1>2, <2>1, BoothFacts DEF LoseStatus, NotesMasters, Mastering
  <2>3. SendsNothing \/ SendsOne(Presence(d))
    BY <1>2, PacketsOK DEF LoseStatus, Transmit, SendsOne, SendsNothing
  <2>4. QED
    BY <2>1, <2>2, <2>3
<1>3. QED
  BY <1>1, <1>2

LEMMA BeatSent ==
    ASSUME SourceInv, NEW d \in Devices, SendBeat(d) \/ LoseBeat(d)
    PROVE  BoothStep /\ NotesMasters /\ (SendsNothing \/ \E p : SendsOne(p))
<1>1. CASE SendBeat(d)
  <2>1. BoothStep /\ mastered' = mastered /\ role' = role
    BY <1>1 DEF SendBeat, Transmit
  <2>2. NotesMasters
    BY <1>1, <2>1, BoothFacts DEF SendBeat, NotesMasters, Mastering
  <2>3. SendsOne(BeatPacket(d))
    <3> DEFINE p == BeatPacket(d)
    <3>1. PacketOK(p) /\ p.kind = "beat" /\ p.device = d
      BY PacketsOK
    <3>2. /\ Stamped(p) /\ d \in beatDue /\ beatDue' = beatDue \ {d}
          /\ copies' = IF TwiceOnNet THEN copies \cup {p} ELSE copies
      BY <1>1 DEF SendBeat, Transmit
    <3> HIDE DEF p
    <3>3. QED
      BY <3>1, <3>2 DEF SendsOne, p
  <2>4. QED
    BY <2>1, <2>2, <2>3
<1>2. CASE LoseBeat(d)
  <2>1. BoothStep /\ mastered' = mastered /\ role' = role
    BY <1>2 DEF LoseBeat
  <2>2. NotesMasters
    BY <1>2, <2>1, BoothFacts DEF LoseBeat, NotesMasters, Mastering
  <2>3. SendsNothing
    BY <1>2 DEF LoseBeat, SendsNothing
  <2>4. QED
    BY <2>1, <2>2, <2>3
<1>3. QED
  BY <1>1, <1>2

LEMMA CopySent ==
    ASSUME SourceInv, NEW p \in copies, CopyArrives(p)
    PROVE  BoothStep /\ NotesMasters /\ SendsOne(p)
<1>1. BoothStep /\ mastered' = mastered /\ role' = role
  BY DEF CopyArrives, Transmit
<1>2. NotesMasters
  BY <1>1, BoothFacts DEF CopyArrives, NotesMasters, Mastering
<1>3. PacketOK(p)
  BY DEF SourceInv, SourceShape, PacketOK
<1>4. SendsOne(p)
  BY <1>3 DEF CopyArrives, Transmit, SendsOne
<1>5. QED
  BY <1>1, <1>2, <1>4

LEMMA Changes ==
    ASSUME SourceInv, NEW d \in Devices,
           \/ EndHandoff(d) \/ TakeMaster(d) \/ Leave(d) \/ StartStop(d)
           \/ \E e \in Devices : BeginHandoff(d, e)
           \/ \E t \in Tempos : ChangeTempo(d, t)
    PROVE  BoothStep /\ NotesMasters /\ SendsNothing
<1>1. BoothStep /\ SendsNothing
  BY DEF EndHandoff, TakeMaster, Leave, StartStop, BeginHandoff, ChangeTempo, Change, SendsNothing
<1>2. CASE EndHandoff(d)
  BY <1>1, <1>2, BoothFacts DEF EndHandoff, NotesMasters, Mastering
<1>3. CASE TakeMaster(d)
  BY <1>1, <1>3, BoothFacts DEF TakeMaster, NotesMasters, Mastering
<1>4. CASE Leave(d)
  BY <1>1, <1>4, BoothFacts DEF Leave, NotesMasters, Mastering
<1>5. CASE StartStop(d)
  <2>1. playing' \subseteq Devices
    BY <1>5, BoothFacts DEF StartStop
  <2>2. QED
    BY <1>1, <1>5, <2>1, BoothFacts DEF StartStop, NotesMasters, Mastering
<1>6. ASSUME NEW e \in Devices, BeginHandoff(d, e) PROVE NotesMasters
  BY <1>6, BoothFacts DEF BeginHandoff, NotesMasters, Mastering
<1>7. ASSUME NEW t \in Tempos, ChangeTempo(d, t) PROVE NotesMasters
  BY <1>7, BoothFacts DEF ChangeTempo, NotesMasters, Mastering
<1>8. QED
  BY <1>1, <1>2, <1>3, <1>4, <1>5, <1>6, <1>7

LEMMA BoothSends ==
    ASSUME SourceInv, Booth
    PROVE  BoothStep /\ NotesMasters /\ (SendsNothing \/ \E p : SendsOne(p))
<1>1. CASE \E p \in copies : CopyArrives(p)
  <2>1. PICK p \in copies : CopyArrives(p)
    BY <1>1
  <2>2. BoothStep /\ NotesMasters /\ SendsOne(p)
    BY <2>1, CopySent
  <2>3. QED
    BY <2>2
<1>2. ASSUME NEW d \in Devices,
             SendStatus(d) \/ LoseStatus(d) \/ SendBeat(d) \/ LoseBeat(d)
      PROVE  BoothStep /\ NotesMasters /\ (SendsNothing \/ \E p : SendsOne(p))
  BY <1>2, StatusSent, BeatSent
<1>3. QED
  BY <1>1, <1>2, Changes DEF Booth

LEMMA InvBooth ==
    ASSUME SourceInv, Booth
    PROVE  SourceInv'
<1>1. BoothStep /\ NotesMasters /\ (SendsNothing \/ \E p : SendsOne(p))
  BY BoothSends
<1>2. /\ peers' = peers /\ lastBeats' = lastBeats /\ target' = target /\ followed' = followed
      /\ lastBpm' = lastBpm /\ turn' = turn /\ ticked' = ticked /\ batch' = batch /\ now' = now
      /\ toldLast' = toldLast /\ claimed' = claimed
  BY <1>1 DEF BoothStep, tableVars, followVars
<1>3. /\ stamp \in Nat /\ DOMAIN held = Ports
      /\ \A p \in copies : p.kind = "beat" /\ p.device \in Devices
  BY DEF SourceInv, SourceShape
<1>4. CASE SendsNothing
  <2>1. InFlight' = InFlight
    BY <1>2, <1>4 DEF InFlight, SendsNothing
  <2>2. QED
    BY <1>1, <1>2, <1>3, <1>4, <2>1, InvKept DEF NotesMasters, SendsNothing
<1>5. ASSUME NEW p, SendsOne(p) PROVE SourceInv'
  <2>1. Stamped(p) /\ PacketOK(p)
    BY <1>5 DEF SendsOne
  <2>2. /\ stamp' \in Nat /\ DOMAIN held' = Ports
        /\ \A rx \in InFlight' : \/ rx \in InFlight
                                 \/ rx.at = now /\ rx.stamp \in Nat /\ PacketOK(rx.packet)
    BY <1>2, <2>1, Sends
  <2>3. \A q \in copies' : q.kind = "beat" /\ q.device \in Devices
    BY <1>3, <1>5, <2>1 DEF SendsOne, PacketOK
  <2>4. QED
    BY <1>1, <1>2, <2>2, <2>3, InvKept DEF NotesMasters
<1>6. QED
  BY <1>1, <1>4, <1>5

LEMMA InvAdvance ==
    ASSUME SourceInv, Advance
    PROVE  SourceInv' /\ InFlight' = {} /\ copies' = {}
<1>1. /\ peers' = peers /\ lastBeats' = lastBeats /\ target' = target /\ followed' = followed
      /\ lastBpm' = lastBpm /\ turn' = turn /\ ticked' = ticked /\ batch' = batch
      /\ toldLast' = toldLast /\ claimed' = claimed /\ role' = role /\ queue' = queue /\ held' = held
      /\ playing' = playing /\ copies' = copies /\ now' = now + 1 /\ stamp' = 0
      /\ beatDue' = playing /\ statusDue' \subseteq Devices
      /\ mastered' = [d \in Devices |-> IF Mastering(d) THEN now + 1 ELSE mastered[d]]
      /\ turn = "waits" /\ ticked = now /\ copies = {}
      /\ queue = {} /\ \A port \in Ports : held[port] = {}
  BY DEF Advance, tableVars, followVars
<1>2. SourceShape /\ MasterInv /\ ToldInv /\ now \in Nat
  BY DEF SourceInv, SourceShape
<1>3. batch = {} /\ DOMAIN held = Ports
  BY <1>1, <1>2 DEF SourceShape
<1>4. InFlight' = {}
  BY <1>1, <1>3 DEF InFlight
<1>5. /\ DOMAIN mastered' = Devices
      /\ \A d \in Devices : /\ mastered'[d] \in Nat \cup {Never} /\ mastered'[d] <= now + 1
                            /\ mastered[d] <= mastered'[d]
                            /\ Mastering(d) => mastered'[d] = now + 1
  BY <1>1, <1>2, SourceFacts DEF SourceShape
<1>6. \A d \in Devices : PeerOK(peers'[d], now + 1)
  BY <1>1, <1>2, SourceFacts DEF SourceShape, PeerOK
<1>7. SourceShape'
  <2>1. \A d \in Devices : /\ lastBeats[d].at \in Nat \cup {Never} /\ lastBeats[d].at <= now + 1
                           /\ claimed[d] \in Nat \cup {Never} /\ claimed[d] <= now + 1
    BY <1>2, SourceFacts DEF SourceShape
  <2>2. QED
    BY <1>1, <1>2, <1>3, <1>5, <1>6, <2>1 DEF SourceShape, PeerOK
<1>8. FlightInv'
  BY <1>4 DEF FlightInv
<1>9. MasterInv'
  <2> SUFFICES ASSUME NEW e \in Devices
               PROVE  /\ Mastering(e)' => mastered'[e] = now'
                      /\ peers'[e].status # NoStatus /\ peers'[e].status.master
                         => peers'[e].status.at <= mastered'[e]
                      /\ ClaimHeard(e)' => /\ peers'[e].status.at = claimed'[e]
                                           /\ peers'[e].status.master
                                           /\ ~ peers'[e].status.yielding
    BY DEF MasterInv
  <2>1. /\ peers[e].status # NoStatus /\ peers[e].status.master
           => peers[e].status.at <= mastered[e]
        /\ ClaimHeard(e) => /\ peers[e].status.at = claimed[e]
                            /\ peers[e].status.master /\ ~ peers[e].status.yielding
        /\ peers[e].status.at \in Nat \cup {Never} /\ claimed[e] \in Nat \cup {Never}
        /\ mastered[e] \in Nat \cup {Never}
    BY <1>2 DEF MasterInv, SourceShape, PeerOK
  <2>2. ClaimHeard(e)' => ClaimHeard(e)
    BY <1>1, <1>2, <2>1, SourceFacts DEF ClaimHeard
  <2>3. Mastering(e)' = Mastering(e)
    BY <1>1 DEF Mastering
  <2>4. QED
    BY <1>1, <1>2, <1>5, <2>1, <2>2, <2>3, SourceFacts
<1>10. ToldInv' /\ ResolvedInv'
  BY <1>1, <1>2 DEF ToldInv, ResolvedInv
<1>11. QED
  BY <1>1, <1>4, <1>7, <1>8, <1>9, <1>10 DEF SourceInv

\* The packet the source thread takes was under way.
LEMMA Taken ==
    ASSUME SourceInv, Wake \/ NextPacket
    PROVE  \E rx \in InFlight : /\ Handle(rx) /\ rx.packet = Given
                                /\ InFlight' \subseteq InFlight
<1>1. FlightInv /\ DOMAIN held = Ports
  BY DEF SourceInv, SourceShape
<1>2. CASE Wake
  <2>1. /\ queue # {} /\ Handle(Earliest(queue)) /\ turn = "waits"
        /\ queue' = {} /\ batch' \subseteq queue
    BY <1>2 DEF Wake
  <2>2. Earliest(queue) \in queue
    <3>1. \A rx \in queue : rx.stamp \in Nat
      BY <1>1 DEF FlightInv, InFlight
    <3>2. QED
      BY <2>1, <3>1, EarliestIsOne
  <2>3. InFlight' \subseteq InFlight
    BY <2>1 DEF InFlight, Handle
  <2>4. QED
    BY <2>1, <2>2, <2>3 DEF InFlight, Given
<1>3. CASE NextPacket
  <2>1. /\ batch # {} /\ Handle(Earliest(batch)) /\ turn = "batch"
        /\ queue' = queue /\ batch' \subseteq batch
    BY <1>3 DEF NextPacket
  <2>2. Earliest(batch) \in batch
    <3>1. \A rx \in batch : rx.stamp \in Nat
      BY <1>1 DEF FlightInv, InFlight
    <3>2. QED
      BY <2>1, <3>1, EarliestIsOne
  <2>3. InFlight' \subseteq InFlight
    BY <2>1 DEF InFlight, Handle
  <2>4. QED
    BY <2>1, <2>2, <2>3 DEF InFlight, Given
<1>4. QED
  BY <1>2, <1>3

LEMMA SourceStarts == SourceInit => SourceInv
<1> SUFFICES ASSUME SourceInit PROVE SourceInv
  OBVIOUS
<1>1. /\ peers = [d \in Devices |-> NewPeer] /\ lastBeats = [d \in Devices |-> [at |-> Never]]
      /\ lastBpm = NoTempo /\ held = [port \in Ports |-> {}] /\ queue = {} /\ batch = {}
      /\ turn = "waits" /\ ticked = Never /\ stamp = 0 /\ now = 0
      /\ role \in [Devices -> {"none", "master"}] /\ playing \in {Devices, {}}
      /\ statusDue = Devices /\ beatDue = playing /\ copies = {}
      /\ mastered = [d \in Devices |-> IF Mastering(d) THEN 0 ELSE Never]
      /\ claimed = [d \in Devices |-> Never]
  BY DEF SourceInit
<1>2. InFlight = {}
  BY <1>1 DEF InFlight
<1>3. PeerOK(NewPeer, 0)
  BY SourceFacts DEF PeerOK, NewPeer, NoStatus, PeerFields
<1>4. SourceShape
  BY <1>1, <1>3, SourceFacts DEF SourceShape
<1>5. MasterInv
  BY <1>1 DEF MasterInv, ClaimHeard, NewPeer
<1>6. FlightInv /\ ToldInv /\ ResolvedInv
  BY <1>1, <1>2, SourceFacts DEF FlightInv, ToldInv, ResolvedInv
<1>7. QED
  BY <1>4, <1>5, <1>6 DEF SourceInv

LEMMA SourceStays ==
    ASSUME SourceInv, UNCHANGED sourceVars
    PROVE  SourceInv' /\ InFlight' = InFlight
<1>1. InFlight' = InFlight
  BY DEF sourceVars, threadVars, InFlight
<1>2. SourceInv'
  BY <1>1 DEF sourceVars, tableVars, followVars, threadVars, boothVars, ghostVars, SourceInv, SourceShape,
     PeerOK, FlightInv, PacketOK, ToldInv, MasterInv, Mastering, ClaimHeard, ResolvedInv
<1>3. QED
  BY <1>1, <1>2

LEMMA SourceStep == SourceInv /\ [SourceNext]_sourceVars => SourceInv'
<1> SUFFICES ASSUME SourceInv, [SourceNext]_sourceVars PROVE SourceInv'
  OBVIOUS
<1>1. CASE \E port \in Ports : Queue(port)
  BY <1>1, InvQueue
<1>2. CASE Wake \/ NextPacket
  BY <1>2, Taken, InvHandle
<1>3. CASE \E want \in Targets : Follow(want)
  BY <1>3, InvFollow
<1>4. CASE UNCHANGED sourceVars
  BY <1>4, SourceStays
<1>5. QED
  BY <1>1, <1>2, <1>3, <1>4, InvTick, InvBooth, InvAdvance DEF SourceNext

\* The invariant of the listening half (source.rs, devices.rs): packets are of
\* the period they were sent in, the tempo kept was told of the device followed,
\* a master in the table was one when it said so, and what is followed is what
\* the table resolves to.
THEOREM SourceInvariant == SourceSpec => []SourceInv
BY SourceStarts, SourceStep, PTL DEF SourceSpec

-----------------------------------------------------------------------------
(* The master                                                                *)

\* When the tempo master is to be followed, it is, once its claim was heard and
\* nobody else was the master of late (resolve, master).
THEOREM MasterIsFollowed == SourceSpec => []FollowsTheMaster
<1>1. SourceInv => FollowsTheMaster
  <2> SUFFICES ASSUME SourceInv, target = Master, turn = "waits", ticked = now,
                      NEW m \in Devices, role[m] = "master", ClaimHeard(m),
                      \A e \in Devices \ {m} : ~ RecentMaster(e)
               PROVE  followed = m
    BY DEF FollowsTheMaster
  <2> DEFINE claims == {d \in Present(peers) : FreshStatus(peers, d, now) /\ peers[d].status.master}
             settled == {d \in claims : ~ peers[d].status.yielding}
  <2>1. /\ MasterInv /\ now \in Nat /\ followed = Resolve(peers, target, now)
        /\ \A d \in Devices : /\ PeerOK(peers[d], now)
                              /\ claimed[d] \in Nat \cup {Never} /\ claimed[d] <= now
                              /\ mastered[d] \in Nat \cup {Never} /\ mastered[d] <= now
    BY DEF SourceInv, SourceShape, ResolvedInv
  <2>2. m \in settled
    <3>1. /\ peers[m].status.at = claimed[m] /\ claimed[m] \in Nat
          /\ peers[m].status.master /\ ~ peers[m].status.yielding
          /\ now - claimed[m] <= STATUS_FRESH
      BY <2>1, SourceFacts DEF MasterInv, ClaimHeard
    <3>2. peers[m].status # NoStatus /\ peers[m].seen # Never
      BY <2>1, <3>1, SourceFacts DEF PeerOK, NoStatus
    <3>3. QED
      BY <2>1, <3>1, <3>2, SourceFacts DEF Present, FreshStatus, Minus
  <2>3. ASSUME NEW e \in settled PROVE e = m
    <3>1. /\ e \in Devices /\ peers[e].status # NoStatus /\ peers[e].status.master
          /\ Minus(now, peers[e].status.at) <= STATUS_FRESH
      BY DEF Present, FreshStatus
    <3>2. /\ peers[e].status.at \in Nat /\ peers[e].status.at <= mastered[e]
          /\ mastered[e] \in Nat /\ mastered[e] <= now
      BY <2>1, <3>1, SourceFacts DEF MasterInv, PeerOK
    <3>3. RecentMaster(e)
      BY <2>1, <3>1, <3>2, SourceFacts DEF RecentMaster, Minus
    <3>4. QED
      BY <3>1, <3>3
  <2>4. settled = {m} /\ m # NoDevice
    BY <2>2, <2>3, SourceFacts
  <2>5. MasterOf(peers, now) = Lowest(IF settled # {} THEN settled ELSE claims)
    BY DEF MasterOf
  <2> HIDE DEF settled, claims
  <2>6. MasterOf(peers, now) = m
    BY <2>4, <2>5, SourceFacts DEF Lowest
  <2>7. QED
    BY <2>1, <2>4, <2>6 DEF Resolve
<1>2. QED
  BY <1>1, SourceInvariant, PTL

-----------------------------------------------------------------------------
(* The beats                                                                 *)

\* A copy comes sooner than the next beat of a device can, so that it comes in
\* the period the beat was sent in.
CopiesAreClose == DUPLICATE_BEAT = 0

LEMMA AboutShrinks ==
    ASSUME InFlight' \subseteq InFlight, copies' \subseteq copies
    PROVE  About' \subseteq About
BY DEF About

\* Less under way and less due.
LEMMA BeatsLess ==
    ASSUME BeatsInv, About' \subseteq About, beatDue' \subseteq beatDue, lastBeats' = lastBeats,
           seen' = seen, now' = now, stamp' = 0 => stamp = 0
    PROVE  BeatsInv'
BY DEF BeatsInv, Remembered

\* What was remembered of this period is told from the next beat.
LEMMA CopyIsSeen ==
    ASSUME CopiesAreClose, SourceInv, BeatsInv, NEW rx \in InFlight, rx.packet.kind = "beat"
    PROVE  DuplicateBeat(rx.packet, rx.at) <=> BeatId(rx.packet) \in seen
<1> DEFINE p == rx.packet
<1>1. rx.at = now /\ p.device \in Devices /\ p \in About /\ now \in Nat
  BY DEF SourceInv, SourceShape, FlightInv, PacketOK, About
<1>2. lastBeats[p.device].at \in Nat \cup {Never} /\ lastBeats[p.device].at <= now
  BY <1>1 DEF SourceInv, SourceShape
<1>3. Minus(now, lastBeats[p.device].at) <= 0 <=> lastBeats[p.device].at = now
  BY <1>1, <1>2, SourceFacts DEF Minus
<1>4. DuplicateBeat(p, now) <=> Remembered(p)
  BY <1>1, <1>3, SourceFacts DEF DuplicateBeat, Remembered, CopiesAreClose
<1>5. QED
  BY <1>1, <1>4 DEF BeatsInv

LEMMA BeatsHandle ==
    ASSUME CopiesAreClose, SourceInv, BeatsInv, NEW rx \in InFlight, Handle(rx),
           InFlight' \subseteq InFlight
    PROVE  BeatsInv'
<1> DEFINE p == rx.packet
           d == p.device
<1>1. /\ now' = now /\ stamp' = stamp /\ beatDue' = beatDue /\ copies' = copies
  BY DEF Handle, boothVars
<1>2. About' \subseteq About /\ p \in About
  BY <1>1, AboutShrinks DEF About
<1>3. CASE lastBeats' = lastBeats /\ seen' = seen
  BY <1>1, <1>2, <1>3, BeatsLess
<1>4. CASE BeatReceived(rx) /\ DuplicateBeat(p, rx.at)
  <2>1. lastBeats' = lastBeats /\ seen' = seen \cup {BeatId(p)} /\ p.kind = "beat"
    BY <1>4 DEF BeatReceived, tableVars, BeatId
  <2>2. BeatId(p) \in seen
    BY <1>4, <2>1, CopyIsSeen
  <2>3. QED
    BY <1>3, <2>1, <2>2
<1>5. CASE BeatReceived(rx) /\ ~ DuplicateBeat(p, rx.at)
  <2>1. /\ lastBeats' = [lastBeats EXCEPT ![d] = [at |-> rx.at, bytes |-> Bytes(p)]]
        /\ seen' = seen \cup {BeatId(p)} /\ p.kind = "beat"
    BY <1>5 DEF BeatReceived, BeatId
  <2>2. /\ rx.at = now /\ d \in Devices /\ DOMAIN lastBeats = Devices
        /\ \A e \in beatDue : e \in Devices
    BY DEF SourceInv, SourceShape, FlightInv, PacketOK
  <2>3. /\ lastBeats'[d].at = now /\ lastBeats'[d].bytes = Bytes(p)
        /\ \A e \in Devices \ {d} : lastBeats'[e] = lastBeats[e]
    BY <2>1, <2>2
  <2>4. \A q \in About : q.kind = "beat" /\ q.device = d => q = p
    BY <1>2, <2>1 DEF BeatsInv
  <2>5. \A q \in About : q.kind = "beat" => q.device \in Devices
    BY DEF SourceInv, SourceShape, FlightInv, PacketOK, About
  <2>6. ASSUME NEW q \in About', q.kind = "beat"
        PROVE  Remembered(q)' <=> BeatId(q) \in seen'
    <3>1. CASE q = p
      BY <1>1, <2>1, <2>3, <3>1 DEF Remembered
    <3>2. CASE q # p
      <4>1. q \in About /\ q.device \in Devices \ {d}
        BY <1>2, <2>4, <2>5, <2>6, <3>2
      <4>2. BeatId(q) # BeatId(p)
        BY <4>1 DEF BeatId
      <4>3. Remembered(q)' <=> Remembered(q)
        BY <1>1, <2>3, <4>1 DEF Remembered
      <4>4. QED
        BY <2>1, <2>6, <4>1, <4>2, <4>3 DEF BeatsInv
    <3>3. QED
      BY <3>1, <3>2
  <2>7. ASSUME NEW e \in beatDue
        PROVE  /\ lastBeats'[e].at # now
               /\ \A q \in About' : q.kind = "beat" => q.device # e
               /\ \A x \in seen' : x[1] # e
    <3>1. /\ lastBeats[e].at # now /\ \A q \in About : q.kind = "beat" => q.device # e
          /\ \A x \in seen : x[1] # e
      BY DEF BeatsInv
    <3>2. e # d
      BY <1>2, <2>1, <3>1
    <3>3. QED
      BY <1>2, <2>1, <2>2, <2>3, <3>1, <3>2 DEF BeatId
  <2>8. stamp # 0
    BY <1>2 DEF BeatsInv
  <2>9. QED
    BY <1>1, <1>2, <2>6, <2>7, <2>8 DEF BeatsInv
<1>6. QED
  BY <1>3, <1>4, <1>5 DEF Handle, StatusReceived, PresenceReceived

LEMMA BeatsBooth ==
    ASSUME SourceInv, BeatsInv, Booth
    PROVE  BeatsInv'
<1>1. BoothStep /\ NotesMasters /\ (SendsNothing \/ \E p : SendsOne(p))
  BY BoothSends
<1>2. /\ lastBeats' = lastBeats /\ seen' = seen /\ now' = now /\ batch' = batch
      /\ beatDue' \subseteq Devices /\ stamp \in Nat
  BY <1>1 DEF BoothStep, tableVars, NotesMasters, SourceInv, SourceShape
<1>3. CASE SendsNothing
  <2>1. About' = About /\ stamp' = stamp
    BY <1>2, <1>3 DEF SendsNothing, About, InFlight
  <2>2. CASE beatDue' \subseteq beatDue
    BY <1>2, <2>1, <2>2, BeatsLess
  <2>3. CASE stamp = 0
    BY <1>2, <2>1, <2>3 DEF BeatsInv
  <2>4. QED
    BY <1>3, <2>2, <2>3 DEF SendsNothing
<1>4. ASSUME NEW p, SendsOne(p) PROVE BeatsInv'
  <2>1. /\ stamp' # 0 /\ InFlight' \subseteq InFlight \cup {Received(p)}
        /\ Received(p).packet = p
    BY <1>2, <1>4, Sends DEF SendsOne
  <2>2. copies' \subseteq copies \cup {p} => About' \subseteq About \cup {p}
    BY <2>1 DEF About
  <2>3. CASE p \in copies /\ copies' = copies \ {p} /\ beatDue' = beatDue
    <3>1. About' \subseteq About
      BY <2>2, <2>3 DEF About
    <3>2. QED
      BY <1>2, <2>1, <2>3, <3>1, BeatsLess
  <2>4. CASE p.kind # "beat" /\ copies' = copies /\ beatDue' = beatDue
    <3>1. About' \subseteq About \cup {p}
      BY <2>2, <2>4
    <3>2. QED
      BY <1>2, <2>1, <2>4, <3>1 DEF BeatsInv, Remembered
  <2>5. CASE /\ p.kind = "beat" /\ p.device \in beatDue
             /\ copies' \subseteq copies \cup {p} /\ beatDue' = beatDue \ {p.device}
    <3>1. About' \subseteq About \cup {p}
      BY <2>2, <2>5
    <3>2. /\ lastBeats[p.device].at # now
          /\ \A q \in About : q.kind = "beat" => q.device # p.device
          /\ \A x \in seen : x[1] # p.device
      BY <2>5 DEF BeatsInv
    <3>3. ~ Remembered(p)' /\ BeatId(p) \notin seen'
      BY <1>2, <3>2 DEF Remembered, BeatId
    <3>4. QED
      BY <1>2, <2>1, <2>5, <3>1, <3>2, <3>3 DEF BeatsInv, Remembered
  <2>6. QED
    BY <1>4, <2>3, <2>4, <2>5 DEF SendsOne
<1>5. QED
  BY <1>1, <1>3, <1>4

LEMMA BeatsStep ==
    ASSUME CopiesAreClose
    PROVE  SourceInv /\ BeatsInv /\ [SourceNext]_sourceVars => BeatsInv'
<1> SUFFICES ASSUME SourceInv, BeatsInv, [SourceNext]_sourceVars PROVE BeatsInv'
  OBVIOUS
<1>1. ASSUME NEW port \in Ports, Queue(port) PROVE BeatsInv'
  <2>1. /\ lastBeats' = lastBeats /\ seen' = seen /\ now' = now /\ beatDue' = beatDue
        /\ stamp' = stamp
    BY <1>1 DEF Queue, tableVars, boothVars, ghostVars
  <2>2. About' \subseteq About
    BY <1>1, InvQueue, AboutShrinks
  <2>3. QED
    BY <2>1, <2>2, BeatsLess
<1>2. CASE Wake \/ NextPacket
  BY <1>2, Taken, BeatsHandle
<1>3. CASE TrackerTick \/ \E want \in Targets : Follow(want)
  <2>1. /\ lastBeats' = lastBeats /\ seen' = seen /\ now' = now /\ beatDue' = beatDue
        /\ stamp' = stamp /\ copies' = copies /\ queue' = queue /\ held' = held /\ batch' = batch
    BY <1>3 DEF TrackerTick, Follow, tableVars, boothVars, threadVars
  <2>2. About' = About
    BY <2>1 DEF About, InFlight
  <2>3. QED
    BY <2>1, <2>2, BeatsLess
<1>4. CASE Advance
  <2>1. About' = {}
    BY <1>4, InvAdvance DEF About
  <2>2. /\ lastBeats' = lastBeats /\ seen' = {} /\ now' = now + 1 /\ beatDue' = playing
    BY <1>4 DEF Advance, tableVars
  <2>3. \A d \in Devices : lastBeats'[d].at # now'
    BY <2>2, SourceFacts DEF SourceInv, SourceShape
  <2>4. QED
    BY <2>1, <2>2, <2>3 DEF BeatsInv, SourceInv, SourceShape
<1>5. CASE UNCHANGED sourceVars
  <2>1. About' = About
    BY <1>5, SourceStays DEF About, sourceVars, boothVars
  <2>2. QED
    BY <1>5, <2>1, BeatsLess DEF sourceVars, tableVars, threadVars, boothVars, ghostVars
<1>6. QED
  BY <1>1, <1>2, <1>3, <1>4, <1>5, BeatsBooth DEF SourceNext

LEMMA BeatsStart == SourceInit => BeatsInv
<1> SUFFICES ASSUME SourceInit PROVE BeatsInv
  OBVIOUS
<1>1. /\ lastBeats = [d \in Devices |-> [at |-> Never]] /\ held = [port \in Ports |-> {}]
      /\ queue = {} /\ batch = {} /\ stamp = 0 /\ now = 0
      /\ playing \in {Devices, {}} /\ beatDue = playing /\ copies = {} /\ seen = {}
  BY DEF SourceInit
<1>2. About = {}
  BY <1>1 DEF About, InFlight
<1>3. QED
  BY <1>1, <1>2, SourceFacts DEF BeatsInv

\* The invariant of the beats: a device has one under way in a period, and the
\* tracker remembers it from the first copy on (duplicate_beat).
THEOREM BeatsInvariant ==
    ASSUME CopiesAreClose
    PROVE  SourceSpec => []BeatsInv
BY BeatsStart, BeatsStep, SourceInvariant, PTL DEF SourceSpec

\* Every beat of the device followed is observed once, whether its packet
\* arrives once or twice and whatever comes in between (duplicate_beat).
THEOREM EveryBeatOnce ==
    ASSUME CopiesAreClose
    PROVE  SourceSpec => BeatsObservedOnce
<1>1. SourceInv /\ BeatsInv /\ [SourceNext]_sourceVars
      => [(Wake \/ NextPacket) /\ Given.kind = "beat" =>
            (obs' # <<>> <=> BeatId(Given) \notin seen /\ followed' = Given.device)]_sourceVars
  <2> SUFFICES ASSUME SourceInv, BeatsInv, Wake \/ NextPacket, Given.kind = "beat"
               PROVE  obs' # <<>> <=> BeatId(Given) \notin seen /\ followed' = Given.device
    OBVIOUS
  <2>1. PICK rx \in InFlight : Handle(rx) /\ rx.packet = Given
    BY Taken
  <2>2. BeatReceived(rx)
    BY <2>1 DEF Handle, StatusReceived, PresenceReceived
  <2>3. DuplicateBeat(rx.packet, rx.at) <=> BeatId(Given) \in seen
    BY <2>1, CopyIsSeen
  <2>4. CASE DuplicateBeat(rx.packet, rx.at)
    BY <2>2, <2>3, <2>4 DEF BeatReceived, Quiet
  <2>5. CASE ~ DuplicateBeat(rx.packet, rx.at)
    <3> DEFINE to == Resolve(Beaten(peers, rx.packet.device, rx.at), target, rx.at)
               phase == IF BarMeaningful(rx.packet.device) THEN "bar" ELSE "beat"
    <3>1. /\ followed' = to
          /\ IF to = rx.packet.device THEN Observe(Observation(rx, phase), to)
                                      ELSE Quiet /\ lastBpm' = BpmAfter(to)
      BY <2>2, <2>5 DEF BeatReceived
    <3> HIDE DEF to, phase
    <3>2. CASE to = rx.packet.device
      <4>1. obs' = <<Observation(rx, phase)>>
        BY <3>1, <3>2 DEF Observe
      <4>2. obs' # <<>>
        <5> DEFINE o == Observation(rx, phase)
        <5> HIDE DEF o
        <5>1. <<o>> # <<>>
          OBVIOUS
        <5>2. QED
          BY <4>1, <5>1 DEF o
      <4>3. QED
        BY <2>1, <2>3, <2>5, <3>1, <3>2, <4>2
    <3>3. CASE to # rx.packet.device
      BY <2>1, <3>1, <3>3 DEF Quiet
    <3>4. QED
      BY <3>2, <3>3
  <2>6. QED
    BY <2>4, <2>5
<1>2. QED
  BY <1>1, SourceInvariant, BeatsInvariant, PTL DEF SourceSpec, BeatsObservedOnce

\* After every packet with a tempo of the device followed, the listeners have
\* been told that tempo of that device (tempo_update, refollow).
THEOREM TempoAlwaysTold ==
    ASSUME CopiesAreClose
    PROVE  SourceSpec => TempoIsTold
<1>1. SourceInv /\ BeatsInv /\ [SourceNext]_sourceVars
      => [(Wake \/ NextPacket) /\ CarriesTempo(Given) /\ Given.device = followed'
            => toldLast' = <<Given.device, Given.tempo>>]_sourceVars
  <2> SUFFICES ASSUME SourceInv, BeatsInv, Wake \/ NextPacket, CarriesTempo(Given),
                      Given.device = followed'
               PROVE  toldLast' = <<Given.device, Given.tempo>>
    OBVIOUS
  <2>1. PICK rx \in InFlight : Handle(rx) /\ rx.packet = Given
    BY Taken
  <2> DEFINE p == rx.packet
  <2>2. p.tempo # NoTempo /\ p.device = followed'
    BY <2>1 DEF CarriesTempo
  <2>3. ASSUME NEW phase, NEW to, Observe(Observation(rx, phase), to)
        PROVE  toldLast' = <<p.device, p.tempo>>
    <3> DEFINE o == Observation(rx, phase)
    <3>1. o.device = p.device /\ o.tempo = p.tempo
      BY DEF Observation
    <3> HIDE DEF o
    <3>2. QED
      BY <2>2, <2>3, <3>1 DEF Observe, o
  <2>4. CASE p.kind = "beat"
    <3> DEFINE to == Resolve(Beaten(peers, p.device, rx.at), target, rx.at)
               phase == IF BarMeaningful(p.device) THEN "bar" ELSE "beat"
    <3>1. BeatReceived(rx) /\ BeatId(p) \notin seen
      BY <2>1, <2>4 DEF Handle, StatusReceived, PresenceReceived, CarriesTempo
    <3>2. ~ DuplicateBeat(p, rx.at)
      BY <2>4, <3>1, CopyIsSeen
    <3>3. /\ followed' = to
          /\ IF to = p.device THEN Observe(Observation(rx, phase), to)
                              ELSE Quiet /\ lastBpm' = BpmAfter(to)
      BY <3>1, <3>2 DEF BeatReceived
    <3> HIDE DEF to, phase
    <3>4. QED
      BY <2>1, <2>2, <2>3, <3>3
  <2>5. CASE p.kind # "beat"
    <3> DEFINE to == Resolve(WithStatus(peers, p, rx.at), target, rx.at)
    <3>1. StatusReceived(rx) /\ (p.kind = "mixerStatus" \/ p.playing)
      BY <2>1, <2>5 DEF Handle, BeatReceived, PresenceReceived, CarriesTempo
    <3>2. followed' = to /\ TempoUpdate(rx, to)
      BY <3>1 DEF StatusReceived
    <3> HIDE DEF to
    <3>3. CASE Observe(Observation(rx, "tempoOnly"), to)
      BY <2>1, <2>3, <3>3
    <3>4. CASE p.tempo = BpmAfter(to) /\ Quiet
      <4>1. to = followed /\ lastBpm = p.tempo
        BY <2>2, <3>4 DEF BpmAfter
      <4>2. toldLast = <<followed, lastBpm>>
        BY <2>2, <4>1 DEF SourceInv, ToldInv
      <4>3. QED
        BY <2>1, <2>2, <3>2, <3>4, <4>1, <4>2 DEF Quiet
    <3>5. QED
      BY <2>2, <3>2, <3>3, <3>4 DEF TempoUpdate
  <2>6. QED
    BY <2>4, <2>5
<1>2. QED
  BY <1>1, SourceInvariant, BeatsInvariant, PTL DEF SourceSpec, TempoIsTold
===============================================================================
