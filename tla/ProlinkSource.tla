----------------------------- MODULE ProlinkSource -----------------------------
(* The listening half of the Pro DJ Link source: the receive threads, the    *)
(* source thread that drains them and the tracker that decides which device  *)
(* to follow (core/sync/src/prolink/source.rs), over the table of devices    *)
(* (devices.rs).  Joining is in ProlinkJoin.                                 *)
(*                                                                           *)
(* Around them stands a booth: decks and mixers that pass the role of tempo  *)
(* master on, start, stop and go, on a network that loses packets and may    *)
(* deliver a broadcast twice.  Time passes in periods of the status packets. *)
EXTENDS Integers, Sequences, FiniteSets

CONSTANTS
    Devices,         \* device numbers on the network
    Mixers,          \* those that are mixers, the others are players
    Tempos,          \* what a device's tempo may be; NoTempo: no analysed track
    Targets,         \* what the user may ask to follow: Master or a number
    FollowedFirst,      \* what is followed at start
    DEVICE_TIMEOUT,  \* a device silent for longer has left
    STATUS_FRESH,    \* a status older than this is stale
    BEAT_WINDOW,     \* beats at least this close together mean playing
    DUPLICATE_BEAT,  \* a copy of a beat comes within this time
    TwiceOnNet,   \* whether the host is on the network twice
    Preempted,       \* whether a receive thread may be held up before it queues
    MaxQueue,        \* packets received while the source thread does not drain
    MaxTime,         \* length of a run in periods
    MaxMissed,         \* status packets the network may lose
    MaxChanges,      \* changes of role, playing and tempo in the booth
    MaxCommands,     \* commands of the user
    BarLength        \* beats of a bar: 4

Master == 0          \* FollowTarget::Master, the others are device numbers
Never == -1
NoDevice == 0        \* Some(None): nothing to follow
Unresolved == -1     \* None: not resolved since the last command
NoTempo == 0

ASSUME SourceAssumption ==
    /\ Devices \subseteq Nat \ {0} /\ Mixers \subseteq Devices
    /\ Tempos \subseteq Nat /\ Tempos \ {NoTempo} # {}
    /\ Targets \subseteq Devices \cup {Master} /\ FollowedFirst \in Targets /\ Master \notin Devices
    /\ DUPLICATE_BEAT \in Nat /\ STATUS_FRESH \in Nat
    /\ BEAT_WINDOW \in Nat /\ DEVICE_TIMEOUT \in Nat
    /\ DUPLICATE_BEAT < STATUS_FRESH
    /\ STATUS_FRESH <= BEAT_WINDOW /\ BEAT_WINDOW < DEVICE_TIMEOUT
    /\ TwiceOnNet \in BOOLEAN /\ Preempted \in BOOLEAN /\ MaxQueue \in Nat \ {0}
    /\ MaxTime \in Nat /\ MaxMissed \in Nat /\ MaxChanges \in Nat
    /\ MaxCommands \in Nat /\ BarLength \in Nat \ {0}

VARIABLES
    \* the tracker
    peers,      \* the device table
    target,     \* what the user asked to follow
    followed,   \* the device it resolved to
    lastBpm,    \* tempo last observed from it
    lastBeats,  \* of each device: its last beat packet
    listed,   \* the device list last reported
    \* the threads
    held,       \* of each receive thread: what it has stamped, not yet queued
    queue,      \* the channel to the source thread
    batch,      \* what the source thread has drained from it
    turn,       \* the source thread "waits" or works on its "batch"
    ticked,     \* when it last ticked
    stamp,      \* packets stamped so far in this period
    now,
    \* external: the booth and its network
    role,       \* of each device: "off", "none", "master" or "yielding"
    playing,    \* devices that play
    tempo,      \* of each device
    beats,      \* of each device: where in the bar its next beat is
    statusDue,  \* devices whose status of this period is due
    beatDue,    \* devices whose beat of this period is due
    copies,     \* beats whose second copy is on its way
    missed, changes, commands,
    \* what the listeners have been told, and what the booth did
    toldLast,       \* device and tempo of the last observation that carried one
    obs,        \* observations of the last step
    seen,       \* beats of this period the tracker has been given
    mastered,   \* of each device: when it last was or yielded the master
    claimed     \* of each device: when its claim to be master last arrived

tableVars == <<peers, lastBeats, listed>>
followVars == <<target, followed, lastBpm>>
threadVars == <<held, queue, batch, turn, ticked, stamp>>
boothVars == <<role, playing, tempo, beats, statusDue, beatDue, copies, missed, changes>>
ghostVars == <<toldLast, seen, mastered, claimed>>
sourceVars == <<tableVars, followVars, threadVars, now, boothVars, commands,
          ghostVars, obs>>

Ports == {"beat", "status"}

Minus(a, b) == IF a >= b THEN a - b ELSE 0    \* saturating_sub

-----------------------------------------------------------------------------
(* Packets.  beat tells the beats of a device apart for the properties; the  *)
(* bytes of a beat packet hold its place in the bar and its tempo.           *)

BeatPacket(d) ==
    [kind |-> "beat", device |-> d, bar |-> beats[d] + 1, tempo |-> tempo[d],
     beat |-> beats[d]]
Bytes(p) == <<p.bar, p.tempo>>

CdjStatus(d) ==
    [kind |-> "cdjStatus", device |-> d, playing |-> d \in playing, tempo |-> tempo[d],
     master |-> role[d] \in {"master", "yielding"}, yielding |-> role[d] = "yielding"]

MixerStatus(d) ==
    [kind |-> "mixerStatus", device |-> d, playing |-> FALSE, tempo |-> tempo[d],
     master |-> role[d] \in {"master", "yielding"}, yielding |-> role[d] = "yielding"]

Status(d) == IF d \in Mixers THEN MixerStatus(d) ELSE CdjStatus(d)

\* A keep-alive or a precise position: it shows that the device is there.
Presence(d) == [kind |-> "presence", device |-> d]

PortOf(p) == IF p.kind \in {"cdjStatus", "mixerStatus"} THEN "status" ELSE "beat"

-----------------------------------------------------------------------------
(* The device table.                                                         *)

NoStatus == [at |-> Never]
NewPeer == [seen |-> Never, status |-> NoStatus, lastBeat |-> Never, interval |-> Never]
Present(table) == {d \in Devices : table[d].seen # Never}

Touch(table, d, at) == [table EXCEPT ![d].seen = at]

\* Mutant: a status never grows stale.
AnyStatus(table, d, at) == table[d].status # NoStatus

FreshStatus(table, d, at) ==
    /\ table[d].status # NoStatus
    /\ Minus(at, table[d].status.at) <= STATUS_FRESH

Beaten(table, d, at) ==
    LET last == table[d].lastBeat
        gap  == Minus(at, last)
    IN  [Touch(table, d, at) EXCEPT
            ![d].lastBeat = at,
            ![d].interval = IF last = Never THEN @
                            ELSE IF gap > 0 /\ gap <= 4 * BEAT_WINDOW THEN gap
                            ELSE Never]

WithStatus(table, p, at) ==
    [Touch(table, p.device, at) EXCEPT ![p.device].status =
        [at |-> at, playing |-> p.playing, master |-> p.master, yielding |-> p.yielding]]

Expired(table, at) ==
    [d \in Devices |-> IF Minus(at, table[d].seen) <= DEVICE_TIMEOUT THEN table[d]
                                                                     ELSE NewPeer]

\* Two and a half beats, if that is longer than the window.
WindowOf(interval) ==
    LET patience == (interval * 5) \div 2
    IN  IF interval # Never /\ patience > BEAT_WINDOW THEN patience ELSE BEAT_WINDOW

Playing(table, d, at) ==
    IF FreshStatus(table, d, at) /\ d \notin Mixers
    THEN table[d].status.playing
    ELSE /\ table[d].lastBeat # Never
         /\ Minus(at, table[d].lastBeat) <= WindowOf(table[d].interval)

Lowest(S) == IF S = {} THEN NoDevice ELSE CHOOSE d \in S : \A e \in S : d <= e

\* Two may claim to be master during a handoff: one that does not yield wins.
MasterOf(table, at) ==
    LET claims == {d \in Present(table) :
                      FreshStatus(table, d, at) /\ table[d].status.master}
        settled == {d \in claims : ~ table[d].status.yielding}
    IN  Lowest(IF settled # {} THEN settled ELSE claims)

Resolve(table, want, at) ==
    IF want # Master THEN want
    ELSE IF MasterOf(table, at) # NoDevice THEN MasterOf(table, at)
    ELSE Lowest({d \in Present(table) \ Mixers : Playing(table, d, at)})

\* What a report of the list tells of a device, but for tempo and on-air flag.
Snapshot(table, at) ==
    [d \in Present(table) |->
        [playing |-> d \notin Mixers /\ Playing(table, d, at),
         master |-> FreshStatus(table, d, at) /\ table[d].status.master]]

\* A player's beat marks its place in the bar, a mixer's does not.
BarMeaningful(d) == d \notin Mixers

-----------------------------------------------------------------------------
(* The tracker.                                                              *)

\* Mutant: the last tempo is kept.
BpmKept(d) == lastBpm

\* The last tempo is forgotten with the device it came from.
BpmAfter(d) == IF d = followed THEN lastBpm ELSE NoTempo

Observation(rx, phase) ==
    [device |-> rx.packet.device, phase |-> phase, tempo |-> rx.packet.tempo,
     host |-> rx.stamp]

\* An observation leaves; to is the device now followed.
Observe(o, to) ==
    /\ obs' = <<o>>
    /\ IF o.tempo # NoTempo
       THEN toldLast' = <<o.device, o.tempo>> /\ lastBpm' = o.tempo
       ELSE lastBpm' = BpmAfter(to) /\ UNCHANGED toldLast

Quiet ==
    /\ obs' = <<>>
    /\ UNCHANGED toldLast

\* The tempo of a device that is not followed, and one told before, are not news.
TempoUpdate(rx, to) ==
    IF rx.packet.device = to /\ rx.packet.tempo \notin {NoTempo, BpmAfter(to)}
    THEN Observe(Observation(rx, "tempoOnly"), to)
    ELSE Quiet /\ lastBpm' = BpmAfter(to)

ReportDevices(table, at) == listed' = Snapshot(table, at)

\* Mutant: the window is open at its end.
DuplicateBeatWithin(p, at) ==
    /\ lastBeats[p.device].at # Never
    /\ Minus(at, lastBeats[p.device].at) < DUPLICATE_BEAT
    /\ lastBeats[p.device].bytes = Bytes(p)

\* Of the same device (and so the same address), soon after, byte for byte.
DuplicateBeat(p, at) ==
    /\ lastBeats[p.device].at # Never
    /\ Minus(at, lastBeats[p.device].at) <= DUPLICATE_BEAT
    /\ lastBeats[p.device].bytes = Bytes(p)

BeatReceived(rx) ==
    LET p     == rx.packet
        table == Beaten(peers, p.device, rx.at)
        to    == Resolve(table, target, rx.at)
        phase == IF BarMeaningful(p.device) THEN "bar" ELSE "beat"
    IN  /\ p.kind = "beat"
        /\ seen' = seen \cup {<<p.device, p.beat>>}
        /\ UNCHANGED <<target, claimed>>
        /\ IF DuplicateBeat(p, rx.at)
           THEN Quiet /\ UNCHANGED <<tableVars, followed, lastBpm>>
           ELSE /\ lastBeats' = [lastBeats EXCEPT ![p.device] =
                                    [at |-> rx.at, bytes |-> Bytes(p)]]
                /\ peers' = table /\ followed' = to
                /\ IF to = p.device THEN Observe(Observation(rx, phase), to)
                                    ELSE Quiet /\ lastBpm' = BpmAfter(to)
                /\ ReportDevices(table, rx.at)

StatusReceived(rx) ==
    LET p     == rx.packet
        table == WithStatus(peers, p, rx.at)
        to    == Resolve(table, target, rx.at)
    IN  /\ p.kind \in {"cdjStatus", "mixerStatus"}
        /\ peers' = table /\ followed' = to
        /\ IF p.kind = "mixerStatus" \/ p.playing
           THEN TempoUpdate(rx, to)
           ELSE Quiet /\ lastBpm' = BpmAfter(to)
        /\ ReportDevices(table, rx.at)
        /\ claimed' = [claimed EXCEPT ![p.device] =
                          IF p.master /\ ~ p.yielding THEN rx.at ELSE Never]
        /\ UNCHANGED <<target, lastBeats, seen>>

PresenceReceived(rx) ==
    LET table == Touch(peers, rx.packet.device, rx.at)
    IN  /\ rx.packet.kind = "presence"
        /\ peers' = table
        /\ ReportDevices(table, rx.at) /\ Quiet
        /\ UNCHANGED <<followVars, lastBeats, seen, claimed>>

-----------------------------------------------------------------------------
(* The threads.                                                              *)

Received(p) == [packet |-> p, at |-> now, stamp |-> stamp + 1]

\* A receive thread stamps a datagram, and then queues it: other threads may
\* run in between.
Stamped(p) ==
    /\ Cardinality(queue) < MaxQueue
    /\ held[PortOf(p)] = {}
    /\ stamp' = stamp + 1
    /\ \/ queue' = queue \cup {Received(p)} /\ UNCHANGED held
       \/ /\ Preempted /\ held' = [held EXCEPT ![PortOf(p)] = {Received(p)}]
          /\ UNCHANGED queue

Queue(port) ==
    /\ held[port] # {}
    /\ queue' = queue \cup held[port]
    /\ held' = [held EXCEPT ![port] = {}]
    /\ obs' = <<>>
    /\ UNCHANGED <<tableVars, followVars, batch, turn, ticked, stamp, now, boothVars, commands, ghostVars>>

\* A batch is handled in the order of its times, so what is in the channel and
\* in the batch are sets.
Earliest(S) == CHOOSE rx \in S : \A other \in S : rx.stamp <= other.stamp

Handle(rx) ==
    /\ BeatReceived(rx) \/ StatusReceived(rx) \/ PresenceReceived(rx)
    /\ turn' = "batch"
    /\ UNCHANGED <<held, ticked, stamp, now, boothVars, commands, mastered>>

\* The thread takes what is queued and handles it packet by packet.
Wake ==
    /\ turn = "waits" /\ queue # {}
    /\ queue' = {} /\ batch' = queue \ {Earliest(queue)}
    /\ Handle(Earliest(queue))

NextPacket ==
    /\ turn = "batch" /\ batch # {}
    /\ batch' = batch \ {Earliest(batch)}
    /\ Handle(Earliest(batch))
    /\ UNCHANGED queue

\* After every batch, and after a wait without packets.
TrackerTick ==
    LET table == Expired(peers, now)
        to    == Resolve(table, target, now)
    IN  /\ \/ turn = "batch" /\ batch = {}
           \/ turn = "waits" /\ queue = {} /\ ticked # now
        /\ turn' = "waits" /\ ticked' = now
        /\ peers' = table /\ followed' = to
        /\ lastBpm' = BpmAfter(to)
        /\ ReportDevices(table, now) /\ Quiet
        /\ UNCHANGED <<target, lastBeats, held, queue, batch, stamp, now, boothVars,
                       commands, seen, mastered, claimed>>

\* SourceCommand::Follow, taken before the channel is drained.
Follow(want) ==
    /\ turn = "waits" /\ stamp = 0 /\ now > 0
    /\ commands < MaxCommands /\ commands' = commands + 1
    /\ target' = want
    /\ followed' = Resolve(peers, want, now)
    /\ lastBpm' = NoTempo
    /\ Quiet
    /\ UNCHANGED <<tableVars, threadVars, now, boothVars, seen, mastered, claimed>>

-----------------------------------------------------------------------------
(* External: the booth.  A packet sent while the source thread works on a    *)
(* batch waits in the channel either way.                                    *)

On(d) == role[d] # "off"
Mastering(d) == role[d] \in {"master", "yielding"}

BoothStep ==
    /\ turn = "waits"
    /\ obs' = <<>>
    /\ UNCHANGED <<tableVars, followVars, batch, turn, ticked, now, commands, toldLast, seen, claimed>>

Transmit(p) == BoothStep /\ Stamped(p) /\ UNCHANGED mastered

SendStatus(d) ==
    /\ d \in statusDue
    /\ statusDue' = statusDue \ {d}
    /\ Transmit(Status(d))
    /\ UNCHANGED <<role, playing, tempo, beats, beatDue, copies, missed, changes>>

\* The status is lost; a broadcast of the device may still arrive.
LoseStatus(d) ==
    /\ d \in statusDue /\ missed < MaxMissed
    /\ statusDue' = statusDue \ {d}
    /\ missed' = missed + 1
    /\ \/ Transmit(Presence(d))
       \/ BoothStep /\ UNCHANGED <<held, queue, stamp, mastered>>
    /\ UNCHANGED <<role, playing, tempo, beats, beatDue, copies, changes>>

\* A host on two interfaces gets every broadcast twice.
SendBeat(d) ==
    /\ d \in beatDue
    /\ beatDue' = beatDue \ {d}
    /\ Transmit(BeatPacket(d))
    /\ beats' = [beats EXCEPT ![d] = (@ + 1) % BarLength]
    /\ copies' = IF TwiceOnNet THEN copies \cup {BeatPacket(d)} ELSE copies
    /\ UNCHANGED <<role, playing, tempo, statusDue, missed, changes>>

LoseBeat(d) ==
    /\ d \in beatDue /\ missed < MaxMissed
    /\ beatDue' = beatDue \ {d}
    /\ beats' = [beats EXCEPT ![d] = (@ + 1) % BarLength]
    /\ missed' = missed + 1
    /\ BoothStep
    /\ UNCHANGED <<role, playing, tempo, statusDue, copies, changes, held, queue, stamp, mastered>>

CopyArrives(p) ==
    /\ p \in copies
    /\ copies' = copies \ {p}
    /\ Transmit(p)
    /\ UNCHANGED <<role, playing, tempo, beats, statusDue, beatDue, missed, changes>>

\* Changes come between the packets of one period and those of the next.
Change ==
    /\ changes < MaxChanges /\ changes' = changes + 1
    /\ stamp = 0 /\ now > 0
    /\ BoothStep /\ UNCHANGED <<held, queue, stamp, beats, copies, missed>>

\* The master m yields to d; a device that yields is soon the master no more.
BeginHandoff(m, d) ==
    /\ role[m] = "master" /\ role[d] = "none"
    /\ role' = [role EXCEPT ![m] = "yielding", ![d] = "master"]
    /\ Change
    /\ mastered' = [mastered EXCEPT ![d] = now]
    /\ UNCHANGED <<playing, tempo, statusDue, beatDue>>

EndHandoff(m) ==
    /\ role[m] = "yielding" /\ stamp = 0
    /\ role' = [role EXCEPT ![m] = "none"]
    /\ BoothStep
    /\ UNCHANGED <<playing, tempo, beats, statusDue, beatDue, copies, missed, changes,
                   held, queue, stamp, mastered>>

\* Nobody is the master.
TakeMaster(d) ==
    /\ role[d] = "none" /\ \A e \in Devices : ~ Mastering(e)
    /\ role' = [role EXCEPT ![d] = "master"]
    /\ Change
    /\ mastered' = [mastered EXCEPT ![d] = now]
    /\ UNCHANGED <<playing, tempo, statusDue, beatDue>>

\* A device is switched off, or cut off.
Leave(d) ==
    /\ On(d)
    /\ role' = [role EXCEPT ![d] = "off"]
    /\ playing' = playing \ {d}
    /\ statusDue' = statusDue \ {d} /\ beatDue' = beatDue \ {d}
    /\ Change
    /\ UNCHANGED <<tempo, mastered>>

StartStop(d) ==
    /\ On(d)
    /\ playing' = IF d \in playing THEN playing \ {d} ELSE playing \cup {d}
    /\ beatDue' = playing'
    /\ Change
    /\ UNCHANGED <<role, tempo, statusDue, mastered>>

ChangeTempo(d, t) ==
    /\ On(d) /\ tempo[d] # t
    /\ tempo' = [tempo EXCEPT ![d] = t]
    /\ Change
    /\ UNCHANGED <<role, playing, statusDue, beatDue, mastered>>

\* The next period, once what was sent has been received and the source thread
\* has polled.
Advance ==
    /\ now < MaxTime
    /\ turn = "waits" /\ ticked = now
    /\ queue = {} /\ \A port \in Ports : held[port] = {}
    /\ statusDue = {} /\ beatDue = {} /\ copies = {}
    /\ now' = now + 1 /\ stamp' = 0 /\ seen' = {}
    /\ statusDue' = {d \in Devices : On(d)}
    /\ beatDue' = playing
    /\ mastered' = [d \in Devices |-> IF Mastering(d) THEN now + 1 ELSE mastered[d]]
    /\ obs' = <<>>
    /\ UNCHANGED <<tableVars, followVars, held, queue, batch, turn, ticked, role, playing,
                   tempo, beats, copies, missed, changes, commands, toldLast, claimed>>

-----------------------------------------------------------------------------

SourceInit ==
    /\ peers = [d \in Devices |-> NewPeer]
    /\ lastBeats = [d \in Devices |-> [at |-> Never]]
    /\ listed = Snapshot(peers, 0)
    /\ target = FollowedFirst
    /\ followed = Unresolved /\ lastBpm = NoTempo
    /\ held = [port \in Ports |-> {}] /\ queue = {} /\ batch = {}
    /\ turn = "waits" /\ ticked = Never /\ stamp = 0 /\ now = 0
    /\ role \in [Devices -> {"none", "master"}]
    /\ \A d, e \in Devices : role[d] = "master" /\ role[e] = "master" => d = e
    /\ playing \in {Devices, {}}
    /\ tempo = [d \in Devices |-> CHOOSE t \in Tempos : t # NoTempo]
    /\ beats = [d \in Devices |-> 0]
    /\ statusDue = Devices /\ beatDue = playing /\ copies = {}
    /\ missed = 0 /\ changes = 0 /\ commands = 0
    /\ toldLast = <<NoDevice, NoTempo>> /\ obs = <<>>
    /\ seen = {}
    /\ mastered = [d \in Devices |-> IF Mastering(d) THEN 0 ELSE Never]
    /\ claimed = [d \in Devices |-> Never]

Booth ==
    \/ \E d \in Devices :
          \/ SendStatus(d) \/ LoseStatus(d) \/ SendBeat(d) \/ LoseBeat(d)
          \/ EndHandoff(d) \/ TakeMaster(d) \/ Leave(d) \/ StartStop(d)
          \/ \E e \in Devices : BeginHandoff(d, e)
          \/ \E t \in Tempos : ChangeTempo(d, t)
    \/ \E p \in copies : CopyArrives(p)

SourceNext ==
    \/ \E port \in Ports : Queue(port)
    \/ Wake \/ NextPacket \/ TrackerTick
    \/ \E want \in Targets : Follow(want)
    \/ Booth
    \/ Advance

SourceSpec == SourceInit /\ [][SourceNext]_sourceVars

-----------------------------------------------------------------------------
(* What should hold.                                                         *)

\* The packet a step of the source thread handles.
Given == IF turn = "batch" THEN Earliest(batch).packet ELSE Earliest(queue).packet
BeatId(p) == <<p.device, p.beat>>

\* Every beat of the device that is followed is observed once, whether its
\* packet arrives once or twice and whatever arrives in between: a copy is
\* told from the next beat (duplicate_beat).
BeatsObservedOnce ==
    [][(Wake \/ NextPacket) /\ Given.kind = "beat" =>
         (obs' # <<>> <=> BeatId(Given) \notin seen /\ followed' = Given.device)]_sourceVars

CarriesTempo(p) ==
    \/ p.kind = "mixerStatus" /\ p.tempo # NoTempo
    \/ p.kind = "cdjStatus" /\ p.playing /\ p.tempo # NoTempo
    \/ p.kind = "beat" /\ BeatId(p) \notin seen /\ p.tempo # NoTempo

\* A tempo is held back only if the listeners know it of that device: after
\* every packet with a tempo from the device followed, the last tempo told is
\* that one (tempo_update against refollow).
TempoIsTold ==
    [][(Wake \/ NextPacket) /\ CarriesTempo(Given) /\ Given.device = followed'
         => toldLast' = <<Given.device, Given.tempo>>]_sourceVars

ClaimHeard(d) == claimed[d] # Never /\ now - claimed[d] <= STATUS_FRESH
RecentMaster(d) == mastered[d] # Never /\ now - mastered[d] <= STATUS_FRESH

\* When the tempo master is to be followed, it is: once its claim has been
\* heard and nobody else was the master of late, neither an old master's stale
\* claim nor a lower number that plays keeps the source from it (resolve,
\* master, and the refollow after every beat, status and tick).
FollowsTheMaster ==
    target = Master /\ turn = "waits" /\ ticked = now =>
        \A m \in Devices :
            /\ role[m] = "master" /\ ClaimHeard(m)
            /\ \A e \in Devices \ {m} : ~ RecentMaster(e)
            => followed = m

================================================================================
