------------------------------- MODULE Bridge -------------------------------
(***************************************************************************)
(* The bridge (src/apps/bridge): one hub thread follows a clock source and *)
(* tells its clients what it hears, an accept loop admits connections, and *)
(* each connection has a thread of its own.  They share the hub's state    *)
(* under a mutex, the counts of connections under another, and two stop    *)
(* flags.                                                                  *)
(*                                                                         *)
(* A message is known by its kind and by how many of that kind were stored *)
(* before it, so that a client's picture of the booth is one number for    *)
(* each kind.  A lock of a mutex is one action; what happens between two   *)
(* locks may be interleaved with anything.  Sockets are external: a read   *)
(* or a write ends as its environment likes, within the timeouts the code  *)
(* sets on it.                                                             *)
(***************************************************************************)
EXTENDS Integers, Sequences, FiniteSets

CONSTANTS
  Connections,      \* the threads a connection may run on
  Peers,            \* the addresses connections come from
  Loopback,         \* the one of them on this machine
  MaxConnections,   \* slots in all
  MaxPerPeer,       \* slots for one address that is not the loopback
  DeviceNumbers,    \* the devices a source may observe
  Targets,          \* those clients ask to follow; 0 is whoever is master
  Needed,           \* how many reports the source's precision has averaged for a lock
  MaxInputs,        \* bound: connections that arrive, messages of the source, follow
                    \* messages, timeline periods that end and a stop, together
  MaxReports        \* bound: observations are among them, and may be the last of so many

ASSUME SlotsAssumption ==
  /\ Loopback \in Peers
  /\ MaxConnections \in Nat \ {0}
  /\ MaxPerPeer \in Nat \ {0}

ASSUME NeededAssumption == Needed \subseteq Nat \ {0}

VARIABLES
  server,      \* the handle: "up", "stopping", "down"
  acceptor,    \* the accept loop: "accepting", or "closed", which is its own stop flag
  counts,      \* the slots taken, in all and by address
  conn,        \* each connection's thread: where it is, and the address it serves
  hub,         \* the hub thread: where it is, the message it tells, the lock it told last
  stored,      \* HubState: the last message of each kind, 0 for none
  registered,  \* HubState.clients
  outgoing,    \* each client's channel from the hub
  backlog,     \* what registering returned and is still to be sent
  view,        \* what each client was sent, the last of each kind
  follows,     \* the channel of follow messages to the hub
  booth,       \* the source's thread, its two channels and its target
  label,       \* BridgeClock: the device it names, and what its follower is at
  inputs       \* how many of those there were

bridgeVars == <<server, acceptor, counts, conn, hub, stored, registered, outgoing,
                backlog, view, follows, booth, label, inputs>>

MessageKinds == {"devices", "status", "timeline"}
HubMessage(kind, n) == [kind |-> kind, n |-> n]
NothingSeen == [k \in MessageKinds |-> 0]
NoMessage == HubMessage("status", 0)

-----------------------------------------------------------------------------
(***************************************************************************)
(* Slots.                                                                  *)
(***************************************************************************)
CanAdmit(peer) ==
  /\ counts.total < MaxConnections
  /\ peer = Loopback \/ counts.of[peer] < MaxPerPeer

Admitted(peer) == [total |-> counts.total + 1, of |-> [counts.of EXCEPT ![peer] = @ + 1]]

\* Mutant: the address keeps the slot of a connection that ended.
ReleasedTotal(peer) == [counts EXCEPT !.total = @ - 1]

Released(peer) == [total |-> counts.total - 1, of |-> [counts.of EXCEPT ![peer] = @ - 1]]

Input == inputs < MaxInputs /\ inputs' = inputs + 1

NoConnection == [pc |-> "none", peer |-> Loopback]
Moves(c, pc) == conn' = [conn EXCEPT ![c].pc = pc]

\* The accept loop takes a connection and a slot for it.  It may have looked at
\* the stop flag before the flag was set.  The connection's thread starts, or it
\* cannot, and the slot is dropped with what it was to run.
Accept(c, peer) ==
  /\ acceptor = "accepting"
  /\ conn[c].pc = "none"
  /\ Input
  /\ CanAdmit(peer)
  /\ counts' = Admitted(peer)
  /\ \E pc \in {"request", "ending"} : conn' = [conn EXCEPT ![c] = [pc |-> pc, peer |-> peer]]
  /\ UNCHANGED <<server, acceptor, hub, stored, registered, outgoing, backlog, view,
                 follows, booth, label>>

\* No slot: the connection is answered "503" by the accept loop itself.
RefuseArrival(peer) ==
  /\ acceptor = "accepting"
  /\ Input
  /\ ~CanAdmit(peer)
  /\ UNCHANGED <<server, acceptor, counts, conn, hub, stored, registered, outgoing,
                 backlog, view, follows, booth, label>>

\* The loop ends, and only then asks the connections to end.
AcceptorEnds ==
  /\ acceptor = "accepting"
  /\ server # "up"
  /\ acceptor' = "closed"
  /\ UNCHANGED <<server, counts, conn, hub, stored, registered, outgoing, backlog, view,
                 follows, booth, label, inputs>>

\* The slot is dropped, as the last thing of the thread.
Release(c) ==
  /\ conn[c].pc = "ending"
  /\ counts' = Released(conn[c].peer)
  /\ conn' = [conn EXCEPT ![c] = NoConnection]
  /\ UNCHANGED <<server, acceptor, hub, stored, registered, outgoing, backlog, view,
                 follows, booth, label, inputs>>

-----------------------------------------------------------------------------
(***************************************************************************)
(* A connection.                                                           *)
(***************************************************************************)

\* A page, an error, a refused origin, or no request within its deadline.
AnswerAndClose(c) ==
  /\ conn[c].pc = "request"
  /\ Moves(c, "ending")
  /\ UNCHANGED <<server, acceptor, counts, hub, stored, registered, outgoing, backlog,
                 view, follows, booth, label, inputs>>

Told(kind) == IF stored[kind] = 0 THEN <<>> ELSE <<HubMessage(kind, stored[kind])>>

\* Mutant: a client that registers is not given the timeline.
SnapshotWithoutTimeline == Told("devices") \o Told("status")

Snapshot == Told("devices") \o Told("status") \o Told("timeline")

\* The upgrade of an allowed origin: the channel joins the clients and the
\* last messages are copied under one lock.
RegisterClient(c) ==
  /\ conn[c].pc = "request"
  /\ registered' = registered \cup {c}
  /\ backlog' = [backlog EXCEPT ![c] = Snapshot]
  /\ Moves(c, "greeting")
  /\ UNCHANGED <<server, acceptor, counts, hub, stored, outgoing, view, follows, booth, label,
                 inputs>>

Seen(v, msg) == [v EXCEPT ![msg.kind] = msg.n]

\* The hello and the backlog, then the loop.
Greet(c) ==
  /\ conn[c].pc = "greeting"
  /\ IF backlog[c] = <<>>
     THEN Moves(c, "loop") /\ UNCHANGED <<view, backlog>>
     ELSE /\ view' = [view EXCEPT ![c] = Seen(@, Head(backlog[c]))]
          /\ backlog' = [backlog EXCEPT ![c] = Tail(@)]
          /\ UNCHANGED conn
  /\ UNCHANGED <<server, acceptor, counts, hub, stored, registered, outgoing, follows,
                 booth, label, inputs>>

\* In the loop it passes on the follow messages it reads
AskToFollow(c) ==
  /\ conn[c].pc = "loop"
  /\ Input
  /\ \E target \in Targets : follows' = Append(follows, target)
  /\ UNCHANGED <<server, acceptor, counts, conn, hub, stored, registered, outgoing, backlog,
                 view, booth, label>>

\* and sends what the hub told it.
Send(c) ==
  /\ conn[c].pc = "loop"
  /\ outgoing[c] # <<>>
  /\ view' = [view EXCEPT ![c] = Seen(@, Head(outgoing[c]))]
  /\ outgoing' = [outgoing EXCEPT ![c] = Tail(@)]
  /\ UNCHANGED <<server, acceptor, counts, conn, hub, stored, registered, backlog, follows,
                 booth, label, inputs>>

\* A close, a broken rule, a write that fails within its timeout, the end of
\* the stream, or a client silent for too long.
Leave(c) ==
  /\ conn[c].pc \in {"greeting", "loop"}
  /\ Moves(c, "leaving")
  /\ UNCHANGED <<server, acceptor, counts, hub, stored, registered, outgoing, backlog,
                 view, follows, booth, label, inputs>>

\* Mutant: the stop flag is looked at before the loop and not in it.
SeeStopBefore(c) ==
  /\ conn[c].pc = "greeting"
  /\ acceptor = "closed"
  /\ Moves(c, "leaving")
  /\ UNCHANGED <<server, acceptor, counts, hub, stored, registered, outgoing, backlog,
                 view, follows, booth, label, inputs>>

\* The accept loop's stop flag, at the head of a turn.
SeeStop(c) ==
  /\ conn[c].pc = "loop"
  /\ acceptor = "closed"
  /\ Moves(c, "leaving")
  /\ UNCHANGED <<server, acceptor, counts, hub, stored, registered, outgoing, backlog,
                 view, follows, booth, label, inputs>>

\* The receiver goes with the thread, and the client with it.
Unregister(c) ==
  /\ conn[c].pc = "leaving"
  /\ registered' = registered \ {c}
  /\ outgoing' = [outgoing EXCEPT ![c] = <<>>]
  /\ backlog' = [backlog EXCEPT ![c] = <<>>]
  /\ view' = [view EXCEPT ![c] = NothingSeen]
  /\ Moves(c, "ending")
  /\ UNCHANGED <<server, acceptor, counts, hub, stored, follows, booth, label, inputs>>

-----------------------------------------------------------------------------
(***************************************************************************)
(* The source: a thread with a channel of events, a channel of commands    *)
(* and a stop flag of its own (sync::net::SourceHandle).                   *)
(***************************************************************************)
Devices == [kind |-> "devices"]
Status == [kind |-> "status"]

\* With the device's phase, its tempo or both.
Observation(device, phase, tempo) ==
  [kind |-> "observation", device |-> device, phase |-> phase, tempo |-> tempo]

\* It follows its target; the master may be any device.
Observable == IF booth.target = 0 THEN DeviceNumbers ELSE {booth.target}

SourceReports ==
  /\ booth.state = "running"
  /\ \/ /\ Input
        /\ \E event \in {Devices, Status} : booth' = [booth EXCEPT !.events = Append(@, event)]
     \/ /\ inputs < MaxReports /\ inputs' = inputs + 1
        /\ \E d \in Observable, phase, tempo \in BOOLEAN :
             /\ phase \/ tempo
             /\ booth' = [booth EXCEPT !.events = Append(@, Observation(d, phase, tempo))]
  /\ UNCHANGED <<server, acceptor, counts, conn, hub, stored, registered, outgoing,
                 backlog, view, follows, label>>

SourceObeys ==
  /\ booth.state = "running"
  /\ booth.orders # <<>>
  /\ booth' = [booth EXCEPT !.target = Head(booth.orders), !.orders = Tail(@)]
  /\ UNCHANGED <<server, acceptor, counts, conn, hub, stored, registered, outgoing,
                 backlog, view, follows, label, inputs>>

SourceEnds ==
  /\ booth.state = "running"
  /\ booth.stop
  /\ booth' = [booth EXCEPT !.state = "ended"]
  /\ UNCHANGED <<server, acceptor, counts, conn, hub, stored, registered, outgoing,
                 backlog, view, follows, label, inputs>>

-----------------------------------------------------------------------------
(***************************************************************************)
(* The hub.                                                                *)
(***************************************************************************)
HubMoves(pc) == hub' = [hub EXCEPT !.pc = pc]
Tells(kind) == hub' = [hub EXCEPT !.pc = "store", !.msg = HubMessage(kind, stored[kind] + 1)]

\* The source starts, or its failure is the status every client is told.
HubStarts ==
  /\ hub.pc = "start"
  /\ \/ booth' = [booth EXCEPT !.state = "running"] /\ HubMoves("turn")
     \/ booth' = [booth EXCEPT !.state = "failed"] /\ Tells("status")
  /\ UNCHANGED <<server, acceptor, counts, conn, stored, registered, outgoing, backlog,
                 view, follows, label, inputs>>

-----------------------------------------------------------------------------
(***************************************************************************)
(* The clock.  label holds: whether it saw a source, and the device it     *)
(* names; of its follower, locked, resync_requested, the lock, how many    *)
(* reports it acquired and whether the tempo is known, and phaseOf, the    *)
(* device whose phase the timeline counts (its bar, or its beat where that *)
(* is all it reports).  Two fields are history: how many phase reports of  *)
(* the device named the follower used since it is named, and whether the   *)
(* tempo was known at the last of any.  Counts stop where they suffice.    *)
(***************************************************************************)
Enough(n) == IF n > booth.needed THEN booth.needed ELSE n

\* Mutant: another device's phase is not asked for.
RelabelledPatiently(event) ==
  [label EXCEPT !.seen = TRUE, !.device = event.device,
                !.named = IF event.device = label.device THEN @ ELSE 0]

\* The clock names the device of an observation at once, whatever the follower
\* makes of it; for another device it asks the follower to resync.
Relabelled(event) ==
  [label EXCEPT !.seen = TRUE, !.device = event.device,
                !.resync = @ \/ (label.seen /\ event.device # label.device),
                !.named = IF event.device = label.device THEN @ ELSE 0]

\* The n-th report acquired: the output snaps to the estimate when they are
\* enough and the tempo is known.  Until then it keeps its phase.
Acquired(l, n) ==
  IF n >= booth.needed /\ l.tempo
  THEN [l EXCEPT !.lock = "track", !.locked = TRUE, !.acquired = 0, !.phaseOf = l.device]
  ELSE [l EXCEPT !.lock = "acquire", !.acquired = Enough(n)]

\* A resync or a source that is back elsewhere is acquired afresh; a phase
\* that is near the estimate, or too far from it to be believed, is tracked.
TakePhase(l) ==
  LET heard == [l EXCEPT !.resync = FALSE, !.named = Enough(@ + 1), !.timed = l.tempo]
  IN \/ l.resync /\ label' = Acquired(heard, 1)
     \/ ~l.resync /\ l.lock = "acquire" /\ label' = Acquired(heard, l.acquired + 1)
     \/ ~l.resync /\ l.lock = "reacquire" /\ label' = Acquired([heard EXCEPT !.locked = FALSE], 1)
     \/ ~l.resync /\ l.lock # "acquire" /\ label' = [heard EXCEPT !.locked = TRUE, !.lock = "track"]

\* There is nothing to align, but the source is alive.
TakeTempo(l) ==
  label' = [l EXCEPT !.tempo = TRUE, !.locked = TRUE,
                     !.lock = IF @ = "reacquire" THEN "track" ELSE @]

\* A report may be ignored, as its stamp is too old, too far ahead or no later
\* than the last one used.  A tempo that is not reported may be measured
\* between two reports acquired.  Left out is a sample clock that goes back by
\* seconds: the bridge stamps with the host's, which does not.
Observe(event) ==
  \/ label' = Relabelled(event)
  \/ event.phase /\ \E measured \in {FALSE, label.acquired > 0} :
       TakePhase([Relabelled(event) EXCEPT !.tempo = @ \/ event.tempo \/ measured])
  \/ ~event.phase /\ TakeTempo(Relabelled(event))

\* The follower's lock may have run out.
LockRunsOut(locked) ==
  [label EXCEPT !.locked = locked,
                !.lock = IF label.locked /\ ~locked /\ @ = "track" THEN "reacquire" ELSE @]

-----------------------------------------------------------------------------
\* In a turn the hub handles all the source sent, one event at a time;
HubHandles ==
  /\ hub.pc = "turn"
  /\ booth.events # <<>>
  /\ booth' = [booth EXCEPT !.events = Tail(@)]
  /\ LET event == Head(booth.events)
     IN IF event.kind = "observation"
        THEN Observe(event) /\ UNCHANGED hub
        ELSE Tells(event.kind) /\ UNCHANGED label
  /\ UNCHANGED <<server, acceptor, counts, conn, stored, registered, outgoing, backlog,
                 view, follows, inputs>>

\* The message is stored under the lock, and told under the lock taken again.
HubStores ==
  /\ hub.pc = "store"
  /\ stored' = [stored EXCEPT ![hub.msg.kind] = hub.msg.n]
  /\ HubMoves("tell")
  /\ UNCHANGED <<server, acceptor, counts, conn, registered, outgoing, backlog, view,
                 follows, booth, label, inputs>>

HubTells ==
  /\ hub.pc = "tell"
  /\ outgoing' = [c \in Connections |-> IF c \in registered THEN Append(outgoing[c], hub.msg)
                                        ELSE outgoing[c]]
  /\ IF hub.msg.kind = "timeline" \/ booth.state = "failed"
     THEN HubMoves("sleep") ELSE HubMoves("turn")
  /\ UNCHANGED <<server, acceptor, counts, conn, stored, registered, backlog, view,
                 follows, booth, label, inputs>>

\* then the follow messages, which go to the source if there is one;
HubForwards ==
  /\ hub.pc = "turn"
  /\ booth.events = <<>>
  /\ follows # <<>>
  /\ follows' = Tail(follows)
  /\ booth' = IF booth.state = "failed" THEN booth
              ELSE [booth EXCEPT !.orders = Append(@, Head(follows))]
  /\ UNCHANGED <<server, acceptor, counts, conn, hub, stored, registered, outgoing, backlog,
                 view, label, inputs>>

\* last the time: the lock may have run out; a change of it is told at once, and
\* the timeline is told when its period is over.
HubTimes ==
  /\ hub.pc = "turn"
  /\ booth.events = <<>>
  /\ follows = <<>>
  /\ \E locked \in {FALSE, label.locked} :
       /\ label' = LockRunsOut(locked)
       /\ \/ /\ locked # hub.lastLocked
             /\ UNCHANGED inputs
             /\ hub' = [pc |-> "store", msg |-> HubMessage("timeline", stored["timeline"] + 1),
                        lastLocked |-> locked]
          \/ /\ locked = hub.lastLocked
             /\ Input
             /\ Tells("timeline")
          \/ /\ locked = hub.lastLocked
             /\ UNCHANGED inputs
             /\ HubMoves("sleep")
  /\ UNCHANGED <<server, acceptor, counts, conn, stored, registered, outgoing, backlog,
                 view, follows, booth>>

\* The stop flag is looked at between two turns.  Dropping the source sets its
\* flag and waits for its thread.
HubTurns ==
  /\ hub.pc = "sleep"
  /\ IF server = "up"
     THEN HubMoves("turn") /\ UNCHANGED booth
     ELSE HubMoves("joining") /\ booth' = [booth EXCEPT !.stop = TRUE]
  /\ UNCHANGED <<server, acceptor, counts, conn, stored, registered, outgoing, backlog,
                 view, follows, label, inputs>>

HubLeaves ==
  /\ hub.pc = "joining"
  /\ booth.state # "running"
  /\ HubMoves("left")
  /\ UNCHANGED <<server, acceptor, counts, conn, stored, registered, outgoing, backlog,
                 view, follows, booth, label, inputs>>

-----------------------------------------------------------------------------
(***************************************************************************)
(* The handle: stopping sets the flag and waits for the two threads.       *)
(***************************************************************************)
StopServer ==
  /\ server = "up"
  /\ Input
  /\ server' = "stopping"
  /\ UNCHANGED <<acceptor, counts, conn, hub, stored, registered, outgoing, backlog, view,
                 follows, booth, label>>

Stopped ==
  /\ server = "stopping"
  /\ acceptor = "closed"
  /\ hub.pc = "left"
  /\ server' = "down"
  /\ UNCHANGED <<acceptor, counts, conn, hub, stored, registered, outgoing, backlog, view,
                 follows, booth, label, inputs>>

-----------------------------------------------------------------------------
BridgeInit ==
  /\ server = "up"
  /\ acceptor = "accepting"
  /\ counts = [total |-> 0, of |-> [p \in Peers |-> 0]]
  /\ conn = [c \in Connections |-> NoConnection]
  /\ hub = [pc |-> "start", msg |-> NoMessage, lastLocked |-> FALSE]
  /\ stored = NothingSeen
  /\ registered = {}
  /\ outgoing = [c \in Connections |-> <<>>]
  /\ backlog = [c \in Connections |-> <<>>]
  /\ view = [c \in Connections |-> NothingSeen]
  /\ follows = <<>>
  /\ \E n \in Needed :
       booth = [state |-> "starting", stop |-> FALSE, events |-> <<>>, orders |-> <<>>,
                target |-> 0, needed |-> n]
  /\ label = [seen |-> FALSE, device |-> 0, locked |-> FALSE, resync |-> FALSE,
              lock |-> "acquire", acquired |-> 0, tempo |-> FALSE, phaseOf |-> 0,
              named |-> 0, timed |-> FALSE]
  /\ inputs = 0

ConnectionNext(c) ==
  \/ AnswerAndClose(c) \/ RegisterClient(c) \/ Greet(c) \/ AskToFollow(c) \/ Send(c)
  \/ Leave(c) \/ SeeStop(c) \/ Unregister(c) \/ Release(c)

HubNext == HubStarts \/ HubHandles \/ HubStores \/ HubTells \/ HubForwards \/ HubTimes
             \/ HubTurns \/ HubLeaves

BridgeNext ==
  \/ \E peer \in Peers : RefuseArrival(peer) \/ \E c \in Connections : Accept(c, peer)
  \/ \E c \in Connections : ConnectionNext(c)
  \/ AcceptorEnds \/ SourceReports \/ SourceObeys \/ SourceEnds
  \/ HubNext
  \/ StopServer \/ Stopped

\* What a connection's thread does whatever its client does: a request has a
\* deadline, the greeting's writes have timeouts, and the loop comes back to its
\* head and looks at the flag.
Proceeds(c) ==
  AnswerAndClose(c) \/ RegisterClient(c) \/ Greet(c) \/ SeeStop(c) \/ Unregister(c) \/ Release(c)

\* The threads run: the hub's and the source's loops turn, the accept loop polls
\* every 10 ms, and each connection's thread proceeds.  No client has to leave, to
\* ask for anything or to read.
BridgeFairness ==
  /\ WF_bridgeVars(HubNext)
  /\ WF_bridgeVars(AcceptorEnds \/ Stopped) /\ WF_bridgeVars(SourceEnds)
  /\ \A c \in Connections : WF_bridgeVars(Proceeds(c))

BridgeSpec == BridgeInit /\ [][BridgeNext]_bridgeVars /\ BridgeFairness

-----------------------------------------------------------------------------
(***************************************************************************)
(* What must hold.                                                         *)
(***************************************************************************)
HoldsSlot(c) == conn[c].pc # "none"

\* Every connection that is served has its slot and no other has one, whichever
\* way connections ended, and neither cap is passed.
SlotsAreCounted ==
  /\ counts.total = Cardinality({c \in Connections : HoldsSlot(c)})
  /\ counts.total <= MaxConnections
  /\ \A p \in Peers :
       /\ counts.of[p] = Cardinality({c \in Connections : HoldsSlot(c) /\ conn[c].peer = p})
       /\ p # Loopback => counts.of[p] <= MaxPerPeer

\* What is on its way to a client.
Coming(c) == backlog[c] \o outgoing[c] \o (IF hub.pc = "tell" THEN <<hub.msg>> ELSE <<>>)

\* There are messages of a kind, and the last of them is the n-th.
Ends(messages, kind, n) ==
  \E i \in DOMAIN messages :
    /\ messages[i].kind = kind /\ messages[i].n = n
    /\ \A j \in DOMAIN messages : messages[j].kind = kind => j <= i

\* The last message of a kind is the n-th, or there is none and the one before is.
LastIs(messages, kind, before, n) ==
  \/ Ends(messages, kind, n)
  \/ (\A i \in DOMAIN messages : messages[i].kind # kind) /\ n = before

\* Whenever a client registers, between any two steps of the hub, what it was
\* sent and what is on its way to it add up to the last message of each kind:
\* it neither misses one nor ends with an older one.
PictureIsCurrent ==
  \A c \in registered, kind \in MessageKinds :
    LastIs(Coming(c), kind, view[c][kind], stored[kind])

\* A timeline counts the phase of another device than the one it names only as
\* long as the follower used fewer phase reports of that one than a first lock
\* averages, or does not know the tempo: whatever reports are ignored, bring no
\* phase or fall between those of two devices that take turns, and however often
\* the lock runs out, the phase of the device before is not kept beyond that.
LabelCatchesUp ==
  label.seen /\ label.phaseOf # label.device => label.named < booth.needed \/ ~label.timed

\* What docs/protocols/bridge-websocket.md promises of a change of the device (a
\* follow command or a new master): the next timeline has that device's own bar at
\* once.  At the latest with the first of its phase reports that the follower uses,
\* a locked timeline that counted another's phase counts its own.  It does not hold
\* of a source of Coarse precision.
LabelIsTrue ==
  label.locked /\ label.phaseOf # 0 /\ label.named > 0 => label.phaseOf = label.device

\* When the server is stopped, stopping returns and the source's thread is gone;
\* every connection ends and gives its slot back, wherever it was and though no
\* client leaves by itself, and no client stays registered.
EveryoneLeaves ==
  server # "up" ~> /\ server = "down" /\ booth.state # "running"
                   /\ registered = {} /\ counts.total = 0

=============================================================================
