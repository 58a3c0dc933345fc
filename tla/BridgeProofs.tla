---------------------------- MODULE BridgeProofs ----------------------------
(* From the bridge to a page.  However many connections, addresses, slots    *)
(* and devices there are, the slots are counted, every registered client's   *)
(* picture adds up to the last message of each kind, and a timeline counts   *)
(* another device's phase than that of the one it names only until a first   *)
(* lock is averaged.  In pieces of any size, with any texts and however many *)
(* frames, what a connection acts on, answers and closes for is what the     *)
(* client sent.  And whatever devices, round trips, windows and changes      *)
(* there are, the page's client feeds the engine one run of the bridge, and  *)
(* the device the engine was re-synced to.                                   *)
EXTENDS Bridge, WebSocket, BridgeClient, FiniteSetTheorems, SequenceTheorems,
        WellFoundedInduction, TLAPS

-----------------------------------------------------------------------------
(* The invariant *)

HubMessages == [kind : MessageKinds, n : Nat]
ThreadStages == {"none", "request", "greeting", "loop", "leaving", "ending"}
Threads == [pc : ThreadStages, peer : Peers]
Counts == [total : Int, of : [Peers -> Int]]
HubStages == {"start", "turn", "store", "tell", "sleep", "joining", "left"}
Hubs == [pc : HubStages, msg : HubMessages, lastLocked : BOOLEAN]
Pictures == [MessageKinds -> Nat]
Observations == [kind : {"observation"}, device : DeviceNumbers \cup Targets,
                 phase : BOOLEAN, tempo : BOOLEAN]
Events == {Devices, Status} \cup Observations
Wishes == Targets \cup {0}
Booths == [state : {"starting", "running", "failed", "ended"}, stop : BOOLEAN,
           events : Seq(Events), orders : Seq(Targets), target : Wishes,
           needed : Nat \ {0}]
Named == DeviceNumbers \cup Wishes
Locks == {"acquire", "reacquire", "track"}
Labels == [seen : BOOLEAN, device : Named, locked : BOOLEAN, resync : BOOLEAN, lock : Locks,
           acquired : Nat, tempo : BOOLEAN, phaseOf : Named, named : Nat, timed : BOOLEAN]

BridgeTypeOK ==
  /\ server \in {"up", "stopping", "down"} /\ acceptor \in {"accepting", "closed"}
  /\ counts \in Counts
  /\ conn \in [Connections -> Threads]
  /\ hub \in Hubs
  /\ stored \in Pictures
  /\ registered \subseteq Connections
  /\ outgoing \in [Connections -> Seq(HubMessages)]
  /\ backlog \in [Connections -> Seq(HubMessages)]
  /\ view \in [Connections -> Pictures]
  /\ follows \in Seq(Targets)
  /\ booth \in Booths
  /\ label \in Labels
  /\ inputs \in Nat

\* The connections that hold a slot, in all and of one address.
Holders == {c \in Connections : HoldsSlot(c)}
HoldersOf(p) == {c \in Connections : HoldsSlot(c) /\ conn[c].peer = p}

SlotsInv == SlotsAreCounted /\ IsFiniteSet(Holders)

\* The hub's clients are the threads between registering and unregistering; for
\* no other thread is there a message, and in its loop one has sent its backlog.
ClientsInv ==
  \A c \in Connections :
    /\ c \in registered <=> conn[c].pc \in {"greeting", "loop", "leaving"}
    /\ c \notin registered => /\ outgoing[c] = <<>> /\ backlog[c] = <<>>
                              /\ view[c] = NothingSeen
    /\ conn[c].pc = "loop" => backlog[c] = <<>>

\* What the hub tells next it has stored.
StoredInv == hub.pc = "tell" => hub.msg.n = stored[hub.msg.kind]

\* A label that counts another device's phase than that of the one it names has
\* either used no phase of that one yet, and has the resync asked for, or is
\* acquiring since the first it used: it needs n of them and the tempo.
LabelHolds(l, n) ==
  /\ ~l.seen => l.lock = "acquire" /\ l.acquired = 0 /\ l.named = 0 /\ ~l.resync
  /\ l.resync => l.named = 0
  /\ l.named <= n
  /\ l.seen /\ l.phaseOf # l.device /\ ~l.resync =>
       l.lock = "acquire" /\ l.acquired = l.named /\ (l.acquired < n \/ ~l.timed)

LabelInv == LabelHolds(label, booth.needed)

BridgeInv ==
  BridgeTypeOK /\ SlotsInv /\ ClientsInv /\ StoredInv /\ PictureIsCurrent /\ LabelInv

-----------------------------------------------------------------------------
(* Types *)

LEMMA NoMessages == <<>> \in Seq(HubMessages)
OBVIOUS

LEMMA OneMessage ==
  ASSUME NEW k \in MessageKinds, NEW n \in Nat
  PROVE  /\ HubMessage(k, n) \in HubMessages
         /\ HubMessage(k, n).kind = k /\ HubMessage(k, n).n = n
BY DEF HubMessage, HubMessages

LEMMA HubMovesIn ==
  ASSUME hub \in Hubs, NEW pc \in HubStages, HubMoves(pc)
  PROVE  hub' \in Hubs /\ hub'.pc = pc /\ hub'.msg = hub.msg
BY DEF HubMoves, Hubs

LEMMA HubTellsIn ==
  ASSUME hub \in Hubs, stored \in Pictures, NEW k \in MessageKinds, Tells(k)
  PROVE  hub' \in Hubs /\ hub'.pc = "store"
<1>1. stored[k] + 1 \in Nat
  BY DEF Pictures
<1>2. HubMessage(k, stored[k] + 1) \in HubMessages
  BY <1>1, OneMessage
<1>3. QED
  BY <1>2 DEF Tells, Hubs, HubStages

LEMMA ThreadMoves ==
  ASSUME conn \in [Connections -> Threads], NEW c \in Connections, NEW pc \in ThreadStages, Moves(c, pc)
  PROVE  /\ conn' \in [Connections -> Threads]
         /\ conn'[c].pc = pc /\ conn'[c].peer = conn[c].peer
         /\ \A d \in Connections : d # c => conn'[d] = conn[d]
BY DEF Moves, Threads

LEMMA SnapshotIsMessages ==
  ASSUME stored \in Pictures
  PROVE  Snapshot \in Seq(HubMessages) /\ \A k \in MessageKinds : Told(k) \in Seq(HubMessages)
<1>1. ASSUME NEW k \in MessageKinds
      PROVE  Told(k) \in Seq(HubMessages)
  <2>1. stored[k] \in Nat
    BY DEF Pictures
  <2>2. HubMessage(k, stored[k]) \in HubMessages
    BY <2>1, OneMessage
  <2>3. QED
    BY <2>2 DEF Told
<1>2. Told("devices") \in Seq(HubMessages) /\ Told("status") \in Seq(HubMessages)
        /\ Told("timeline") \in Seq(HubMessages)
  BY <1>1 DEF MessageKinds
<1>3. Snapshot \in Seq(HubMessages)
  <2> DEFINE d == Told("devices")
             s == Told("status")
             t == Told("timeline")
  <2>1. Snapshot = d \o s \o t
    BY DEF Snapshot
  <2> HIDE DEF d, s, t
  <2>2. d \in Seq(HubMessages) /\ s \in Seq(HubMessages) /\ t \in Seq(HubMessages)
    BY <1>2 DEF d, s, t
  <2>3. QED
    BY <2>1, <2>2
<1>4. QED
  BY <1>1, <1>3

LEMMA SeenIn ==
  ASSUME NEW v \in Pictures, NEW m \in HubMessages
  PROVE  /\ Seen(v, m) \in Pictures
         /\ \A k \in MessageKinds : Seen(v, m)[k] = IF m.kind = k THEN m.n ELSE v[k]
BY DEF Seen, Pictures, HubMessages

LEMMA QueueTail ==
  ASSUME NEW S, NEW q \in Seq(S), q # <<>>
  PROVE  Head(q) \in S /\ Tail(q) \in Seq(S)
OBVIOUS

LEMMA QueueAppend ==
  ASSUME NEW S, NEW q \in Seq(S), NEW e \in S
  PROVE  Append(q, e) \in Seq(S)
OBVIOUS

LEMMA AccountsIn ==
  ASSUME counts \in Counts, NEW p \in Peers
  PROVE  Admitted(p) \in Counts /\ Released(p) \in Counts
BY DEF Counts, Admitted, Released

\* Every step leaves every variable among its values.
\* What the follower makes of an observation: the counts stop at n, the device
\* named changes with a resync, and acquiring ends with the phase of the device.
LEMMA EnoughIn ==
  ASSUME booth.needed \in Nat \ {0}, NEW n \in Nat
  PROVE  /\ Enough(n) \in Nat /\ Enough(n) <= booth.needed
         /\ n <= booth.needed => Enough(n) = n
         /\ n >= booth.needed => Enough(n) = booth.needed
BY DEF Enough

LEMMA RelabelledIn ==
  ASSUME label \in Labels, LabelHolds(label, booth.needed), booth.needed \in Nat \ {0},
         NEW event, event.device \in Named
  PROVE  /\ Relabelled(event) \in Labels /\ Relabelled(event).seen
         /\ LabelHolds(Relabelled(event), booth.needed)
<1> DEFINE l == Relabelled(event)
<1>1. /\ l \in Labels /\ l.seen /\ l.device = event.device
      /\ l.resync <=> (label.resync \/ (label.seen /\ event.device # label.device))
      /\ l.named = IF event.device = label.device THEN label.named ELSE 0
      /\ l.lock = label.lock /\ l.acquired = label.acquired /\ l.phaseOf = label.phaseOf
      /\ l.timed = label.timed
  BY DEF Relabelled, Labels
<1> HIDE DEF l
<1>2. label.named \in Nat /\ label.acquired \in Nat /\ 0 <= booth.needed /\ 0 < booth.needed
  BY DEF Labels
<1>3. LabelHolds(l, booth.needed)
  <2>1. CASE event.device = label.device
    BY <1>1, <1>2, <2>1 DEF LabelHolds
  <2>2. CASE event.device # label.device /\ label.seen
    BY <1>1, <1>2, <2>2 DEF LabelHolds
  <2>3. CASE event.device # label.device /\ ~label.seen
    BY <1>1, <1>2, <2>3 DEF LabelHolds
  <2>4. QED
    BY <2>1, <2>2, <2>3
<1>4. QED
  BY <1>1, <1>3 DEF l

LEMMA AcquiredIn ==
  ASSUME booth.needed \in Nat \ {0}, NEW l \in Labels, NEW n \in Nat
  PROVE  /\ Acquired(l, n) \in Labels
         /\ Acquired(l, n).seen = l.seen /\ Acquired(l, n).device = l.device
         /\ Acquired(l, n).resync = l.resync /\ Acquired(l, n).named = l.named
         /\ Acquired(l, n).timed = l.timed
         /\ \/ Acquired(l, n).phaseOf = l.device
            \/ /\ Acquired(l, n).lock = "acquire" /\ Acquired(l, n).acquired = Enough(n)
               /\ n < booth.needed \/ ~l.tempo
<1>1. Enough(n) \in Nat
  BY EnoughIn
<1>2. CASE n >= booth.needed /\ l.tempo
  BY <1>2 DEF Acquired, Labels, Locks
<1>3. CASE ~(n >= booth.needed /\ l.tempo)
  <2>1. Acquired(l, n) = [l EXCEPT !.lock = "acquire", !.acquired = Enough(n)]
    BY <1>3 DEF Acquired
  <2>2. n < booth.needed \/ ~l.tempo
    BY <1>3
  <2>3. QED
    BY <1>1, <2>1, <2>2 DEF Labels, Locks
<1>4. QED
  BY <1>2, <1>3

LEMMA AcquiringHolds ==
  ASSUME booth.needed \in Nat \ {0}, NEW l \in Labels, NEW n \in Nat,
         l.seen, ~l.resync, l.named <= booth.needed, l.timed = l.tempo,
         l.phaseOf # l.device => l.named = Enough(n)
  PROVE  Acquired(l, n) \in Labels /\ LabelHolds(Acquired(l, n), booth.needed)
<1> DEFINE a == Acquired(l, n)
<1> SUFFICES a \in Labels /\ LabelHolds(a, booth.needed)
  OBVIOUS
<1>0. /\ a \in Labels /\ a.seen = l.seen /\ a.device = l.device /\ a.resync = l.resync
      /\ a.named = l.named /\ a.timed = l.timed
  BY AcquiredIn
<1>1. /\ a \in Labels /\ a.seen /\ ~a.resync /\ a.timed = l.tempo
      /\ a.device = l.device /\ a.named = l.named
  BY <1>0, Zenon
<1>2. \/ a.phaseOf = l.device
      \/ a.lock = "acquire" /\ a.acquired = Enough(n) /\ (n < booth.needed \/ ~l.tempo)
  BY AcquiredIn
<1>3. l.phaseOf = l.device => a.phaseOf = l.device
  BY DEF Acquired, Labels
<1> HIDE DEF a
<1>4. n < booth.needed => Enough(n) < booth.needed
  BY EnoughIn
<1>5. CASE a.phaseOf = l.device
  <2>1. a.named <= booth.needed /\ a.phaseOf = a.device
    BY <1>1, <1>5
  <2>2. QED
    BY <1>1, <2>1, Zenon DEF LabelHolds
<1>6. CASE a.phaseOf # l.device
  <2>1. a.lock = "acquire" /\ a.acquired = a.named /\ (a.acquired < booth.needed \/ ~a.timed)
    <3>1. a.named = Enough(n)
      BY <1>1, <1>3, <1>6
    <3>2. ~l.tempo => ~a.timed
      BY <1>1, Zenon
    <3>3. QED
      BY <1>1, <1>2, <1>4, <1>6, <3>1, <3>2
  <2>2. a.named <= booth.needed
    BY <1>1
  <2>3. QED
    BY <1>1, <2>1, <2>2, Zenon DEF LabelHolds
<1>7. QED
  BY <1>5, <1>6

LEMMA TakePhaseIn ==
  ASSUME booth.needed \in Nat \ {0}, NEW l \in Labels, l.seen, LabelHolds(l, booth.needed),
         TakePhase(l)
  PROVE  label' \in Labels /\ LabelHolds(label', booth.needed)
<1> DEFINE heard == [l EXCEPT !.resync = FALSE, !.named = Enough(@ + 1), !.timed = l.tempo]
<1>1. /\ l.named \in Nat /\ l.acquired \in Nat /\ l.named + 1 \in Nat /\ l.acquired + 1 \in Nat
      /\ 1 \in Nat
  BY DEF Labels
<1>2. Enough(l.named + 1) \in Nat /\ Enough(l.named + 1) <= booth.needed
  BY <1>1, EnoughIn
<1>3. /\ heard \in Labels /\ heard.seen /\ heard.device = l.device /\ ~heard.resync
      /\ heard.named = Enough(l.named + 1) /\ heard.timed = l.tempo /\ heard.tempo = l.tempo
      /\ heard.phaseOf = l.phaseOf
  BY <1>2 DEF Labels
<1>4. \/ l.resync /\ label' = Acquired(heard, 1)
      \/ ~l.resync /\ l.lock = "acquire" /\ label' = Acquired(heard, l.acquired + 1)
      \/ ~l.resync /\ l.lock = "reacquire" /\ label' = Acquired([heard EXCEPT !.locked = FALSE], 1)
      \/ ~l.resync /\ l.lock # "acquire" /\ label' = [heard EXCEPT !.locked = TRUE, !.lock = "track"]
  BY DEF TakePhase
<1> HIDE DEF heard
<1>5. CASE l.resync /\ label' = Acquired(heard, 1)
  <2>1. heard.named = Enough(1)
    BY <1>3, <1>5 DEF LabelHolds
  <2>2. QED
    BY <1>1, <1>2, <1>3, <1>5, <2>1, AcquiringHolds
<1>6. CASE ~l.resync /\ l.lock = "acquire" /\ label' = Acquired(heard, l.acquired + 1)
  <2>1. heard.phaseOf # heard.device => l.acquired = l.named
    BY <1>3, <1>6 DEF LabelHolds
  <2>2. heard.phaseOf # heard.device => heard.named = Enough(l.acquired + 1)
    BY <1>3, <2>1
  <2>3. QED
    BY <1>1, <1>2, <1>3, <1>6, <2>2, AcquiringHolds
<1>7. CASE ~l.resync /\ l.lock = "reacquire" /\ label' = Acquired([heard EXCEPT !.locked = FALSE], 1)
  <2> DEFINE lost == [heard EXCEPT !.locked = FALSE]
  <2>1. /\ lost \in Labels /\ lost.seen /\ lost.device = l.device /\ ~lost.resync
        /\ lost.named = heard.named /\ lost.phaseOf = l.phaseOf /\ lost.timed = lost.tempo
        /\ label' = Acquired(lost, 1)
    BY <1>3, <1>7 DEF Labels
  <2>2. l.phaseOf = l.device
    BY <1>7 DEF LabelHolds
  <2> HIDE DEF lost
  <2>3. QED
    BY <1>1, <1>2, <1>3, <2>1, <2>2, AcquiringHolds
<1>8. CASE ~l.resync /\ l.lock # "acquire" /\ label' = [heard EXCEPT !.locked = TRUE, !.lock = "track"]
  <2>1. l.phaseOf = l.device
    BY <1>8 DEF LabelHolds
  <2>2. /\ label' \in Labels /\ label'.seen /\ ~label'.resync /\ label'.named = heard.named
        /\ label'.device = l.device /\ label'.phaseOf = l.phaseOf
    BY <1>3, <1>8 DEF Labels, Locks
  <2>3. QED
    BY <1>2, <1>3, <2>1, <2>2 DEF LabelHolds
<1>9. QED
  BY <1>4, <1>5, <1>6, <1>7, <1>8

LEMMA ObserveIn ==
  ASSUME label \in Labels, LabelInv, booth.needed \in Nat \ {0},
         NEW event \in Observations, Observe(event)
  PROVE  label' \in Labels /\ LabelHolds(label', booth.needed)
<1>1. event.device \in Named /\ event.phase \in BOOLEAN /\ event.tempo \in BOOLEAN
  BY DEF Observations, Named, Wishes
<1> DEFINE r == Relabelled(event)
<1>2. r \in Labels /\ r.seen /\ LabelHolds(r, booth.needed)
  BY <1>1, RelabelledIn DEF LabelInv
<1>3. \/ label' = r
      \/ \E measured \in {FALSE, label.acquired > 0} :
           TakePhase([r EXCEPT !.tempo = @ \/ event.tempo \/ measured])
      \/ TakeTempo(r)
  BY DEF Observe
<1> HIDE DEF r
<1>4. CASE label' = r
  BY <1>2, <1>4
<1>5. ASSUME NEW measured \in {FALSE, label.acquired > 0},
             TakePhase([r EXCEPT !.tempo = @ \/ event.tempo \/ measured])
      PROVE  label' \in Labels /\ LabelHolds(label', booth.needed)
  <2> DEFINE l == [r EXCEPT !.tempo = @ \/ event.tempo \/ measured]
  <2>1. /\ l \in Labels /\ l.seen /\ l.resync = r.resync /\ l.named = r.named /\ l.lock = r.lock
        /\ l.acquired = r.acquired /\ l.phaseOf = r.phaseOf /\ l.device = r.device
        /\ l.timed = r.timed
    BY <1>1, <1>2, <1>5 DEF Labels
  <2>2. TakePhase(l)
    BY <1>5
  <2> HIDE DEF l
  <2>3. LabelHolds(l, booth.needed)
    BY <1>2, <2>1 DEF LabelHolds
  <2>4. QED
    BY <2>1, <2>2, <2>3, TakePhaseIn
<1>6. CASE TakeTempo(r)
  <2>1. /\ label' \in Labels /\ label'.seen /\ label'.resync = r.resync /\ label'.named = r.named
        /\ label'.acquired = r.acquired /\ label'.phaseOf = r.phaseOf /\ label'.device = r.device
        /\ label'.timed = r.timed /\ (r.lock = "acquire" => label'.lock = "acquire")
    BY <1>2, <1>6 DEF TakeTempo, Labels, Locks
  <2>2. QED
    BY <1>2, <2>1 DEF LabelHolds
<1>7. QED
  BY <1>3, <1>4, <1>5, <1>6

LEMMA LockRunsOutIn ==
  ASSUME label \in Labels, LabelInv, NEW locked \in {FALSE, label.locked},
         label' = LockRunsOut(locked)
  PROVE  label' \in Labels /\ LabelHolds(label', booth.needed)
<1>1. /\ label' \in Labels /\ label'.seen = label.seen /\ label'.resync = label.resync
      /\ label'.named = label.named /\ label'.acquired = label.acquired
      /\ label'.phaseOf = label.phaseOf /\ label'.device = label.device
      /\ label'.timed = label.timed /\ (label.lock = "acquire" => label'.lock = "acquire")
  BY DEF LockRunsOut, Labels, Locks
<1>2. QED
  BY <1>1 DEF LabelInv, LabelHolds

LEMMA BridgeTypes == BridgeTypeOK /\ LabelInv /\ [BridgeNext]_bridgeVars => BridgeTypeOK'
<1> SUFFICES ASSUME BridgeTypeOK, LabelInv, [BridgeNext]_bridgeVars
             PROVE  BridgeTypeOK'
  OBVIOUS
<1> USE SlotsAssumption
<1>0. Input => inputs' \in Nat
  BY DEF Input, BridgeTypeOK
<1>1. ASSUME NEW p \in Peers, NEW c \in Connections, Accept(c, p)
      PROVE  BridgeTypeOK'
  <2>1. counts' \in Counts
    BY <1>1, AccountsIn DEF Accept, BridgeTypeOK
  <2>2. conn' \in [Connections -> Threads]
    BY <1>1 DEF Accept, BridgeTypeOK, Threads, ThreadStages
  <2>3. QED
    BY <1>0, <1>1, <2>1, <2>2 DEF Accept, BridgeTypeOK
<1>2. ASSUME NEW p \in Peers, RefuseArrival(p)
      PROVE  BridgeTypeOK'
  BY <1>0, <1>2 DEF RefuseArrival, BridgeTypeOK
<1>3. CASE AcceptorEnds
  BY <1>3 DEF AcceptorEnds, BridgeTypeOK
<1>4. ASSUME NEW c \in Connections, Release(c)
      PROVE  BridgeTypeOK'
  <2>1. conn[c].peer \in Peers
    BY DEF BridgeTypeOK, Threads
  <2>2. counts' \in Counts
    BY <1>4, <2>1, AccountsIn DEF Release, BridgeTypeOK
  <2>3. conn' \in [Connections -> Threads]
    BY <1>4 DEF Release, NoConnection, BridgeTypeOK, Threads, ThreadStages
  <2>4. QED
    BY <1>4, <2>2, <2>3 DEF Release, BridgeTypeOK
<1>5. ASSUME NEW c \in Connections, AnswerAndClose(c) \/ Leave(c) \/ SeeStop(c)
      PROVE  BridgeTypeOK'
  <2>1. conn' \in [Connections -> Threads]
    BY <1>5, ThreadMoves DEF AnswerAndClose, Leave, SeeStop, BridgeTypeOK, ThreadStages
  <2>2. QED
    BY <1>5, <2>1 DEF AnswerAndClose, Leave, SeeStop, BridgeTypeOK
<1>6. ASSUME NEW c \in Connections, RegisterClient(c)
      PROVE  BridgeTypeOK'
  <2>1. conn' \in [Connections -> Threads]
    BY <1>6, ThreadMoves DEF RegisterClient, BridgeTypeOK, ThreadStages
  <2>2. backlog' \in [Connections -> Seq(HubMessages)]
    BY <1>6, SnapshotIsMessages DEF RegisterClient, BridgeTypeOK
  <2>3. registered' \subseteq Connections
    BY <1>6 DEF RegisterClient, BridgeTypeOK
  <2>4. QED
    BY <1>6, <2>1, <2>2, <2>3 DEF RegisterClient, BridgeTypeOK
<1>7. ASSUME NEW c \in Connections, Greet(c)
      PROVE  BridgeTypeOK'
  <2>1. CASE backlog[c] = <<>>
    <3>1. conn' \in [Connections -> Threads]
      BY <1>7, <2>1, ThreadMoves DEF Greet, BridgeTypeOK, ThreadStages
    <3>2. QED
      BY <1>7, <2>1, <3>1 DEF Greet, BridgeTypeOK
  <2>2. CASE backlog[c] # <<>>
    <3>1. backlog[c] \in Seq(HubMessages) /\ view[c] \in Pictures
      BY DEF BridgeTypeOK
    <3>2. Head(backlog[c]) \in HubMessages /\ Tail(backlog[c]) \in Seq(HubMessages)
      BY <2>2, <3>1, QueueTail
    <3>3. Seen(view[c], Head(backlog[c])) \in Pictures
      BY <3>1, <3>2, SeenIn
    <3>4. view' \in [Connections -> Pictures] /\ backlog' \in [Connections -> Seq(HubMessages)]
      BY <1>7, <2>2, <3>2, <3>3 DEF Greet, BridgeTypeOK
    <3>5. QED
      BY <1>7, <2>2, <3>4 DEF Greet, BridgeTypeOK
  <2>3. QED
    BY <2>1, <2>2
<1>8. ASSUME NEW c \in Connections, AskToFollow(c)
      PROVE  BridgeTypeOK'
  <2>1. follows' \in Seq(Targets)
    BY <1>8, QueueAppend DEF AskToFollow, BridgeTypeOK
  <2>2. QED
    BY <1>0, <1>8, <2>1 DEF AskToFollow, BridgeTypeOK
<1>9. ASSUME NEW c \in Connections, Send(c)
      PROVE  BridgeTypeOK'
  <2>1. outgoing[c] \in Seq(HubMessages) /\ view[c] \in Pictures
    BY DEF BridgeTypeOK
  <2>2. Head(outgoing[c]) \in HubMessages /\ Tail(outgoing[c]) \in Seq(HubMessages)
    BY <1>9, <2>1, QueueTail DEF Send
  <2>3. Seen(view[c], Head(outgoing[c])) \in Pictures
    BY <2>1, <2>2, SeenIn
  <2>4. view' \in [Connections -> Pictures] /\ outgoing' \in [Connections -> Seq(HubMessages)]
    BY <1>9, <2>2, <2>3 DEF Send, BridgeTypeOK
  <2>5. QED
    BY <1>9, <2>4 DEF Send, BridgeTypeOK
<1>10. ASSUME NEW c \in Connections, Unregister(c)
       PROVE  BridgeTypeOK'
  <2>1. conn' \in [Connections -> Threads]
    BY <1>10, ThreadMoves DEF Unregister, BridgeTypeOK, ThreadStages
  <2>2. outgoing' \in [Connections -> Seq(HubMessages)] /\ backlog' \in [Connections -> Seq(HubMessages)]
    BY <1>10, NoMessages DEF Unregister, BridgeTypeOK
  <2>3. view' \in [Connections -> Pictures]
    BY <1>10 DEF Unregister, BridgeTypeOK, NothingSeen, Pictures
  <2>4. QED
    BY <1>10, <2>1, <2>2, <2>3 DEF Unregister, BridgeTypeOK
<1>11. CASE SourceReports
  <2>1. booth.target \in Wishes /\ booth.events \in Seq(Events)
    BY DEF BridgeTypeOK, Booths
  <2>2. Observable \subseteq DeviceNumbers \cup Targets
    BY <2>1 DEF Observable, Wishes
  <2>3. \A d \in Observable, phase, tempo \in BOOLEAN : Observation(d, phase, tempo) \in Events
    BY <2>2 DEF Events, Observation, Observations
  <2>4. PICK event \in Events : booth' = [booth EXCEPT !.events = Append(@, event)]
    BY <1>11, <2>3 DEF SourceReports, Events
  <2>5. Append(booth.events, event) \in Seq(Events)
    BY <2>1, <2>4, QueueAppend
  <2>6. booth' \in Booths
    BY <2>4, <2>5 DEF BridgeTypeOK, Booths
  <2>7. inputs' \in Nat
    BY <1>0, <1>11 DEF SourceReports, BridgeTypeOK
  <2>8. QED
    BY <1>11, <2>6, <2>7 DEF SourceReports, BridgeTypeOK
<1>12. CASE SourceObeys
  <2>1. booth.orders \in Seq(Targets)
    BY DEF BridgeTypeOK, Booths
  <2>2. Head(booth.orders) \in Targets /\ Tail(booth.orders) \in Seq(Targets)
    BY <1>12, <2>1, QueueTail DEF SourceObeys
  <2>3. booth' \in Booths
    BY <1>12, <2>2 DEF SourceObeys, BridgeTypeOK, Booths, Wishes
  <2>4. QED
    BY <1>12, <2>3 DEF SourceObeys, BridgeTypeOK
<1>13. CASE SourceEnds
  <2>1. booth' \in Booths
    BY <1>13 DEF SourceEnds, BridgeTypeOK, Booths
  <2>2. QED
    BY <1>13, <2>1 DEF SourceEnds, BridgeTypeOK
<1>14. CASE HubStarts
  <2>1. booth' \in Booths
    BY <1>14 DEF HubStarts, BridgeTypeOK, Booths
  <2>2. hub' \in Hubs
    BY <1>14, HubMovesIn, HubTellsIn DEF HubStarts, BridgeTypeOK, HubStages, MessageKinds
  <2>3. QED
    BY <1>14, <2>1, <2>2 DEF HubStarts, BridgeTypeOK
<1>15. CASE HubHandles
  <2> DEFINE event == Head(booth.events)
  <2>1. booth.events \in Seq(Events) /\ booth.events # <<>>
    BY <1>15 DEF HubHandles, BridgeTypeOK, Booths
  <2>2. event \in Events /\ Tail(booth.events) \in Seq(Events)
    BY <2>1, QueueTail
  <2>3. booth' \in Booths
    BY <1>15, <2>2 DEF HubHandles, BridgeTypeOK, Booths
  <2>4. CASE event.kind = "observation"
    <3>1. event \in Observations
      BY <2>2, <2>4 DEF Events, Devices, Status
    <3>2. Observe(event) /\ hub' = hub
      BY <1>15, <2>4 DEF HubHandles
    <3>3. booth.needed \in Nat \ {0}
      BY DEF BridgeTypeOK, Booths
    <3>4. label' \in Labels
      BY <3>1, <3>2, <3>3, ObserveIn DEF BridgeTypeOK
    <3>5. QED
      BY <1>15, <2>3, <3>2, <3>4 DEF HubHandles, BridgeTypeOK
  <2>5. CASE event.kind # "observation"
    <3>1. event.kind \in MessageKinds
      BY <2>2, <2>5 DEF Events, Devices, Status, Observations, MessageKinds
    <3>2. Tells(event.kind) /\ label' = label
      BY <1>15, <2>5 DEF HubHandles
    <3>3. hub' \in Hubs
      BY <3>1, <3>2, HubTellsIn DEF BridgeTypeOK
    <3>4. QED
      BY <1>15, <2>3, <3>2, <3>3 DEF HubHandles, BridgeTypeOK
  <2>6. QED
    BY <2>4, <2>5
<1>16. CASE HubStores
  <2>1. stored' \in Pictures
    BY <1>16 DEF HubStores, BridgeTypeOK, Hubs, HubMessages, Pictures
  <2>2. hub' \in Hubs
    BY <1>16, HubMovesIn DEF HubStores, BridgeTypeOK, HubStages
  <2>3. QED
    BY <1>16, <2>1, <2>2 DEF HubStores, BridgeTypeOK
<1>17. CASE HubTells
  <2>1. hub.msg \in HubMessages
    BY DEF BridgeTypeOK, Hubs
  <2>2. \A c \in Connections : Append(outgoing[c], hub.msg) \in Seq(HubMessages)
    BY <2>1, QueueAppend DEF BridgeTypeOK
  <2>3. outgoing' \in [Connections -> Seq(HubMessages)]
    BY <1>17, <2>2 DEF HubTells, BridgeTypeOK
  <2>4. hub' \in Hubs
    BY <1>17, HubMovesIn DEF HubTells, BridgeTypeOK, HubStages
  <2>5. QED
    BY <1>17, <2>3, <2>4 DEF HubTells, BridgeTypeOK
<1>18. CASE HubForwards
  <2>1. Head(follows) \in Targets /\ Tail(follows) \in Seq(Targets)
    BY <1>18, QueueTail DEF HubForwards, BridgeTypeOK
  <2>2. booth.orders \in Seq(Targets)
    BY DEF BridgeTypeOK, Booths
  <2>3. Append(booth.orders, Head(follows)) \in Seq(Targets)
    BY <2>1, <2>2, QueueAppend
  <2>4. booth' \in Booths
    BY <1>18, <2>3 DEF HubForwards, BridgeTypeOK, Booths
  <2>5. QED
    BY <1>18, <2>1, <2>4 DEF HubForwards, BridgeTypeOK
<1>19. CASE HubTimes
  <2>1. PICK locked \in {FALSE, label.locked} :
          /\ label' = LockRunsOut(locked)
          /\ \/ /\ UNCHANGED inputs
                /\ hub' = [pc |-> "store", msg |-> HubMessage("timeline", stored["timeline"] + 1),
                           lastLocked |-> locked]
             \/ Input /\ Tells("timeline")
             \/ UNCHANGED inputs /\ HubMoves("sleep")
    BY <1>19 DEF HubTimes
  <2>2. locked \in BOOLEAN
    BY DEF BridgeTypeOK, Labels
  <2>3. label' \in Labels
    BY <2>1, LockRunsOutIn DEF BridgeTypeOK
  <2>4. inputs' \in Nat
    BY <1>0, <2>1 DEF BridgeTypeOK
  <2>5. stored["timeline"] + 1 \in Nat /\ "timeline" \in MessageKinds
    BY DEF BridgeTypeOK, Pictures, MessageKinds
  <2>6. HubMessage("timeline", stored["timeline"] + 1) \in HubMessages
    BY <2>5, OneMessage
  <2>7. hub' \in Hubs
    <3>1. CASE hub' = [pc |-> "store", msg |-> HubMessage("timeline", stored["timeline"] + 1),
                       lastLocked |-> locked]
      BY <3>1, <2>2, <2>6 DEF Hubs, HubStages
    <3>2. CASE Tells("timeline")
      BY <3>2, <2>5, HubTellsIn DEF BridgeTypeOK
    <3>3. CASE HubMoves("sleep")
      BY <3>3, HubMovesIn DEF BridgeTypeOK, HubStages
    <3>4. QED
      BY <2>1, <3>1, <3>2, <3>3
  <2>8. QED
    BY <1>19, <2>3, <2>4, <2>7 DEF HubTimes, BridgeTypeOK
<1>20. CASE HubTurns
  <2>1. hub' \in Hubs
    BY <1>20, HubMovesIn DEF HubTurns, BridgeTypeOK, HubStages
  <2>2. booth' \in Booths
    BY <1>20 DEF HubTurns, BridgeTypeOK, Booths
  <2>3. QED
    BY <1>20, <2>1, <2>2 DEF HubTurns, BridgeTypeOK
<1>21. CASE HubLeaves
  <2>1. hub' \in Hubs
    BY <1>21, HubMovesIn DEF HubLeaves, BridgeTypeOK, HubStages
  <2>2. QED
    BY <1>21, <2>1 DEF HubLeaves, BridgeTypeOK
<1>22. CASE StopServer
  BY <1>0, <1>22 DEF StopServer, BridgeTypeOK
<1>23. CASE Stopped
  BY <1>23 DEF Stopped, BridgeTypeOK
<1>24. CASE UNCHANGED bridgeVars
  BY <1>24 DEF bridgeVars, BridgeTypeOK
<1>25. QED
  BY <1>1, <1>2, <1>3, <1>4, <1>5, <1>6, <1>7, <1>8, <1>9, <1>10, <1>11, <1>12, <1>13, <1>14,
     <1>15, <1>16, <1>17, <1>18, <1>19, <1>20, <1>21, <1>22, <1>23, <1>24
     DEF BridgeNext, ConnectionNext, HubNext

-----------------------------------------------------------------------------
(* Slots *)

LEMMA SlotsFrame ==
  ASSUME SlotsInv, counts' = counts,
         \A c \in Connections : /\ HoldsSlot(c)' <=> HoldsSlot(c)
                                /\ conn'[c].peer = conn[c].peer
  PROVE  SlotsInv'
<1>1. Holders' = Holders
  BY DEF Holders
<1>2. \A p \in Peers : HoldersOf(p)' = HoldersOf(p)
  BY DEF HoldersOf
<1>3. QED
  BY <1>1, <1>2 DEF SlotsInv, SlotsAreCounted, Holders, HoldersOf

\* A thread that holds no slot takes one, under both caps.
LEMMA SlotTaken ==
  ASSUME BridgeTypeOK, SlotsInv, NEW c \in Connections, NEW p \in Peers, Accept(c, p)
  PROVE  SlotsInv'
<1>1. PICK pc \in {"request", "ending"} : conn' = [conn EXCEPT ![c] = [pc |-> pc, peer |-> p]]
  BY DEF Accept
<1>2. /\ ~HoldsSlot(c) /\ HoldsSlot(c)' /\ conn'[c].peer = p
      /\ \A d \in Connections : d # c => conn'[d] = conn[d]
  BY <1>1 DEF Accept, HoldsSlot, BridgeTypeOK
<1>3. Holders' = Holders \cup {c} /\ c \notin Holders
  BY <1>2 DEF Holders, HoldsSlot
<1>4. HoldersOf(p)' = HoldersOf(p) \cup {c} /\ c \notin HoldersOf(p)
  BY <1>2 DEF HoldersOf, HoldsSlot
<1>5. \A q \in Peers \ {p} : HoldersOf(q)' = HoldersOf(q)
  BY <1>2 DEF HoldersOf, HoldsSlot
<1>6. IsFiniteSet(Holders) /\ counts.total = Cardinality(Holders)
        /\ counts.total <= MaxConnections
        /\ \A q \in Peers : /\ counts.of[q] = Cardinality(HoldersOf(q))
                            /\ q # Loopback => counts.of[q] <= MaxPerPeer
  BY DEF SlotsInv, SlotsAreCounted, Holders, HoldersOf
<1>7. IsFiniteSet(HoldersOf(p))
  <2>1. HoldersOf(p) \in SUBSET Holders
    BY DEF HoldersOf, Holders
  <2>2. QED
    BY <1>6, <2>1, FS_Subset
<1>8. IsFiniteSet(Holders') /\ Cardinality(Holders') = Cardinality(Holders) + 1
  BY <1>3, <1>6, FS_AddElement
<1>9. Cardinality(HoldersOf(p)') = Cardinality(HoldersOf(p)) + 1
  BY <1>4, <1>7, FS_AddElement
<1>10. counts'.total = counts.total + 1 /\ counts'.of[p] = counts.of[p] + 1
         /\ \A q \in Peers \ {p} : counts'.of[q] = counts.of[q]
  BY DEF Accept, Admitted, BridgeTypeOK, Counts
<1>11. counts.total < MaxConnections /\ (p = Loopback \/ counts.of[p] < MaxPerPeer)
         /\ counts.total \in Int /\ counts.of[p] \in Int
  BY DEF Accept, CanAdmit, BridgeTypeOK, Counts
<1>12. counts'.total = Cardinality(Holders') /\ counts'.total <= MaxConnections
  BY <1>6, <1>8, <1>10, <1>11, SlotsAssumption
<1>13. ASSUME NEW q \in Peers
       PROVE  /\ counts'.of[q] = Cardinality(HoldersOf(q)')
              /\ q # Loopback => counts'.of[q] <= MaxPerPeer
  <2>1. CASE q = p
    BY <1>6, <1>9, <1>10, <1>11, <2>1, SlotsAssumption
  <2>2. CASE q # p
    BY <1>5, <1>6, <1>10, <2>2
  <2>3. QED
    BY <2>1, <2>2
<1>14. QED
  BY <1>8, <1>12, <1>13 DEF SlotsInv, SlotsAreCounted, Holders, HoldersOf

\* A thread that ends gives its slot back.
LEMMA SlotGivenBack ==
  ASSUME BridgeTypeOK, SlotsInv, NEW c \in Connections, Release(c)
  PROVE  SlotsInv'
<1> DEFINE p == conn[c].peer
<1>1. p \in Peers
  BY DEF BridgeTypeOK, Threads
<1>2. /\ HoldsSlot(c) /\ ~HoldsSlot(c)'
      /\ \A d \in Connections : d # c => conn'[d] = conn[d]
  BY DEF Release, NoConnection, HoldsSlot, BridgeTypeOK
<1>3. Holders' = Holders \ {c} /\ c \in Holders
  BY <1>2 DEF Holders, HoldsSlot
<1>4. \A q \in Peers : HoldersOf(q)' = IF q = p THEN HoldersOf(q) \ {c} ELSE HoldersOf(q)
  BY <1>2 DEF HoldersOf, HoldsSlot
<1>5. c \in HoldersOf(p)
  BY <1>2 DEF HoldersOf
<1>6. IsFiniteSet(Holders) /\ counts.total = Cardinality(Holders)
        /\ counts.total <= MaxConnections
        /\ \A q \in Peers : /\ counts.of[q] = Cardinality(HoldersOf(q))
                            /\ q # Loopback => counts.of[q] <= MaxPerPeer
  BY DEF SlotsInv, SlotsAreCounted, Holders, HoldersOf
<1>7. IsFiniteSet(HoldersOf(p))
  <2>1. HoldersOf(p) \in SUBSET Holders
    BY DEF HoldersOf, Holders
  <2>2. QED
    BY <1>6, <2>1, FS_Subset
<1>8. IsFiniteSet(Holders') /\ Cardinality(Holders') = Cardinality(Holders) - 1
  BY <1>3, <1>6, FS_RemoveElement
<1>9. Cardinality(HoldersOf(p) \ {c}) = Cardinality(HoldersOf(p)) - 1
  BY <1>5, <1>7, FS_RemoveElement
<1>10. counts' = Released(p)
  BY DEF Release
<1>11. counts.total \in Int /\ \A q \in Peers : counts.of[q] \in Int
  BY DEF BridgeTypeOK, Counts
<1>12. counts'.total = counts.total - 1
         /\ \A q \in Peers : counts'.of[q] = IF q = p THEN counts.of[q] - 1 ELSE counts.of[q]
  BY <1>1, <1>10 DEF Released, BridgeTypeOK, Counts
<1>13. counts'.total = Cardinality(Holders') /\ counts'.total <= MaxConnections
  BY <1>6, <1>8, <1>11, <1>12, SlotsAssumption
<1>14. ASSUME NEW q \in Peers
       PROVE  /\ counts'.of[q] = Cardinality(HoldersOf(q)')
              /\ q # Loopback => counts'.of[q] <= MaxPerPeer
  <2>1. CASE q = p
    BY <1>4, <1>6, <1>9, <1>11, <1>12, <2>1, SlotsAssumption
  <2>2. CASE q # p
    BY <1>4, <1>6, <1>12, <2>2
  <2>3. QED
    BY <2>1, <2>2
<1>15. QED
  BY <1>8, <1>13, <1>14 DEF SlotsInv, SlotsAreCounted, Holders, HoldersOf

\* What a step does to the threads, when it is neither of those.
LEMMA ThreadsKeepSlots ==
  ASSUME BridgeTypeOK, NEW c \in Connections, NEW pc \in ThreadStages \ {"none"},
         HoldsSlot(c), Moves(c, pc)
  PROVE  \A d \in Connections : /\ HoldsSlot(d)' <=> HoldsSlot(d)
                                /\ conn'[d].peer = conn[d].peer
<1>1. conn'[c].pc = pc /\ conn'[c].peer = conn[c].peer
        /\ \A d \in Connections : d # c => conn'[d] = conn[d]
  BY ThreadMoves DEF BridgeTypeOK
<1>2. QED
  BY <1>1 DEF HoldsSlot

LEMMA SlotsStep == BridgeTypeOK /\ SlotsInv /\ [BridgeNext]_bridgeVars => SlotsInv'
<1> SUFFICES ASSUME BridgeTypeOK, SlotsInv, [BridgeNext]_bridgeVars
             PROVE  SlotsInv'
  OBVIOUS
<1>1. ASSUME NEW p \in Peers, NEW c \in Connections, Accept(c, p)
      PROVE  SlotsInv'
  BY <1>1, SlotTaken
<1>2. ASSUME NEW c \in Connections, Release(c)
      PROVE  SlotsInv'
  BY <1>2, SlotGivenBack
<1>3. ASSUME NEW c \in Connections, ConnectionNext(c), ~Release(c)
      PROVE  SlotsInv'
  <2>1. counts' = counts
    BY <1>3 DEF ConnectionNext, AnswerAndClose, RegisterClient, Greet, AskToFollow, Send,
                Leave, SeeStop, Unregister
  <2>2. \/ conn' = conn
        \/ HoldsSlot(c) /\ \E pc \in ThreadStages \ {"none"} : Moves(c, pc)
    BY <1>3 DEF ConnectionNext, AnswerAndClose, RegisterClient, Greet, AskToFollow, Send,
                Leave, SeeStop, Unregister, HoldsSlot, ThreadStages
  <2>3. \A d \in Connections : /\ HoldsSlot(d)' <=> HoldsSlot(d)
                               /\ conn'[d].peer = conn[d].peer
    BY <2>2, ThreadsKeepSlots DEF HoldsSlot
  <2>4. QED
    BY <2>1, <2>3, SlotsFrame
<1>4. ASSUME conn' = conn, counts' = counts
      PROVE  SlotsInv'
  BY <1>4, SlotsFrame DEF HoldsSlot
<1>5. CASE AcceptorEnds \/ SourceReports \/ SourceObeys \/ SourceEnds \/ StopServer \/ Stopped
  BY <1>4, <1>5 DEF AcceptorEnds, SourceReports, SourceObeys, SourceEnds, StopServer, Stopped
<1>6. CASE HubNext
  BY <1>4, <1>6 DEF HubNext, HubStarts, HubHandles, HubStores, HubTells, HubForwards, HubTimes,
                    HubTurns, HubLeaves
<1>7. ASSUME NEW p \in Peers, RefuseArrival(p)
      PROVE  SlotsInv'
  BY <1>4, <1>7 DEF RefuseArrival
<1>8. CASE UNCHANGED bridgeVars
  BY <1>4, <1>8 DEF bridgeVars
<1>9. QED
  BY <1>1, <1>2, <1>3, <1>5, <1>6, <1>7, <1>8 DEF BridgeNext

-----------------------------------------------------------------------------
(* Clients, what the hub stored, and the label *)

\* What one connection's thread finds, and nothing else, matters to ClientsInv.
ServedWell(c) ==
  /\ c \in registered <=> conn[c].pc \in {"greeting", "loop", "leaving"}
  /\ c \notin registered => /\ outgoing[c] = <<>> /\ backlog[c] = <<>>
                            /\ view[c] = NothingSeen
  /\ conn[c].pc = "loop" => backlog[c] = <<>>

LEMMA ClientsFrame ==
  ASSUME ClientsInv, NEW c \in Connections, ServedWell(c)',
         \A d \in Connections : d # c =>
           /\ d \in registered' <=> d \in registered
           /\ conn'[d] = conn[d] /\ outgoing'[d] = outgoing[d]
           /\ backlog'[d] = backlog[d] /\ view'[d] = view[d]
  PROVE  ClientsInv'
BY DEF ClientsInv, ServedWell

LEMMA ClientsStep == BridgeTypeOK /\ ClientsInv /\ [BridgeNext]_bridgeVars => ClientsInv'
<1> SUFFICES ASSUME BridgeTypeOK, ClientsInv, [BridgeNext]_bridgeVars
             PROVE  ClientsInv'
  OBVIOUS
<1>1. ASSUME NEW p \in Peers, NEW c \in Connections, Accept(c, p)
      PROVE  ClientsInv'
  <2>1. conn'[c].pc \in {"request", "ending"} /\ \A d \in Connections : d # c => conn'[d] = conn[d]
    BY <1>1 DEF Accept, BridgeTypeOK
  <2>2. ServedWell(c)'
    BY <1>1, <2>1 DEF Accept, ClientsInv, ServedWell
  <2>3. QED
    BY <1>1, <2>1, <2>2, ClientsFrame DEF Accept
<1>2. ASSUME NEW c \in Connections, Release(c)
      PROVE  ClientsInv'
  <2>1. conn'[c].pc = "none" /\ \A d \in Connections : d # c => conn'[d] = conn[d]
    BY <1>2 DEF Release, NoConnection, BridgeTypeOK
  <2>2. ServedWell(c)'
    BY <1>2, <2>1 DEF Release, ClientsInv, ServedWell
  <2>3. QED
    BY <1>2, <2>1, <2>2, ClientsFrame DEF Release
<1>3. ASSUME NEW c \in Connections, AnswerAndClose(c)
      PROVE  ClientsInv'
  <2>1. conn'[c].pc = "ending" /\ \A d \in Connections : d # c => conn'[d] = conn[d]
    BY <1>3, ThreadMoves DEF AnswerAndClose, BridgeTypeOK, ThreadStages
  <2>2. ServedWell(c)'
    BY <1>3, <2>1 DEF AnswerAndClose, ClientsInv, ServedWell
  <2>3. QED
    BY <1>3, <2>1, <2>2, ClientsFrame DEF AnswerAndClose
<1>4. ASSUME NEW c \in Connections, RegisterClient(c)
      PROVE  ClientsInv'
  <2>1. conn'[c].pc = "greeting" /\ \A d \in Connections : d # c => conn'[d] = conn[d]
    BY <1>4, ThreadMoves DEF RegisterClient, BridgeTypeOK, ThreadStages
  <2>2. ServedWell(c)'
    BY <1>4, <2>1 DEF RegisterClient, ClientsInv, ServedWell
  <2>3. \A d \in Connections : d # c => backlog'[d] = backlog[d]
    BY <1>4 DEF RegisterClient, BridgeTypeOK
  <2>4. QED
    BY <1>4, <2>1, <2>2, <2>3, ClientsFrame DEF RegisterClient
<1>5. ASSUME NEW c \in Connections, Greet(c)
      PROVE  ClientsInv'
  <2>1. CASE backlog[c] = <<>>
    <3>1. conn'[c].pc = "loop" /\ \A d \in Connections : d # c => conn'[d] = conn[d]
      BY <1>5, <2>1, ThreadMoves DEF Greet, BridgeTypeOK, ThreadStages
    <3>2. ServedWell(c)'
      BY <1>5, <2>1, <3>1 DEF Greet, ClientsInv, ServedWell
    <3>3. QED
      BY <1>5, <2>1, <3>1, <3>2, ClientsFrame DEF Greet
  <2>2. CASE backlog[c] # <<>>
    <3>1. conn' = conn /\ registered' = registered /\ outgoing' = outgoing
      BY <1>5, <2>2 DEF Greet
    <3>2. ServedWell(c)'
      BY <1>5, <3>1 DEF Greet, ClientsInv, ServedWell
    <3>3. \A d \in Connections : d # c => backlog'[d] = backlog[d] /\ view'[d] = view[d]
      BY <1>5, <2>2 DEF Greet, BridgeTypeOK
    <3>4. QED
      BY <3>1, <3>2, <3>3, ClientsFrame
  <2>3. QED
    BY <2>1, <2>2
<1>6. ASSUME NEW c \in Connections, Send(c)
      PROVE  ClientsInv'
  <2>1. conn' = conn /\ registered' = registered /\ backlog' = backlog
    BY <1>6 DEF Send
  <2>2. ServedWell(c)'
    BY <1>6, <2>1 DEF Send, ClientsInv, ServedWell
  <2>3. \A d \in Connections : d # c => outgoing'[d] = outgoing[d] /\ view'[d] = view[d]
    BY <1>6 DEF Send, BridgeTypeOK
  <2>4. QED
    BY <2>1, <2>2, <2>3, ClientsFrame
<1>7. ASSUME NEW c \in Connections, Leave(c) \/ SeeStop(c)
      PROVE  ClientsInv'
  <2>1. conn'[c].pc = "leaving" /\ \A d \in Connections : d # c => conn'[d] = conn[d]
    BY <1>7, ThreadMoves DEF Leave, SeeStop, BridgeTypeOK, ThreadStages
  <2>2. ServedWell(c)'
    BY <1>7, <2>1 DEF Leave, SeeStop, ClientsInv, ServedWell
  <2>3. QED
    BY <1>7, <2>1, <2>2, ClientsFrame DEF Leave, SeeStop
<1>8. ASSUME NEW c \in Connections, Unregister(c)
      PROVE  ClientsInv'
  <2>1. conn'[c].pc = "ending" /\ \A d \in Connections : d # c => conn'[d] = conn[d]
    BY <1>8, ThreadMoves DEF Unregister, BridgeTypeOK, ThreadStages
  <2>2. /\ outgoing'[c] = <<>> /\ backlog'[c] = <<>> /\ view'[c] = NothingSeen
        /\ \A d \in Connections : d # c => /\ outgoing'[d] = outgoing[d]
                                           /\ backlog'[d] = backlog[d] /\ view'[d] = view[d]
    BY <1>8 DEF Unregister, BridgeTypeOK
  <2>3. ServedWell(c)'
    BY <1>8, <2>1, <2>2 DEF Unregister, ServedWell
  <2>4. QED
    BY <1>8, <2>1, <2>2, <2>3, ClientsFrame DEF Unregister
<1>9. CASE HubTells
  <2>1. \A c \in Connections \ registered : outgoing'[c] = outgoing[c]
    BY <1>9 DEF HubTells
  <2>2. QED
    BY <1>9, <2>1 DEF HubTells, ClientsInv
<1>10. ASSUME UNCHANGED <<conn, registered, outgoing, backlog, view>>
       PROVE  ClientsInv'
  BY <1>10 DEF ClientsInv
<1>11. ASSUME NEW c \in Connections, AskToFollow(c)
       PROVE  ClientsInv'
  BY <1>10, <1>11 DEF AskToFollow
<1>12. CASE AcceptorEnds \/ SourceReports \/ SourceObeys \/ SourceEnds \/ StopServer \/ Stopped
  BY <1>10, <1>12 DEF AcceptorEnds, SourceReports, SourceObeys, SourceEnds, StopServer, Stopped
<1>13. CASE HubStarts \/ HubHandles \/ HubStores \/ HubForwards \/ HubTimes \/ HubTurns \/ HubLeaves
  BY <1>10, <1>13 DEF HubStarts, HubHandles, HubStores, HubForwards, HubTimes, HubTurns, HubLeaves
<1>14. ASSUME NEW p \in Peers, RefuseArrival(p)
       PROVE  ClientsInv'
  BY <1>10, <1>14 DEF RefuseArrival
<1>15. CASE UNCHANGED bridgeVars
  BY <1>10, <1>15 DEF bridgeVars
<1>16. QED
  BY <1>1, <1>2, <1>3, <1>4, <1>5, <1>6, <1>7, <1>8, <1>9, <1>11, <1>12, <1>13, <1>14, <1>15
     DEF BridgeNext, ConnectionNext, HubNext

LEMMA StoredStep == BridgeTypeOK /\ StoredInv /\ [BridgeNext]_bridgeVars => StoredInv'
<1> SUFFICES ASSUME BridgeTypeOK, StoredInv, [BridgeNext]_bridgeVars
             PROVE  StoredInv'
  OBVIOUS
<1>1. CASE HubStores
  <2>1. hub'.msg = hub.msg
    BY <1>1, HubMovesIn DEF HubStores, BridgeTypeOK, HubStages
  <2>2. stored'[hub.msg.kind] = hub.msg.n
    BY <1>1 DEF HubStores, BridgeTypeOK, Hubs, HubMessages, Pictures
  <2>3. QED
    BY <2>1, <2>2 DEF StoredInv
<1>2. ASSUME hub'.pc # "tell"
      PROVE  StoredInv'
  BY <1>2 DEF StoredInv
<1>3. CASE HubStarts \/ HubHandles \/ HubTells \/ HubForwards \/ HubTimes \/ HubTurns \/ HubLeaves
  <2>1. \A pc \in HubStages : HubMoves(pc) => hub'.pc = pc
    BY HubMovesIn DEF BridgeTypeOK
  <2>2. \A k : Tells(k) => hub'.pc = "store"
    BY DEF Tells, BridgeTypeOK, Hubs
  <2>3. CASE HubStarts
    BY <1>2, <2>1, <2>2, <2>3 DEF HubStarts, HubStages
  <2>4. CASE HubHandles
    BY <1>2, <2>2, <2>4 DEF HubHandles
  <2>5. CASE HubTells
    BY <1>2, <2>1, <2>5 DEF HubTells, HubStages
  <2>6. CASE HubForwards
    BY <1>2, <2>6 DEF HubForwards
  <2>7. CASE HubTimes
    BY <1>2, <2>1, <2>2, <2>7 DEF HubTimes, HubStages
  <2>8. CASE HubTurns
    BY <1>2, <2>1, <2>8 DEF HubTurns, HubStages
  <2>9. CASE HubLeaves
    BY <1>2, <2>1, <2>9 DEF HubLeaves, HubStages
  <2>10. QED
    BY <1>3, <2>3, <2>4, <2>5, <2>6, <2>7, <2>8, <2>9
<1>4. ASSUME UNCHANGED <<hub, stored>>
      PROVE  StoredInv'
  BY <1>4 DEF StoredInv
<1>5. ASSUME NEW c \in Connections, ConnectionNext(c)
      PROVE  StoredInv'
  BY <1>4, <1>5 DEF ConnectionNext, AnswerAndClose, RegisterClient, Greet, AskToFollow, Send,
                    Leave, SeeStop, Unregister, Release
<1>6. ASSUME NEW p \in Peers, RefuseArrival(p) \/ \E c \in Connections : Accept(c, p)
      PROVE  StoredInv'
  BY <1>4, <1>6 DEF RefuseArrival, Accept
<1>7. CASE AcceptorEnds \/ SourceReports \/ SourceObeys \/ SourceEnds \/ StopServer \/ Stopped
             \/ UNCHANGED bridgeVars
  BY <1>4, <1>7 DEF AcceptorEnds, SourceReports, SourceObeys, SourceEnds, StopServer, Stopped,
                    bridgeVars
<1>8. QED
  BY <1>1, <1>3, <1>5, <1>6, <1>7 DEF BridgeNext, HubNext

LEMMA LabelStep == BridgeTypeOK /\ LabelInv /\ [BridgeNext]_bridgeVars => LabelInv'
<1> SUFFICES ASSUME BridgeTypeOK, LabelInv, [BridgeNext]_bridgeVars
             PROVE  LabelInv'
  OBVIOUS
<1>0. booth.needed \in Nat \ {0} /\ label \in Labels
  BY DEF BridgeTypeOK, Booths
<1>a. ASSUME booth'.needed = booth.needed, LabelHolds(label', booth.needed)
      PROVE  LabelInv'
  BY <1>a DEF LabelInv
<1>b. LabelHolds(label, booth.needed)
  BY DEF LabelInv
<1>1. CASE HubHandles
  <2> DEFINE event == Head(booth.events)
  <2>1. booth'.needed = booth.needed
    BY <1>1 DEF HubHandles, BridgeTypeOK, Booths
  <2>2. event \in Events
    BY <1>1, QueueTail DEF HubHandles, BridgeTypeOK, Booths
  <2>3. CASE event.kind = "observation"
    <3>1. event \in Observations
      BY <2>2, <2>3 DEF Events, Devices, Status
    <3>2. Observe(event)
      BY <1>1, <2>3 DEF HubHandles
    <3>3. QED
      BY <1>0, <1>a, <2>1, <3>1, <3>2, ObserveIn
  <2>4. CASE event.kind # "observation"
    <3>1. label' = label
      BY <1>1, <2>4 DEF HubHandles
    <3>2. QED
      BY <1>a, <1>b, <2>1, <3>1
  <2>5. QED
    BY <2>3, <2>4
<1>2. CASE HubTimes
  <2>1. PICK locked \in {FALSE, label.locked} : label' = LockRunsOut(locked)
    BY <1>2 DEF HubTimes
  <2>2. LabelHolds(label', booth.needed)
    BY <1>0, <2>1, LockRunsOutIn
  <2>3. booth' = booth
    BY <1>2 DEF HubTimes
  <2>4. QED
    BY <1>a, <2>2, <2>3
<1>3. ASSUME label' = label, booth' = booth
      PROVE  LabelInv'
  BY <1>3, <1>a, <1>b
<1>4. CASE HubStores \/ HubTells \/ HubLeaves
  BY <1>3, <1>4 DEF HubStores, HubTells, HubLeaves
<1>5. ASSUME NEW c \in Connections, ConnectionNext(c)
      PROVE  LabelInv'
  BY <1>3, <1>5 DEF ConnectionNext, AnswerAndClose, RegisterClient, Greet, AskToFollow, Send,
                    Leave, SeeStop, Unregister, Release
<1>6. ASSUME NEW p \in Peers, RefuseArrival(p) \/ \E c \in Connections : Accept(c, p)
      PROVE  LabelInv'
  BY <1>3, <1>6 DEF RefuseArrival, Accept
<1>7. CASE AcceptorEnds \/ StopServer \/ Stopped \/ UNCHANGED bridgeVars
  BY <1>3, <1>7 DEF AcceptorEnds, StopServer, Stopped, bridgeVars
<1>8. CASE HubStarts \/ HubForwards \/ HubTurns \/ SourceReports \/ SourceObeys \/ SourceEnds
  <2>1. label' = label
    BY <1>8 DEF HubStarts, HubForwards, HubTurns, SourceReports, SourceObeys, SourceEnds
  <2>2. booth'.needed = booth.needed
    BY <1>8 DEF HubStarts, HubForwards, HubTurns, SourceReports, SourceObeys, SourceEnds,
                BridgeTypeOK, Booths
  <2>3. QED
    BY <1>a, <1>b, <2>1, <2>2
<1>9. QED
  BY <1>1, <1>2, <1>4, <1>5, <1>6, <1>7, <1>8 DEF BridgeNext, HubNext

-----------------------------------------------------------------------------
(* The last message of a kind *)

LEMMA Joined ==
  ASSUME NEW S, NEW q \in Seq(S), NEW t \in Seq(S)
  PROVE  /\ \A i \in DOMAIN q : i \in DOMAIN (q \o t) /\ (q \o t)[i] = q[i] /\ i <= Len(q)
         /\ \A i \in DOMAIN t : Len(q) + i \in DOMAIN (q \o t) /\ (q \o t)[Len(q) + i] = t[i]
         /\ \A k \in DOMAIN (q \o t) :
              \/ k \in DOMAIN q
              \/ k - Len(q) \in DOMAIN t /\ k = Len(q) + (k - Len(q)) /\ (q \o t)[k] = t[k - Len(q)]
         /\ Len(q) \in Nat /\ DOMAIN t \subseteq Nat \ {0} /\ DOMAIN q \subseteq Nat
         /\ DOMAIN (q \o t) \subseteq Nat
OBVIOUS

LEMMA EndsOfBoth ==
  ASSUME NEW S, NEW q \in Seq(S), NEW t \in Seq(S), NEW kind, NEW v, Ends(t, kind, v)
  PROVE  Ends(q \o t, kind, v)
<1> DEFINE b == q \o t
<1> HIDE DEF b
<1>1. PICK i \in DOMAIN t : /\ t[i].kind = kind /\ t[i].n = v
                            /\ \A j \in DOMAIN t : t[j].kind = kind => j <= i
  BY DEF Ends
<1> DEFINE n == Len(q) + i
<1>2. n \in DOMAIN b /\ b[n].kind = kind /\ b[n].n = v
  BY <1>1, Joined DEF b
<1>3. ASSUME NEW k \in DOMAIN b, b[k].kind = kind
      PROVE  k <= n
  <2>1. CASE k \in DOMAIN q
    BY <2>1, Joined
  <2>2. CASE k - Len(q) \in DOMAIN t /\ k = Len(q) + (k - Len(q)) /\ b[k] = t[k - Len(q)]
    <3>1. k - Len(q) <= i
      BY <1>1, <1>3, <2>2
    <3>2. QED
      BY <1>1, <2>2, <3>1, Joined DEF b
  <2>3. QED
    BY <2>1, <2>2, Joined DEF b
<1>4. QED
  BY <1>2, <1>3 DEF Ends, b

LEMMA LastOfBoth ==
  ASSUME NEW S, NEW q \in Seq(S), NEW t \in Seq(S), NEW kind, NEW before, NEW u, NEW v,
         LastIs(q, kind, before, u), LastIs(t, kind, u, v)
  PROVE  LastIs(q \o t, kind, before, v)
<1> DEFINE b == q \o t
<1> HIDE DEF b
<1>1. CASE Ends(t, kind, v)
  BY <1>1, EndsOfBoth DEF LastIs
<1>2. CASE (\A i \in DOMAIN t : t[i].kind # kind) /\ v = u
  <2>1. CASE Ends(q, kind, u)
    <3>1. PICK i \in DOMAIN q : /\ q[i].kind = kind /\ q[i].n = u
                                /\ \A j \in DOMAIN q : q[j].kind = kind => j <= i
      BY <2>1 DEF Ends
    <3>2. i \in DOMAIN b /\ b[i].kind = kind /\ b[i].n = v
      BY <1>2, <3>1, Joined DEF b
    <3>3. ASSUME NEW k \in DOMAIN b, b[k].kind = kind
          PROVE  k <= i
      <4>1. k \in DOMAIN q /\ b[k] = q[k]
        BY <1>2, <3>3, Joined DEF b
      <4>2. QED
        BY <3>1, <3>3, <4>1
    <3>4. Ends(b, kind, v)
      BY <3>2, <3>3 DEF Ends
    <3>5. QED
      BY <3>4 DEF LastIs, b
  <2>2. CASE (\A i \in DOMAIN q : q[i].kind # kind) /\ u = before
    <3>1. \A k \in DOMAIN b : b[k].kind # kind
      BY <1>2, <2>2, Joined DEF b
    <3>2. QED
      BY <1>2, <2>2, <3>1 DEF LastIs, b
  <2>3. QED
    BY <2>1, <2>2 DEF LastIs
<1>3. QED
  BY <1>1, <1>2 DEF LastIs

LEMMA LastOfNone ==
  ASSUME NEW q, NEW kind, NEW v, \A i \in DOMAIN q : q[i].kind # kind
  PROVE  LastIs(q, kind, v, v)
BY DEF LastIs

LEMMA EndsOfOne ==
  ASSUME NEW b
  PROVE  Ends(<<b>>, b.kind, b.n)
<1>1. DOMAIN <<b>> = {1} /\ <<b>>[1] = b
  OBVIOUS
<1>2. QED
  BY <1>1 DEF Ends

LEMMA NoneInOne ==
  ASSUME NEW b, NEW kind, b.kind # kind
  PROVE  \A i \in DOMAIN <<b>> : <<b>>[i].kind # kind
OBVIOUS

LEMMA LastOfTail ==
  ASSUME NEW S, NEW q \in Seq(S), q # <<>>, NEW kind, NEW before, NEW v,
         LastIs(q, kind, before, v)
  PROVE  LastIs(Tail(q), kind, IF Head(q).kind = kind THEN Head(q).n ELSE before, v)
<1> DEFINE t == Tail(q)
           b == IF Head(q).kind = kind THEN Head(q).n ELSE before
<1>1. /\ \A i \in DOMAIN t : i + 1 \in DOMAIN q /\ t[i] = q[i + 1]
      /\ \A i \in DOMAIN q : i = 1 \/ (i - 1 \in DOMAIN t /\ t[i - 1] = q[i])
      /\ DOMAIN t \subseteq Nat \ {0} /\ DOMAIN q \subseteq Nat \ {0}
      /\ Head(q) = q[1] /\ 1 \in DOMAIN q
  OBVIOUS
<1> HIDE DEF t
<1>2. CASE (\A i \in DOMAIN q : q[i].kind # kind) /\ v = before
  BY <1>1, <1>2 DEF LastIs, t
<1>3. CASE Ends(q, kind, v)
  <2>1. PICK i \in DOMAIN q : /\ q[i].kind = kind /\ q[i].n = v
                              /\ \A j \in DOMAIN q : q[j].kind = kind => j <= i
    BY <1>3 DEF Ends
  <2>2. CASE i = 1
    <3>1. \A j \in DOMAIN t : t[j].kind # kind
      <4> SUFFICES ASSUME NEW j \in DOMAIN t, t[j].kind = kind PROVE FALSE
        OBVIOUS
      <4>1. j + 1 \in DOMAIN q /\ q[j + 1].kind = kind /\ j \in Nat /\ j > 0
        BY <1>1
      <4>2. j + 1 <= 1
        BY <2>1, <2>2, <4>1
      <4>3. QED
        BY <4>1, <4>2
    <3>2. b = v
      BY <1>1, <2>1, <2>2
    <3>3. QED
      BY <3>1, <3>2 DEF LastIs, t
  <2>3. CASE i # 1
    <3>1. i - 1 \in DOMAIN t /\ t[i - 1].kind = kind /\ t[i - 1].n = v
      BY <1>1, <2>1, <2>3
    <3>2. ASSUME NEW j \in DOMAIN t, t[j].kind = kind
          PROVE  j <= i - 1
      <4>1. j + 1 \in DOMAIN q /\ q[j + 1].kind = kind /\ j \in Nat /\ i \in Nat
        BY <1>1, <3>2
      <4>2. j + 1 <= i
        BY <2>1, <4>1
      <4>3. QED
        BY <4>1, <4>2
    <3>3. Ends(t, kind, v)
      BY <3>1, <3>2 DEF Ends
    <3>4. QED
      BY <3>3 DEF LastIs, t
  <2>4. QED
    BY <2>2, <2>3
<1>4. QED
  BY <1>2, <1>3 DEF LastIs

-----------------------------------------------------------------------------
(* Pictures *)

LEMMA ToldIsStored ==
  ASSUME stored \in Pictures, NEW k \in MessageKinds
  PROVE  /\ LastIs(Told(k), k, 0, stored[k])
         /\ \A j \in MessageKinds \ {k}, x \in Nat : LastIs(Told(j), k, x, x)
<1>1. stored[k] \in Nat
  BY DEF Pictures
<1>2. LastIs(Told(k), k, 0, stored[k])
  <2>1. CASE stored[k] = 0
    <3>1. Told(k) = <<>>
      BY <2>1 DEF Told
    <3>2. \A i \in DOMAIN <<>> : <<>>[i].kind # k
      OBVIOUS
    <3>3. QED
      BY <2>1, <3>1, <3>2, LastOfNone
  <2>2. CASE stored[k] # 0
    <3>1. Told(k) = <<HubMessage(k, stored[k])>>
      BY <2>2 DEF Told
    <3>2. QED
      BY <1>1, <3>1, EndsOfOne, OneMessage DEF LastIs
  <2>3. QED
    BY <2>1, <2>2
<1>3. ASSUME NEW j \in MessageKinds \ {k}, NEW x \in Nat
      PROVE  LastIs(Told(j), k, x, x)
  <2>1. CASE stored[j] = 0
    <3>1. Told(j) = <<>>
      BY <2>1 DEF Told
    <3>2. \A i \in DOMAIN <<>> : <<>>[i].kind # k
      OBVIOUS
    <3>3. QED
      BY <3>1, <3>2, LastOfNone
  <2>2. CASE stored[j] # 0
    <3>1. Told(j) = <<HubMessage(j, stored[j])>> /\ stored[j] \in Nat
      BY <2>2 DEF Told, Pictures
    <3>2. HubMessage(j, stored[j]).kind # k
      BY <3>1, OneMessage
    <3>3. QED
      BY <3>1, <3>2, NoneInOne, LastOfNone
  <2>3. QED
    BY <2>1, <2>2
<1>4. QED
  BY <1>2, <1>3

\* What registering returns is the last message of each kind.
LEMMA SnapshotIsStored ==
  ASSUME stored \in Pictures, NEW k \in MessageKinds
  PROVE  LastIs(Snapshot, k, 0, stored[k])
<1> DEFINE d == Told("devices")
           s == Told("status")
           t == Told("timeline")
<1>1. d \in Seq(HubMessages) /\ s \in Seq(HubMessages) /\ t \in Seq(HubMessages)
  BY SnapshotIsMessages DEF MessageKinds
<1>2. Snapshot = (d \o s) \o t
  BY DEF Snapshot
<1>3. LastIs(Told(k), k, 0, stored[k]) /\ 0 \in Nat /\ stored[k] \in Nat
        /\ \A j \in MessageKinds \ {k}, x \in Nat : LastIs(Told(j), k, x, x)
  BY ToldIsStored DEF Pictures
<1>4. k \in {"devices", "status", "timeline"}
  BY DEF MessageKinds
<1> DEFINE x == IF k = "devices" THEN stored[k] ELSE 0
           y == IF k \in {"devices", "status"} THEN stored[k] ELSE 0
<1>5. LastIs(d, k, 0, x) /\ LastIs(s, k, x, y) /\ LastIs(t, k, y, stored[k])
  <2>1. CASE k = "devices"
    BY <1>3, <2>1 DEF MessageKinds
  <2>2. CASE k = "status"
    BY <1>3, <2>2 DEF MessageKinds
  <2>3. CASE k = "timeline"
    BY <1>3, <2>3 DEF MessageKinds
  <2>4. QED
    BY <1>4, <2>1, <2>2, <2>3
<1> HIDE DEF d, s, t, x, y
<1>6. d \o s \in Seq(HubMessages)
  BY <1>1, ConcatProperties
<1>7. LastIs(d \o s, k, 0, y)
  BY <1>1, <1>5, LastOfBoth
<1>8. LastIs((d \o s) \o t, k, 0, stored[k])
  BY <1>1, <1>5, <1>6, <1>7, LastOfBoth
<1>9. QED
  BY <1>2, <1>8

\* What the hub is about to tell.
Telling == IF hub.pc = "tell" THEN <<hub.msg>> ELSE <<>>

\* A queue that loses its head and a picture that has seen it.
LEMMA HeadSeen ==
  ASSUME NEW q \in Seq(HubMessages), q # <<>>, NEW rest \in Seq(HubMessages), NEW v \in Pictures,
         NEW k \in MessageKinds, NEW n, LastIs(q \o rest, k, v[k], n)
  PROVE  LastIs(Tail(q) \o rest, k, Seen(v, Head(q))[k], n)
<1>1. q \o rest \in Seq(HubMessages) /\ q \o rest # <<>>
        /\ Head(q \o rest) = Head(q) /\ Tail(q \o rest) = Tail(q) \o rest
  OBVIOUS
<1>2. Head(q) \in HubMessages
  BY QueueTail
<1>3. LastIs(Tail(q \o rest), k, IF Head(q \o rest).kind = k THEN Head(q \o rest).n ELSE v[k], n)
  BY <1>1, LastOfTail
<1>4. Seen(v, Head(q))[k] = IF Head(q).kind = k THEN Head(q).n ELSE v[k]
  BY <1>2, SeenIn
<1> DEFINE h == Head(q)
           r == q \o rest
           x == IF h.kind = k THEN h.n ELSE v[k]
<1>5. LastIs(Tail(r), k, x, n)
  BY <1>1, <1>3
<1> HIDE DEF h, r, x
<1>6. Seen(v, Head(q))[k] = x
  BY <1>4 DEF h, x
<1>7. Tail(r) = Tail(q) \o rest
  BY <1>1 DEF r
<1>8. QED
  BY <1>5, <1>6, <1>7

LEMMA Joins ==
  ASSUME NEW a \in Seq(HubMessages), NEW b \in Seq(HubMessages), NEW c \in Seq(HubMessages)
  PROVE  /\ (a \o b) \o c = a \o (b \o c)
         /\ a \o b \in Seq(HubMessages) /\ b \o c \in Seq(HubMessages)
         /\ a \o (b \o c) \in Seq(HubMessages)
<1>1. (a \o b) \o c = a \o (b \o c)
  BY ConcatAssociative
<1>2. a \o b \in Seq(HubMessages) /\ b \o c \in Seq(HubMessages)
  BY ConcatProperties
<1>3. a \o (b \o c) \in Seq(HubMessages)
  BY <1>2, ConcatProperties
<1>4. QED
  BY <1>1, <1>2, <1>3

LEMMA ComingIs ==
  ASSUME BridgeTypeOK, NEW c \in Connections
  PROVE  /\ Telling \in Seq(HubMessages)
         /\ Coming(c) = (backlog[c] \o outgoing[c]) \o Telling
         /\ Coming(c) = backlog[c] \o (outgoing[c] \o Telling)
         /\ backlog[c] \o outgoing[c] \in Seq(HubMessages)
         /\ outgoing[c] \o Telling \in Seq(HubMessages)
         /\ backlog[c] \in Seq(HubMessages) /\ outgoing[c] \in Seq(HubMessages)
         /\ Coming(c) \in Seq(HubMessages)
<1>1. Telling \in Seq(HubMessages)
  <2>1. hub.msg \in HubMessages
    BY DEF BridgeTypeOK, Hubs
  <2>2. <<hub.msg>> \in Seq(HubMessages)
    BY <2>1
  <2>3. QED
    BY <2>2, NoMessages DEF Telling
<1>2. backlog[c] \in Seq(HubMessages) /\ outgoing[c] \in Seq(HubMessages)
  BY DEF BridgeTypeOK
<1>3. Coming(c) = (backlog[c] \o outgoing[c]) \o Telling
  BY DEF Coming, Telling
<1> DEFINE b == backlog[c]
           o == outgoing[c]
           t == Telling
<1> HIDE DEF b, o, t
<1>4. b \in Seq(HubMessages) /\ o \in Seq(HubMessages) /\ t \in Seq(HubMessages)
  BY <1>1, <1>2 DEF b, o, t
<1>5. /\ (b \o o) \o t = b \o (o \o t)
      /\ b \o o \in Seq(HubMessages) /\ o \o t \in Seq(HubMessages)
      /\ b \o (o \o t) \in Seq(HubMessages)
  BY <1>4, Joins
<1>6. Coming(c) = (b \o o) \o t
  BY <1>3 DEF b, o, t
<1>7. QED
  BY <1>4, <1>5, <1>6 DEF b, o, t

LEMMA PictureFrame ==
  ASSUME PictureIsCurrent, UNCHANGED <<registered, stored, view, outgoing, backlog>>,
         Telling' = Telling
  PROVE  PictureIsCurrent'
BY DEF PictureIsCurrent, Coming, Telling

LEMMA PictureStep ==
  BridgeTypeOK /\ BridgeTypeOK' /\ ClientsInv /\ StoredInv /\ PictureIsCurrent
     /\ [BridgeNext]_bridgeVars => PictureIsCurrent'
<1> SUFFICES ASSUME BridgeTypeOK, BridgeTypeOK', ClientsInv, StoredInv, PictureIsCurrent,
                    [BridgeNext]_bridgeVars
             PROVE  PictureIsCurrent'
  OBVIOUS
<1>a. \A c \in registered : c \in Connections
  BY DEF BridgeTypeOK
<1>b. \A c \in Connections, k \in MessageKinds : view[c] \in Pictures /\ stored[k] \in Nat
  BY DEF BridgeTypeOK, Pictures
<1>c. /\ hub \in Hubs /\ hub.msg \in HubMessages
      /\ \A pc \in HubStages : HubMoves(pc) => hub'.pc = pc /\ hub'.msg = hub.msg
      /\ \A k : Tells(k) => hub'.pc = "store"
  <2>1. hub \in Hubs
    BY DEF BridgeTypeOK
  <2>2. hub.msg \in HubMessages
    BY <2>1 DEF Hubs
  <2>3. ASSUME NEW k, Tells(k)
        PROVE  hub'.pc = "store"
    BY <2>1, <2>3 DEF Hubs, Tells
  <2>4. \A pc \in HubStages : HubMoves(pc) => hub'.pc = pc /\ hub'.msg = hub.msg
    BY <2>1, HubMovesIn
  <2>5. QED
    BY <2>1, <2>2, <2>3, <2>4
<1>1. ASSUME NEW c \in Connections, RegisterClient(c)
      PROVE  PictureIsCurrent'
  <2> SUFFICES ASSUME NEW d \in registered', NEW k \in MessageKinds
               PROVE  LastIs(Coming(d), k, view[d][k], stored[k])'
    BY DEF PictureIsCurrent
  <2>1. UNCHANGED <<hub, stored, outgoing, view>> /\ Telling' = Telling
    BY <1>1 DEF RegisterClient, Telling
  <2>2. CASE d = c
    <3>1. c \notin registered
      BY <1>1 DEF RegisterClient, ClientsInv
    <3>2. outgoing[c] = <<>> /\ view[c][k] = 0
      BY <3>1 DEF ClientsInv, NothingSeen
    <3>3. backlog'[c] = Snapshot
      BY <1>1 DEF RegisterClient, BridgeTypeOK
    <3>4. Snapshot \in Seq(HubMessages) /\ LastIs(Snapshot, k, 0, stored[k])
      BY SnapshotIsMessages, SnapshotIsStored DEF BridgeTypeOK
    <3>5. Coming(c)' = Snapshot \o Telling
      <4>1. Coming(c)' = (backlog'[c] \o outgoing'[c]) \o Telling'
        BY DEF Coming, Telling
      <4>2. Snapshot \o <<>> = Snapshot
        BY <3>4, ConcatEmptySeq
      <4>3. QED
        BY <2>1, <3>2, <3>3, <4>1, <4>2
    <3>6. LastIs(Telling, k, stored[k], stored[k])
      <4>1. CASE hub.pc # "tell"
        <5>1. Telling = <<>> /\ \A i \in DOMAIN <<>> : <<>>[i].kind # k
          BY <4>1 DEF Telling
        <5>2. QED
          BY <5>1, LastOfNone
      <4>2. CASE hub.pc = "tell" /\ hub.msg.kind = k
        <5>1. Telling = <<hub.msg>> /\ hub.msg.n = stored[k]
          BY <4>2 DEF Telling, StoredInv
        <5>2. QED
          BY <4>2, <5>1, EndsOfOne DEF LastIs
      <4>3. CASE hub.pc = "tell" /\ hub.msg.kind # k
        <5>1. Telling = <<hub.msg>>
          BY <4>3 DEF Telling
        <5>2. QED
          BY <4>3, <5>1, NoneInOne, LastOfNone
      <4>4. QED
        BY <4>1, <4>2, <4>3
    <3>7. LastIs(Snapshot \o Telling, k, 0, stored[k])
      BY <3>4, <3>6, ComingIs, LastOfBoth
    <3>8. QED
      BY <2>1, <2>2, <3>2, <3>5, <3>7
  <2>3. CASE d # c
    <3>1. d \in registered /\ backlog'[d] = backlog[d]
      BY <1>1, <2>3 DEF RegisterClient, BridgeTypeOK
    <3>2. Coming(d)' = Coming(d)
      BY <2>1, <3>1 DEF Coming
    <3>3. QED
      BY <2>1, <3>1, <3>2 DEF PictureIsCurrent
  <2>4. QED
    BY <2>2, <2>3
<1>2. ASSUME NEW c \in Connections, Greet(c)
      PROVE  PictureIsCurrent'
  <2>1. UNCHANGED <<hub, stored, registered, outgoing>> /\ Telling' = Telling
    BY <1>2 DEF Greet, Telling
  <2>2. CASE backlog[c] = <<>>
    BY <1>2, <2>1, <2>2, PictureFrame DEF Greet
  <2>3. CASE backlog[c] # <<>>
    <3> SUFFICES ASSUME NEW d \in registered', NEW k \in MessageKinds
                 PROVE  LastIs(Coming(d), k, view[d][k], stored[k])'
      BY DEF PictureIsCurrent
    <3>1. d \in registered /\ d \in Connections /\ LastIs(Coming(d), k, view[d][k], stored[k])
      BY <1>a, <2>1 DEF PictureIsCurrent
    <3>2. CASE d = c
      <4>1. view'[c] = Seen(view[c], Head(backlog[c])) /\ backlog'[c] = Tail(backlog[c])
        BY <1>2, <2>3 DEF Greet, BridgeTypeOK
      <4>2. Coming(c) = backlog[c] \o (outgoing[c] \o Telling)
              /\ backlog[c] \in Seq(HubMessages) /\ outgoing[c] \o Telling \in Seq(HubMessages)
        BY ComingIs
      <4>3. Coming(c)' = Tail(backlog[c]) \o (outgoing[c] \o Telling)
        <5>1. Coming(c)' = (Tail(backlog[c]) \o outgoing[c]) \o Telling
          BY <2>1, <4>1 DEF Coming, Telling
        <5>2. Tail(backlog[c]) \in Seq(HubMessages) /\ outgoing[c] \in Seq(HubMessages)
                /\ Telling \in Seq(HubMessages)
          BY <2>3, ComingIs, QueueTail
        <5> DEFINE b == Tail(backlog[c])
                   o == outgoing[c]
                   t == Telling
        <5> HIDE DEF b, o, t
        <5>3. b \in Seq(HubMessages) /\ o \in Seq(HubMessages) /\ t \in Seq(HubMessages)
          BY <5>2 DEF b, o, t
        <5>4. (b \o o) \o t = b \o (o \o t)
          BY <5>3, Joins
        <5>5. QED
          BY <5>1, <5>4 DEF b, o, t
      <4>4. QED
        BY <1>b, <2>1, <2>3, <3>1, <3>2, <4>1, <4>2, <4>3, HeadSeen
    <3>3. CASE d # c
      <4>1. view'[d] = view[d] /\ backlog'[d] = backlog[d]
        BY <1>2, <2>3, <3>1, <3>3 DEF Greet, BridgeTypeOK
      <4>2. Coming(d)' = Coming(d)
        BY <2>1, <4>1 DEF Coming
      <4>3. QED
        BY <2>1, <3>1, <4>1, <4>2
    <3>4. QED
      BY <3>2, <3>3
  <2>4. QED
    BY <2>2, <2>3
<1>3. ASSUME NEW c \in Connections, Send(c)
      PROVE  PictureIsCurrent'
  <2>1. UNCHANGED <<hub, stored, registered, backlog>> /\ Telling' = Telling
    BY <1>3 DEF Send, Telling
  <2> SUFFICES ASSUME NEW d \in registered', NEW k \in MessageKinds
               PROVE  LastIs(Coming(d), k, view[d][k], stored[k])'
    BY DEF PictureIsCurrent
  <2>2. d \in registered /\ d \in Connections /\ LastIs(Coming(d), k, view[d][k], stored[k])
    BY <1>a, <2>1 DEF PictureIsCurrent
  <2>3. CASE d = c
    <3>1. view'[c] = Seen(view[c], Head(outgoing[c])) /\ outgoing'[c] = Tail(outgoing[c])
            /\ outgoing[c] # <<>> /\ backlog[c] = <<>>
      BY <1>3 DEF Send, BridgeTypeOK, ClientsInv
    <3>2. outgoing[c] \in Seq(HubMessages) /\ Telling \in Seq(HubMessages)
            /\ Tail(outgoing[c]) \in Seq(HubMessages)
      BY <3>1, ComingIs, QueueTail
    <3>3. Coming(c) = outgoing[c] \o Telling /\ Coming(c)' = Tail(outgoing[c]) \o Telling
      BY <2>1, <3>1, <3>2, ConcatEmptySeq DEF Coming, Telling
    <3>4. QED
      BY <1>b, <2>1, <2>2, <2>3, <3>1, <3>2, <3>3, HeadSeen
  <2>4. CASE d # c
    <3>1. view'[d] = view[d] /\ outgoing'[d] = outgoing[d]
      BY <1>3, <2>2, <2>4 DEF Send, BridgeTypeOK
    <3>2. Coming(d)' = Coming(d)
      BY <2>1, <3>1 DEF Coming
    <3>3. QED
      BY <2>1, <2>2, <3>1, <3>2
  <2>5. QED
    BY <2>3, <2>4
<1>4. ASSUME NEW c \in Connections, Unregister(c)
      PROVE  PictureIsCurrent'
  <2> SUFFICES ASSUME NEW d \in registered', NEW k \in MessageKinds
               PROVE  LastIs(Coming(d), k, view[d][k], stored[k])'
    BY DEF PictureIsCurrent
  <2>1. d \in registered /\ d \in Connections /\ d # c /\ UNCHANGED <<hub, stored>>
    BY <1>4, <1>a DEF Unregister
  <2>2. view'[d] = view[d] /\ outgoing'[d] = outgoing[d] /\ backlog'[d] = backlog[d]
    BY <1>4, <2>1 DEF Unregister, BridgeTypeOK
  <2>3. Coming(d)' = Coming(d)
    BY <2>1, <2>2 DEF Coming
  <2>4. QED
    BY <2>1, <2>2, <2>3 DEF PictureIsCurrent
<1>5. CASE HubStores
  <2> SUFFICES ASSUME NEW d \in registered', NEW k \in MessageKinds
               PROVE  LastIs(Coming(d), k, view[d][k], stored[k])'
    BY DEF PictureIsCurrent
  <2>1. /\ d \in registered /\ d \in Connections /\ UNCHANGED <<view, outgoing, backlog>>
        /\ LastIs(Coming(d), k, view[d][k], stored[k]) /\ hub.pc = "store"
        /\ HubMoves("tell")
    BY <1>5, <1>a DEF HubStores, PictureIsCurrent
  <2>2. hub'.pc = "tell" /\ hub'.msg = hub.msg
    BY <1>c, <2>1 DEF HubStages
  <2> DEFINE q == backlog[d] \o outgoing[d]
             t == <<hub.msg>>
  <2>3. q \in Seq(HubMessages) /\ t \in Seq(HubMessages) /\ Coming(d) = q \o Telling
    <3>1. q \in Seq(HubMessages) /\ Coming(d) = q \o Telling
      BY <2>1, ComingIs
    <3>2. t \in Seq(HubMessages)
      BY <1>c
    <3>3. QED
      BY <3>1, <3>2
  <2>4. Coming(d) = q
    BY <2>1, <2>3, ConcatEmptySeq DEF Telling
  <2>5. Coming(d)' = q \o t
    BY <2>1, <2>2 DEF Coming
  <2>6. stored'[k] = IF k = hub.msg.kind THEN hub.msg.n ELSE stored[k]
    BY <1>5 DEF HubStores, BridgeTypeOK, Pictures
  <2>7. LastIs(t, k, stored[k], stored'[k])
    <3>1. CASE hub.msg.kind = k
      BY <2>6, <3>1, EndsOfOne DEF LastIs
    <3>2. CASE hub.msg.kind # k
      BY <2>6, <3>2, NoneInOne, LastOfNone
    <3>3. QED
      BY <3>1, <3>2
  <2> HIDE DEF q, t
  <2>8. LastIs(q \o t, k, view[d][k], stored'[k])
    BY <2>1, <2>3, <2>4, <2>7, LastOfBoth
  <2>9. QED
    BY <2>1, <2>5, <2>8
<1>6. CASE HubTells
  <2> SUFFICES ASSUME NEW d \in registered', NEW k \in MessageKinds
               PROVE  LastIs(Coming(d), k, view[d][k], stored[k])'
    BY DEF PictureIsCurrent
  <2>1. /\ d \in registered /\ d \in Connections /\ UNCHANGED <<view, stored, backlog>>
        /\ LastIs(Coming(d), k, view[d][k], stored[k]) /\ hub.pc = "tell"
    BY <1>6, <1>a DEF HubTells, PictureIsCurrent
  <2>2. hub'.pc # "tell" /\ outgoing'[d] = Append(outgoing[d], hub.msg)
    BY <1>6, <1>c, <2>1 DEF HubTells, HubStages
  <2> DEFINE b == backlog[d]
             o == outgoing[d]
             t == <<hub.msg>>
  <2>3. b \in Seq(HubMessages) /\ o \in Seq(HubMessages) /\ t \in Seq(HubMessages)
          /\ Coming(d) = b \o (o \o t)
    BY <1>c, <2>1, ComingIs DEF Telling
  <2>4. Append(o, hub.msg) = o \o t
    BY <1>c, <2>3, AppendIsConcat
  <2>5. Coming(d)' = (b \o (o \o t)) \o <<>>
    BY <2>1, <2>2, <2>4 DEF Coming
  <2> HIDE DEF b, o, t
  <2>6. b \o (o \o t) \in Seq(HubMessages)
    BY <2>3, ConcatProperties
  <2>7. Coming(d)' = Coming(d)
    BY <2>3, <2>5, <2>6, ConcatEmptySeq
  <2>8. QED
    BY <2>1, <2>7
<1>7. CASE HubStarts \/ HubHandles \/ HubForwards \/ HubTimes \/ HubTurns \/ HubLeaves
  <2>1. UNCHANGED <<registered, stored, view, outgoing, backlog>> /\ hub.pc # "tell"
    BY <1>7 DEF HubStarts, HubHandles, HubForwards, HubTimes, HubTurns, HubLeaves
  <2>2. hub'.pc # "tell"
    <3>1. CASE HubStarts
      BY <1>c, <3>1 DEF HubStarts, HubStages
    <3>2. CASE HubHandles
      BY <1>c, <2>1, <3>2 DEF HubHandles
    <3>3. CASE HubForwards
      BY <2>1, <3>3 DEF HubForwards
    <3>4. CASE HubTimes
      BY <1>c, <3>4 DEF HubTimes, HubStages
    <3>5. CASE HubTurns
      BY <1>c, <3>5 DEF HubTurns, HubStages
    <3>6. CASE HubLeaves
      BY <1>c, <3>6 DEF HubLeaves, HubStages
    <3>7. QED
      BY <1>7, <3>1, <3>2, <3>3, <3>4, <3>5, <3>6
  <2>3. QED
    BY <2>1, <2>2, PictureFrame DEF Telling
<1>8. ASSUME UNCHANGED <<registered, stored, view, outgoing, backlog, hub>>
      PROVE  PictureIsCurrent'
  BY <1>8, PictureFrame DEF Telling
<1>9. ASSUME NEW c \in Connections,
             AnswerAndClose(c) \/ AskToFollow(c) \/ Leave(c) \/ SeeStop(c) \/ Release(c)
      PROVE  PictureIsCurrent'
  BY <1>8, <1>9 DEF AnswerAndClose, AskToFollow, Leave, SeeStop, Release
<1>10. ASSUME NEW p \in Peers, RefuseArrival(p) \/ \E c \in Connections : Accept(c, p)
       PROVE  PictureIsCurrent'
  BY <1>8, <1>10 DEF RefuseArrival, Accept
<1>11. CASE AcceptorEnds \/ SourceReports \/ SourceObeys \/ SourceEnds \/ StopServer \/ Stopped
              \/ UNCHANGED bridgeVars
  BY <1>8, <1>11 DEF AcceptorEnds, SourceReports, SourceObeys, SourceEnds, StopServer, Stopped,
                     bridgeVars
<1>12. QED
  BY <1>1, <1>2, <1>3, <1>4, <1>5, <1>6, <1>7, <1>9, <1>10, <1>11
     DEF BridgeNext, ConnectionNext, HubNext

-----------------------------------------------------------------------------
(* The theorems *)

LEMMA BridgeInvStarts == BridgeInit => BridgeInv
<1> SUFFICES ASSUME BridgeInit PROVE BridgeInv
  OBVIOUS
<1>0. booth \in Booths /\ label \in Labels
  BY NeededAssumption DEF BridgeInit, Booths, Wishes, Labels, Named, Locks
<1>1. BridgeTypeOK
  BY SlotsAssumption, <1>0
     DEF BridgeInit, BridgeTypeOK, Counts, Threads, ThreadStages, NoConnection, Hubs, HubStages,
         NoMessage, HubMessage, HubMessages, MessageKinds, NothingSeen, Pictures
<1>2. SlotsInv
  <2>1. \A c \in Connections : ~HoldsSlot(c)
    BY DEF BridgeInit, NoConnection, HoldsSlot
  <2>2. {c \in Connections : HoldsSlot(c)} = {}
          /\ \A p \in Peers : {c \in Connections : HoldsSlot(c) /\ conn[c].peer = p} = {}
    BY <2>1
  <2>3. counts.total = 0 /\ \A p \in Peers : counts.of[p] = 0
    BY DEF BridgeInit
  <2>4. Cardinality({}) = 0 /\ IsFiniteSet({}) /\ 0 <= MaxConnections /\ 0 <= MaxPerPeer
    BY FS_EmptySet, SlotsAssumption
  <2>5. SlotsAreCounted
    BY <2>2, <2>3, <2>4 DEF SlotsAreCounted
  <2>6. QED
    BY <2>2, <2>4, <2>5 DEF SlotsInv, Holders
<1>3. ClientsInv /\ StoredInv /\ PictureIsCurrent
  BY DEF BridgeInit, ClientsInv, NoConnection, StoredInv, PictureIsCurrent
<1>4. LabelInv
  BY <1>0 DEF BridgeInit, Booths, LabelInv, LabelHolds
<1>5. QED
  BY <1>1, <1>2, <1>3, <1>4 DEF BridgeInv

\* Whatever the connections, the source, the hub and the handle do, and in
\* whatever order, the invariant holds.
THEOREM BridgeInvariant == BridgeSpec => []BridgeInv
<1>1. BridgeInv /\ [BridgeNext]_bridgeVars => BridgeInv'
  BY BridgeTypes, SlotsStep, ClientsStep, StoredStep, LabelStep, PictureStep DEF BridgeInv
<1>2. QED
  BY <1>1, BridgeInvStarts, PTL DEF BridgeSpec

\* The slots taken are those of the connections that are served, in all and for
\* each address, and neither cap is ever passed (server.rs: Counts, Slot).
THEOREM SlotsCounted == BridgeSpec => []SlotsAreCounted
<1>1. BridgeInv => SlotsAreCounted
  BY DEF BridgeInv, SlotsInv
<1>2. QED
  BY <1>1, BridgeInvariant, PTL

\* A client that registers between any two steps of the hub has, in what it was
\* sent and what is on its way, the last message of each kind (Hub::register,
\* Hub::broadcast and the store before it).
THEOREM PicturesCurrent == BridgeSpec => []PictureIsCurrent
<1>1. BridgeInv => PictureIsCurrent
  BY DEF BridgeInv
<1>2. QED
  BY <1>1, BridgeInvariant, PTL

\* A timeline counts another device's phase than that of the one it names only as
\* long as fewer phase reports of that one were used than a first lock averages, or
\* the tempo is unknown, for every precision (BridgeClock::handle and the
\* follower's request_resync, begin_acquire and finish_acquire).
THEOREM LabelsCatchUp == BridgeSpec => []LabelCatchesUp
<1>1. BridgeInv => LabelCatchesUp
  <2> SUFFICES ASSUME BridgeInv, label.seen, label.phaseOf # label.device
               PROVE  label.named < booth.needed \/ ~label.timed
    BY DEF LabelCatchesUp
  <2>1. booth.needed \in Nat \ {0} /\ label \in Labels /\ LabelHolds(label, booth.needed)
    BY DEF BridgeInv, BridgeTypeOK, Booths, LabelInv
  <2>2. CASE label.resync
    BY <2>1, <2>2 DEF LabelHolds
  <2>3. CASE ~label.resync
    BY <2>1, <2>3 DEF LabelHolds
  <2>4. QED
    BY <2>1, <2>2, <2>3 DEF Labels
<1>2. QED
  BY <1>1, BridgeInvariant, PTL

-----------------------------------------------------------------------------
(* The WebSocket                                                             *)

Characters == {"a", "lead", "trail"}
Strings == Seq(Characters)
Ops == {"text", "continuation", "binary", "ping", "pong", "close"}
Marks == Flaws \cup DOMAIN CloseAnswer
Drafts == [open : BOOLEAN, text : Strings]
Progresses == [partial : Drafts, given : Seq(Strings), pongs : Seq(Strings)]

Progress(partialOf, givenOf, pongsOf) == [partial |-> partialOf, given |-> givenOf, pongs |-> pongsOf]
SeenSoFar == Progress(partial, given, pongs)
SaidSoFar == Progress(unfinished, meant, pings)

WebTypeOK ==
  /\ wire \in Seq(Frames) /\ missing \in Nat
  /\ partial \in Drafts /\ given \in Seq(Strings) /\ pongs \in Seq(Strings)
  /\ unfinished \in Drafts /\ meant \in Seq(Strings) /\ pings \in Seq(Strings)
  /\ ended \in Nat /\ due \in Nat

\* What a frame is due after a message of which u is open.
DueAfter(u, frame) ==
  IF frame.op = "close" THEN CloseAnswer[frame.flaw]
  ELSE IF frame.op = "binary" THEN 1003
  ELSE IF frame \in Broken THEN 1002
  ELSE IF frame \notin Data THEN 0
  ELSE IF (frame.op = "text") = u.open THEN IF Len(frame.text) > MaxMessage THEN 1009 ELSE 1002
  ELSE IF Len(u.text \o frame.text) > MaxMessage THEN 1009
  ELSE IF frame.fin /\ ~IsText(u.text \o frame.text) THEN 1007
  ELSE 0

\* One frame that keeps the rules takes the connection from stage s to stage t.
Goes(s, frame, t) ==
  /\ DueAfter(s.partial, frame) = 0
  /\ t = IF frame \in Data
         THEN IF frame.fin
              THEN Progress(Closed, Append(s.given, s.partial.text \o frame.text), s.pongs)
              ELSE Progress(Open(s.partial.text \o frame.text), s.given, s.pongs)
         ELSE IF frame \in Pings THEN Progress(s.partial, s.given, Append(s.pongs, frame.text))
         ELSE s

\* The frames in the buffer that keep the rules: all but the last, perhaps.
Rightly == IF due = 0 THEN Len(wire) ELSE Len(wire) - 1

Before(s, t) == IsPrefix(s.given, t.given) /\ IsPrefix(s.pongs, t.pongs)

\* The stages from what the connection has seen to what the client has said.
Chain(s) ==
  /\ s \in [0 .. Rightly -> Progresses]
  /\ s[0] = SeenSoFar /\ s[Rightly] = SaidSoFar
  /\ \A i \in 1 .. Rightly : Goes(s[i - 1], wire[i], s[i])
  /\ \A i \in 0 .. Rightly : Before(s[i], SaidSoFar)

LastIsDue == due # 0 => wire # <<>> /\ DueAfter(unfinished, wire[Len(wire)]) = due

OpenInv == ended = 0 => LastIsDue /\ \E s : Chain(s)
EndedInv == ended # 0 => ended = due /\ given = meant /\ pongs = pings

WebInv == WebTypeOK /\ OpenInv /\ EndedInv

-----------------------------------------------------------------------------
(* Prefixes *)

LEMMA PrefixOfItself ==
  ASSUME NEW S, NEW s \in Seq(S)
  PROVE  IsPrefix(s, s)
BY DEF IsPrefix

LEMMA PrefixGrows ==
  ASSUME NEW S, NEW s \in Seq(S), NEW t \in Seq(S), NEW x \in S, IsPrefix(s, t)
  PROVE  IsPrefix(s, Append(t, x))
<1>1. Len(s) \in Nat /\ Len(t) \in Nat /\ Len(s) <= Len(t) /\ Len(Append(t, x)) = Len(t) + 1
  BY DEF IsPrefix
<1>2. SubSeq(Append(t, x), 1, Len(s)) = SubSeq(t, 1, Len(s))
  BY <1>1
<1>3. QED
  BY <1>1, <1>2 DEF IsPrefix

-----------------------------------------------------------------------------
(* Frames *)

LEMMA BrokenFrames ==
  ASSUME NEW f \in Broken
  PROVE  \/ f.op = "text" /\ f.flaw \in Flaws /\ f.fin = TRUE /\ f.text = <<"a">>
         \/ f.op = "ping" /\ f.flaw = "none" /\ f.fin = FALSE /\ f.text = <<>>
         \/ f.op = "ping" /\ f.flaw = "none" /\ f.fin = TRUE /\ f.text = TooLong
         \/ f.op = "binary" /\ f.flaw = "none" /\ f.fin = TRUE /\ f.text = <<"a">>
<1>1. CASE f \in {Frame("text", TRUE, <<"a">>, flaw) : flaw \in Flaws}
  <2>1. PICK flaw \in Flaws : f = Frame("text", TRUE, <<"a">>, flaw)
    BY <1>1
  <2>2. QED
    BY <2>1 DEF Frame
<1>2. CASE f = Frame("ping", FALSE, <<>>, "none")
  BY <1>2 DEF Frame
<1>3. CASE f = Frame("ping", TRUE, TooLong, "none")
  BY <1>3 DEF Frame
<1>4. CASE f = Frame("binary", TRUE, <<"a">>, "none")
  BY <1>4 DEF Frame
<1>5. QED
  BY <1>1, <1>2, <1>3, <1>4 DEF Broken

LEMMA PingFrames ==
  ASSUME NEW f \in Pings
  PROVE  f.op = "ping" /\ f.flaw = "none" /\ f.fin = TRUE /\ f.text \in Texts /\ Len(f.text) <= ShortSize
<1>1. PICK text \in Texts : Len(text) <= ShortSize /\ f = Frame("ping", TRUE, text, "none")
  BY DEF Pings
<1>2. QED
  BY <1>1 DEF Frame

LEMMA DataFrames ==
  ASSUME NEW f \in Data
  PROVE  f.op \in {"text", "continuation"} /\ f.flaw = "none" /\ f.fin \in BOOLEAN /\ f.text \in Texts
<1>1. PICK op \in {"text", "continuation"}, fin \in BOOLEAN, text \in Texts :
           f = Frame(op, fin, text, "none")
  BY DEF Data
<1>2. QED
  BY <1>1 DEF Frame

LEMMA FrameKinds ==
  ASSUME NEW f \in Frames
  PROVE  /\ f.op \in Ops /\ f.fin \in BOOLEAN /\ f.text \in Strings /\ f.flaw \in Marks
         /\ \/ f \in Data /\ f.op \in {"text", "continuation"} /\ f.flaw = "none"
               /\ f \notin Pings /\ f \notin Broken
            \/ /\ f \in Pings /\ f.op = "ping" /\ f.flaw = "none" /\ f.fin /\ Len(f.text) <= ShortSize
               /\ f \notin Data /\ f \notin Broken
            \/ /\ f \in Broken /\ f \notin Data /\ f \notin Pings
               /\ \/ f.op = "text" /\ f.flaw \in Flaws
                  \/ f.op = "ping" /\ f.flaw = "none" /\ ~f.fin /\ f.text = <<>>
                  \/ f.op = "ping" /\ f.flaw = "none" /\ f.fin /\ Len(f.text) = ShortSize + 1
                  \/ f.op = "binary" /\ f.flaw = "none" /\ f.fin /\ f.text = <<"a">>
            \/ /\ f \in CloseFrames /\ f.op = "close" /\ f.flaw \in DOMAIN CloseAnswer
               /\ f.fin /\ f.text = <<>>
               /\ f \notin Data /\ f \notin Pings /\ f \notin Broken
            \/ /\ f.op = "pong" /\ f.flaw = "none" /\ f.fin /\ f.text = <<>>
               /\ f \notin Data /\ f \notin Pings /\ f \notin Broken
<1>1. TooLong \in Strings /\ Len(TooLong) = ShortSize + 1
  BY WebAssumption DEF Strings, Characters, TooLong
<1>2. <<>> \in Strings /\ <<"a">> \in Strings /\ Texts \subseteq Strings
  BY WebAssumption DEF Strings, Characters
<1>3. "none" \notin Flaws /\ "none" \in Marks /\ Flaws \subseteq Marks /\ DOMAIN CloseAnswer \subseteq Marks
  BY DEF Flaws, Marks, CloseAnswer
<1>4. f \in Broken => f \notin Data /\ f \notin Pings
  <2>0. SUFFICES ASSUME f \in Broken PROVE f \notin Data /\ f \notin Pings
    OBVIOUS
  <2>1. f \notin Data
    BY <1>3, <2>0, BrokenFrames, DataFrames
  <2>2. f \notin Pings
    <3> SUFFICES ASSUME f \in Pings PROVE FALSE
      OBVIOUS
    <3>1. CASE f.op = "ping" /\ f.fin = TRUE
      <4>1. f.text = TooLong
        BY <2>0, <3>1, BrokenFrames
      <4>2. Len(f.text) = ShortSize + 1
        BY <1>1, <4>1
      <4>3. Len(f.text) <= ShortSize
        BY PingFrames
      <4>4. QED
        BY <4>2, <4>3, WebAssumption
    <3>2. QED
      BY <3>1, PingFrames
  <2>3. QED
    BY <2>1, <2>2
<1>5. f \in Data => f \notin Pings
  BY DataFrames, PingFrames
<1>6. CASE f \in Data
  BY <1>2, <1>3, <1>4, <1>5, <1>6, DataFrames DEF Ops
<1>7. CASE f \in Pings
  BY <1>2, <1>3, <1>4, <1>5, <1>7, PingFrames DEF Ops
<1>8. CASE f \in Broken
  <2>1. f.text \in Strings /\ f.op \in Ops /\ f.fin \in BOOLEAN /\ f.flaw \in Marks
    BY <1>1, <1>2, <1>3, <1>8, BrokenFrames DEF Ops
  <2>2. QED
    BY <1>1, <1>4, <1>8, <2>1, BrokenFrames
<1>9. CASE f \in CloseFrames
  <2>1. PICK kind \in DOMAIN CloseAnswer : f = Frame("close", TRUE, <<>>, kind)
    BY <1>9 DEF CloseFrames
  <2>2. f.op = "close" /\ f.flaw \in DOMAIN CloseAnswer /\ f.fin = TRUE /\ f.text = <<>>
    BY <2>1 DEF Frame
  <2>3. f \notin Data /\ f \notin Pings /\ f \notin Broken
    BY <2>2, DataFrames, PingFrames, BrokenFrames
  <2>4. QED
    BY <1>2, <1>3, <1>9, <2>2, <2>3 DEF Ops
<1>10. CASE f = Frame("pong", TRUE, <<>>, "none")
  <2>1. f.op = "pong" /\ f.flaw = "none" /\ f.fin = TRUE /\ f.text = <<>>
    BY <1>10 DEF Frame
  <2>2. f \notin Data /\ f \notin Pings /\ f \notin Broken
    BY <2>1, DataFrames, PingFrames, BrokenFrames
  <2>3. QED
    BY <1>2, <1>3, <2>1, <2>2 DEF Ops
<1>11. QED
  BY <1>6, <1>7, <1>8, <1>9, <1>10 DEF Frames

-----------------------------------------------------------------------------
(* What the parser and the assembler make of the first frame *)

\* What parse_client_frame says of a frame that is all there.
Verdict(frame) ==
  IF frame.flaw \in {"reserved bits", "unknown opcode", "not masked", "size not minimal"} THEN 1002
  ELSE IF frame.op \in Control /\ (~frame.fin \/ Len(frame.text) > ShortSize) THEN 1002
  ELSE IF Len(frame.text) > MaxMessage THEN 1009 ELSE 0

\* In pieces it says the same, or waits.
LEMMA PiecesSayTheSame ==
  ASSUME WebTypeOK, NEW f \in Frames, Parsed(f) >= 0
  PROVE  Parsed(f) = Verdict(f)
<1>1. f.text \in Strings /\ f.op \in Ops /\ f.fin \in BOOLEAN /\ f.flaw \in Marks
  BY FrameKinds
<1>2. Len(f.text) \in Nat
  BY <1>1 DEF Strings
<1>3. SizeCells(f) \in {0, 1}
  BY DEF SizeCells
<1>4. Arrived(f) \in Int
  BY <1>2, <1>3 DEF Arrived, Cells, WebTypeOK
<1> DEFINE here == Arrived(f)
<1> HIDE DEF here
<1>5. here \in Int
  BY <1>4 DEF here
<1>6. Parsed(f) =
        IF here >= 1 /\ f.flaw \in {"reserved bits", "unknown opcode", "not masked"} THEN 1002
        ELSE IF here < 1 + SizeCells(f) THEN -1
        ELSE IF f.flaw = "size not minimal" THEN 1002
        ELSE IF f.op \in Control /\ (~f.fin \/ Len(f.text) > ShortSize) THEN 1002
        ELSE IF Len(f.text) > MaxMessage THEN 1009
        ELSE IF here < Cells(f) THEN -1
        ELSE 0
  BY DEF Parsed, here
<1>7. ~(Parsed(f) = -1)
  OBVIOUS
<1>9. CASE f.flaw \in {"reserved bits", "unknown opcode", "not masked"}
  <2>1. here >= 1
    <3>1. SUFFICES ASSUME ~(here >= 1) PROVE FALSE
      OBVIOUS
    <3>2. here < 1 + SizeCells(f)
      BY <1>3, <1>5, <3>1
    <3>3. QED
      BY <1>6, <1>7, <3>1, <3>2
  <2>2. Parsed(f) = 1002
    BY <1>6, <1>9, <2>1
  <2>3. Verdict(f) = 1002
    BY <1>9 DEF Verdict
  <2>4. QED
    BY <2>2, <2>3
<1>10. CASE f.flaw \notin {"reserved bits", "unknown opcode", "not masked"}
  <2>1. ~(here < 1 + SizeCells(f))
    BY <1>6, <1>7, <1>10
  <2>2. CASE f.flaw = "size not minimal"
    BY <1>6, <1>10, <2>1, <2>2 DEF Verdict
  <2>3. CASE f.flaw # "size not minimal"
    <3>1. Parsed(f) = IF f.op \in Control /\ (~f.fin \/ Len(f.text) > ShortSize) THEN 1002
                      ELSE IF Len(f.text) > MaxMessage THEN 1009
                      ELSE IF here < Cells(f) THEN -1 ELSE 0
      BY <1>6, <1>10, <2>1, <2>3
    <3>2. Verdict(f) = IF f.op \in Control /\ (~f.fin \/ Len(f.text) > ShortSize) THEN 1002
                       ELSE IF Len(f.text) > MaxMessage THEN 1009 ELSE 0
      BY <1>10, <2>3 DEF Verdict
    <3>3. QED
      BY <1>7, <3>1, <3>2
  <2>4. QED
    BY <2>2, <2>3
<1>11. QED
  BY <1>9, <1>10

\* The stage the assembler reaches by a frame.
Reached(frame) ==
  Progress(Pushed(frame).partial, given \o Pushed(frame).texts,
        IF frame.op = "ping" THEN Append(pongs, frame.text) ELSE pongs)

\* A frame that keeps the rules passes and takes the connection on.
LEMMA KeepsRules ==
  ASSUME WebTypeOK, NEW f \in Frames, DueAfter(partial, f) = 0
  PROVE  Verdict(f) = 0 /\ Pushed(f).code = 0 /\ Goes(SeenSoFar, f, Reached(f))
<1> USE DEF Result
<1> DEFINE open == partial.text
           more == f.text
           whole == open \o more
<1>1. /\ f.text \in Strings /\ f.op \in Ops /\ f.fin \in BOOLEAN /\ f.flaw \in Marks
      /\ partial.text \in Strings /\ partial.open \in BOOLEAN
  BY FrameKinds DEF WebTypeOK, Drafts
<1>2. /\ Len(more) \in Nat /\ Len(open) \in Nat /\ Len(whole) = Len(open) + Len(more)
      /\ whole \in Strings
  BY <1>1 DEF Strings
<1>3. SeenSoFar.partial = partial /\ SeenSoFar.given = given /\ SeenSoFar.pongs = pongs
  BY DEF SeenSoFar, Progress
<1> HIDE DEF whole, open, more
<1>4. given \o <<>> = given /\ given \o <<whole>> = Append(given, whole)
  <2>1. given \in Seq(Strings) /\ whole \in Strings
    BY <1>2 DEF WebTypeOK
  <2>2. QED
    BY <2>1, ConcatEmptySeq, AppendIsConcat
<1>0. MaxMessage \in Nat /\ ShortSize \in Nat /\ ShortSize <= MaxMessage /\ MaxMessage >= 1
  BY WebAssumption
<1>5. CASE f \in Data
  <2>1. f.op \in {"text", "continuation"} /\ f.flaw = "none" /\ f \notin Broken
    BY <1>5, FrameKinds
  <2>2. /\ (f.op = "text") # partial.open
        /\ ~(Len(whole) > MaxMessage)
        /\ f.fin => IsText(whole)
    <3>1. DueAfter(partial, f) =
            IF (f.op = "text") = partial.open
            THEN IF Len(more) > MaxMessage THEN 1009 ELSE 1002
            ELSE IF Len(whole) > MaxMessage THEN 1009 ELSE IF f.fin /\ ~IsText(whole) THEN 1007 ELSE 0
      BY <1>5, <2>1 DEF DueAfter, whole, open, more
    <3>2. (f.op = "text") # partial.open
      BY <3>1
    <3>3. QED
      BY <3>1, <3>2
  <2>3. Len(more) <= MaxMessage
    BY <1>0, <1>2, <2>2
  <2>4. Verdict(f) = 0
    BY <1>0, <1>2, <2>1, <2>3 DEF Verdict, more, Control
  <2>5. Pushed(f) = IF f.fin THEN Result(Closed, <<whole>>, 0) ELSE Result(Open(whole), <<>>, 0)
    BY <2>1, <2>2 DEF Pushed, Finished, whole, open, more
  <2>6. CASE f.fin
    <3>1. Pushed(f).code = 0 /\ Pushed(f).partial = Closed /\ Pushed(f).texts = <<whole>>
      BY <2>5, <2>6
    <3>2. Reached(f) = Progress(Closed, Append(given, whole), pongs)
      BY <1>4, <2>1, <3>1 DEF Reached
    <3>3. QED
      BY <1>3, <1>5, <2>4, <2>6, <3>1, <3>2 DEF Goes, whole, open, more
  <2>7. CASE ~f.fin
    <3>1. Pushed(f).code = 0 /\ Pushed(f).partial = Open(whole) /\ Pushed(f).texts = <<>>
      BY <2>5, <2>7
    <3>2. Reached(f) = Progress(Open(whole), given, pongs)
      BY <1>4, <2>1, <3>1 DEF Reached
    <3>3. QED
      BY <1>3, <1>5, <2>4, <2>7, <3>1, <3>2 DEF Goes, whole, open, more
  <2>8. QED
    BY <2>6, <2>7
<1>6. CASE f \in Pings \/ f.op = "pong"
  <2>1. /\ f.op \in {"ping", "pong"} /\ f.flaw = "none" /\ f.fin /\ Len(more) <= ShortSize
        /\ f \notin Data /\ (f \in Pings <=> f.op = "ping")
    <3>1. CASE f \in Pings
      BY <3>1, FrameKinds DEF more
    <3>2. CASE f.op = "pong"
      <4>1. f.flaw = "none" /\ f.fin /\ f.text = <<>> /\ f \notin Data /\ f \notin Pings
        BY <3>2, FrameKinds
      <4>2. Len(more) = 0
        BY <4>1 DEF more
      <4>3. QED
        BY <1>0, <3>2, <4>1, <4>2
    <3>3. QED
      BY <1>6, <3>1, <3>2
  <2>2. Verdict(f) = 0
    BY <1>2, <2>1, <1>0 DEF Verdict, more
  <2>3. Pushed(f).code = 0 /\ Pushed(f).partial = partial /\ Pushed(f).texts = <<>>
    BY <2>1 DEF Pushed
  <2>4. Reached(f) = IF f \in Pings THEN Progress(partial, given, Append(pongs, f.text)) ELSE SeenSoFar
    BY <1>4, <2>1, <2>3 DEF Reached, SeenSoFar
  <2>5. QED
    BY <1>3, <2>1, <2>2, <2>3, <2>4 DEF Goes
<1>7. CASE f \in Broken
  BY <1>7, FrameKinds DEF DueAfter
<1>8. CASE f.op = "close"
  BY <1>8, FrameKinds DEF DueAfter, CloseAnswer
<1>9. QED
  BY <1>5, <1>6, <1>7, <1>8, FrameKinds

\* One that breaks a rule, or closes, ends it with the code that is due.
LEMMA BreaksRule ==
  ASSUME WebTypeOK, NEW f \in Frames, DueAfter(partial, f) # 0
  PROVE  \/ Verdict(f) > 0 /\ Verdict(f) = DueAfter(partial, f)
         \/ /\ Verdict(f) = 0 /\ Pushed(f).code = DueAfter(partial, f)
            /\ Pushed(f).texts = <<>> /\ f.op # "ping" /\ Pushed(f).partial \in Drafts
<1> USE DEF Result
<1> DEFINE open == partial.text
           more == f.text
           whole == open \o more
<1>1. /\ f.text \in Strings /\ f.op \in Ops /\ f.fin \in BOOLEAN /\ f.flaw \in Marks
      /\ partial.text \in Strings /\ partial.open \in BOOLEAN /\ partial \in Drafts
  BY FrameKinds DEF WebTypeOK, Drafts
<1>2. /\ Len(more) \in Nat /\ Len(open) \in Nat /\ Len(whole) = Len(open) + Len(more)
      /\ whole \in Strings
  BY <1>1 DEF Strings
<1>3. Closed \in Drafts
  BY DEF Closed, Drafts, Strings
<1> HIDE DEF whole, open, more
<1>0. MaxMessage \in Nat /\ ShortSize \in Nat /\ ShortSize <= MaxMessage /\ MaxMessage >= 1
  BY WebAssumption
<1>5. CASE f \in Data
  <2>1. f.op \in {"text", "continuation"} /\ f.flaw = "none" /\ f \notin Broken
    BY <1>5, FrameKinds
  <2>2. Verdict(f) = IF Len(more) > MaxMessage THEN 1009 ELSE 0
    BY <2>1 DEF Verdict, more, Control
  <2>3. DueAfter(partial, f) =
          IF (f.op = "text") = partial.open
          THEN IF Len(more) > MaxMessage THEN 1009 ELSE 1002
          ELSE IF Len(whole) > MaxMessage THEN 1009 ELSE IF f.fin /\ ~IsText(whole) THEN 1007 ELSE 0
    <3>1. f.op # "close" /\ f.op # "binary" /\ f \notin Broken /\ f \in Data
      BY <1>5, <2>1
    <3>2. DueAfter(partial, f) =
            IF (f.op = "text") = partial.open
            THEN IF Len(f.text) > MaxMessage THEN 1009 ELSE 1002
            ELSE IF Len(partial.text \o f.text) > MaxMessage THEN 1009
            ELSE IF f.fin /\ ~IsText(partial.text \o f.text) THEN 1007 ELSE 0
      BY <3>1, Zenon DEF DueAfter
    <3>3. QED
      BY <3>2 DEF whole, open, more
  <2>4. Pushed(f) =
          IF (f.op = "text") = partial.open THEN Result(partial, <<>>, 1002)
          ELSE IF Len(whole) > MaxMessage THEN Result(Closed, <<>>, 1009)
          ELSE IF f.fin THEN Finished(whole) ELSE Result(Open(whole), <<>>, 0)
    BY <2>1 DEF Pushed, whole, open, more
  <2>5. CASE Len(more) > MaxMessage
    <3>1. Len(whole) > MaxMessage
      BY <1>0, <1>2, <2>5
    <3>2. QED
      BY <2>2, <2>3, <2>5, <3>1
  <2>6. CASE ~(Len(more) > MaxMessage) /\ (f.op = "text") = partial.open
    BY <1>1, <2>1, <2>2, <2>3, <2>4, <2>6
  <2>7. CASE ~(Len(more) > MaxMessage) /\ (f.op = "text") # partial.open /\ Len(whole) > MaxMessage
    BY <1>3, <2>1, <2>2, <2>3, <2>4, <2>7
  <2>8. CASE /\ ~(Len(more) > MaxMessage) /\ (f.op = "text") # partial.open
             /\ ~(Len(whole) > MaxMessage)
    <3>1. f.fin /\ ~IsText(whole) /\ DueAfter(partial, f) = 1007
      BY <2>3, <2>8
    <3>2. Pushed(f) = Result(Closed, <<>>, 1007)
      BY <2>4, <2>8, <3>1 DEF Finished
    <3>3. QED
      BY <1>3, <2>1, <2>2, <2>8, <3>1, <3>2
  <2>9. QED
    BY <2>5, <2>6, <2>7, <2>8
<1>6. CASE f \in Pings \/ f.op = "pong"
  <2>1. f.op \in {"ping", "pong"} /\ f \notin Data /\ f \notin Broken
    BY <1>6, FrameKinds
  <2>2. DueAfter(partial, f) = 0
    BY <2>1 DEF DueAfter
  <2>3. QED
    BY <2>2
<1>7. CASE f \in Broken /\ f.op # "binary"
  <2>1. DueAfter(partial, f) = 1002
    BY <1>7, FrameKinds DEF DueAfter
  <2>2. CASE f.flaw \in Flaws
    <3>1. Verdict(f) = 1002
      BY <2>2 DEF Verdict, Flaws
    <3>2. QED
      BY <2>1, <3>1
  <2>3. CASE f.op = "ping" /\ f.flaw = "none"
    <3>1. ~f.fin \/ Len(more) = ShortSize + 1
      BY <1>7, <2>3, FrameKinds DEF more
    <3>2. Verdict(f) = 1002
      BY <1>2, <2>3, <3>1, <1>0 DEF Verdict, more, Control
    <3>3. QED
      BY <2>1, <3>2
  <2>4. QED
    BY <1>7, <2>2, <2>3, FrameKinds
<1>8. CASE f.op = "binary"
  <2>1. f.flaw = "none" /\ f.text = <<"a">>
    BY <1>8, FrameKinds
  <2>2. Len(more) = 1
    BY <2>1 DEF more
  <2>3. Verdict(f) = 0
    BY <1>8, <2>1, <2>2, <1>0 DEF Verdict, more, Control
  <2>4. Pushed(f) = Result(partial, <<>>, 1003) /\ DueAfter(partial, f) = 1003
    BY <1>8 DEF Pushed, DueAfter
  <2>5. QED
    BY <1>1, <1>8, <2>3, <2>4
<1>9. CASE f.op = "close"
  <2>1. f.flaw \in DOMAIN CloseAnswer /\ f.fin /\ f.text = <<>>
    BY <1>9, FrameKinds
  <2>2. Len(more) = 0
    BY <2>1 DEF more
  <2>0. f.flaw \notin {"reserved bits", "unknown opcode", "not masked", "size not minimal"}
    BY <2>1 DEF CloseAnswer
  <2>3. Verdict(f) = 0
    <3>1. ~(Len(more) > ShortSize) /\ ~(Len(more) > MaxMessage)
      BY <1>0, <2>2
    <3>2. QED
      BY <2>0, <2>1, <3>1 DEF Verdict, more
  <2>4. Pushed(f) = Result(partial, <<>>, CloseAnswer[f.flaw]) /\ DueAfter(partial, f) = CloseAnswer[f.flaw]
    BY <1>9 DEF Pushed, DueAfter
  <2>5. QED
    BY <1>1, <1>9, <2>3, <2>4
<1>10. QED
  BY <1>5, <1>6, <1>7, <1>8, <1>9, FrameKinds

-----------------------------------------------------------------------------
(* The invariant *)

LEMMA WebInitially == WebInit => WebInv
<1> SUFFICES ASSUME WebInit PROVE WebInv
  OBVIOUS
<1>1. Closed \in Drafts /\ <<>> \in Seq(Strings)
  BY DEF Closed, Drafts, Strings
<1>2. WebTypeOK
  BY <1>1 DEF WebInit, WebTypeOK
<1>3. Rightly = 0
  BY DEF WebInit, Rightly
<1>4. SeenSoFar = SaidSoFar /\ SeenSoFar \in Progresses
  BY <1>1 DEF WebInit, SeenSoFar, SaidSoFar, Progress, Progresses
<1>5. Before(SaidSoFar, SaidSoFar)
  BY <1>1, PrefixOfItself DEF WebInit, Before, SaidSoFar, Progress
<1> DEFINE s == [i \in 0 .. 0 |-> SeenSoFar]
<1>6. Chain(s)
  BY <1>3, <1>4, <1>5 DEF Chain
<1>7. LastIsDue
  BY DEF WebInit, LastIsDue
<1>8. OpenInv
  BY <1>6, <1>7 DEF OpenInv
<1>9. EndedInv
  BY DEF WebInit, EndedInv
<1>10. QED
  BY <1>2, <1>8, <1>9 DEF WebInv

\* A chain needs only what was seen and said and what is in the buffer.
LEMMA ArriveKeeps == ASSUME WebInv, Arrive PROVE WebInv'
<1>1. /\ missing' \in Nat
      /\ UNCHANGED <<wire, partial, given, pongs, ended, meant, pings, unfinished, due>>
  BY DEF Arrive, WebInv, WebTypeOK
<1>2. WebTypeOK'
  BY <1>1 DEF WebInv, WebTypeOK
<1>3. Rightly' = Rightly /\ SeenSoFar' = SeenSoFar /\ SaidSoFar' = SaidSoFar
  BY <1>1 DEF Rightly, SeenSoFar, SaidSoFar
<1>4. OpenInv'
  <2>1. \A s : Chain(s) => Chain(s)'
    BY <1>1, <1>3 DEF Chain
  <2>2. LastIsDue' <=> LastIsDue
    BY <1>1 DEF LastIsDue
  <2>3. QED
    BY <1>1, <2>1, <2>2 DEF OpenInv, WebInv
<1>5. EndedInv'
  BY <1>1 DEF EndedInv, WebInv
<1>6. QED
  BY <1>2, <1>4, <1>5 DEF WebInv

LEMMA DueIs ==
  ASSUME NEW f \in Frames
  PROVE  Due(f) = DueAfter(unfinished, f)
BY DEF Due, DueAfter

LEMMA DueIsNat ==
  ASSUME NEW f \in Frames, NEW u
  PROVE  DueAfter(u, f) \in Nat
<1>1. f.op = "close" => f.flaw \in DOMAIN CloseAnswer
  BY FrameKinds
<1>2. \A kind \in DOMAIN CloseAnswer : CloseAnswer[kind] \in Nat
  BY DEF CloseAnswer
<1>3. QED
  BY <1>1, <1>2 DEF DueAfter

LEMMA CellsAre == ASSUME NEW f \in Frames PROVE Cells(f) \in Nat
<1>1. Len(f.text) \in Nat
  BY FrameKinds DEF Strings
<1>2. SizeCells(f) \in {0, 1}
  BY DEF SizeCells
<1>3. QED
  BY <1>1, <1>2 DEF Cells

\* The stages from one frame to the next are stages.
LEMMA GoesToStage ==
  ASSUME NEW s \in Progresses, NEW f \in Frames, NEW t, Goes(s, f, t)
  PROVE  /\ t \in Progresses
         /\ Before(s, t) /\ \A r \in Progresses : Before(r, s) => Before(r, t)
<1>1. /\ s.partial \in Drafts /\ s.given \in Seq(Strings) /\ s.pongs \in Seq(Strings)
      /\ s.partial.text \in Strings
  BY DEF Progresses, Drafts
<1>2. f.text \in Strings /\ f.fin \in BOOLEAN
  BY FrameKinds
<1> DEFINE whole == s.partial.text \o f.text
<1>3. whole \in Strings
  BY <1>1, <1>2 DEF Strings
<1>4. Closed \in Drafts /\ Open(whole) \in Drafts
  BY <1>3 DEF Closed, Open, Drafts, Strings
<1>5. t = IF f \in Data
          THEN IF f.fin THEN Progress(Closed, Append(s.given, whole), s.pongs)
               ELSE Progress(Open(whole), s.given, s.pongs)
          ELSE IF f \in Pings THEN Progress(s.partial, s.given, Append(s.pongs, f.text))
          ELSE s
  BY DEF Goes
<1> HIDE DEF whole
<1>6. Append(s.given, whole) \in Seq(Strings) /\ Append(s.pongs, f.text) \in Seq(Strings)
  BY <1>1, <1>2, <1>3
<1>7. t \in Progresses /\ t.given \in {s.given, Append(s.given, whole)}
      /\ t.pongs \in {s.pongs, Append(s.pongs, f.text)}
  BY <1>1, <1>4, <1>5, <1>6 DEF Progress, Progresses
<1>8. \A r \in Progresses : Before(r, s) => Before(r, t)
  <2> SUFFICES ASSUME NEW r \in Progresses, Before(r, s) PROVE Before(r, t)
    OBVIOUS
  <2>1. r.given \in Seq(Strings) /\ r.pongs \in Seq(Strings)
    BY DEF Progresses
  <2>2. IsPrefix(r.given, s.given) /\ IsPrefix(r.pongs, s.pongs)
    BY DEF Before
  <2>3. IsPrefix(r.given, Append(s.given, whole))
    BY <1>1, <1>3, <2>1, <2>2, PrefixGrows
  <2>4. IsPrefix(r.pongs, Append(s.pongs, f.text))
    BY <1>1, <1>2, <2>1, <2>2, PrefixGrows
  <2>5. QED
    BY <1>7, <2>2, <2>3, <2>4 DEF Before
<1>9. Before(s, s)
  BY <1>1, PrefixOfItself DEF Before
<1>10. QED
  BY <1>7, <1>8, <1>9

LEMMA WriteKeeps == ASSUME WebInv, NEW f \in Frames, Write(f) PROVE WebInv'
<1> DEFINE whole == unfinished.text \o f.text
<1>1. /\ due = 0 /\ due' = Due(f) /\ wire' = Append(wire, f) /\ missing' = Cells(f)
      /\ UNCHANGED <<partial, given, pongs, ended>>
  BY DEF Write
<1>2. pings' = IF f \in Pings THEN Append(pings, f.text) ELSE pings
  BY DEF Write
<1>3. meant' = IF f \in Data /\ due' = 0 /\ f.fin THEN Append(meant, whole) ELSE meant
  BY DEF Write
<1>4. unfinished' = IF f \in Data /\ due' = 0 THEN IF f.fin THEN Closed ELSE Open(whole)
                    ELSE unfinished
  BY DEF Write
<1> HIDE DEF whole
<1>5. due' = DueAfter(unfinished, f) /\ due' \in Nat
  BY <1>1, DueIs, DueIsNat
<1>6. WebTypeOK /\ wire \in Seq(Frames) /\ Len(wire) \in Nat
  BY DEF WebInv, WebTypeOK
<1>7. ended = 0
  BY <1>1 DEF WebInv, EndedInv
<1>8. PICK s : Chain(s)
  BY <1>7 DEF WebInv, OpenInv
<1>9. Rightly = Len(wire)
  BY <1>1 DEF Rightly
<1>10. /\ s \in [0 .. Len(wire) -> Progresses] /\ s[0] = SeenSoFar /\ s[Len(wire)] = SaidSoFar /\ SaidSoFar \in Progresses
       /\ \A i \in 1 .. Len(wire) : Goes(s[i - 1], wire[i], s[i])
       /\ \A i \in 0 .. Len(wire) : Before(s[i], SaidSoFar)
  BY <1>6, <1>8, <1>9 DEF Chain
<1>11. /\ wire' \in Seq(Frames) /\ Len(wire') = Len(wire) + 1 /\ wire'[Len(wire) + 1] = f
       /\ \A i \in 1 .. Len(wire) : wire'[i] = wire[i]
  BY <1>1, <1>6
<1>12. SeenSoFar' = SeenSoFar
  BY <1>1 DEF SeenSoFar
<1>13. missing' \in Nat
  BY <1>1, CellsAre
<1>14. CASE due' = 0
  <2>1. SaidSoFar' = Progress(unfinished', meant', pings')
    BY DEF SaidSoFar, Progress
  <2>2. SaidSoFar.partial = unfinished /\ SaidSoFar.given = meant /\ SaidSoFar.pongs = pings
    BY DEF SaidSoFar, Progress
  <2>3. Goes(SaidSoFar, f, SaidSoFar')
    <3>1. DueAfter(SaidSoFar.partial, f) = 0
      BY <1>5, <1>14, <2>2
    <3>2. CASE f \in Data
      <4>1. f \notin Pings
        BY <3>2, FrameKinds
      <4>2. CASE f.fin
        <5>1. SaidSoFar' = Progress(Closed, Append(meant, whole), pings)
          BY <1>2, <1>3, <1>4, <1>14, <2>1, <3>2, <4>1, <4>2
        <5>2. QED
          BY <2>2, <3>1, <3>2, <4>2, <5>1 DEF Goes, whole
      <4>3. CASE ~f.fin
        <5>1. SaidSoFar' = Progress(Open(whole), meant, pings)
          BY <1>2, <1>3, <1>4, <1>14, <2>1, <3>2, <4>1, <4>3
        <5>2. QED
          BY <2>2, <3>1, <3>2, <4>3, <5>1 DEF Goes, whole
      <4>4. QED
        BY <4>2, <4>3
    <3>3. CASE f \notin Data
      <4>1. unfinished' = unfinished /\ meant' = meant
        BY <1>3, <1>4, <3>3
      <4>2. CASE f \in Pings
        <5>1. SaidSoFar' = Progress(unfinished, meant, Append(pings, f.text))
          BY <1>2, <2>1, <4>1, <4>2
        <5>2. QED
          BY <2>2, <3>1, <3>3, <4>2, <5>1 DEF Goes
      <4>3. CASE f \notin Pings
        <5>1. SaidSoFar' = SaidSoFar
          BY <1>2, <2>1, <4>1, <4>3 DEF SaidSoFar
        <5>2. QED
          BY <3>1, <3>3, <4>3, <5>1 DEF Goes
      <4>4. QED
        BY <4>2, <4>3
    <3>4. QED
      BY <3>2, <3>3
  <2>4. /\ SaidSoFar' \in Progresses /\ Before(SaidSoFar, SaidSoFar')
        /\ \A r \in Progresses : Before(r, SaidSoFar) => Before(r, SaidSoFar')
    BY <1>10, <2>3, GoesToStage
  <2>5. unfinished' \in Drafts /\ meant' \in Seq(Strings) /\ pings' \in Seq(Strings)
    BY <2>1, <2>4 DEF Progress, Progresses
  <2>6. WebTypeOK'
    BY <1>1, <1>5, <1>6, <1>11, <1>13, <2>5 DEF WebTypeOK
  <2>7. Rightly' = Len(wire) + 1
    BY <1>11, <1>14 DEF Rightly
  <2>17. PICK t : t = [i \in 0 .. Len(wire) + 1 |-> IF i <= Len(wire) THEN s[i] ELSE SaidSoFar']
    OBVIOUS
  <2>8. \A i \in 0 .. Len(wire) : t[i] = s[i]
    BY <1>6, <2>17
  <2>9. t[Len(wire) + 1] = SaidSoFar' /\ t \in [0 .. Len(wire) + 1 -> Progresses]
    BY <1>6, <1>10, <2>4, <2>17
  <2>10. \A i \in 1 .. Len(wire) + 1 : Goes(t[i - 1], wire'[i], t[i])
    <3> SUFFICES ASSUME NEW i \in 1 .. Len(wire) + 1 PROVE Goes(t[i - 1], wire'[i], t[i])
      OBVIOUS
    <3>1. CASE i = Len(wire) + 1
      <4>1. t[i - 1] = SaidSoFar
        BY <1>6, <1>10, <2>8, <3>1
      <4>2. QED
        BY <1>11, <2>3, <2>9, <3>1, <4>1
    <3>2. CASE i # Len(wire) + 1
      <4>1. i \in 1 .. Len(wire) /\ i - 1 \in 0 .. Len(wire) /\ i \in 0 .. Len(wire)
        BY <1>6, <3>2
      <4>2. QED
        BY <1>10, <1>11, <2>8, <4>1
    <3>3. QED
      BY <3>1, <3>2
  <2>11. \A i \in 0 .. Len(wire) + 1 : Before(t[i], SaidSoFar')
    <3> SUFFICES ASSUME NEW i \in 0 .. Len(wire) + 1 PROVE Before(t[i], SaidSoFar')
      OBVIOUS
    <3>1. CASE i = Len(wire) + 1
      <4>1. Before(SaidSoFar', SaidSoFar')
        <5>1. SaidSoFar'.given \in Seq(Strings) /\ SaidSoFar'.pongs \in Seq(Strings)
          BY <2>4 DEF Progresses
        <5>2. QED
          BY <5>1, PrefixOfItself DEF Before
      <4>2. QED
        BY <2>9, <3>1, <4>1
    <3>2. CASE i # Len(wire) + 1
      <4>1. i \in 0 .. Len(wire)
        BY <1>6, <3>2
      <4>2. QED
        BY <1>10, <2>4, <2>8, <4>1
    <3>3. QED
      BY <3>1, <3>2
  <2>12. t[0] = SeenSoFar'
    BY <1>6, <1>10, <1>12, <2>8
  <2>13. Chain(t)'
    BY <2>7, <2>9, <2>10, <2>11, <2>12 DEF Chain
  <2>14. OpenInv'
    BY <1>14, <2>13 DEF OpenInv, LastIsDue
  <2>15. EndedInv'
    BY <1>1, <1>7 DEF EndedInv
  <2>16. QED
    BY <2>6, <2>14, <2>15 DEF WebInv
<1>15. CASE due' # 0
  <2>1. f \notin Pings
    <3>1. f \in Pings => f.op = "ping" /\ f \notin Data /\ f \notin Broken
      BY FrameKinds
    <3>2. QED
      BY <1>5, <1>15, <3>1 DEF DueAfter
  <2>2. unfinished' = unfinished /\ meant' = meant /\ pings' = pings
    BY <1>2, <1>3, <1>4, <1>15, <2>1
  <2>3. SaidSoFar' = SaidSoFar
    BY <2>2 DEF SaidSoFar
  <2>4. Rightly' = Len(wire)
    BY <1>6, <1>11, <1>15 DEF Rightly
  <2>5. Chain(s)'
    BY <1>10, <1>11, <1>12, <2>3, <2>4 DEF Chain
  <2>6. LastIsDue'
    <3>1. wire' # <<>>
      BY <1>6, <1>11
    <3>2. DueAfter(unfinished', wire'[Len(wire')]) = due'
      BY <1>5, <1>11, <2>2
    <3>3. QED
      BY <3>1, <3>2 DEF LastIsDue
  <2>7. WebTypeOK'
    BY <1>1, <1>5, <1>6, <1>11, <1>13, <2>2 DEF WebTypeOK
  <2>8. OpenInv' /\ EndedInv'
    BY <1>1, <1>7, <2>5, <2>6 DEF OpenInv, EndedInv
  <2>9. QED
    BY <2>7, <2>8 DEF WebInv
<1>16. QED
  BY <1>14, <1>15

LEMMA TakeKeeps == ASSUME WebInv, Take PROVE WebInv'
<1> DEFINE f == Head(wire)
           code == Parsed(f)
<1>1. /\ ended = 0 /\ wire # <<>> /\ code >= 0
      /\ UNCHANGED <<missing, meant, pings, unfinished, due>>
  BY DEF Take
<1>2. \/ /\ code > 0 /\ ended' = code /\ UNCHANGED <<wire, partial, given, pongs>>
      \/ /\ ~(code > 0) /\ wire' = Tail(wire) /\ partial' = Pushed(f).partial
         /\ given' = given \o Pushed(f).texts
         /\ pongs' = IF f.op = "ping" THEN Append(pongs, f.text) ELSE pongs
         /\ ended' = Pushed(f).code
  BY DEF Take
<1>3. WebTypeOK /\ wire \in Seq(Frames) /\ Len(wire) \in Nat /\ due \in Nat
      /\ given \in Seq(Strings) /\ pongs \in Seq(Strings)
  BY DEF WebInv, WebTypeOK
<1>4. /\ Len(wire) >= 1 /\ f = wire[1] /\ f \in Frames
      /\ Tail(wire) \in Seq(Frames) /\ Len(Tail(wire)) = Len(wire) - 1
      /\ \A i \in 1 .. Len(wire) - 1 : Tail(wire)[i] = wire[i + 1]
  BY <1>1, <1>3
<1> HIDE DEF f
<1>5. code = Verdict(f)
  BY <1>1, <1>3, <1>4, PiecesSayTheSame
<1> HIDE DEF code
<1>6. PICK s : Chain(s)
  BY <1>1 DEF WebInv, OpenInv
<1>7. LastIsDue
  BY <1>1 DEF WebInv, OpenInv
<1>8. Rightly \in Nat /\ Rightly \in {Len(wire), Len(wire) - 1} /\ (Rightly = Len(wire) <=> due = 0)
  <2>1. CASE due = 0
    BY <1>3, <1>4, <2>1 DEF Rightly
  <2>2. CASE due # 0
    <3>1. Rightly = Len(wire) - 1
      BY <2>2 DEF Rightly
    <3>2. Len(wire) \in Nat /\ Len(wire) >= 1
      BY <1>3, <1>4
    <3>3. Len(wire) - 1 \in Nat /\ Len(wire) - 1 # Len(wire)
      BY <3>2
    <3>4. QED
      BY <2>2, <3>1, <3>3
  <2>3. QED
    BY <2>1, <2>2
<1>9. /\ s \in [0 .. Rightly -> Progresses] /\ s[0] = SeenSoFar /\ s[Rightly] = SaidSoFar
      /\ \A i \in 1 .. Rightly : Goes(s[i - 1], wire[i], s[i])
      /\ \A i \in 0 .. Rightly : Before(s[i], SaidSoFar)
  BY <1>6 DEF Chain
<1>10. SeenSoFar.partial = partial /\ SeenSoFar' = Progress(partial', given', pongs')
  BY DEF SeenSoFar, Progress
<1>11. SaidSoFar' = SaidSoFar
  BY <1>1 DEF SaidSoFar
<1>12. CASE Rightly >= 1
  <2>1. Goes(SeenSoFar, f, s[1]) /\ s[1] \in Progresses
    <3>1. 1 \in 1 .. Rightly /\ 1 \in 0 .. Rightly /\ 1 - 1 = 0
      BY <1>8, <1>12
    <3>2. Goes(s[1 - 1], wire[1], s[1])
      BY <1>9, <3>1
    <3>3. QED
      BY <1>4, <1>9, <3>1, <3>2
  <2>2. DueAfter(partial, f) = 0
    BY <1>10, <2>1 DEF Goes
  <2>3. Verdict(f) = 0 /\ Pushed(f).code = 0 /\ Goes(SeenSoFar, f, Reached(f))
    BY <1>3, <1>4, <2>2, KeepsRules
  <2>4. s[1] = Reached(f)
    BY <2>1, <2>3 DEF Goes
  <2>5. /\ wire' = Tail(wire) /\ partial' = Pushed(f).partial /\ given' = given \o Pushed(f).texts
        /\ pongs' = IF f.op = "ping" THEN Append(pongs, f.text) ELSE pongs
        /\ ended' = 0
    BY <1>2, <1>5, <2>3
  <2>6. SeenSoFar' = s[1]
    BY <1>10, <2>4, <2>5 DEF Reached
  <2>7. partial' \in Drafts /\ given' \in Seq(Strings) /\ pongs' \in Seq(Strings)
    BY <1>10, <2>1, <2>6 DEF Progress, Progresses
  <2>8. WebTypeOK'
    BY <1>1, <1>3, <1>4, <2>5, <2>7 DEF WebTypeOK
  <2>9. Len(wire') = Len(wire) - 1 /\ Rightly' = Rightly - 1 /\ Rightly - 1 \in Nat
    <3>1. Len(wire') = Len(wire) - 1 /\ due' = due
      BY <1>1, <1>4, <2>5
    <3>2. CASE due = 0
      BY <1>3, <1>8, <1>12, <3>1, <3>2 DEF Rightly
    <3>3. CASE due # 0
      BY <1>3, <1>8, <1>12, <3>1, <3>3 DEF Rightly
    <3>4. QED
      BY <3>2, <3>3
  <2>19. PICK t : t = [i \in 0 .. Rightly - 1 |-> s[i + 1]]
    OBVIOUS
  <2>10. \A i \in 0 .. Rightly - 1 : i + 1 \in 0 .. Rightly /\ i + 1 \in 1 .. Rightly /\ t[i] = s[i + 1]
    BY <1>8, <2>19
  <2>11. t \in [0 .. Rightly - 1 -> Progresses]
    BY <1>8, <1>9, <2>19
  <2>12. t[0] = SeenSoFar' /\ t[Rightly - 1] = SaidSoFar'
    BY <1>8, <1>9, <1>11, <1>12, <2>6, <2>10
  <2>13. \A i \in 1 .. Rightly - 1 : Goes(t[i - 1], wire'[i], t[i])
    <3> SUFFICES ASSUME NEW i \in 1 .. Rightly - 1 PROVE Goes(t[i - 1], wire'[i], t[i])
      OBVIOUS
    <3>1. i \in 0 .. Rightly - 1 /\ i - 1 \in 0 .. Rightly - 1 /\ i + 1 \in 1 .. Rightly
          /\ i \in 1 .. Len(wire) - 1 /\ (i - 1) + 1 = i /\ (i + 1) - 1 = i
      BY <1>3, <1>8, <1>12
    <3>2. t[i] = s[i + 1] /\ t[i - 1] = s[i] /\ wire'[i] = wire[i + 1]
      BY <1>4, <2>5, <2>10, <3>1
    <3>3. Goes(s[(i + 1) - 1], wire[i + 1], s[i + 1])
      BY <1>9, <3>1
    <3>4. QED
      BY <3>1, <3>2, <3>3
  <2>14. \A i \in 0 .. Rightly - 1 : Before(t[i], SaidSoFar')
    BY <1>9, <1>11, <2>10
  <2>15. Chain(t)'
    BY <2>9, <2>11, <2>12, <2>13, <2>14 DEF Chain
  <2>16. LastIsDue'
    <3> SUFFICES ASSUME due # 0
                 PROVE  wire' # <<>> /\ DueAfter(unfinished, wire'[Len(wire')]) = due
      BY <1>1 DEF LastIsDue
    <3>1. Len(wire) >= 2
      BY <1>3, <1>8, <1>12
    <3>2. wire'[Len(wire')] = wire[Len(wire)] /\ wire' # <<>>
      <4>1. Len(wire) - 1 \in 1 .. Len(wire) - 1 /\ (Len(wire) - 1) + 1 = Len(wire)
        BY <1>3, <3>1
      <4>2. Tail(wire)[Len(wire) - 1] = wire[Len(wire)]
        BY <1>4, <4>1
      <4>3. QED
        <5>1. wire' = Tail(wire) /\ Len(wire') = Len(wire) - 1 /\ wire' \in Seq(Frames)
          BY <1>4, <2>5
        <5>2. wire'[Len(wire')] = wire[Len(wire)]
          BY <4>2, <5>1
        <5>3. wire' # <<>>
          <6>1. Len(wire') \in 1 .. Len(wire')
            BY <4>1, <5>1
          <6>2. \A n \in 1 .. Len(wire') : n # 0
            OBVIOUS
          <6>3. Len(wire') # 0
            BY <6>1, <6>2
          <6>4. QED
            BY <6>3
        <5>4. QED
          BY <5>2, <5>3
    <3>3. QED
      BY <1>7, <3>2 DEF LastIsDue
  <2>17. OpenInv' /\ EndedInv'
    BY <2>5, <2>15, <2>16 DEF OpenInv, EndedInv
  <2>18. QED
    BY <2>8, <2>17 DEF WebInv
<1>13. CASE Rightly = 0
  <2>1. Len(wire) = 1 /\ due # 0
    BY <1>3, <1>4, <1>8, <1>13
  <2>2. SeenSoFar = SaidSoFar
    BY <1>9, <1>13
  <2>3. partial = unfinished /\ given = meant /\ pongs = pings
    BY <2>2 DEF SeenSoFar, SaidSoFar, Progress
  <2>4. DueAfter(partial, f) = due
    BY <1>4, <1>7, <2>1, <2>3 DEF LastIsDue
  <2>5. \/ Verdict(f) > 0 /\ Verdict(f) = due
        \/ /\ Verdict(f) = 0 /\ Pushed(f).code = due
           /\ Pushed(f).texts = <<>> /\ f.op # "ping" /\ Pushed(f).partial \in Drafts
    BY <1>3, <1>4, <2>1, <2>4, BreaksRule
  <2>6. CASE Verdict(f) > 0 /\ Verdict(f) = due
    <3>1. ended' = due /\ UNCHANGED <<wire, partial, given, pongs>>
      BY <1>2, <1>5, <2>6
    <3>2. WebTypeOK'
      BY <1>1, <1>3, <3>1 DEF WebTypeOK
    <3>3. OpenInv' /\ EndedInv'
      BY <1>1, <2>1, <2>3, <3>1 DEF OpenInv, EndedInv
    <3>4. QED
      BY <3>2, <3>3 DEF WebInv
  <2>7. CASE /\ Verdict(f) = 0 /\ Pushed(f).code = due
             /\ Pushed(f).texts = <<>> /\ f.op # "ping" /\ Pushed(f).partial \in Drafts
    <3>1. /\ wire' = Tail(wire) /\ partial' \in Drafts /\ given' = given \o <<>>
          /\ pongs' = pongs /\ ended' = due
      BY <1>2, <1>5, <2>7
    <3>2. given' = given
      BY <1>3, <3>1, ConcatEmptySeq
    <3>3. WebTypeOK'
      BY <1>1, <1>3, <1>4, <3>1, <3>2 DEF WebTypeOK
    <3>4. OpenInv' /\ EndedInv'
      BY <1>1, <2>1, <2>3, <3>1, <3>2 DEF OpenInv, EndedInv
    <3>5. QED
      BY <3>3, <3>4 DEF WebInv
  <2>8. QED
    BY <2>5, <2>6, <2>7
<1>14. QED
  BY <1>8, <1>12, <1>13

(* However the client's frames arrive, what is in the buffer leads from what *)
(* the connection has acted on to what the client has said, and a connection *)
(* that was closed had acted on all of it.                                   *)
THEOREM WebInvariant == WebSpec => []WebInv
<1>1. WebInv /\ [WebNext]_webVars => WebInv'
  <2> SUFFICES ASSUME WebInv, [WebNext]_webVars PROVE WebInv'
    OBVIOUS
  <2>1. CASE UNCHANGED webVars
    <3>1. UNCHANGED <<wire, missing, partial, given, pongs, ended, meant, pings, unfinished, due>>
      BY <2>1 DEF webVars
    <3>2. Rightly' = Rightly /\ SeenSoFar' = SeenSoFar /\ SaidSoFar' = SaidSoFar
      BY <3>1 DEF Rightly, SeenSoFar, SaidSoFar
    <3>3. \A s : Chain(s) => Chain(s)'
      BY <3>1, <3>2 DEF Chain
    <3>4. LastIsDue' <=> LastIsDue
      BY <3>1 DEF LastIsDue
    <3>5. OpenInv' /\ EndedInv'
      BY <3>1, <3>3, <3>4 DEF WebInv, OpenInv, EndedInv
    <3>6. WebTypeOK'
      BY <3>1 DEF WebInv, WebTypeOK
    <3>7. QED
      BY <3>5, <3>6 DEF WebInv
  <2>2. CASE Take
    BY <2>2, TakeKeeps
  <2>3. ASSUME NEW f \in Frames, Write(f) PROVE WebInv'
    BY <2>3, WriteKeeps
  <2>4. CASE Arrive
    BY <2>4, ArriveKeeps
  <2>5. QED
    BY <2>1, <2>2, <2>3, <2>4 DEF WebNext
<1>2. QED
  BY <1>1, WebInitially, PTL DEF WebSpec

(* MessageKindsApart and pings are acted on whole, in order and, once all has been    *)
(* looked at, to the last; and the code of the close is the one that is due  *)
(* (server.rs websocket_loop, ws.rs parse_client_frame and Assembler).       *)
THEOREM ClientServed == WebSpec => []ClientIsServed
<1>1. WebInv => ClientIsServed
  <2> SUFFICES ASSUME WebInv PROVE ClientIsServed
    OBVIOUS
  <2>1. /\ given \in Seq(Strings) /\ pongs \in Seq(Strings) /\ Len(wire) \in Nat
        /\ wire = <<>> => Len(wire) = 0
    BY DEF WebInv, WebTypeOK
  <2>2. CASE ended # 0
    <3>1. ended = due /\ given = meant /\ pongs = pings
      BY <2>2 DEF WebInv, EndedInv
    <3>2. IsPrefix(given, meant) /\ IsPrefix(pongs, pings)
      BY <2>1, <3>1, PrefixOfItself
    <3>3. QED
      BY <3>1, <3>2 DEF ClientIsServed, MessagesWhole, CodeIsDue
  <2>3. CASE ended = 0
    <3>1. PICK s : Chain(s)
      BY <2>3 DEF WebInv, OpenInv
    <3>2. LastIsDue
      BY <2>3 DEF WebInv, OpenInv
    <3>3. Rightly \in Nat
      BY <2>1, <3>2 DEF LastIsDue, Rightly, WebInv, WebTypeOK
    <3>4. Before(SeenSoFar, SaidSoFar)
      BY <3>1, <3>3 DEF Chain
    <3>5. IsPrefix(given, meant) /\ IsPrefix(pongs, pings)
      BY <3>4 DEF Before, SeenSoFar, SaidSoFar, Progress
    <3>6. wire = <<>> => due = 0 /\ Rightly = 0
      BY <2>1, <3>2 DEF LastIsDue, Rightly
    <3>7. wire = <<>> => given = meant /\ pongs = pings
      <4> SUFFICES ASSUME wire = <<>> PROVE given = meant /\ pongs = pings
        OBVIOUS
      <4>1. SeenSoFar = SaidSoFar
        BY <3>1, <3>6 DEF Chain
      <4>2. QED
        BY <4>1 DEF SeenSoFar, SaidSoFar, Progress
    <3>8. QED
      BY <2>3, <3>5, <3>6, <3>7 DEF ClientIsServed, MessagesWhole, CodeIsDue
  <2>4. QED
    BY <2>2, <2>3
<1>2. QED
  BY <1>1, WebInvariant, PTL

-----------------------------------------------------------------------------
(* The page's client                                                         *)

Runs == Nat \ {0}
Heard == {Nobody} \cup Players
Samples == [rtt : RoundTrips, run : Runs]
Timelines == [run : Runs, locked : BOOLEAN, device : Players]
ToldOnce ==
  {Hello} \cup {Pong(r) : r \in Runs}
          \cup {TimelineMessage(r, locked, d) : r \in Runs, locked \in BOOLEAN, d \in Players}
Asked == {Ping} \cup {FollowMessage(target) : target \in Heard}

Kept == [closed : BOOLEAN, waits : BOOLEAN, target : {NotAsked} \cup Heard, heard : Heard]
Known == [samples : Seq(Samples), offset : Nat, timeline : {NoTimeline} \cup Timelines]
Bridges == [up : BOOLEAN, run : Runs, target : Heard, overruled : BOOLEAN, master : Players]

ClientTypeOK ==
  /\ socket \in {"none", "connecting", "open", "gone"}
  /\ kept \in Kept
  /\ known \in Known
  /\ timing \in BOOLEAN /\ retargeted \in BOOLEAN
  /\ upstream \in Seq(Asked)
  /\ downstream \in Seq(ToldOnce)
  /\ bridge \in Bridges

\* A message that says nothing of another run.
OfRun(m, r) ==
  /\ m.type = "pong" => m.run = r
  /\ m.type = "timeline" => m.timeline.run = r

\* What the page knows and what is on its way to it is of one run.
KnownOf(r) ==
  /\ \A i \in DOMAIN known.samples : known.samples[i].run = r
  /\ known.offset \in {0, r}
  /\ known.timeline # NoTimeline => known.timeline.run = r
WireOf(r) == \A i \in DOMAIN downstream : OfRun(downstream[i], r)
OneRun(r) == KnownOf(r) /\ WireOf(r)

\* The device of a locked timeline of the target counts as heard.
HeardInv ==
  known.timeline.locked /\ OnTarget(known.timeline, kept.target) =>
    retargeted \/ known.timeline.device = kept.heard

\* While there is a connection, it is with one run: of the bridge, or of one
\* that went.
ConnectedInv ==
  /\ socket = "open" => bridge.up /\ OneRun(bridge.run)
  /\ socket = "gone" => \E r \in Runs : OneRun(r)

\* Without one nothing is fed, and nothing is left of its timeline unless the
\* page left the bridge.
SocketInv ==
  /\ timing => socket \in {"open", "gone"}
  /\ kept.closed => socket = "none"
  /\ socket \in {"none", "connecting"} => kept.closed \/ known.timeline = NoTimeline

ClientInv == ClientTypeOK /\ ConnectedInv /\ SocketInv /\ HeardInv

-----------------------------------------------------------------------------
(* The best sample *)

(* A set of natural numbers has a least element: of the intervals below its  *)
(* elements, which are finite, one has none strictly inside.                 *)
LEMMA LeastOf ==
  ASSUME NEW S \in SUBSET Nat, S # {}
  PROVE  \E m \in S : \A n \in S : m <= n
<1> DEFINE Below == {0 .. m : m \in S}
<1>1. Below \subseteq FiniteSubsetsOf(Nat) /\ Below # {}
  <2>1. ASSUME NEW m \in S
        PROVE  0 .. m \in FiniteSubsetsOf(Nat)
    <3>1. m \in Int /\ 0 \in Int /\ 0 .. m \in SUBSET Nat
      OBVIOUS
    <3>2. IsFiniteSet(0 .. m)
      BY <3>1, FS_Interval
    <3>3. QED
      BY <3>1, <3>2 DEF FiniteSubsetsOf
  <2>2. QED
    BY <2>1
<1>2. PICK x \in Below : \A y \in Below : <<y, x>> \notin StrictSubsetOrdering(Nat)
  <2> HIDE DEF Below
  <2> QED BY <1>1, FS_StrictSubsetOrderingWellFounded, WFMin
<1>3. PICK m \in S : x = 0 .. m
  OBVIOUS
<1>4. ASSUME NEW n \in S, n < m
      PROVE  FALSE
  <2>1. n \in Nat /\ m \in Nat
    OBVIOUS
  <2>2. (0 .. n) \subseteq (0 .. m) /\ m \in 0 .. m /\ m \notin 0 .. n
    BY <1>4, <2>1
  <2>3. (0 .. n) \in SUBSET Nat /\ (0 .. m) \in SUBSET Nat /\ (0 .. n) # (0 .. m)
    BY <2>1, <2>2
  <2>4. <<0 .. n, 0 .. m>> \in StrictSubsetOrdering(Nat)
    BY <2>2, <2>3 DEF StrictSubsetOrdering
  <2>5. (0 .. n) \in Below
    OBVIOUS
  <2>6. QED
    BY <1>2, <1>3, <2>4, <2>5
<1>5. QED
  BY <1>4

(* The best sample is one of those kept. *)
LEMMA BestIsKept ==
  ASSUME NEW samples \in Seq(Samples), samples # <<>>
  PROVE  \E i \in DOMAIN samples : Best(samples) = samples[i]
<1>1. RoundTrips \subseteq Nat
  BY ClientAssumption
<1>2. DOMAIN samples = 1 .. Len(samples) /\ Len(samples) \in Nat \ {0}
  OBVIOUS
<1>3. \A i \in DOMAIN samples : samples[i].rtt \in Nat
  <2>1. \A s \in Samples : s.rtt \in Nat
    BY <1>1 DEF Samples
  <2>2. QED
    BY <1>2, <2>1
<1> DEFINE Times == {samples[i].rtt : i \in DOMAIN samples}
<1>4. PICK m \in Times : \A n \in Times : m <= n
  <2>1. Times \subseteq Nat /\ Times # {}
    BY <1>2, <1>3
  <2> HIDE DEF Times
  <2> QED BY <2>1, LeastOf
<1> DEFINE Quickest == {i \in DOMAIN samples : samples[i].rtt = m}
<1>5. PICK i \in Quickest : \A j \in Quickest : i <= j
  <2>1. Quickest \subseteq Nat /\ Quickest # {}
    BY <1>2
  <2> HIDE DEF Quickest
  <2> QED BY <2>1, LeastOf
<1>6. ASSUME NEW j \in DOMAIN samples
      PROVE  samples[j].rtt > samples[i].rtt \/ (samples[j].rtt = samples[i].rtt /\ j >= i)
  <2>1. m <= samples[j].rtt /\ samples[i].rtt = m /\ m \in Nat /\ samples[j].rtt \in Nat
    BY <1>3, <1>4
  <2>2. CASE samples[j].rtt = m
    BY <1>5, <2>1, <2>2
  <2>3. QED
    BY <2>1, <2>2
<1>7. samples[i] \in ToSet(samples)
  BY DEF ToSet
<1>8. \E s \in ToSet(samples) : \E k \in DOMAIN samples :
        /\ samples[k] = s
        /\ \A j \in DOMAIN samples :
             samples[j].rtt > s.rtt \/ (samples[j].rtt = s.rtt /\ j >= k)
  BY <1>6, <1>7
<1>9. Best(samples) \in ToSet(samples)
  BY <1>8 DEF Best
<1>10. QED
  BY <1>9 DEF ToSet

(* The window keeps the new sample and those of before it. *)
LEMMA SampledKeeps ==
  ASSUME NEW samples \in Seq(Samples), NEW sample \in Samples
  PROVE  /\ Sampled(samples, sample) \in Seq(Samples)
         /\ Sampled(samples, sample) # <<>>
         /\ \A i \in DOMAIN Sampled(samples, sample) :
              \/ Sampled(samples, sample)[i] = sample
              \/ \E j \in DOMAIN samples : Sampled(samples, sample)[i] = samples[j]
<1>1. OFFSET_WINDOW \in Nat \ {0}
  BY ClientAssumption
<1> DEFINE all == Append(samples, sample)
<1>2. all \in Seq(Samples) /\ Len(all) = Len(samples) + 1 /\ Len(samples) \in Nat
  OBVIOUS
<1>3. \A i \in DOMAIN all : all[i] = sample \/ \E j \in DOMAIN samples : all[i] = samples[j]
  OBVIOUS
<1>4. CASE Len(all) > OFFSET_WINDOW
  <2>1. Sampled(samples, sample) = Tail(all)
    BY <1>4 DEF Sampled
  <2>2. Tail(all) \in Seq(Samples) /\ Len(Tail(all)) = Len(all) - 1
    BY <1>2
  <2>3. \A i \in DOMAIN Tail(all) : Tail(all)[i] = all[i + 1] /\ i + 1 \in DOMAIN all
    BY <1>2, <2>2
  <2>4. Len(Tail(all)) > 0
    BY <1>1, <1>2, <1>4, <2>2
  <2>5. Tail(all) # <<>>
    <3>1. Len(<<>>) = 0
      OBVIOUS
    <3> DEFINE rest == Tail(all)
    <3>2. Len(rest) > 0
      BY <2>4
    <3> HIDE DEF rest
    <3>3. rest # <<>>
      BY <3>1, <3>2
    <3>4. QED
      BY <3>3 DEF rest
  <2>6. QED
    BY <1>3, <2>1, <2>2, <2>3, <2>5
<1>5. CASE ~(Len(all) > OFFSET_WINDOW)
  <2>1. Sampled(samples, sample) = all
    BY <1>5 DEF Sampled
  <2>2. QED
    BY <1>2, <1>3, <2>1
<1>6. QED
  BY <1>4, <1>5

-----------------------------------------------------------------------------
(* Types *)

LEMMA KeptUpdates ==
  ASSUME NEW k \in Kept
  PROVE  /\ \A b \in BOOLEAN : [k EXCEPT !.waits = b] \in Kept
         /\ [k EXCEPT !.closed = TRUE, !.waits = FALSE] \in Kept
         /\ \A d \in Heard : [k EXCEPT !.target = d] \in Kept /\ [k EXCEPT !.heard = d] \in Kept
         /\ k.target \in {NotAsked} \cup Heard /\ k.closed \in BOOLEAN
BY DEF Kept

LEMMA KnownUpdates ==
  ASSUME NEW k \in Known
  PROVE  /\ [k EXCEPT !.samples = <<>>, !.offset = 0] \in Known
         /\ \A t \in {NoTimeline} \cup Timelines : [k EXCEPT !.timeline = t] \in Known
         /\ \A s \in Seq(Samples), n \in Nat : [k EXCEPT !.samples = s, !.offset = n] \in Known
         /\ k.samples \in Seq(Samples)
<1> DEFINE S == Seq(Samples)
           T == {NoTimeline} \cup Timelines
<1>1. Known = [samples : S, offset : Nat, timeline : T]
  BY DEF Known
<1>2. <<>> \in S
  OBVIOUS
<1> HIDE DEF S, T
<1>3. [k EXCEPT !.samples = <<>>, !.offset = 0] \in Known
  BY <1>1, <1>2
<1>4. \A t \in T : [k EXCEPT !.timeline = t] \in Known
  BY <1>1
<1>5. \A s \in S, n \in Nat : [k EXCEPT !.samples = s, !.offset = n] \in Known
  BY <1>1
<1>6. k.samples \in S
  BY <1>1
<1>7. QED
  BY <1>3, <1>4, <1>5, <1>6 DEF S, T

LEMMA BridgeUpdates ==
  ASSUME NEW b \in Bridges
  PROVE  /\ \A d \in Heard, o \in BOOLEAN : [b EXCEPT !.target = d, !.overruled = o] \in Bridges
         /\ [b EXCEPT !.up = FALSE] \in Bridges
         /\ [b EXCEPT !.up = TRUE, !.run = @ + 1, !.target = Nobody, !.overruled = FALSE] \in Bridges
         /\ \A p \in Players : [b EXCEPT !.master = p] \in Bridges
         /\ b.run \in Runs /\ Followed(b) \in Players
<1>1. \A d \in Heard, o \in BOOLEAN : [b EXCEPT !.target = d, !.overruled = o] \in Bridges
  BY DEF Bridges
<1>2. [b EXCEPT !.up = FALSE] \in Bridges
  BY DEF Bridges
<1>3. [b EXCEPT !.up = TRUE, !.run = @ + 1, !.target = Nobody, !.overruled = FALSE] \in Bridges
  <2>1. b.run + 1 \in Runs /\ Nobody \in Heard
    BY DEF Bridges, Runs, Heard
  <2> HIDE DEF Runs, Heard
  <2>2. QED
    BY <2>1 DEF Bridges
<1>4. \A p \in Players : [b EXCEPT !.master = p] \in Bridges
  BY DEF Bridges
<1>5. b.run \in Runs
  BY DEF Bridges
<1>6. Followed(b) \in Players
  BY DEF Bridges, Heard, Followed, Nobody
<1>7. QED
  BY <1>1, <1>2, <1>3, <1>4, <1>5, <1>6

(* What the page sends, and what it is told. *)
LEMMA SendingOK ==
  ASSUME upstream \in Seq(Asked), NEW m \in Asked
  PROVE  Sending(<<m>>) \in Seq(Asked)
BY DEF Sending

LEMMA MessageKindsApart ==
  /\ Ping \in Asked /\ \A d \in Heard : FollowMessage(d) \in Asked
  /\ Hello \in ToldOnce /\ \A r \in Runs : Pong(r) \in ToldOnce
  /\ \A r \in Runs, locked \in BOOLEAN, d \in Players : TimelineMessage(r, locked, d) \in ToldOnce
BY DEF Asked, ToldOnce

LEMMA Taken ==
  ASSUME NEW S, NEW s \in Seq(S), s # <<>>
  PROVE  /\ Head(s) \in S /\ Tail(s) \in Seq(S) /\ 1 \in DOMAIN s /\ Head(s) = s[1]
         /\ \A i \in DOMAIN Tail(s) : i + 1 \in DOMAIN s /\ Tail(s)[i] = s[i + 1]
OBVIOUS

LEMMA AskedKinds ==
  ASSUME NEW m \in Asked, m # Ping
  PROVE  m.target \in Heard
BY DEF Asked, Ping, FollowMessage

LEMMA ToldKinds ==
  ASSUME NEW m \in ToldOnce
  PROVE  /\ m.type = "pong" => m.run \in Runs
         /\ m.type = "timeline" => m.timeline \in Timelines
<1>1. CASE m = Hello
  BY <1>1 DEF Hello
<1>2. CASE \E r \in Runs : m = Pong(r)
  BY <1>2 DEF Pong
<1>3. CASE \E r \in Runs, locked \in BOOLEAN, d \in Players : m = TimelineMessage(r, locked, d)
  BY <1>3 DEF TimelineMessage, Timelines
<1>4. QED
  BY <1>1, <1>2, <1>3 DEF ToldOnce

LEMMA BestRun ==
  ASSUME NEW samples \in Seq(Samples), samples # <<>>
  PROVE  Best(samples).run \in Nat
<1>1. PICK i \in DOMAIN samples : Best(samples) = samples[i]
  BY BestIsKept
<1>2. samples[i] \in Samples
  OBVIOUS
<1>3. QED
  BY <1>1, <1>2 DEF Samples, Runs

LEMMA TypeNext ==
  ASSUME ClientTypeOK, ClientNext
  PROVE  ClientTypeOK'
<1> USE DEF ClientTypeOK
<1>1. CASE Connect
  <2>1. kept' \in Kept
    BY <1>1, KeptUpdates DEF Connect
  <2>2. socket' \in {"none", "connecting", "open", "gone"}
    BY <1>1 DEF Connect
  <2>3. QED
    BY <1>1, <2>1, <2>2 DEF Connect, wireVars
<1>2. CASE OnOpen
  <2>1. known' \in Known
    BY <1>2, KnownUpdates DEF OnOpen
  <2>2. downstream' \in Seq(ToldOnce) /\ upstream' \in Seq(Asked)
    BY <1>2, MessageKindsApart DEF OnOpen
  <2>3. socket' \in {"none", "connecting", "open", "gone"} /\ timing' \in BOOLEAN
    BY <1>2 DEF OnOpen
  <2>4. QED
    BY <1>2, <2>1, <2>2, <2>3 DEF OnOpen
<1>3. CASE OnClose
  <2>1. known' \in Known
    BY <1>3, KnownUpdates DEF OnClose
  <2>2. (~kept.closed) \in BOOLEAN
    BY KeptUpdates
  <2>3. kept' \in Kept
    BY <1>3, <2>2, KeptUpdates DEF OnClose
  <2>4. downstream' \in Seq(ToldOnce) /\ upstream' \in Seq(Asked)
    BY <1>3 DEF OnClose
  <2>5. socket' \in {"none", "connecting", "open", "gone"} /\ timing' \in BOOLEAN
    BY <1>3 DEF OnClose
  <2>6. QED
    BY <1>3, <2>1, <2>3, <2>4, <2>5 DEF OnClose
<1>4. CASE Close
  <2>1. kept' \in Kept
    BY <1>4, KeptUpdates DEF Close
  <2>2. downstream' \in Seq(ToldOnce) /\ upstream' \in Seq(Asked)
    BY <1>4 DEF Close
  <2>3. socket' \in {"none", "connecting", "open", "gone"} /\ timing' \in BOOLEAN
    BY <1>4 DEF Close
  <2>4. QED
    BY <1>4, <2>1, <2>2, <2>3 DEF Close
<1>5. CASE SendPing
  BY <1>5, SendingOK, MessageKindsApart DEF SendPing, pageVars
<1>6. CASE OnHello
  BY <1>6, SendingOK, KeptUpdates, MessageKindsApart, Taken DEF OnHello, Arrives
<1>7. CASE OnPong
  <2>1. PICK rtt \in RoundTrips :
          LET samples == Sampled(known.samples, [rtt |-> rtt, run |-> Head(downstream).run])
          IN known' = [known EXCEPT !.samples = samples, !.offset = Best(samples).run]
    BY <1>7 DEF OnPong
  <2> DEFINE sample == [rtt |-> rtt, run |-> Head(downstream).run]
             samples == Sampled(known.samples, sample)
  <2>2. sample \in Samples
    BY <1>7, Taken, ToldKinds DEF OnPong, Arrives, Samples
  <2>3. samples \in Seq(Samples) /\ samples # <<>>
    BY <2>2, KnownUpdates, SampledKeeps
  <2>4. Best(samples).run \in Nat
    BY <2>3, BestRun
  <2>5. known' \in Known
    <3> HIDE DEF samples
    <3> QED BY <2>1, <2>3, <2>4, KnownUpdates DEF samples
  <2>6. QED
    BY <1>7, <2>5, Taken DEF OnPong, Arrives
<1>8. CASE OnTimeline
  <2>1. Head(downstream).timeline \in Timelines
    BY <1>8, Taken, ToldKinds DEF OnTimeline, Arrives
  <2>2. Head(downstream).timeline.device \in Heard
    BY <2>1 DEF Timelines, Heard
  <2>3. known' \in Known /\ kept' \in Kept
    BY <1>8, <2>1, <2>2, KnownUpdates, KeptUpdates DEF OnTimeline
  <2>4. QED
    BY <1>8, <2>3, Taken DEF OnTimeline, Arrives
<1>9. CASE Follow
  BY <1>9, KeptUpdates, SendingOK, MessageKindsApart DEF Follow, Heard
<1>10. CASE BridgeReads
  <2>1. upstream' \in Seq(Asked) /\ Head(upstream) \in Asked
    BY <1>10, Taken DEF BridgeReads
  <2>2. CASE Head(upstream) = Ping
    <3>1. Pong(bridge.run) \in ToldOnce
      BY MessageKindsApart, BridgeUpdates
    <3>2. downstream' \in Seq(ToldOnce)
      BY <1>10, <2>2, <3>1 DEF BridgeReads
    <3>3. QED
      BY <1>10, <2>1, <2>2, <3>2 DEF BridgeReads, pageVars
  <2>3. CASE Head(upstream) # Ping
    <3>1. bridge' \in Bridges
      BY <1>10, <2>1, <2>3, AskedKinds, BridgeUpdates DEF BridgeReads
    <3>2. QED
      BY <1>10, <2>1, <2>3, <3>1 DEF BridgeReads, pageVars
  <2>4. QED
    BY <2>2, <2>3
<1>11. CASE BridgeTells \/ SourceIsLost
  <2>1. PICK locked \in BOOLEAN : BridgeSays(locked)
    BY <1>11 DEF BridgeTells, SourceIsLost
  <2>2. TimelineMessage(bridge.run, locked, Followed(bridge)) \in ToldOnce
    BY MessageKindsApart, BridgeUpdates
  <2>3. QED
    BY <2>1, <2>2 DEF BridgeSays, pageVars
<1>12. CASE BridgeStops
  <2>1. bridge' \in Bridges
    BY <1>12, BridgeUpdates DEF BridgeStops
  <2>2. socket' \in {"none", "connecting", "open", "gone"}
    BY <1>12 DEF BridgeStops, Gone
  <2>3. QED
    BY <1>12, <2>1, <2>2 DEF BridgeStops, wireVars
<1>13. CASE BridgeStarts
  BY <1>13, BridgeUpdates DEF BridgeStarts, pageVars, wireVars
<1>14. CASE ConnectionDrops
  BY <1>14 DEF ConnectionDrops, wireVars
<1>15. CASE AnotherMaster
  BY <1>15, BridgeUpdates DEF AnotherMaster, pageVars, wireVars
<1>16. CASE AnotherPageFollows
  BY <1>16, BridgeUpdates DEF AnotherPageFollows, pageVars, wireVars, Heard
<1>17. QED
  BY <1>1, <1>2, <1>3, <1>4, <1>5, <1>6, <1>7, <1>8, <1>9, <1>10, <1>11, <1>12, <1>13, <1>14,
     <1>15, <1>16 DEF ClientNext, Page, World

-----------------------------------------------------------------------------
(* One run on one connection *)

\* What a handler takes off the wire is of the run of the connection, and so
\* is what stays on it.
LEMMA ArrivesOfRun ==
  ASSUME ClientTypeOK, NEW type, Arrives(type), NEW r, WireOf(r)
  PROVE  WireOf(r)' /\ OfRun(Head(downstream), r)
<1>1. downstream \in Seq(ToldOnce) /\ downstream # <<>> /\ downstream' = Tail(downstream)
  BY DEF ClientTypeOK, Arrives
<1>2. \A i \in DOMAIN Tail(downstream) :
        i + 1 \in DOMAIN downstream /\ Tail(downstream)[i] = downstream[i + 1]
  BY <1>1, Taken
<1>3. Head(downstream) = downstream[1] /\ 1 \in DOMAIN downstream
  BY <1>1, Taken
<1>4. QED
  BY <1>1, <1>2, <1>3 DEF WireOf

LEMMA AppendOfRun ==
  ASSUME ClientTypeOK, NEW r, WireOf(r), NEW m, downstream' = Append(downstream, m), OfRun(m, r)
  PROVE  WireOf(r)'
<1>1. downstream \in Seq(ToldOnce)
  BY DEF ClientTypeOK
<1>2. \A i \in DOMAIN Append(downstream, m) :
        Append(downstream, m)[i] = m \/ (i \in DOMAIN downstream
                                         /\ Append(downstream, m)[i] = downstream[i])
  BY <1>1
<1>3. QED
  BY <1>2 DEF WireOf

\* The page's handlers keep what it knows of one run.
LEMMA HandlersOneRun ==
  ASSUME ClientTypeOK, NEW r \in Runs, OneRun(r), OnHello \/ OnPong \/ OnTimeline
  PROVE  OneRun(r)'
<1> USE DEF OneRun
<1>1. CASE OnHello
  <2>1. WireOf(r)'
    BY <1>1, ArrivesOfRun DEF OnHello
  <2>2. KnownOf(r)'
    BY <1>1 DEF OnHello, KnownOf
  <2>3. QED
    BY <2>1, <2>2
<1>2. CASE OnPong
  <2>1. PICK rtt \in RoundTrips :
          LET samples == Sampled(known.samples, [rtt |-> rtt, run |-> Head(downstream).run])
          IN known' = [known EXCEPT !.samples = samples, !.offset = Best(samples).run]
    BY <1>2 DEF OnPong
  <2> DEFINE sample == [rtt |-> rtt, run |-> Head(downstream).run]
             samples == Sampled(known.samples, sample)
  <2>2. WireOf(r)' /\ Head(downstream).run = r
    BY <1>2, ArrivesOfRun DEF OnPong, Arrives, OfRun
  <2>3. sample \in Samples /\ sample.run = r
    BY <2>2 DEF Samples
  <2>4. known.samples \in Seq(Samples)
    BY KnownUpdates DEF ClientTypeOK
  <2>5. /\ samples \in Seq(Samples) /\ samples # <<>>
        /\ \A i \in DOMAIN samples :
             samples[i] = sample \/ \E j \in DOMAIN known.samples : samples[i] = known.samples[j]
    BY <2>3, <2>4, SampledKeeps
  <2> HIDE DEF sample
  <2>6. \A i \in DOMAIN samples : samples[i].run = r
    BY <2>3, <2>5 DEF KnownOf
  <2>7. Best(samples).run = r
    <3> HIDE DEF samples
    <3> QED BY <2>5, <2>6, BestIsKept
  <2>8. known' = [known EXCEPT !.samples = samples, !.offset = r]
    BY <2>1, <2>7 DEF sample
  <2> HIDE DEF samples
  <2>9. known'.samples = samples /\ known'.offset = r /\ known'.timeline = known.timeline
    BY <2>8 DEF ClientTypeOK, Known
  <2>10. QED
    BY <2>2, <2>6, <2>9 DEF KnownOf
<1>3. CASE OnTimeline
  <2>1. WireOf(r)' /\ Head(downstream).timeline.run = r
    BY <1>3, ArrivesOfRun DEF OnTimeline, Arrives, OfRun
  <2>2. known' = [known EXCEPT !.timeline = Head(downstream).timeline]
    BY <1>3 DEF OnTimeline
  <2>3. /\ known'.timeline = Head(downstream).timeline
        /\ known'.samples = known.samples /\ known'.offset = known.offset
    BY <2>2 DEF ClientTypeOK, Known
  <2>4. QED
    BY <2>1, <2>3 DEF KnownOf
<1>4. QED
  BY <1>1, <1>2, <1>3

LEMMA ConnectedNext ==
  ASSUME ClientTypeOK, ConnectedInv, SocketInv, ClientNext
  PROVE  ConnectedInv'
<1> USE DEF ConnectedInv
<1>0. bridge.run \in Runs
  BY BridgeUpdates DEF ClientTypeOK
<1>1. CASE Connect \/ OnClose \/ Close
  BY <1>1 DEF Connect, OnClose, Close
<1>2. CASE OnOpen
  <2>1. KnownOf(bridge.run)'
    <3>1. known' = [known EXCEPT !.samples = <<>>, !.offset = 0]
      BY <1>2 DEF OnOpen
    <3>2. known'.samples = <<>> /\ known'.offset = 0 /\ known'.timeline = known.timeline
      BY <3>1 DEF ClientTypeOK, Known
    <3>3. known.timeline = NoTimeline
      BY <1>2 DEF OnOpen, SocketInv
    <3>4. QED
      BY <3>2, <3>3 DEF KnownOf
  <2>2. WireOf(bridge.run)'
    BY <1>2 DEF OnOpen, WireOf, OfRun, Hello
  <2>3. QED
    BY <1>2, <2>1, <2>2 DEF OnOpen, OneRun
<1>3. CASE SendPing \/ Follow \/ AnotherMaster \/ AnotherPageFollows \/ ConnectionDrops
  <2>1. UNCHANGED <<known, downstream>>
    BY <1>3 DEF SendPing, Follow, AnotherMaster, AnotherPageFollows, ConnectionDrops, pageVars, wireVars
  <2>2. \A r \in Runs : OneRun(r) => OneRun(r)'
    BY <2>1 DEF OneRun, KnownOf, WireOf
  <2>3. bridge'.run = bridge.run /\ (bridge.up => bridge'.up)
    BY <1>3 DEF SendPing, Follow, AnotherMaster, AnotherPageFollows, ConnectionDrops, pageVars, wireVars,
                ClientTypeOK, Bridges
  <2>4. CASE ConnectionDrops
    BY <1>0, <2>2, <2>3, <2>4 DEF ConnectionDrops
  <2>5. CASE ~ConnectionDrops
    <3>1. UNCHANGED socket
      BY <1>3, <2>5 DEF SendPing, Follow, AnotherMaster, AnotherPageFollows, pageVars
    <3>2. QED
      BY <1>0, <2>2, <2>3, <3>1
  <2>6. QED
    BY <2>4, <2>5
<1>4. CASE OnHello \/ OnPong \/ OnTimeline
  <2>1. UNCHANGED <<socket, bridge>>
    BY <1>4 DEF OnHello, OnPong, OnTimeline, Arrives
  <2>2. \A r \in Runs : OneRun(r) => OneRun(r)'
    BY <1>4, HandlersOneRun
  <2>3. QED
    BY <1>0, <2>1, <2>2
<1>5. CASE BridgeReads
  <2>1. UNCHANGED <<socket, known>> /\ socket = "open" /\ bridge.up /\ OneRun(bridge.run)
    BY <1>5 DEF BridgeReads, pageVars
  <2>2. bridge'.up = bridge.up /\ bridge'.run = bridge.run
    BY <1>5 DEF BridgeReads, ClientTypeOK, Bridges
  <2>3. WireOf(bridge.run)'
    <3>1. CASE UNCHANGED downstream
      BY <2>1, <2>2, <3>1 DEF WireOf, OneRun
    <3>2. CASE downstream' = Append(downstream, Pong(bridge.run))
      <4>1. OfRun(Pong(bridge.run), bridge.run)
        BY DEF OfRun, Pong
      <4> DEFINE r == bridge.run
      <4>2. WireOf(r)
        BY <2>1 DEF OneRun
      <4>3. r' = r
        BY <2>2
      <4>4. \A q : q = r => WireOf(q)'
        BY <3>2, <4>1, <4>2, AppendOfRun
      <4>5. QED
        BY <4>3, <4>4
    <3>3. QED
      BY <1>5, <3>1, <3>2 DEF BridgeReads
  <2>4. KnownOf(bridge.run)'
    BY <2>1, <2>2 DEF KnownOf, OneRun
  <2>5. QED
    BY <2>1, <2>2, <2>3, <2>4 DEF OneRun
<1>6. CASE BridgeTells \/ SourceIsLost
  <2>1. PICK locked \in BOOLEAN : BridgeSays(locked)
    BY <1>6 DEF BridgeTells, SourceIsLost
  <2>2. UNCHANGED <<socket, known, bridge>> /\ socket = "open" /\ bridge.up /\ OneRun(bridge.run)
    BY <2>1 DEF BridgeSays, pageVars
  <2> DEFINE m == TimelineMessage(bridge.run, locked, Followed(bridge))
  <2>3. OfRun(m, bridge.run)
    BY DEF OfRun, TimelineMessage
  <2>4. \A q : q = bridge.run => WireOf(q)'
    <3>1. downstream' = Append(downstream, m)
      BY <2>1 DEF BridgeSays
    <3> HIDE DEF m
    <3> QED BY <2>2, <2>3, <3>1, AppendOfRun DEF OneRun
  <2>5. WireOf(bridge.run)' /\ KnownOf(bridge.run)'
    BY <2>2, <2>4 DEF KnownOf, OneRun
  <2>6. QED
    BY <2>2, <2>5 DEF OneRun
<1>7. CASE BridgeStops
  <2>1. UNCHANGED <<known, downstream>> /\ socket' # "open"
    BY <1>7 DEF BridgeStops, wireVars, Gone
  <2>2. socket' = "gone" => socket \in {"open", "gone"}
    BY <1>7 DEF BridgeStops, Gone
  <2>3. \A r \in Runs : OneRun(r) => OneRun(r)'
    BY <2>1 DEF OneRun, KnownOf, WireOf
  <2>4. QED
    BY <1>0, <2>1, <2>2, <2>3
<1>8. CASE BridgeStarts
  <2>1. UNCHANGED <<known, downstream, socket>> /\ socket # "open"
    BY <1>8 DEF BridgeStarts, pageVars, wireVars
  <2>2. \A r \in Runs : OneRun(r) => OneRun(r)'
    BY <2>1 DEF OneRun, KnownOf, WireOf
  <2>3. QED
    BY <2>1, <2>2
<1>9. QED
  BY <1>1, <1>2, <1>3, <1>4, <1>5, <1>6, <1>7, <1>8 DEF ClientNext, Page, World

-----------------------------------------------------------------------------
(* The socket, and the device heard *)

LEMMA SocketNext ==
  ASSUME ClientTypeOK, SocketInv, ClientNext
  PROVE  SocketInv'
<1> USE DEF SocketInv
<1>1. CASE Connect
  <2>1. kept'.closed = kept.closed
    BY <1>1 DEF Connect, ClientTypeOK, Kept
  <2>2. QED
    BY <1>1, <2>1 DEF Connect
<1>2. CASE OnOpen
  BY <1>2 DEF OnOpen
<1>3. CASE OnClose
  <2>1. known'.timeline = NoTimeline
    BY <1>3 DEF OnClose, ClientTypeOK, Known
  <2>2. QED
    BY <1>3, <2>1 DEF OnClose
<1>4. CASE Close
  <2>1. kept'.closed
    BY <1>4 DEF Close, ClientTypeOK, Kept
  <2>2. QED
    BY <1>4, <2>1 DEF Close
<1>5. CASE OnPong \/ OnTimeline
  <2>1. UNCHANGED <<socket, timing>> /\ socket \in {"open", "gone"}
    BY <1>5 DEF OnPong, OnTimeline, Arrives
  <2>2. kept'.closed = kept.closed
    BY <1>5 DEF OnPong, OnTimeline, ClientTypeOK, Kept
  <2>3. QED
    BY <2>1, <2>2
<1>6. CASE Follow
  <2>1. kept'.closed = kept.closed
    BY <1>6 DEF Follow, ClientTypeOK, Kept
  <2>2. QED
    BY <1>6, <2>1 DEF Follow
<1>7. CASE BridgeStops \/ ConnectionDrops
  <2>1. UNCHANGED <<kept, known, timing>>
    BY <1>7 DEF BridgeStops, ConnectionDrops
  <2>2. socket' = socket \/ (socket = "open" /\ socket' = "gone")
    BY <1>7 DEF BridgeStops, ConnectionDrops, Gone
  <2>3. QED
    BY <2>1, <2>2
<1>8. CASE SendPing \/ OnHello \/ BridgeReads \/ BridgeTells \/ SourceIsLost \/ BridgeStarts
           \/ AnotherMaster \/ AnotherPageFollows
  <2>1. UNCHANGED <<socket, kept, known, timing>>
    BY <1>8 DEF SendPing, OnHello, Arrives, BridgeReads, BridgeTells, SourceIsLost, BridgeSays,
                BridgeStarts, AnotherMaster, AnotherPageFollows, pageVars
  <2>2. QED
    BY <2>1
<1>9. QED
  BY <1>1, <1>2, <1>3, <1>4, <1>5, <1>6, <1>7, <1>8 DEF ClientNext, Page, World

LEMMA HeardNext ==
  ASSUME ClientTypeOK, HeardInv, ClientNext
  PROVE  HeardInv'
<1> USE DEF HeardInv
<1>1. CASE OnOpen \/ OnPong
  <2>1. known'.timeline = known.timeline /\ UNCHANGED <<kept, retargeted>>
    BY <1>1 DEF OnOpen, OnPong, ClientTypeOK, Known
  <2>2. QED
    BY <2>1
<1>2. CASE OnClose
  <2>1. known'.timeline = NoTimeline
    BY <1>2 DEF OnClose, ClientTypeOK, Known
  <2>2. QED
    BY <2>1 DEF NoTimeline
<1>3. CASE Connect \/ Close
  <2>1. kept'.target = kept.target /\ kept'.heard = kept.heard /\ UNCHANGED <<known, retargeted>>
    BY <1>3 DEF Connect, Close, ClientTypeOK, Kept
  <2>2. QED
    BY <2>1 DEF OnTarget
<1>4. CASE Follow
  BY <1>4 DEF Follow
<1>5. CASE OnTimeline
  <2> DEFINE t == Head(downstream).timeline
  <2>1. t \in Timelines
    BY <1>5, Taken, ToldKinds DEF OnTimeline, Arrives, ClientTypeOK
  <2>2. t.device # Nobody
    BY <2>1, ClientAssumption DEF Timelines, Nobody
  <2>3. known'.timeline = t
    BY <1>5 DEF OnTimeline, ClientTypeOK, Known
  <2>4. kept'.target = kept.target
    BY <1>5 DEF OnTimeline, ClientTypeOK, Kept
  <2>5. ASSUME t.locked, OnTarget(t, kept.target)
        PROVE  t.device = kept'.heard
    BY <1>5, <2>2, <2>5 DEF OnTimeline, ClientTypeOK, Kept
  <2> HIDE DEF t
  <2>6. QED
    BY <2>3, <2>4, <2>5 DEF OnTarget
<1>6. CASE SendPing \/ OnHello \/ BridgeReads \/ BridgeTells \/ SourceIsLost \/ BridgeStarts
           \/ AnotherMaster \/ AnotherPageFollows \/ BridgeStops \/ ConnectionDrops
  <2>1. UNCHANGED <<kept, known, retargeted>>
    BY <1>6 DEF SendPing, OnHello, Arrives, BridgeReads, BridgeTells, SourceIsLost, BridgeSays,
                BridgeStarts, AnotherMaster, AnotherPageFollows, BridgeStops, ConnectionDrops, pageVars
  <2>2. QED
    BY <2>1 DEF OnTarget
<1>7. QED
  BY <1>1, <1>2, <1>3, <1>4, <1>5, <1>6 DEF ClientNext, Page, World

-----------------------------------------------------------------------------
(* The theorem *)

LEMMA ClientInitially == ClientInit => ClientInv
<1> SUFFICES ASSUME ClientInit PROVE ClientInv
  OBVIOUS
<1> USE DEF ClientInit, NothingKnown, NoTimeline
<1>1. kept \in Kept
  <2>1. PICK leaves \in BOOLEAN :
          kept = [closed |-> leaves, waits |-> ~leaves, target |-> NotAsked, heard |-> Nobody]
    OBVIOUS
  <2>2. (~leaves) \in BOOLEAN
    OBVIOUS
  <2>3. QED
    BY <2>1, <2>2 DEF Kept, Heard
<1>2. known \in Known
  <2>1. <<>> \in Seq(Samples)
    OBVIOUS
  <2> DEFINE S == Seq(Samples)
             T == {NoTimeline} \cup Timelines
  <2>2. NoTimeline \in T
    OBVIOUS
  <2> HIDE DEF S, T
  <2>3. [samples |-> <<>>, offset |-> 0, timeline |-> NoTimeline] \in [samples : S, offset : Nat, timeline : T]
    BY <2>1, <2>2 DEF S
  <2>4. QED
    BY <2>3 DEF Known, S, T
<1>3. bridge \in Bridges
  <2>1. 1 \in Runs /\ Nobody \in Heard
    BY DEF Runs, Heard
  <2>2. [up : BOOLEAN, run : {1}, target : {Nobody}, overruled : {FALSE}, master : Players] \subseteq Bridges
    BY <2>1 DEF Bridges
  <2>3. QED
    BY <2>2
<1>4. upstream \in Seq(Asked) /\ downstream \in Seq(ToldOnce)
  OBVIOUS
<1>5. ClientTypeOK
  BY <1>1, <1>2, <1>3, <1>4 DEF ClientTypeOK
<1>6. QED
  BY <1>5 DEF ClientInv, ConnectedInv, SocketInv, HeardInv

\* The invariant is what the handlers keep, whatever was lost or started again.
THEOREM ClientSafe == ClientSpec => []ClientInv
<1>1. ClientInv /\ [ClientNext]_clientVars => ClientInv'
  <2> SUFFICES ASSUME ClientInv, [ClientNext]_clientVars PROVE ClientInv'
    OBVIOUS
  <2>1. CASE ClientNext
    BY <2>1, TypeNext, ConnectedNext, SocketNext, HeardNext DEF ClientInv
  <2>2. CASE UNCHANGED clientVars
    BY <2>2 DEF clientVars, ClientInv, ClientTypeOK, ConnectedInv, SocketInv, HeardInv, OneRun, KnownOf,
                WireOf
  <2>3. QED
    BY <2>1, <2>2
<1>2. QED
  BY <1>1, ClientInitially, PTL DEF ClientSpec

\* Whatever is fed joins an offset and a timeline of one run of the bridge,
\* and is of the device the engine was last re-synced to.
THEOREM IsFedTruly == ClientSpec => []FedTruly
<1>1. ClientInv => FedTruly
  <2> SUFFICES ASSUME ClientInv, Feeds PROVE /\ known.offset = known.timeline.run
                                             /\ retargeted \/ known.timeline.device = kept.heard
    BY DEF FedTruly
  <2>1. known.timeline # NoTimeline /\ known.offset # 0 /\ socket \in {"open", "gone"}
    BY DEF Feeds, ClientInv, SocketInv, NoTimeline
  <2>2. PICK r : OneRun(r)
    BY <2>1 DEF ClientInv, ConnectedInv
  <2>3. known.offset = known.timeline.run
    BY <2>1, <2>2 DEF OneRun, KnownOf
  <2>4. retargeted \/ known.timeline.device = kept.heard
    BY DEF Feeds, ClientInv, HeardInv
  <2>5. QED
    BY <2>3, <2>4
<1>2. QED
  BY <1>1, ClientSafe, PTL

=============================================================================
