---------------------------- MODULE BridgeClient ----------------------------
(***************************************************************************)
(* The web app's client of the bridge (apps/web/src/clock/bridge.ts): it   *)
(* keeps a connection alive, estimates the offset of the bridge's clock    *)
(* from pings, and feeds the engine what the last timeline says the beat   *)
(* is.                                                                     *)
(*                                                                         *)
(* Everything here is one handler of the page's event loop.  The clock of  *)
(* a bridge that was started again has nothing to do with the one before:  *)
(* an offset and a timeline are known by the run of the bridge they came   *)
(* from, and feeding one with the other gives a wrong beat.  The bridge,   *)
(* which other pages ask to follow other devices, and the network are the  *)
(* environment; delays between attempts are left to the scheduler.         *)
(***************************************************************************)
EXTENDS Integers, Sequences, SequencesExt

CONSTANTS
  Players,        \* the devices of the booth
  RoundTrips,     \* how long a ping may take
  OFFSET_WINDOW,  \* the samples kept
  MaxOnWire,      \* bound: timelines under way to the page
  MaxChange       \* bound: what happens to bridge, booth, network and target

ASSUME ClientAssumption ==
  /\ Players \subseteq Nat \ {0}
  /\ RoundTrips \subseteq Nat
  /\ OFFSET_WINDOW \in Nat \ {0}

Nobody == 0       \* no device, and the target "master" of a bridge
NotAsked == -1

VARIABLES
  socket,     \* ws: "none", "connecting", "open"; and "gone" once the other end went
  kept,       \* what outlives a connection: closedByUser, the reconnect timer, the follow
              \* target, the device heard last
  known,      \* what a connection taught: samples, the offset taken from them, the timeline
  timing,     \* whether the ping and observe timers run
  upstream,   \* messages under way to the bridge
  downstream, \* messages under way to the page
  bridge,     \* whether it runs, which run it is, whom it follows, whether another page
              \* had the last word on that, the master of the booth
  retargeted, \* whether the target changed since the timeline arrived
  changes

clientVars == <<socket, kept, known, timing, upstream, downstream, bridge, retargeted, changes>>
pageVars == <<socket, kept, known, timing, retargeted>>
wireVars == <<upstream, downstream>>

NoTimeline == [run |-> 0, locked |-> FALSE, device |-> Nobody]
NothingKnown == [samples |-> <<>>, offset |-> 0, timeline |-> NoTimeline]

Hello == [type |-> "hello"]
Ping == [type |-> "ping"]
FollowMessage(target) == [type |-> "follow", target |-> target]
Pong(run) == [type |-> "pong", run |-> run]
TimelineMessage(run, locked, device) ==
  [type |-> "timeline", timeline |-> [run |-> run, locked |-> locked, device |-> device]]

-----------------------------------------------------------------------------
(* The client *)

\* sendJson: only on a socket that is open, as the page sees it.
Sending(messages) == IF socket \in {"open", "gone"} THEN upstream \o messages ELSE upstream

OnTarget(t, target) ==
  \/ t = NoTimeline
  \/ target \in {NotAsked, Nobody}
  \/ t.device = target

\* emitObservation, which timelines, pongs and a timer call: whether the
\* engine is fed, which changes nothing here.
Feeds ==
  /\ timing /\ known.offset # 0
  /\ known.timeline.locked /\ OnTarget(known.timeline, kept.target)

Connect ==
  /\ socket = "none" /\ ~kept.closed /\ kept.waits
  /\ kept' = [kept EXCEPT !.waits = FALSE] /\ socket' = "connecting"
  /\ UNCHANGED <<known, timing, wireVars, bridge, retargeted, changes>>

\* Mutant: the offset of the connection before is kept.
OnOpenKept ==
  /\ socket = "connecting" /\ bridge.up
  /\ socket' = "open" /\ timing' = TRUE
  /\ downstream' = <<Hello>> /\ upstream' = <<>>
  /\ UNCHANGED <<kept, known, bridge, retargeted, changes>>

\* onopen: what an earlier connection measured says nothing of this clock.
OnOpen ==
  /\ socket = "connecting" /\ bridge.up
  /\ socket' = "open" /\ timing' = TRUE
  /\ known' = [known EXCEPT !.samples = <<>>, !.offset = 0]
  /\ downstream' = <<Hello>> /\ upstream' = <<>>
  /\ UNCHANGED <<kept, bridge, retargeted, changes>>

\* Mutant: a connection that was refused or ended is not tried again.
OnCloseForGood ==
  /\ socket = "gone" \/ (socket = "connecting" /\ ~bridge.up)
  /\ socket' = "none" /\ timing' = FALSE
  /\ known' = [known EXCEPT !.timeline = NoTimeline]
  /\ upstream' = <<>> /\ downstream' = <<>>
  /\ UNCHANGED <<kept, bridge, retargeted, changes>>

\* onclose, for a connection refused or ended; onerror leaves it to this.
OnClose ==
  /\ socket = "gone" \/ (socket = "connecting" /\ ~bridge.up)
  /\ socket' = "none" /\ timing' = FALSE
  /\ known' = [known EXCEPT !.timeline = NoTimeline]
  /\ kept' = [kept EXCEPT !.waits = ~kept.closed]
  /\ upstream' = <<>> /\ downstream' = <<>>
  /\ UNCHANGED <<bridge, retargeted, changes>>

\* close(), when the page leaves the bridge for another clock.
Close ==
  /\ ~kept.closed
  /\ kept' = [kept EXCEPT !.closed = TRUE, !.waits = FALSE]
  /\ socket' = "none" /\ timing' = FALSE
  /\ upstream' = <<>> /\ downstream' = <<>>
  /\ UNCHANGED <<known, bridge, retargeted, changes>>

\* The interval and the burst; one exchange under way is enough.
UnderWay(type) == SelectSeq(downstream, LAMBDA message : message.type = type)
SendPing ==
  /\ timing /\ Ping \notin ToSet(upstream) /\ UnderWay("pong") = <<>>
  /\ upstream' = Sending(<<Ping>>)
  /\ UNCHANGED <<pageVars, downstream, bridge, changes>>

Arrives(type) ==
  /\ socket \in {"open", "gone"}
  /\ downstream # <<>> /\ Head(downstream).type = type
  /\ downstream' = Tail(downstream)
  /\ UNCHANGED <<socket, timing, bridge, changes>>

OnHello ==
  /\ Arrives("hello")
  /\ upstream' = IF kept.target = NotAsked THEN upstream ELSE Sending(<<FollowMessage(kept.target)>>)
  /\ UNCHANGED <<kept, known, retargeted>>

\* The offset of the best sample of the window, the oldest of equals.
Best(samples) ==
  CHOOSE s \in ToSet(samples) :
    \E i \in DOMAIN samples :
      /\ samples[i] = s
      /\ \A j \in DOMAIN samples :
           samples[j].rtt > s.rtt \/ (samples[j].rtt = s.rtt /\ j >= i)

Sampled(samples, sample) ==
  LET all == Append(samples, sample)
  IN IF Len(all) > OFFSET_WINDOW THEN Tail(all) ELSE all

OnPong ==
  /\ Arrives("pong")
  /\ \E rtt \in RoundTrips :
       LET samples == Sampled(known.samples, [rtt |-> rtt, run |-> Head(downstream).run])
       IN known' = [known EXCEPT !.samples = samples, !.offset = Best(samples).run]
  /\ UNCHANGED <<kept, retargeted, upstream>>

\* A locked timeline of another device than the last makes the engine
\* re-sync (onDeviceChange): the device counts as heard from then on.
OnTimeline ==
  /\ Arrives("timeline")
  /\ LET t == Head(downstream).timeline IN
       /\ known' = [known EXCEPT !.timeline = t]
       /\ kept' = IF t.locked /\ t.device # Nobody /\ OnTarget(t, kept.target)
                  THEN [kept EXCEPT !.heard = t.device] ELSE kept
  /\ retargeted' = FALSE
  /\ UNCHANGED upstream

-----------------------------------------------------------------------------
(* The bridge, the booth, the network and the user *)

Changed == changes < MaxChange /\ changes' = changes + 1

Follow ==
  /\ Changed /\ ~kept.closed
  /\ \E target \in {Nobody} \cup Players :
       /\ kept' = [kept EXCEPT !.target = target]
       /\ upstream' = Sending(<<FollowMessage(target)>>)
  /\ retargeted' = TRUE
  /\ UNCHANGED <<socket, known, timing, downstream, bridge>>

Followed(b) == IF b.target = Nobody THEN b.master ELSE b.target

BridgeReads ==
  /\ socket = "open" /\ upstream # <<>>
  /\ upstream' = Tail(upstream)
  /\ IF Head(upstream) = Ping
     THEN downstream' = Append(downstream, Pong(bridge.run)) /\ UNCHANGED bridge
     ELSE bridge' = [bridge EXCEPT !.target = Head(upstream).target, !.overruled = FALSE] /\ UNCHANGED downstream
  /\ UNCHANGED <<pageVars, changes>>

BridgeSays(locked) ==
  /\ socket = "open" /\ Len(UnderWay("timeline")) < MaxOnWire
  /\ downstream' = Append(downstream, TimelineMessage(bridge.run, locked, Followed(bridge)))
  /\ UNCHANGED <<pageVars, upstream, bridge>>

BridgeTells == BridgeSays(TRUE) /\ UNCHANGED changes
SourceIsLost == BridgeSays(FALSE) /\ Changed

Gone == IF socket = "open" THEN "gone" ELSE socket

BridgeStops ==
  /\ Changed /\ bridge.up
  /\ bridge' = [bridge EXCEPT !.up = FALSE] /\ socket' = Gone
  /\ UNCHANGED <<kept, known, timing, retargeted, wireVars>>

BridgeStarts ==
  /\ ~bridge.up
  /\ bridge' = [bridge EXCEPT !.up = TRUE, !.run = @ + 1, !.target = Nobody, !.overruled = FALSE]
  /\ UNCHANGED <<pageVars, wireVars, changes>>

ConnectionDrops ==
  /\ Changed /\ socket = "open" /\ socket' = "gone"
  /\ UNCHANGED <<kept, known, timing, retargeted, wireVars, bridge>>

AnotherMaster ==
  /\ Changed
  /\ \E p \in Players \ {bridge.master} : bridge' = [bridge EXCEPT !.master = p]
  /\ UNCHANGED <<pageVars, wireVars>>

AnotherPageFollows ==
  /\ Changed /\ bridge.up
  /\ \E target \in ({Nobody} \cup Players) \ {bridge.target} :
       bridge' = [bridge EXCEPT !.target = target, !.overruled = TRUE]
  /\ UNCHANGED <<pageVars, wireVars>>

-----------------------------------------------------------------------------
ClientInit ==
  /\ socket = "none" /\ known = NothingKnown /\ timing = FALSE
  /\ kept \in {[closed |-> leaves, waits |-> ~leaves, target |-> NotAsked, heard |-> Nobody] :
                leaves \in BOOLEAN}
  /\ upstream = <<>> /\ downstream = <<>>
  /\ bridge \in [up : BOOLEAN, run : {1}, target : {Nobody}, overruled : {FALSE},
                  master : Players]
  /\ retargeted = FALSE /\ changes = 0

Page == Connect \/ OnOpen \/ OnClose \/ SendPing \/ OnHello \/ OnPong \/ OnTimeline
World ==
  \/ Close \/ Follow \/ BridgeReads \/ BridgeTells \/ SourceIsLost
  \/ BridgeStops \/ BridgeStarts \/ ConnectionDrops \/ AnotherMaster \/ AnotherPageFollows

ClientNext == Page \/ World

ClientFairness ==
  /\ WF_clientVars(Connect) /\ WF_clientVars(OnOpen) /\ WF_clientVars(OnClose)
  /\ WF_clientVars(SendPing)
  /\ WF_clientVars(OnHello) /\ WF_clientVars(OnPong) /\ WF_clientVars(OnTimeline)
  /\ WF_clientVars(BridgeReads) /\ WF_clientVars(BridgeStarts) /\ WF_clientVars(BridgeTells)

ClientSpec == ClientInit /\ [][ClientNext]_clientVars /\ ClientFairness

-----------------------------------------------------------------------------
(* What is fed joins an offset and a timeline of one run of the bridge.  A   *)
(* device fed is the one the engine was last re-synced to, unless the page   *)
(* asked for another since the timeline came.                                *)
FedTruly ==
  Feeds => /\ known.offset = known.timeline.run
           /\ retargeted \/ known.timeline.device = kept.heard

(* Whatever was lost, refused or started again, the page comes to be fed the *)
(* beat of the device it asked for and goes on being fed, unless it left the *)
(* bridge or another page has the last word.                                 *)
FedAsAsked ==
  /\ Feeds /\ socket = "open" /\ known.offset = bridge.run
  /\ known.timeline.device = Followed(bridge)

IsFedAgain == []<>(kept.closed \/ bridge.overruled \/ FedAsAsked)
=============================================================================
