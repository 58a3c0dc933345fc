----------------------------- MODULE AppleHost -----------------------------
(***************************************************************************)
(* The engine host of the Apple apps (apps/mac, EngineHost.swift) and what *)
(* AppModel.swift asks of it.  The main thread owns the audio graph and    *)
(* the renderer, a serial queue owns the control half and works through    *)
(* the blocks the main thread leaves there, and the audio thread calls the *)
(* renderer its node captured.  A change of the sample rate takes a new    *)
(* pair of halves; what the user asked for is kept, and applied to it.     *)
(*                                                                         *)
(* A pair is known by the number it was made as.  Of the core, a control   *)
(* half is what EngineHost set on it (core/ffi/src/split.rs): a pattern is *)
(* its tempo, a clock source the kind that runs.  The platform is the      *)
(* environment: outputs change, the system stops the engine and says so    *)
(* later, the engine may refuse to start.                                  *)
(***************************************************************************)
EXTENDS Naturals, Sequences, SequencesExt

CONSTANTS
  Platforms,     \* "mac", whose user chooses the output, or "ios", with its interruptions
  Outputs,       \* what the audio may come out of
  RateOf,        \* the sample rate of each; no output when it is 0
  LocalModes,    \* the clock mode of each kind without a source in the core
  SourceModes,   \* the clock mode of each kind with one
  Failing,       \* the kinds whose source does not start
  PatternTempos, \* the tempos of patterns and of sources
  Nudges,        \* in milliseconds
  MaxRequests,   \* bound: what the user does, and the tempos a source passes through
  MaxUpsets      \* bound: what the platform does

NoSource == "none"
NoPair == 0
InCore == DOMAIN SourceModes
ClockKinds == InCore \cup DOMAIN LocalModes
IsExternal(kind) == kind \in InCore \/ LocalModes[kind] # "internal"

ASSUME HostAssumption ==
  /\ RateOf \in [Outputs -> Nat]
  /\ "internal" \in DOMAIN LocalModes /\ LocalModes["internal"] = "internal"
  /\ {"internal", NoSource} \cap InCore = {}
  /\ Failing \subseteq InCore
  /\ PatternTempos \subseteq Nat \ {0}

VARIABLES
  platform,
  output,       \* the output the system would play through
  interrupted,  \* whether another app has the audio session
  graph,        \* AVAudioEngine: whether it runs, and the pair its source node captured
  halves,       \* the pair the host owns, its rate, how many were made, the renderers not freed
  wanted,       \* audioWanted
  told,         \* onAudioStatus: what the interface was told last
  shown,        \* the clock AppModel shows
  notices,      \* what waits on the main queue
  blocks,       \* what waits on the control queue
  waiting,      \* the main thread in controlQueue.sync, and what it does afterwards
  control,      \* the control half, with what was set on it
  desired,      \* DesiredState
  nudgeTempo,   \* the tempo of the last nudge
  rendering,    \* the pair whose renderer the audio thread is in
  requests, upsets

systemVars == <<platform, output, interrupted, upsets>>
mainVars == <<graph, halves, wanted, told, waiting>>
queueVars == <<control, desired, nudgeTempo>>
hostVars == <<systemVars, mainVars, queueVars, shown, notices, blocks, rendering, requests>>

NotWaiting == [sync |-> FALSE, back |-> FALSE, kind |-> NoSource, ok |-> TRUE, after |-> <<>>]
NoControl == [pair |-> NoPair]
Block(what, value) == [what |-> what, value |-> value]
Notice(what, kind, ok) == [what |-> what, kind |-> kind, ok |-> ok]

-----------------------------------------------------------------------------
(* The control half *)

NewControl(p) ==
  [pair |-> p, pattern |-> 0, playing |-> FALSE, mode |-> "internal", source |-> NoSource,
   target |-> 0, tempo |-> 120, nudge |-> [ms |-> 0, at |-> 120], latency |-> NoSource]

WithPattern(c, bpm) ==
  IF bpm = 0 THEN c
  ELSE [c EXCEPT !.pattern = bpm, !.tempo = IF c.mode = "internal" THEN bpm ELSE @]
Nudged(c, ms) == [c EXCEPT !.nudge = [ms |-> ms, at |-> c.tempo]]

\* p5_control_start_source ends the source that runs and, if the new one
\* starts, switches to following it; a new source follows the master.
Sourced(c, kind) ==
  IF kind \in Failing THEN [c EXCEPT !.source = NoSource]
  ELSE [c EXCEPT !.source = kind, !.target = 0, !.mode = SourceModes[kind]]
Unsourced(c, mode) == [c EXCEPT !.source = NoSource, !.target = 0, !.mode = mode]
Aimed(c, device) == IF c.source = NoSource THEN c ELSE [c EXCEPT !.target = device]

\* Mutant: a new source follows the master, whatever device was asked for.
ClockedMasterOnly(c, d) ==
  IF d.clock \notin InCore THEN Unsourced(c, LocalModes[d.clock])
  ELSE IF d.clock \in Failing THEN Unsourced(Sourced(c, d.clock), "internal")
  ELSE Sourced(c, d.clock)

Clocked(c, d) ==
  IF d.clock \notin InCore THEN Unsourced(c, LocalModes[d.clock])
  ELSE IF d.clock \in Failing THEN Unsourced(Sourced(c, d.clock), "internal")
  ELSE IF d.device = 0 THEN Sourced(c, d.clock)
  ELSE Aimed(Sourced(c, d.clock), d.device)

\* Whether applyClock ran the clock asked for, and what it leaves as asked for.
Runs(d) == d.clock \notin Failing
AfterClock(d) == IF Runs(d) THEN d ELSE [d EXCEPT !.clock = "internal"]

-----------------------------------------------------------------------------
(* The control queue: one block at a time, all of them kept in desired *)

TakeBlock(what) ==
  /\ blocks # <<>> /\ Head(blocks).what = what
  /\ blocks' = Tail(blocks)

\* What is asked for is kept; the control half hears of it if there is one.
Ask(field, value, c) ==
  /\ desired' = [desired EXCEPT ![field] = value]
  /\ control' = IF control = NoControl THEN control ELSE c
  /\ UNCHANGED <<systemVars, mainVars, shown, rendering, requests>>

LoadPattern ==
  /\ TakeBlock("pattern")
  /\ LET bpm == Head(blocks).value IN Ask("pattern", bpm, WithPattern(control, bpm))
  /\ UNCHANGED <<nudgeTempo, notices>>

SetPlaying ==
  /\ TakeBlock("playing")
  /\ LET plays == Head(blocks).value IN Ask("playing", plays, [control EXCEPT !.playing = plays])
  /\ UNCHANGED <<nudgeTempo, notices>>

SetLatency ==
  /\ TakeBlock("latency")
  /\ LET ms == Head(blocks).value IN Ask("latency", ms, [control EXCEPT !.latency = ms])
  /\ UNCHANGED <<nudgeTempo, notices>>

FollowDevice ==
  /\ TakeBlock("device")
  /\ LET device == Head(blocks).value IN Ask("device", device, Aimed(control, device))
  /\ UNCHANGED <<nudgeTempo, notices>>

SetNudge ==
  /\ TakeBlock("nudge")
  /\ LET ms == Head(blocks).value IN Ask("nudge", ms, Nudged(control, ms))
  /\ nudgeTempo' = IF control = NoControl THEN nudgeTempo ELSE control.tempo
  /\ UNCHANGED notices

\* The completion waits on the main queue.
SetClock ==
  /\ TakeBlock("clock")
  /\ LET kind == Head(blocks).value
         d == [desired EXCEPT !.clock = kind]
         runs == control = NoControl \/ Runs(d)
     IN /\ desired' = IF runs THEN d ELSE AfterClock(d)
        /\ control' = IF control = NoControl THEN control ELSE Clocked(control, d)
        /\ notices' = Append(notices, Notice("clock", kind, runs))
  /\ UNCHANGED <<systemVars, mainVars, nudgeTempo, shown, rendering, requests>>

\* applyDesired: the nudge before the clock, as the tempo is then.
Patterned(p) == WithPattern(NewControl(p), desired.pattern)
Restored(p) ==
  LET c == [Nudged(Patterned(p), desired.nudge) EXCEPT !.latency = desired.latency]
  IN [Clocked(c, desired) EXCEPT !.playing = desired.playing]

\* The block of rebuildPair: the old control half is freed, its source ends.
ReplaceControl ==
  /\ TakeBlock("pair")
  /\ control' = Restored(Head(blocks).value)
  /\ desired' = AfterClock(desired)
  /\ nudgeTempo' = Patterned(Head(blocks).value).tempo
  /\ waiting' = [waiting EXCEPT !.back = TRUE, !.kind = desired.clock, !.ok = Runs(desired)]
  /\ UNCHANGED <<systemVars, graph, halves, wanted, told, shown, notices, rendering, requests>>

\* The timer: a source's tempo is followed; every sixth tick a nudge asked for in
\* milliseconds is set again if the tempo moved.
TimerTick ==
  /\ control # NoControl
  /\ \E bpm \in PatternTempos \cup {control.tempo}, sixth \in BOOLEAN :
       LET c == [control EXCEPT !.tempo = bpm]
           renudge == sixth /\ desired.nudge # 0 /\ bpm # nudgeTempo
       IN /\ bpm # control.tempo => control.source # NoSource /\ requests < MaxRequests
          /\ requests' = IF bpm # control.tempo THEN requests + 1 ELSE requests
          /\ control' = IF renudge THEN Nudged(c, desired.nudge) ELSE c
          /\ nudgeTempo' = IF renudge THEN bpm ELSE nudgeTempo
  /\ UNCHANGED <<systemVars, mainVars, desired, shown, notices, blocks, rendering>>

-----------------------------------------------------------------------------
(* The main thread: starting audio *)

Idle == ~waiting.sync

\* configureAndStart from the new node on, which works only while the audio
\* objects are valid and the session is ours, and what startAudio tells; the
\* interface asks for the latency of an output that runs.
StartEngine(p, o, ok, after) ==
  /\ ok => ~interrupted /\ Notice("reset", NoSource, TRUE) \notin ToSet(notices)
  /\ graph' = [runs |-> ok, node |-> p]
  /\ told' = IF ok THEN "running" ELSE "failed"
  /\ blocks' = blocks \o (IF ok THEN <<Block("latency", o)>> ELSE <<>>) \o after

\* startAudio, and the blocks its caller leaves afterwards.  An interrupted
\* session refuses before anything is stopped; stopping waits for the cycle
\* in hand.  A new pair makes the main thread wait for the control queue.
StartAudio(o, forced, after) ==
  /\ wanted' = TRUE
  /\ \/ /\ interrupted
        /\ told' = "failed" /\ blocks' = blocks \o after
        /\ UNCHANGED <<graph, halves, waiting>>
     \/ /\ ~interrupted /\ (graph.runs => rendering = NoPair)
        /\ \/ /\ RateOf[o] = 0
              /\ graph' = [runs |-> FALSE, node |-> NoPair]
              /\ told' = "failed" /\ blocks' = blocks \o after
              /\ UNCHANGED <<halves, waiting>>
           \/ /\ RateOf[o] # 0
              /\ forced \/ halves.pair = NoPair \/ halves.rate # RateOf[o]
              /\ graph' = [runs |-> FALSE, node |-> NoPair]
              /\ halves' = [pair |-> halves.made + 1, rate |-> RateOf[o], made |-> halves.made + 1,
                            live |-> halves.live \cup {halves.made + 1}]
              /\ blocks' = Append(blocks, Block("pair", halves.made + 1))
              /\ waiting' = [NotWaiting EXCEPT !.sync = TRUE, !.after = after]
              /\ UNCHANGED told
           \/ /\ ~(forced \/ halves.pair = NoPair \/ halves.rate # RateOf[o])
              /\ \E ok \in BOOLEAN : StartEngine(halves.pair, o, ok, after)
              /\ UNCHANGED <<halves, waiting>>

\* Mutant: the interface is not told of a clock that fell back.
GoOnUnmirrored ==
  /\ waiting.sync /\ waiting.back
  /\ waiting' = NotWaiting
  /\ \E ok \in BOOLEAN : StartEngine(halves.pair, output, ok, waiting.after)
  /\ UNCHANGED <<systemVars, halves, wanted, queueVars, shown, notices, rendering, requests>>

\* The rest of rebuildPair and of startAudio, the new control half in place.
\* A clock that fell back is mirrored if it is still the one shown.
GoOn ==
  /\ waiting.sync /\ waiting.back
  /\ waiting' = NotWaiting
  /\ shown' = IF ~waiting.ok /\ shown = waiting.kind THEN "internal" ELSE shown
  /\ \E ok \in BOOLEAN : StartEngine(halves.pair, output, ok, waiting.after)
  /\ UNCHANGED <<systemVars, halves, wanted, queueVars, notices, rendering, requests>>

\* Mutant: the old renderer is freed while a cycle may be in it.
FreeRendererAtOnce ==
  /\ Idle
  /\ \E r \in halves.live \ {halves.pair} : halves' = [halves EXCEPT !.live = @ \ {r}]
  /\ UNCHANGED <<systemVars, graph, wanted, told, waiting, queueVars, shown, notices, blocks,
                 rendering, requests>>

\* asyncAfter, a second later: no render cycle lasts that long.
FreeRenderer ==
  /\ Idle
  /\ \E r \in halves.live \ {halves.pair, rendering} : halves' = [halves EXCEPT !.live = @ \ {r}]
  /\ UNCHANGED <<systemVars, graph, wanted, told, waiting, queueVars, shown, notices, blocks,
                 rendering, requests>>

-----------------------------------------------------------------------------
(* The main thread: what the user does *)

Asks ==
  /\ Idle /\ requests < MaxRequests /\ requests' = requests + 1
  /\ UNCHANGED <<queueVars, notices, rendering>>

Enqueue(block) ==
  /\ blocks' = Append(blocks, block)
  /\ UNCHANGED <<systemVars, mainVars>>

\* ensureAudio, then the block.
EnsureAudio(block) ==
  IF told = "running" THEN Enqueue(block)
  ELSE StartAudio(output, FALSE, <<block>>) /\ UNCHANGED systemVars

SelectClock ==
  /\ Asks
  /\ \E kind \in ClockKinds :
       /\ shown' = kind
       /\ LET block == Block("clock", kind)
          IN IF IsExternal(kind) THEN EnsureAudio(block) ELSE Enqueue(block)

Play ==
  /\ Asks /\ UNCHANGED shown
  /\ \/ EnsureAudio(Block("playing", TRUE))
     \/ Enqueue(Block("playing", FALSE))

Adjust ==
  /\ Asks /\ UNCHANGED shown
  /\ \/ \E bpm \in PatternTempos : Enqueue(Block("pattern", bpm))
     \/ \E device \in {2} : Enqueue(Block("device", device))
     \/ \E ms \in Nudges : Enqueue(Block("nudge", ms))

SetOutputDevice ==
  /\ Asks /\ UNCHANGED <<shown, platform, interrupted, upsets>>
  /\ platform = "mac"
  /\ output' \in Outputs \ {output}
  /\ IF wanted THEN StartAudio(output', FALSE, <<>>) ELSE UNCHANGED <<mainVars, blocks>>

-----------------------------------------------------------------------------
(* The platform, and what it has to say *)

Upset ==
  /\ upsets < MaxUpsets /\ upsets' = upsets + 1
  /\ UNCHANGED <<platform, halves, wanted, told, waiting, queueVars, shown, blocks, rendering,
                 requests>>

EngineStops == graph' = [graph EXCEPT !.runs = FALSE]
Tell(what) == notices' = Append(notices, Notice(what, NoSource, TRUE))

\* The output goes or another takes its place, and the engine stops itself;
\* not in the moment a start takes.
OutputChanges ==
  /\ Upset /\ Idle /\ UNCHANGED interrupted
  /\ output' \in Outputs \ {output} /\ EngineStops
  /\ IF graph.runs THEN Tell("config") ELSE UNCHANGED notices

\* Another route at the same rate: the engine goes on.
RouteChanges ==
  /\ Upset /\ platform = "ios" /\ graph.runs /\ UNCHANGED <<interrupted, graph>>
  /\ output' \in {o \in Outputs \ {output} : RateOf[o] = RateOf[output]}
  /\ Tell("route")

InterruptionBegins ==
  /\ Upset /\ platform = "ios" /\ ~interrupted /\ UNCHANGED output
  /\ interrupted' = TRUE /\ EngineStops /\ Tell("began")

InterruptionEnds ==
  /\ interrupted /\ interrupted' = FALSE /\ Tell("ended")
  /\ UNCHANGED <<platform, output, upsets, mainVars, queueVars, shown, blocks, rendering, requests>>

MediaServicesReset ==
  /\ Upset /\ platform = "ios" /\ UNCHANGED <<output, interrupted>>
  /\ EngineStops /\ Tell("reset")

\* A notice is taken; a route is given half a second to settle, and others
\* may be taken before it.
Taken(notice) ==
  /\ Idle
  /\ \E i \in DOMAIN notices :
       /\ notices[i] = notice
       /\ \A j \in 1 .. i - 1 : notice.what # "route" => notices[j].what = "route"
       /\ notices' = RemoveAt(notices, i)
  /\ UNCHANGED <<systemVars, queueVars, rendering, requests>>
Notified(what) == Taken(Notice(what, NoSource, TRUE))

Unmoved == UNCHANGED <<mainVars, blocks>>

HandleConfigurationChange ==
  /\ Notified("config") /\ UNCHANGED shown
  /\ IF wanted /\ ~graph.runs THEN StartAudio(output, FALSE, <<>>) ELSE Unmoved

HandleInterruption ==
  /\ UNCHANGED shown
  /\ \/ /\ Notified("began") /\ told' = "failed"
        /\ UNCHANGED <<graph, halves, wanted, waiting, blocks>>
     \/ /\ Notified("ended")
        /\ IF wanted THEN StartAudio(output, FALSE, <<>>) ELSE Unmoved

HandleRouteChange ==
  /\ Notified("route") /\ UNCHANGED <<shown, graph, halves, wanted, waiting>>
  /\ IF wanted /\ graph.runs
     THEN told' = "running" /\ blocks' = Append(blocks, Block("latency", output))
     ELSE UNCHANGED <<told, blocks>>

\* A new engine, which runs nothing.
HandleMediaServicesReset ==
  /\ Notified("reset") /\ UNCHANGED shown
  /\ IF wanted THEN StartAudio(output, TRUE, <<>>)
     ELSE /\ graph' = [runs |-> FALSE, node |-> NoPair]
          /\ UNCHANGED <<halves, wanted, told, waiting, blocks>>

\* The completion of setClock.
ClockResult ==
  /\ Unmoved
  /\ \E kind \in ClockKinds, ok \in BOOLEAN :
       /\ Taken(Notice("clock", kind, ok))
       /\ shown' = IF ~ok /\ shown = kind THEN "internal" ELSE shown

-----------------------------------------------------------------------------
(* The audio thread *)

BeginCycle ==
  /\ rendering = NoPair /\ graph.runs
  /\ rendering' = graph.node
  /\ UNCHANGED <<systemVars, mainVars, queueVars, shown, notices, blocks, requests>>

EndCycle ==
  /\ rendering # NoPair
  /\ rendering' = NoPair
  /\ UNCHANGED <<systemVars, mainVars, queueVars, shown, notices, blocks, requests>>

-----------------------------------------------------------------------------
HostInit ==
  /\ platform \in Platforms
  /\ output \in Outputs /\ interrupted = FALSE /\ upsets = 0
  /\ graph = [runs |-> FALSE, node |-> NoPair]
  /\ halves = [pair |-> NoPair, rate |-> 0, made |-> 0, live |-> {}]
  /\ wanted = FALSE /\ told = "off" /\ waiting = NotWaiting
  /\ control = NoControl /\ nudgeTempo = 0
  /\ desired = [pattern |-> 0, playing |-> FALSE, clock |-> "internal", device |-> 0,
                nudge |-> 0, latency |-> NoSource]
  /\ shown = "internal" /\ notices = <<>> /\ blocks = <<>>
  /\ rendering = NoPair /\ requests = 0

ControlQueue ==
  \/ LoadPattern \/ SetPlaying \/ SetLatency \/ FollowDevice \/ SetNudge \/ SetClock
  \/ ReplaceControl \/ TimerTick
MainThread ==
  \/ GoOn \/ FreeRenderer \/ SelectClock \/ Play \/ Adjust \/ SetOutputDevice
  \/ HandleConfigurationChange \/ HandleInterruption \/ HandleRouteChange
  \/ HandleMediaServicesReset \/ ClockResult
Platform ==
  \/ OutputChanges \/ RouteChanges \/ InterruptionBegins \/ InterruptionEnds \/ MediaServicesReset
AudioThread == BeginCycle \/ EndCycle

HostNext == ControlQueue \/ MainThread \/ Platform \/ AudioThread
HostSpec == HostInit /\ [][HostNext]_hostVars

-----------------------------------------------------------------------------
(* An engine that runs plays the half whose other half takes the calls, made *)
(* for the rate of the output, and the audio thread is never in a renderer   *)
(* that was freed.                                                           *)
PairIsWhole ==
  /\ graph.runs => /\ graph.node = halves.pair /\ control.pair = halves.pair
                   /\ halves.rate = RateOf[output]
  /\ rendering # NoPair => rendering \in halves.live

(* However often the pair was replaced, the control half is what the user    *)
(* asked for, and the nudge is watched at the tempo it was set at.           *)
ComesBackAsAsked ==
  control # NoControl =>
    /\ control.playing = desired.playing /\ control.pattern = desired.pattern
    /\ control.latency = desired.latency
    /\ IF desired.clock \in InCore
       THEN /\ control.source = desired.clock /\ control.mode = SourceModes[desired.clock]
            /\ control.target = desired.device
       ELSE control.source = NoSource /\ control.mode = LocalModes[desired.clock]
    /\ control.nudge.ms = desired.nudge
    /\ desired.nudge # 0 => control.nudge.at = nudgeTempo

(* Once every block and notice was taken, the clock shown is the one that    *)
(* runs, the interface knows whether audio runs, and the latency is that of  *)
(* the output.                                                               *)
ShownIsTrue ==
  blocks = <<>> /\ notices = <<>> /\ Idle =>
    /\ shown = desired.clock
    /\ told = "running" <=> graph.runs
    /\ graph.runs => control.latency = output
=============================================================================
