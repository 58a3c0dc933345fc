# player5, verified: TLA+ models of the drum machine's engine and clocks

player5 is a step sequencer that follows external clocks (Pro DJ Link, Opus
Quad, Ableton Link, MIDI, taps) and plays through a sample-accurate render
thread. This directory holds TLA+ models of the parts of it where threads,
messages and time meet, the TLC configurations that check them on small
instances, and TLAPS proofs about them for every instance.

Paths below are relative to the repository (`src/` is its root).

## 1. The system

| Component | State | Operations | Talks to |
|---|---|---|---|
| Event queue, `core/sequencer/src/queue.rs` | ring of slots, `head`, `tail` | `push`, `vacant`, `pop` | producer: control thread; consumer: render thread |
| Shared timing, `core/engine/src/timing.rs` | sequence number, two words | `publish`, `read` | render thread writes, control thread reads |
| Scheduler, `core/sequencer/src/scheduler.rs` | next step, playing, stop-after | `start_at`, `seek`, `stop`, `set_stop_after`, `schedule` | called by Control, pushes into the queue |
| Control, `core/engine/src/control.rs` | clock mode, clocks, queued-step log, pending flush, learned block, sent parameters | `start`, `stop`, `resync`, `tap`, `observe`, `midi`, `set_*`, `tick` | shell calls it; reads shared timing; pushes into the queue |
| Renderer, `core/engine/src/renderer.rs` | position, held events, voices | `process_at` | publishes timing, pulls the queue |
| Engine, `core/engine/src/lib.rs`; split C API, `core/ffi/src/split.rs` | both halves in lockstep, or on two threads | `render`; `p5_control_*`, `p5_render_*` | web and offline; Apple apps |
| Follower, `core/sync/src/follower.rs` | lock state, output and target lines, tuning | `observe`, `advance`, `request_resync` | fed by Control, reports snaps |
| Tap, MIDI, internal clock, Link, `core/sync/src/{tap,midi,internal,link}.rs` | counters, anchors | `tap`, `handle` | feed observations |
| Source lifecycle, `core/sync/src/net.rs` | thread, two channels, stop flag | `spawn`, `command`, `stop` | sources run on threads of their own |
| Pro DJ Link, `core/sync/src/prolink/` | number claim, device table, what is followed | `poll`, packet handlers | UDP on three ports |
| Opus Quad, `core/sync/src/opus/` | session, chosen deck, beat tracker | packet handlers, expiry | UDP |
| Bridge, `apps/bridge/src/` | current source, follower in µs, connections | HTTP, WebSocket, broadcast at 20 Hz | web app |
| Web app, `apps/web/src/` | worklet start-up, bridge client, storage | messages to the worklet | engine in WebAssembly |
| Apple apps, `apps/mac/Sources/Player5Kit/` | audio graph, 5 ms timer, control/render pair | start, stop, rebuild | split C API |
| DSP, `core/dsp/` | voices, master | `trigger`, `process` | renderer |

What is hard in this code, and what makes each part correct:

- **Two threads without locks.** The queue and the timing word are the only
  memory the control and render threads share. Correct: no slot is accessed by
  both ends at once, the queue is a fifo, an answer of `vacant()` is a promise,
  a snapshot is never torn.
- **Decisions on stale positions.** A control call reads the position of the
  renderer, decides what can still be taken back (the *commit point*) and sends
  a flush; blocks start in between. Correct: what the control thread believes
  was heard is what was heard.
- **A timeline that jumps.** Follower snaps, taps, restarts and resyncs move the
  timeline under a pattern that plays. Correct: no step is heard twice, none is
  skipped, flams stay whole, an old run is silent after a restart, a stop-after
  count is kept.
- **A source that cannot be trusted.** Reports come late, twice, wrong or not at
  all, and the source itself jumps. Correct: one bad report moves nothing by a
  jump, a real jump is followed, a source that was away is not snapped to
  without need, and in the end the output is where the source is.
- **A queue at its limit.** Parameters are refused, flushes wait. Correct: what
  is recorded as sent arrives, a late flush changes nothing.
- **Unreliable networks** (sources): lost, duplicate and late packets, devices
  that vanish or fight for a number, a source replaced while it sends.
- **Shell lifecycles**: audio interrupted while the pair is rebuilt, a bridge
  client that reconnects, a worklet that starts late.

`PROJECT.json` lists every component and every hazard with its line.

## 2. Modules

| Module | Models | Notes |
|---|---|---|
| `BoundedFifo` | what the queue promises | abstract |
| `EventQueue` | `queue.rs` | one action per access to shared memory |
| `TimingRegister` | what the timing promises | abstract |
| `SharedTiming` | `timing.rs` | one action per atomic access, data words in any order |
| `Timeline` | `clock.rs`, `internal.rs`, `step_sample`, `first_step_at_or_after` | operators |
| `QueuedLog` | `QueuedLog` and `Cut` of `control.rs` | operators |
| `Scheduler` | `scheduler.rs` | operators on a record |
| `Renderer` | `renderer.rs` | actions |
| `Engine` | `control.rs` composed with the five above | actions, properties |
| `Follower` | `follower.rs` | the follower, its source and its user |
| `TapTempo`, `MidiClock` | `tap.rs`, `midi.rs` | each with the player, or the sender and its driver |
| `ProlinkJoin` | `prolink/join.rs` and the announcement half of `prolink/source.rs` | units, decks, a mixer and the network |
| `ProlinkSource` | the listening half of `prolink/source.rs`, `prolink/devices.rs` | two receive threads, the source thread, the booth |
| `OpusSession` | `opus/session.rs`, `opus/tracker.rs` | sessions, other devices, the unit and its decks |
| `Bridge` | `server.rs`, `clock.rs` of the bridge, `net.rs` | hub, accept loop, connections, source |
| `WebSocket` | `ws.rs` and the loop that feeds it | one connection and its client |
| `BridgeClient` | `clock/bridge.ts` of the web app | the page, the bridge and the network |
| `AppleHost` | `EngineHost.swift`, and of `AppModel.swift` what asks it | main thread, control queue, audio thread, platform |
| `Voices`, `Kit` | the voices and the kit of `core/dsp` | operators; actions |
| `...Proofs` | | theorems about the module named before; `AudioThreadProofs` about `EventQueue`, `SharedTiming` and `Kit`, `BridgeProofs` also about `WebSocket` and `BridgeClient`, `OpusProofs` about `OpusSession` |
| `MCEngine`, `MCFollower`, `MCProlinkJoin`, `MCMidiClock` | | instances for TLC |
| `MCCore`, `MCOpusSession`, `MCApps` | | instances of several parts, side by side |

`Engine` EXTENDS the operator modules and `Renderer`. It uses the queue as the
sequence `EventQueue` is shown to implement (`IsFifo`) and the position as the
register `SharedTiming` is shown to implement (`IsRegister`): the granularity of
the two lower modules is not repeated above them. `Kit` EXTENDS `Voices`.

The sources reach the engine only through the observations they report, so what
they may say bounds what `Follower` is fed, and what the follower may do to the
timeline bounds what `Engine` is asked to follow (`Jump`, `Replan`).

### Correspondence: Engine

A control call is split where the render thread can act in between:

| Code | Actions |
|---|---|
| the shell reads the position and calls `start`, `resync`, `tap`, `observe` | `BeginCall` |
| the call reads it again in `commit_point`, decides, changes the control state | `StartInternal`, `StartFollow`, `Resync`, `Jump` |
| `send_flush` pushes, or keeps the flush in `pending_flush` | `PushEvent`, `PushFails` |
| `tick`: position, `note_render_position`, pending flush, one step at a time, end | `TickBegin`, `TickNote`, `TickStep`, `TickEnd` and the pushes |
| `stop`, `set_stop_after`, `set_tempo`, `set_nudge_ms` / `set_latency_ms`, `set_clock_mode` | `QuietCall` |
| `set_voice_param` | `SetParam` |
| `process_at`: publish, pull events one at a time, play | `RenderPublish`, `RenderPull`, `RenderPlay` |

`queued` is `log`, `pending_flush` is `flushLeft`, `Control::published` is
`seen`, `render_block` is `block`. The clock is the place of step 0 and the
length of a step in half samples, so rounding is modelled exactly. A follower
snap and an internal tap end in the same `realign_continuous` and are one
action, `Jump`, by any shift and to any tempo of the instance; what a follower
does without a snap is `Replan`. With `split` FALSE one thread does everything,
as `Engine::render`: calls come between renders and a tick precedes each block.

History variables (`heard`, `run`, `quota`, `restarts`, `floor`, `calls`) are
written and never read by the system's own guards, except `calls`, which bounds
the calls. `lag` and `sinceTick` carry the timing assumptions below.

### Correspondence: Follower

The estimate, the output and the source are three lines that run at the tempo
the source reports, so only their distances are state: `off` from the estimate
to the source on the bar, `gap` from the output to the estimate. A unit of time
is a unit of phase. `lock`, `locked`, `acquired`, `jump` and `resync` are the
fields of `FollowerClock`; `age` is `now - last_observation`, and `since` of a
candidate jump is an age too.

| Code | Actions |
|---|---|
| `observe` with a phase: staleness, clock gone back, resync, acquisition, outliers | `PhaseReport`, in `GoodReport` and `BadReport` |
| `observe` with a tempo alone | `TempoReport`, in `TempoOnly` |
| `advance` and its `steer` | `Tick`, in `TimePasses` |
| `set_precision`, `request_resync` | `SetPrecision`, `RequestResync` |
| the source and the consumer's sample clock (external) | `ComeBack`, `GoQuiet`, `SourceJumps`, `Rewind` |

A report is true of the moment it describes, in whole bars or beats (`kind`), and
arrives `lag` later; a wrong one is off by an error of `Errors`, which stands for
a glitch, a tap, or a packet from before the source jumped. The gain of a
report, the drift and the slew are real numbers; in the model they take some
whole units of a distance away, perhaps none, and the fairness below says that
they do not take none for ever. `discontinuity` is that of the last call, since
`Control` takes it at once. A clock that goes back by `r` leaves the source `r`
further on.

### Correspondence: ProlinkJoin

Each unit of `Players` is a `Joiner` and the parts of `Tracker` that feed it.
`phase` and `count` are `Phase`; `listen` and `next` count down to
`listening_since + LISTEN_BEFORE_CLAIM_NS` and to `next_ns`; `sent` is the echo
memory; `interfaced` are the units with an interface address.

| Code | Actions |
|---|---|
| `Joiner::new`, `set_interface` | `Start`, `FindInterface` |
| one call of `poll` that sends, with `remember_sent` and the broadcast | `Poll` (a disjunct per packet kind) |
| `Tracker::packet` for one announcement: echo, conflict, intention, assignment, confirmation | `Deliver` |
| decks and mixers as the handlers see them (external) | `PlugIn`, `DeckAnnounces`, `DeckDefends`, `MixerIntends`, `MixerAssigns`, `Confirms` |
| the network and the clock | `Lose`, `Tick` |

A broadcast becomes one packet per receiver, the sender included, which sees it
come from its own address or, in `TwoInterfaces`, from another. `Tick` is 300 ms,
the spacing of the startup packets, and is possible only when no unit is due, no
deck must announce itself and no packet has travelled its longest: the source
thread sleeps until `deadline` and polls then. Hellos and first-stage claims
carry no number and change nothing at a receiver, so they do not travel.

### Correspondence: taps and MIDI

Both modules measure time from the newest tap or pulse, so that nothing grows.
`TapTempo` keeps the taps as they are; `tap` is `Tap`, with `PushTap`, the
bounce, the outlier that is dropped and the second one that starts afresh.
`MidiClock` keeps the points of the fit as index, time and run; `clock` is
`Clock`, whose `Verdicts` are the ways `accept_timing` ends: the stamp is taken,
is stale, is stray, or starts the fit afresh. The line is fitted exactly, in
integers; where the code compares a real number with a threshold and the model
has rounded it, both outcomes are possible. The player and the sender with its
driver are external: they slip, miss, double, stall and bunch.

### Correspondence: ProlinkSource

| Code | Actions |
|---|---|
| `receive`, one thread per port | `Queue` |
| `run`: wake-up, `drain_in_time_order` | `Wake` |
| `Tracker::packet` for one packet of the batch | `NextPacket` |
| `Tracker::tick`, `expire`, `check_status_flow` | `TrackerTick` |
| `Tracker::follow`, `refollow` | `Follow` |
| the booth and the network (external) | `Booth`, `Advance` |

A receive thread may be preempted between its timestamp and the channel
(`Preempted`), and a broadcast may come over two interfaces (`TwoInterfaces`). The
channel and the batch are sets: the thread handles what it drained in the order of
its times, so the earliest of the batch is always next (`Earliest`).

### Correspondence: OpusSession

A session handles an announcement, a status or a tick whole; each of the three
is one action (`Receive`, `Tick`, `SetFollow`), because the source is one
thread. Every time the code keeps is an age. The tracker's brackets are reduced
to whether they hold the beat the deck is at, which is what
`EstimateHoldsTheBeat` asks.

### Correspondence: Bridge, WebSocket and BridgeClient

A lock of a mutex is one action; between two locks anything may happen. A
message is known by its kind and by how many of that kind were stored before it.

| Code | Actions |
|---|---|
| `run_hub`: one event, stored, then told to the clients; commands; the timeline every 50 ms | `HubHandles`, `HubStores`, `HubTells`; `HubForwards`; `HubTimes`, `HubTurns` |
| `accept_loop`, `Counts::admit`, `Slot::drop` | `Accept`, `RefuseArrival`, `AcceptorEnds`, `Release` |
| `handle_connection`, `serve_websocket`, `websocket_loop` | `AnswerAndClose`, `RegisterClient`, `Greet`, `Send`, `AskToFollow`, `Leave`, `SeeStop`, `Unregister` |
| `Server::stop`, `shutdown`; `SourceHandle` | `StopServer`, `Stopped`, `HubLeaves`; `SourceReports`, `SourceObeys`, `SourceEnds` |
| `parse_client_frame`, `Assembler::push`, the loop's use of both | `Take` |
| the client's bytes, in pieces of any size (external) | `Write`, `Arrive` |
| `onopen`, `onclose`, `onText`, `close`, `follow` of the page | `OnOpen`, `OnClose`, `OnHello`, `OnPong`, `OnTimeline`, `Close`, `Follow` |

`BridgeClock` names the device of an observation at once; whose phase its timeline
counts is up to the follower, whose lock the bridge keeps to what decides that:

| Code | Operators |
|---|---|
| `BridgeClock::handle`: the device named, `request_resync` | `Relabelled` |
| `observe`: a report ignored, a phase, a tempo alone | `Observe`, `TakePhase`, `TakeTempo` |
| `begin_acquire`, `finish_acquire`, `snap_output` | `Acquired` |
| `advance`: the lock that runs out | `LockRunsOut` |

`phaseOf` is the device whose phase the output counts since it last snapped, and
`needed` the number of reports the source's precision has averaged for a lock (8
in the code for `Coarse`, otherwise 1). Where the phase lies is in `Follower`.

An offset and a timeline are known to the page by the run of the bridge they
came from; mixing two runs is what `FedTruly` excludes.

### Correspondence: AppleHost

The main thread, the serial control queue and the audio thread each have their
actions; the platform is external. `control` is what was set on the control
half, `desired` is `DesiredState`, `notices` is the main queue, `blocks` the
control queue. `controlQueue.sync` in `rebuildPair` splits a start of audio:
`StartAudio` up to it, `ReplaceControl` its block, `GoOn` the rest. A renderer
is freed by `FreeRenderer`, `asyncAfter` one second later.

### Correspondence: Kit

A step is a call of the render thread: `Trigger`, `SetParam`, `SetSampleRate`,
`Process`. An amplitude is one of a few levels, 0 for anything below the
threshold at which the code lets a state go; a noise source and a free
oscillator are `Drift`, which a hit need not reset.

## 3. What TLC checks

| Run | Question | Distinct states |
|---|---|---|
| `core` | The ring, the sequence lock, the taps, the MIDI clock, two units that claim one number on a network that loses packets, and a booth heard over two interfaces, with the lead passed on and packets lost, doubled and late: steps none of them may take | 834 k |
| `apps` | The bridge, its clock under more observations, its WebSocket, the page that is its client and the kit: what they hold, and that they come to an end or to be served | 425 k |
| `engine_jumps` | Jumps of the timeline under two threads and under one, with swing, two tempi, both clock modes and a log that forgets: nothing twice, nothing missing, all of it on time | 3.4 M |
| `engine_restarts` | Restarts, resyncs, jumps, tempo changes and re-plans, and a queue too small for a step and two flushes: old run silent, stop-after exact, parameters arrive, the log tells the truth | 4.4 M |
| `follower` | A source that jumps, falls silent and reports late or wrongly; changes of precision, resyncs, a clock that goes back | 446 k |
| `join_mixer` | A mixer assigns, devices confirm, a deck is there first or plugged in later, a packet is lost | 645 k |
| `join_clash` | A mixer lets two units claim one number at once: does one give it up? | 488 k |
| `opus_session` | Three sessions that argue about numbers, or one that follows two decks; and the host of the Apple apps under a platform that stops it | 977 k |

`core`, `opus_session` and `apps` hold parts that share no state; a behaviour is one of one of
them, chosen at the start, with the others at rest. That is a way to ask several
small questions in one run, not a composition.

Deadlock is checked where a system goes on for ever (`follower`, the joins,
`opus_session`). Elsewhere a behaviour ends where its bounds are used up, or, as
in the bridge, where it was stopped.

Properties, each with a mutant of the code in `PROJECT.json` that breaks it:

- `NoSlotRace`, `VacancyHolds`, `IsFifo` (queue); `IsRegister` (timing).
- `SoundsOnce`: within one continuation no two hits and no two grace notes are
  closer than half a step (`NothingTwice`), and the hit of a grace note that
  sounded sounds too (`FlamsWhole`).
- `StepsCome`: past step 0 a playing pattern is never silent for more than a step
  and a half (`NoHole`), and what is queued at or after the commit point fires on
  its sample (`OnTime`).
- `LogIsHeard`: the control thread's log is exactly what was or will be heard.
  This relates the two threads and is what every realign relies on.
- `OldRunSilent`: nothing queued before a restart sounds at or after its downbeat.
- `RunLength`: a run with a stop-after count plays exactly that many steps.
- `ParamArrives`: the renderer ends with the value the control thread recorded.
- `OneHolder`: two units never hold one number. `NoLastingClash`: if a mixer
  makes them, they do not both keep it.
- `YieldsToOthers`: no unit gives its number up to its own echo.
- `DecksUndisturbed`: as long as nothing was lost, a deck that was there first never
  sees its number claimed. `DeckGetsItsNumber`: whatever is lost, one that comes
  later gets it back.
- `SnapsAreEarned`: a follower that tracks snaps only when asked, when its clock
  went back, or when enough reports in a row, over long enough, agreed.
- `NoNeedlessSnap`: a follower that found its source never jumps while nothing
  goes wrong but silences, late and repeated reports and changes of precision.
- `Converges`: in the end the output is where the source is, and the follower
  says that it is locked.
- `GridHolds`: so many taps at one interval make the beat, and one that is off,
  missing or double does not move it. `TempoHolds`: a steady MIDI clock is
  reported exactly, and no clock is reported more than a tenth off.
- `FollowsTheMaster`, `BeatsObservedOnce`, `TempoIsTold` (Pro DJ Link): what is
  followed is the master as far as fresh statuses tell; a beat is observed once
  however often it arrives; a tempo that changed has been told.
- `NoGhostDeck`, `StaysWithTheMaster`, `EstimateHoldsTheBeat`, `NumbersSettle`
  (Opus): the session follows a deck that is there, the one that leads, with
  an estimate that holds its beat; and sessions end up with numbers of their own.
- `SlotsAreCounted`: the counts of connections are those of the slots held, for
  every peer. `PictureIsCurrent`: what a client has seen and what is on its way
  to it add up to what the hub stored. `LabelCatchesUp`: a timeline counts another
  device's phase than that of the one it names only while fewer of its reports were
  used than a first lock averages, or the tempo is unknown, whatever reports are
  ignored, bring no phase or come in turns. `EveryoneLeaves`: a server that is
  stopped ends, with its source, and every connection gives its slot back, though
  no client leaves by itself.
- `ClientIsServed`: messages come whole and in order whatever pieces they came in,
  and a connection is closed with the code RFC 6455 asks for.
- `FedTruly`: the page never feeds an offset of one run of the bridge with a
  timeline of another, and the device it feeds is the one the engine was
  re-synced to. `IsFedAgain`: it comes to be fed what it asked for.
- `PairIsWhole`, `ComesBackAsAsked`, `ShownIsTrue` (Apple host): the renderer in
  use and the control half belong together and are not freed; a pair replaced
  comes back as the user left it; what is shown is what runs.
- `SilenceHolds`: a voice that has fallen silent leaves nothing to its next hit,
  and a choked hat ends. `RetriggerIsSeamless`: only the kick jumps when hit
  again. `HitsEnd`: every hit dies away.

### Disagreements found

Four runs are expected to fail.

- `engine_nudge`: a nudge of more than a step puts the log out of order;
  `drop_queued_from` then stops at the newest entry and a restart leaves an
  older step queued, which sounds over the new run. (In the passing runs the
  timeline is re-planned by less than a step.)
- `engine_lost_step`: a resync right after a jump back drops a flam the jump had
  kept; `seek` compares its number, from the old timeline, with the new cursor,
  and the run is a step short. (In `engine_restarts` three calls are too few
  for it.)
- `midi_stall`: a stall shorter than a pulse at 20 BPM is not taken for a gap;
  if it held back four pulses, their bunched stamps clear the fit and the next
  fit, half of it bunched stamps, is reported at once.
- `label_ahead` (`LabelIsTrue`): when the device changes, the clock of the bridge
  names the new one at once (`clock.rs:78`), but a source of `Coarse` precision,
  the Opus Quad, has eight reports averaged before the output snaps
  (`follower.rs:524`). Until then locked timelines name the new device and count
  the bar of the old one, which is what docs/protocols/bridge-websocket.md:111
  and the comment at `clock.rs:62` exclude. With one report to a lock
  (`Needed = {1}`) the property holds.

Met on the way, and kept out of the passing runs or within their bounds:

- Before two positions were published `commit_point` has no block to add, and a
  jump replays a step already heard (`Warm = FALSE` shows it; `Warm` is TRUE in
  every run).
- A jump that keeps a flam flushes behind its hit; a restart right after it
  flushes from before the hit and, as the third flush into a full queue, waits
  for the next tick. ADR-0011 calls such a flush covered by an earlier one; this
  one is not, until it is retried.
- A final-stage claim carries only the name, the number and a counter, so the
  claims of two units under the default name are the same bytes. Each takes the
  other's for the echo of its own (`source.rs:594`;
  `docs/protocols/pro-dj-link.md:225`) and goes on. The keep-alives, which carry
  the MAC address, settle it; claims alone do not.
- `on_assignment` goes straight to the final stage, past the only test of the
  listening period: hence "or is assigned" in `ListensOrIsAssigned`. It keeps the
  count of claims sent for the number before, so that a confirmation can end the
  stage without a claim of the new number.
- A receive thread preempted between its timestamp and the channel delivers a
  packet after a batch of newer ones; `drain_in_time_order` sorts only what one
  wake-up found (`source.rs:426`).
- Opus: a network that loses statuses without end can keep two sessions
  alternating numbers; losses are bounded in `NumbersSettle`. The tracker compares
  tempos at beats only, and a status lost on both sides of a jump misleads it by
  less than a gap.
- A tap exactly midway between two beats reads as a double tempo, and after a
  chaos of taps it takes as many as the window holds, and a few, to settle.
- MIDI: a Start or Continue while the driver is still catching up clears
  `after_stall` (`Calm` excludes it).
- Connection threads of the bridge outlive `Server::stop` by up to their
  timeouts, although `Server` says that dropping it stops everything;
  `EveryoneLeaves` asks that they end.
- `BridgeClient`: a target that changes so that the timeline held becomes the
  target's feeds the engine before `onDeviceChange`, until the next timeline
  (`bridge.ts:43`; hence `retargeted` in `FedTruly`).
- `AppModel.clockResult` compares kinds only: a failed start reported late is
  taken for one of a later selection of the same kind. With a failure that lasts
  this is right; with one that passes the interface may show "internal" while
  the source runs.
- A voice hit with an infinite velocity would stay awake; those of a pattern lie
  between 0 and 1.

### Bounds, and why they are enough

A sample of the engine model stands for a render block of about 16 ms. A step is
4 samples, the lookahead 6, the commit point 2 blocks, the snap grace and a flam
1: the proportions of 240 BPM with a large buffer, where everything interesting
overlaps, a step, a flam, two blocks and the lookahead being of the same order.
A run lasts 9 or 10 blocks (`MaxPosition`), with 3 calls besides ticks (`MaxCalls`): a
start and two interferences with it. `PatternLen = 2` with one flam gives a plain
and a flam step at every offset. The queue has 16 slots, more than a run can
fill, or 3, fewer than a step and two flushes need. The ring has 4 slots and
indices modulo 8, so it fills and its indices wrap.

The joiner's periods are those of the code in steps of 300 ms: 7 to listen, 5
between keep-alives, 10 of echo memory, 3 claims per stage. A CDJ announces
itself every 2.0026 s (docs/protocols/pro-dj-link.md), which with the time the
packet travels is more than 6 steps and less than the 7 of listening
(`DeckPeriod = 6`); one more makes `DecksUndisturbed` false, and an announcement
that is lost lets a unit take the number, hence its condition. Other packets may
come a step late (`MaxDelay`). In `join_mixer` one packet is lost, at any time,
whatever it says (`MaxLost = 1`), and after it none is late. In `core`
`MaxLost = 5` is what
`OneHolder` bears: with six losses every second-stage claim can be lost in both
directions, the final claims are taken for echoes, and both units join. Two
units and one deck are the smallest instance in which each rule has somebody to
disturb.

The follower's bar has 12 units and two beats, so that a report of a beat leaves
the bar open and half a beat, the jump of the source, is beyond every threshold.
One tuning snaps to its first report, the other averages two and holds a
candidate jump for longer than the source may be silent, as `Coarse` does below
120 BPM. A source reports at least every 2 units, a lock lasts 3, reports arrive
up to 2 late or 1 early, and the clock goes back by 4, just past the timeout.
Two things go wrong or are asked for (`MaxTrouble`), in any order and at any
time: a jump during a silence, a wrong report during a resync, a rewind in the
middle of a candidate jump. A rewind of a candidate older than `Oldest`, where
its age is no longer told apart, is not explored.

Taps: windows and limits are the code's (8 taps), beats of 6 and 16 units, slips
by up to 4 of them. MIDI: a fit of 4 to 10 points, four misfits, a bar of 8
pulses, one Start, Continue or Stop and two troubles in any order, among them a
stall that holds pulses back. Pro DJ Link: a deck and a mixer, four periods of
status packets, and changes, losses and commands, of which as many come as periods
are left (`MaxDisturbed`), or, where nobody plays and no command comes, at any time;
two packets behind each other (what is checked of it is also proved). Opus: three sessions that want one number, a table of two peers, an
expiry of two ticks; or one session with two decks, two changes and one loss.

The bridge has two connections, one place for each peer that is not local, and
three inputs: with them a client registers, is told and leaves while another is
admitted or refused, and the server stops at any point. There a source reports
phase and tempo together and a lock takes one report. The clock alone is given
five observations of two devices, each with a phase, a tempo or both, for locks
of one and of two reports (`Needed`), and is at most two behind: enough for a
change of device in the middle of an acquisition, and back. Frames: three of them,
of up to four characters against a limit of three, in pieces of any size. The
page: two changes of bridge, booth, network or target, two runs of the bridge in
each. The Apple host: two requests and two upsets of the platform, on four
outputs, two of them of one rate and one of none; a pair is replaced up to three
times. The kit: four calls on one voice, or on the two hats, at four velocities,
with four levels of decay.

### Timing assumptions and fairness

- `TickBlocks = 1`: a control tick ends between the starts of two blocks. Shells
  tick every 5 to 10 ms; with smaller buffers a block may start without a tick,
  and the lookahead, several times longer, absorbs it. In proportion to the
  lookahead one sample of the model is already a late tick.
- `MaxLag = 1`: at most one block starts between the moment a call reads the
  position and the moment its flush is in the queue. This is what
  `COMMITTED_BLOCKS = 2` pays for, and the model shows it is just enough.
- The block size is constant. ADR-0011 documents that a varying one can make
  the commit point too early.
- `EventQueue`, `SharedTiming`, `Engine`, `ProlinkSource` and `AppleHost` are asked
  for safety only and need no fairness.
- `ProlinkJoin`: weak fairness of the whole next-state relation: units, network and
  clock do not all stop. Between two ticks only finitely much can happen (a unit
  sends what is due, a deck announces itself once, losses are bounded), so time
  passes; and `Tick` waits for deadlines, because the source thread wakes at them,
  and for packets that travelled `MaxDelay`. That decks announce themselves
  within `DeckPeriod` is what docs/protocols/pro-dj-link.md says of them.

- `Follower`: time passes and a silent source comes back (weak fairness); a source
  that is there goes on reporting its phase (strong fairness of a good report,
  for tempo-only reports may come in between), and reports at least every
  `ReportPeriod`. Strong fairness of a good report that moves the estimate and of
  a tick that closes a unit of the gap stands for gains and slew rates above
  zero, which take a distance away in finitely many steps. Trouble is bounded, so
  `Converges` speaks of what follows the last of it.

- `OpusSession`: periods go on (`OpusFairness`), each with the tick and the
  announcements the threads and the devices owe it; losses are bounded.
- `Bridge`: weak fairness of the hub's turn, of the accept loop's and the source's
  end, and of what a connection's thread does whatever its client does
  (`Proceeds`): a request has a deadline, the greeting's writes have timeouts, the
  loop comes back to its head and looks at the flag. No client has to leave, to
  read or to ask; `Leave`, `Send` and `AskToFollow` are not in it, and nothing
  forces an input. `BridgeClient`: the page's handlers and timers run, a bridge
  that stopped is started again and tells its timeline; what the user and the
  network do is not forced. `Kit`: the audio thread goes on to render.
- The Apple host: a render cycle is shorter than the second after which a renderer
  is freed; the output does not change in the moments a start takes; a kind of
  source that fails to start fails every time.

Observed while modelling: an acquisition that a silence interrupts is resumed,
not restarted, so it may average reports from before and after the silence; the
snap is then off by part of the jump, and the slew or a candidate jump makes it
good (`Converges` holds).

## 4. What is proved

The theorems hold for every value of the constants that meets the named
assumptions, which are as weak as the code justifies and which TLC evaluates in
every run:

| Assumption | What it asks |
|---|---|
| `CapacityAssumption`, `NothingAssumption` | the capacity divides the modulus of the indices, as two powers of two do |
| `NoWrapAssumption` | fewer than half as many publications as sequence numbers |
| `EngineAssumption`, `SwingAssumption` | sizes and lengths are positive, flams are on steps of the pattern, swing delays a step by at most half of it |
| `FollowerAssumption` | a bar is whole beats, an acquisition and a jump take at least one report |
| `JoinAssumption` | numbers, decks and assignments are of their kinds, delays and losses are finite |
| `SourceAssumption` | device numbers are positive, the timeouts are in the order the code has them, some tempo is one |
| `SlotsAssumption` | the caps are positive, the local address is one of the addresses |
| `ClientAssumption` | the device numbers are positive, round trips are natural, the window holds a sample |
| `OpusAssumption` | sessions and other devices are finite sets and different, decks are among 1 to 4, numbers and periods are positive |
| `VoicesAssumption`, `KitAssumption` | full scale and the clap's burst are positive, velocities lie within full scale, levels are natural |
| `WebAssumption` | a message may be at least as long as a control frame, and at least one unit |
| `HostAssumption` | rates are natural numbers, a file that names a clock names one there is |

An invariant that a run checks is seldom inductive. Each module below names the
one that is; TLC checked it on the instances of section 3 before it was proved.

**`AudioThreadProofs`**, about what the two threads share and what the voices keep.
Of the queue:
`RingInvariant`, `SlotsTyped`, `SlotsNeverRace`, `VacancyIsAPromise`,
`RingIsFifo`. `NoSlotRace` is not inductive: that the slots differ follows from
`0 < Used < Capacity` while both ends are past their tests, which follows from
each end only ever helping the other. Two indices less than the capacity apart
have the same slot only when equal (lemmas on `%` and the wrap). `RingIsFifo` is
the refinement of `BoundedFifo`: the invariant ties what lies between `head` and
`tail`, read around the ring, to the abstract queue, and what an end has copied to
the slot it copied. The store to `tail` is the abstract push, the store to `head`
the abstract pop, everything else a stutter. Of the timing: `LockInvariant`,
`ImplementsRegister`. `LockInv` ties the sequence number to the count of
publications; hence an unchanged even number means no publication in between, and
what was loaded is the last publication. `ReadReturn` maps to the atomic read,
`PublishClose` to the atomic publication.

Of the kit: `KitInvariant`, `KitFallsSilent`, `RetriggersAreSeamless`, for any
amplitudes, velocities, levels and number of calls. The invariant says of each
kind of voice which of its fields are at rest while it is silent (a hit sets the
others, so it sounds like the first), that a snare's body at phase 0 starts from
what it last put out, and of a choked hat how much its envelope and the gain
behind it can still hold after so many samples (`FadesInTime`): `ChokeSamples`
is enough for both, whatever the amplitude. That a tom's ramp makes up for what a
hit adds needs its target to be an integer: the least one whose square is large
enough exists (`RootIsInt`).

**`EngineProofs`**, about the two threads of the engine.

- `FirstStepIsFirst`: `first_step_at_or_after` returns a step at or after the
  sample with none before it, in spite of its estimate and of swing, which moves
  odd steps only. `CutIs`: `cut` splits the log at the first entry that has not
  begun by the commit point, keeps the one heard last and gives a flush that is
  neither before the commit point nor before an entry kept.
- `EngineTypes`, `NoneOverdue`, `FiresInTime`: what is held stays sorted whatever
  order events arrive in, and nothing overdue is left between callbacks; triggers
  reach the voices in order of time, none before its sample or after the block.
  The lemmas say where `insert_pending` puts an event and what it leaves alone.
- `NoTriggerLost`, an action property: only a flush can find the queue full,
  never a hit or a grace note, which nobody would retry. This rests on the room
  that `TickStep` demands for a whole step before it schedules it (`RoomForStep`
  carries that room from the test to the last push, while the render thread can
  only make more) and on `SetParam` leaving `FLUSH_RESERVE` free.
- `ParamComes`: what the control thread recorded as sent is the value the
  renderer will have. `ParamOrder`, the other half of that invariant, says that
  parameters are in order from the queue to the held list and that none of them
  lies ahead of the position, so a flush, which drops what lies ahead, keeps them.

The invariant of these (`EngineInv`) is `EngineTypeOK /\ HeldInOrder /\
FiredInTime /\ RoomForStep`, shown once for each action of the two threads.

- `OldRunIsSilent`: after a restart, nothing of the old run sounds at or after the
  new downbeat. This is not true of every value of the constants and of every
  call, and the theorem says under what it is. `CommitsAhead`, on the constants:
  what a commit point keeps clear (`COMMITTED_BLOCKS` blocks or half the lookahead,
  whichever is less) holds one block more than may start during a call, and the
  renderer has run, so that its block is known. `Unhindered`, on the run: no flush
  is left waiting for room, and the held list has room at each pull. `StepFollows`,
  on each scheduled step: it does not lie in front of one that is queued. A nudge
  that pulls the timeline back breaks the last, and then the old run does sound:
  the run `engine_nudge`. The invariant is `OldInv`: the positions the two threads
  know keep pace with each other (`Pace`); a flush that is still to be pushed lies
  ahead of everything the renderer can play before it arrives (`FlushAhead`); the
  log is in order; and each hit in flight lies before every restart since it was
  scheduled, or the flush that takes it back is behind it (`HitsSettled`). A hit
  with no such flush behind it lies before the last commit point or no later than
  the last entry of the log (`Known`): the next restart decides by its log whether
  there is anything to flush.
- `LogKeepsFaith` and `LogIsTold`: what the control thread believes was heard is
  what is heard. The first, under the hypotheses above: each step in the log was
  heard or is on its way with no flush behind it. The second is the property
  `LogIsHeard`, the two being equal: it needs that no step is scheduled into a full
  log (`LogHolds`), which forgets its oldest entry for it. The invariants relate
  the places (step and sample) in the log to those that sound (`SoundsAt`): a
  push, a pull and a block move a hit along without adding or losing one, a
  scheduled step adds one to both, and a realign takes from the log exactly what
  the flush it sends takes back from the rest (`RealignSounds`); nothing that a
  flush could still take has been played, because the flush lies ahead.
- `StepsFollow`: that steps are scheduled in their order, the hypothesis
  `StepFollows` of the three theorems above, follows from something simpler: no
  tempo change and no nudge moves the timeline while a pattern plays (`Unmoved`).
  Ticks, restarts, resyncs, jumps, stops and starts while following may come in any
  order. The invariant (`FollowInv`) is that the log is in order and the next step
  does not lie in front of any of it; after a realign this holds because the next
  step is put half a step behind what is left of the log, and steps come one after
  the other even with swing (`StepsAscend`). The theorem has no hypothesis on the
  constants, on blocks or on the queue.
- `HitsApart`: within one continuation two hits that were heard are half of the
  shortest step apart, the first half of `SoundsOnce` for hits: nothing is heard twice
  after a resync, a jump or a start while following. The invariant (`ApartInv`) follows
  each hit from the call's events through the queue and the held events to the voices
  and says which of two that sound is in front (`Ahead`): the actions that move events
  never turn two round that a flush would not have taken (`PushAhead`, `PullAhead`,
  `PlayAhead`), and a step that is scheduled comes half a step behind what the log
  keeps and so behind all that sounds (`ApartScheduled`). Besides `Unhindered` and
  `Unmoved` it needs `InReach` at each scheduled step: the log of `QueuedMemory` steps
  is not full, or the oldest it keeps after this step is of a block that has started,
  so that no flush reaches what was forgotten; and the step does not lie on sample 0,
  where places in front of the origin are clamped. In the instances of `engine_jumps`
  and `engine_restarts` every step is in reach.

**`FollowerProofs`** (`TypeCorrect`, `LockFresh`, `CandidateIsRun`,
`SnapsEarned`, `NeverNeedless`), for every bar, tuning, delay, error and number of
troubles. The
invariant is `TypeOK /\ LockIsFresh /\ JumpIsRun`. `SnapsAreEarned` alone says
nothing of a candidate that is still growing; `JumpIsRun` does: its mean is
within a threshold of the last outlier, the next that agrees is within a
threshold of the mean, and moving the mean by a part of that distance keeps it
within a threshold of the new last one (`CloseToMean`), so neighbours are within
two (`CloseToEachOther`). Reports in bars and in beats may alternate: the lemmas
on `Wrap` carry distances from one circle to the other. Reports and candidate
grow old together (`AgesTogether`), through ticks and rewinds. `NeverNeedless`
adds what a follower that found its source keeps (`Found`): the output is where
the source is, it may miss the source but has not forgotten it. It holds if the
delays of reports differ by no more than the timeout (`Punctual`, which the run's
`Lags` meet): an early report and a nearly stale one after it look like a sample
clock that went back, and then the code does begin afresh.

**`ProlinkJoinProofs`** (`JoinInvariant`, `ListensFirstOrAssigned`,
`YieldedIsQuiet`, `JoinTypes`, `EchoInvariant`, `YieldsOnlyToOthers`,
`DecksAreSafe`, `NumberHasOneHolder`), for any number of units, decks and mixers
and, but for the last two, any delay and any loss. `ListensOrIsAssigned` (a claim
on the wire was preceded by a full listening period or by a mixer's assignment)
speaks of packets and is not inductive: a unit
in the second stage could send one. `JoinInv` adds that past the first stage a
unit has listened or has a mixer's number, that an assignment on its way is one
the mixer has noted, and the types. One lemma per packet kind of `poll` and per
kind of delivery shows it kept.

`YieldsToOthers` needs every echo on its way to be of a broadcast the unit still
remembers (`EchoInv`), though it remembers eight. In steady sending one packet
leaves in each step, but a number from a mixer is claimed at once and a claim that
is confirmed ends at once; `Ahead` counts how far that has put a unit ahead of one
per step, at most two when it sends, and `Spaced` bounds by it how many packets
can have followed one of a given age. Hence the oldest of eight is older than
any echo, if an echo is back within five steps, 1.5 s (`EchoesArePrompt`; the runs
have one step): an echo crosses one local network.

`DecksUndisturbed` speaks of a network that lost nothing so far, whatever it loses
later, and holds where a deck announces itself within the listening time (`DecksAreHeard`; the decks' 1.5 s against 2.1 s). `DeckInv`
says why: a unit that covets the number of a first deck has listening time left,
and the deck's next announcement either comes before that time is over or is on
its way.

`OneHolder` is an account of the claims of the second stage (`HolderInv`). Of two
units that contend for a number, take the one that came later. Each second-stage
claim it has sent is still on its way or was lost, since one that arrives makes
the other yield (`ClaimIsHeard`): so those missing are no more than the losses
(`Counted`). A claim says whose it is and is never taken for an echo of the
other's (`Genuine`), and its age tells how long ago it was sent (`SentBefore`), so
those of a unit that holds its number are too old to be on their way: all three
would be missing, and the losses are fewer.
This is proved where no mixer assigns and losses and delay together are
below three (`ClaimsAreHeard`), or, without decks that confirm a claim early, with
up to two losses and a delay up to three steps. With more losses or a mixer it is
model-checked only; `JoinClash` shows where it ends.

**`ProlinkSourceProofs`** (`SourceInvariant`, `MasterIsFollowed`, `BeatsInvariant`,
`EveryBeatOnce`, `TempoAlwaysTold`), for any devices, losses and changes. What the
properties compare is far apart in time, so `SourceInv` carries it: a packet is
handled in the period it was sent in (`FlightInv`), a device that the table holds
to be master was one at the time of that status (`MasterInv`), the tempo kept was
told of the device followed (`ToldInv`), and from the tick to the next packet or
period the choice is what the table resolves to (`ResolvedInv`). For the beats,
`BeatsInv` says that a device has one beat under way in a period, in one copy or
two, and that the tracker remembers it exactly if it has been given it. This needs
`CopiesAreClose`: copies come within 50 ms (`DUPLICATE_BEAT_NS`), which is less
than a period of the model and less than any beat. A longer window could meet the
same bytes again one bar later.

**`BridgeProofs`** (`BridgeInvariant`, `SlotsCounted`, `PicturesCurrent`,
`LabelsCatchUp`), for any number of connections, addresses and devices and every
precision. `SlotsInv`
adds to the counts that the holders of a slot are a finite set, without which a
cardinality says nothing. For a client's picture, `ClientsInv` says that the hub's
clients are the threads between registering and unregistering, with nothing on
its way to any other, and that the backlog is sent before the loop; `StoredInv`
that what the hub tells is what it stored last. Then the last message of each kind
in what was sent, what is in the backlog and what the hub is still telling is the
one stored. `LabelCatchesUp` counts reports used and is not inductive: `LabelInv`
adds that a label that counts another device's phase either has used no phase of
the one it names and the resync is still asked for, or is acquiring and has
acquired just the reports it used, and that a follower that has seen nothing has
acquired nothing.

Of the WebSocket, in the same module: `WebInvariant`, `ClientServed`, for any frame
sizes and any messages. `ClientIsServed` speaks of a connection that has ended and
is not inductive. `OpenInv` is a chain of stages, one for each frame that came rightly
and lies in the buffer: the first is what the connection has seen and done, the
last what the client has said, and reading a frame is the step from a stage to
the next, so acting on one leaves the rest of the chain. `LastIsDue` says that a
frame that breaks a rule is the last and is owed its close code, `EndedInv` that
a connection ends only having acted on all.

Of the page's client, also there: `ClientSafe`, `IsFedTruly`, for any number of runs of the
bridge, devices and lost connections. `ConnectedInv` says that all the page
holds and all that is on its way to it is of the run it is connected to,
`SocketInv` what is left without a connection, `HeardInv` that the device of the
timeline held is the one the engine was last re-synced to. The best sample of
the window exists because a set of natural numbers has a least element
(`LeastOf`).

**`OpusProofs`** (`OpusInvariant`, `NoGhostFollowed`, `StaysOnMaster`), for any
sessions, devices, decks, losses and changes. `NoGhostDeck` speaks of a session
that has ticked; `OpusInv` adds that nothing of the unit is due to it any more, so
that nothing but time follows its choice, and that without a unit no deck is
followed. The lemmas follow the handlers: what `reselect`, `see_unit`, a status, a
peer's keep-alive and `expire` leave as it was, and that a choice is of a deck whose
status is known. `StaysOnMaster` is the step by step companion: wherever a choice
is made anew, from a status or at the tick, a master that plays and is followed is
chosen again (`MasterIsKept`).

**`AppleHostProofs`** (`HostInvariant`, `HostPlaysItsPair`, `HostRemembers`,
`ShownInvariant`, `HostShowsWhatIs`), for any outputs, clocks and number of pairs.
`PairInv` follows a pair from the control queue's block that makes it, through
the return of `sync`, into the graph: at each stop on the main thread's way it
says which pair is new, which is used and which will be freed. `ShownInv` says of
what is shown and is wrong which block or notice is still on its way to correct
it: the last of its kind in the queue counts, whatever comes in between, and a
clock that fails is either asked for still or its failure not yet said.

### Only model-checked

- Liveness (`Converges`, `EveryoneLeaves`, `IsFedAgain`, `HitsEnd`, `NumbersSettle`,
  `DeckGetsItsNumber`, `NoLastingClash`), which is beyond this prover.
- `OneHolder` and `DecksUndisturbed` beyond the losses and delays of their theorems:
  runs check the first with more losses, and `JoinClash` shows how it ends.
- `StepsCome`, `SoundsOnce`, `RunLength`: not true of every value of the constants.
  A held list full of parameters delays a flush, and a lookahead shorter than a tick
  makes steps late; a theorem would have to carry the proportions of all of these.
  Of `SoundsOnce`, `HitsApart` proves the part about hits; grace notes and whole flams
  are left.
- `OldRunSilent` and `LogIsHeard` beyond the hypotheses of their theorems: runs check
  both with queues that fill, and `engine_nudge` shows what a nudge does to the first.
- `GridHolds`, `TempoHolds`: the taps and the fit are recursions over their data.
- `EstimateHoldsTheBeat`: the estimate narrows over the brackets of a ring by a
  recursion over its data (`Agreed`).

`LockIsFresh`, `JumpIsRun`, `LockInv`, `RingInv`, `ListensOrIsAssigned`,
`QuietOnceYielded`, `RoomForStep`, `HeldInOrder` and `FiredInTime` are stated by
theorems and by no run: what they add to the properties above is proved.

## 5. Not modelled

- Of the engine: `set_pattern` and mutes (data the properties do not tell apart);
  a renderer recreated under a living control half (the Apple host replaces both
  halves: `AppleHost`); rendering to a file, which is the lockstep engine in a
  loop.
- Of the follower: the tempo of a source that reports none (`tempo_from_phase`,
  which keeps an acquisition open until the tempo is known), the learned drift,
  the deadband and the gains themselves, and a `reset` of a follower that runs.
- `Link`: a thin use of a vendored library, whose session is the interesting part.
- Packet layouts, HTTP heads, JSON, hashing, pattern files: parsing, tested byte
  by byte in the repository.
- The web app's worklet host and both user interfaces: views, themes, storage.
- Of the Apple host: `stopAudio` as a user's wish, capture taps, MIDI input,
  the resync request, snapshots, and `deinit`.
- Sound: waveforms, filters and the master section are floating-point signal
  processing. `Kit` keeps what a voice carries from one hit to the next.

## 6. Plan

Every model and every proof of the plan is written, except what "Only
model-checked" says of each: a theorem about the engine's steps would have to state
the proportions of the lookahead, the tick, the lead and the held list, and would be
the next to try.
