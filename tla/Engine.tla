------------------------------- MODULE Engine -------------------------------
(* The engine: a control thread that schedules pattern steps ahead of the    *)
(* audio, and the render thread that plays them (core/engine/src/control.rs  *)
(* with core/sequencer/src/scheduler.rs and core/engine/src/renderer.rs).    *)
(*                                                                           *)
(* split: the two run on threads of their own and share only the event queue *)
(* and the published position.  A control call reads the position, reads it  *)
(* again for the commit point, and pushes its events one by one; each of     *)
(* these is an action, and the renderer may act in between.  Lockstep:       *)
(* Engine::render runs one control tick and then one callback.               *)
(*                                                                           *)
(* Time is the sample clock.  The pattern is one voice; the timeline is the  *)
(* active clock with the global timing controls applied.                     *)
EXTENDS Renderer, Timeline, Scheduler, QueuedLog

CONSTANTS
    Splits,          \* {TRUE}: the shells with two threads; {FALSE}: with one
    Warm,            \* the renderer has run long enough to know its block
    StepLens,        \* step lengths, in half samples
    PatternLen,      \* steps in the pattern
    FlamSteps,       \* pattern steps that hit with a grace note
    FlamSamples,     \* how long before the hit the grace note is
    Lookahead,       \* how far ahead of the position steps are scheduled
    SnapGrace,       \* how far behind the commit point a step is still played
    QueueCapacities, \* slots of the event queue
    FlushReserve,    \* slots kept free for flushes
    CommittedBlocks, \* blocks a realign keeps clear of
    Shifts,          \* bound: by how many samples the timeline may jump
    Slews,           \* bound: by how many samples a report may re-plan it
    RunLengths,      \* bound: the stop-after counts a user sets
    Values,          \* bound: the parameter values a user sets
    Ops(_),          \* bound: the calls a run allows, by slots of its queue
    MaxCalls,        \* bound: how many calls besides ticks
    MaxLag,          \* assumption: blocks that may start inside a control call
    TickBlocks       \* assumption: blocks that may start without a control tick

None == -1
VoiceCount == 1

ASSUME EngineAssumption ==
    /\ Splits \subseteq BOOLEAN
    /\ Block \in Nat \ {0} /\ PendingCapacity \in Nat \ {0} /\ QueuedMemory \in Nat \ {0}
    /\ StepLens # {} /\ IsFiniteSet(StepLens) /\ StepLens \subseteq Nat \ {0}
    /\ Shifts \cup Slews \subseteq Int /\ RunLengths \subseteq Nat
    /\ PatternLen \in Nat \ {0} /\ FlamSteps \subseteq 0 .. PatternLen - 1
    /\ FlushReserve \in Nat /\ QueueCapacities \subseteq Nat
    /\ \A n \in QueueCapacities : n >= 2 * VoiceCount + FlushReserve
    /\ FlamSamples \in Nat /\ SnapGrace \in Nat /\ Lookahead \in Nat
    /\ CommittedBlocks \in Nat /\ TickBlocks \in Nat

VARIABLES
    split,       \* control and render on threads of their own; never changes
    capacity,    \* slots of the event queue; never changes
    mode,        \* "internal" or "follow"
    clock,       \* the active timeline
    sched,       \* the scheduler
    log,         \* the queued-step log
    flushLeft,   \* pending_flush: a flush that did not fit, or None
    seen,        \* Control::published, the newest position read
    block,       \* Control::render_block, the learned block
    sent,        \* the parameter value last queued
    callPc,      \* where the control thread is in a call
    call,        \* the call
    now,         \* the position the call began with
    todo,        \* events the call has still to push
    lag,         \* history: blocks started since the call last read the position
    sinceTick,   \* history: blocks started since a tick ended
    calls,       \* history: calls made
    run,         \* history: starts so far
    quota,       \* history: steps the current run is to play, or NoLimit
    restarts,    \* history: the commit point of each restart
    floor        \* history: the commit point of the last realign

controlVars == <<mode, clock, sched, log, flushLeft, seen, block, sent>>
callVars == <<callPc, call, now, todo>>
historyVars == <<run, quota, restarts, floor>>
vars == <<split, capacity, queue, published, renderVars, controlVars, callVars, lag, sinceTick, calls, historyVars>>

NoCall == [op |-> "none"]

\* Cold: nothing has been rendered.  Warm: three blocks have, stopped.
Init ==
    /\ split \in Splits
    /\ capacity \in QueueCapacities
    /\ RenderInit(IF Warm THEN 3 * Block ELSE 0)
    /\ published = IF Warm THEN 2 * Block ELSE 0
    /\ seen = published
    /\ block = IF Warm THEN Block ELSE 0
    /\ mode \in {"internal", "follow"}
    /\ clock = [anchor |-> 0, len |-> Max(StepLens)]
    /\ sched = Stopped
    /\ log = <<>>
    /\ flushLeft = None
    /\ sent = 0
    /\ callPc = "idle" /\ call = NoCall /\ now = 0 /\ todo = <<>>
    /\ lag = 0 /\ calls = 0
    /\ sinceTick = IF split THEN 0 ELSE TickBlocks
    /\ run = 0 /\ quota = NoLimit /\ restarts = <<>> /\ floor = 0

-----------------------------------------------------------------------------
(* Events *)

IsFlam(step) == step % PatternLen \in FlamSteps

FlushEvent(sample) == [kind |-> "flush", sample |-> sample]
ParamEvent(sample, v) == [kind |-> "param", sample |-> sample, value |-> v]

\* A trigger carries, as history, the run and restart it belongs to and
\* whether it was queued for the future; at is filled in when it fires.
Trigger(kind, sample, step) ==
    [kind |-> kind, sample |-> sample, step |-> step, at |-> None,
     run |-> run, epoch |-> Len(restarts), ahead |-> sample >= floor]

GraceSample(sample) == IF sample < FlamSamples THEN 0 ELSE sample - FlamSamples

\* step_span: a step's earliest event and its grid hit.
Entry(step) ==
    LET s == StepSample(clock, step) IN
    [step |-> step, first |-> IF IsFlam(step) THEN GraceSample(s) ELSE s, sample |-> s]

StepEvents(step) ==
    LET s == StepSample(clock, step) IN
    IF IsFlam(step)
    THEN <<Trigger("grace", GraceSample(s), step), Trigger("hit", s, step)>>
    ELSE <<Trigger("hit", s, step)>>

Vacant == capacity - Len(queue)

\* Every event between the scheduler and the voices, in the order it is pulled.
InFlight == pending \o queue \o todo

\* No flush behind the i-th of them drops it.
Survives(i) ==
    \A j \in i + 1 .. Len(InFlight) :
        ~(InFlight[j].kind = "flush" /\ InFlight[j].sample <= InFlight[i].sample)

\* The hits of the current run that are still to be heard.
Coming ==
    {i \in DOMAIN InFlight : InFlight[i].kind = "hit" /\ InFlight[i].run = run /\ Survives(i)}

HeardInRun == {i \in DOMAIN heard : heard[i].kind = "hit" /\ heard[i].run = run}

-----------------------------------------------------------------------------
(* The commit point *)

\* note_render_position: the smallest step between two published positions.
LearnedBlock ==
    LET step == published - seen IN
    IF step > 0 /\ (seen > 0 \/ block > 0)
    THEN IF block = 0 THEN step ELSE Min({block, step})
    ELSE block

NotePosition == seen' = published /\ block' = LearnedBlock

\* commit_point: the first sample a flush issued now can still take back.
CommitPoint ==
    IF now > published
    THEN now
    ELSE Max({published + Min({CommittedBlocks * LearnedBlock, Lookahead \div 2}), now})

\* send_flush: a flush that is still waiting to fit merges into this one.
MergedFlush(at) == IF flushLeft = None THEN at ELSE Min({flushLeft, at})

\* The call goes on to push a flush, or ends without one.
SendFlush(at) ==
    /\ todo' = <<FlushEvent(MergedFlush(at))>>
    /\ flushLeft' = None
    /\ callPc' = "push"

NoFlush ==
    /\ callPc' = "idle"
    /\ UNCHANGED <<todo, flushLeft>>

-----------------------------------------------------------------------------
(* Calls of the control thread *)

\* In lockstep the shell calls between two Engine::render.
MayCall == callPc = "idle" /\ (split \/ (renderPc = "idle" /\ sinceTick > 0))

Position == IF split THEN published ELSE pos

CountCall(op) == op \in Ops(capacity) /\ calls < MaxCalls /\ calls' = calls + 1

\* A call that realigns the timeline reads the position first.
BeginCall(c) ==
    /\ MayCall
    /\ CountCall(c.op)
    /\ callPc' = "commit"
    /\ call' = c
    /\ now' = Position
    /\ lag' = 0
    /\ UNCHANGED <<queue, published, renderVars, controlVars, todo, sinceTick, historyVars>>

\* Mutant: what is queued right on the downbeat is kept.
DropQueuedAfter(c) ==
    /\ IF NewestFrom(log, c) > 0 THEN SendFlush(c + 1) ELSE NoFlush
    /\ log' = FlushLog(log, c)

\* drop_queued_from, for a restart at sample c: flushes every step queued from
\* c on and gives the first of them, or the next unscheduled step.
DropQueued(c) ==
    /\ IF NewestFrom(log, c) > 0 THEN SendFlush(c) ELSE NoFlush
    /\ log' = FlushLog(log, c)

Unplayed(c) ==
    LET n == NewestFrom(log, c) IN IF n = 0 THEN sched.next ELSE log[Len(log) - n + 1].step

\* start, internal clock: step 0 on the commit point.
StartInternal ==
    /\ callPc = "commit" /\ call.op = "start" /\ mode = "internal"
    /\ LET c == CommitPoint IN
        /\ DropQueued(c)
        /\ clock' = RestartAt(clock, c)
        /\ restarts' = Append(restarts, c)
        /\ floor' = c
    /\ sched' = StartAt(sched, 0)
    /\ run' = run + 1
    /\ quota' = sched.stopAfter
    /\ NotePosition
    /\ lag' = 0
    /\ UNCHANGED <<queue, published, renderVars, mode, sent, call, now, sinceTick, calls>>

\* start, following: joins the timeline half a step clear of what was heard.
StartFollow ==
    /\ callPc = "commit" /\ call.op = "start" /\ mode = "follow"
    /\ LET c    == CommitPoint
           cut  == Cut(log, c)
           from == Max({c} \cup {HalfStepAfter(clock, 2 * q.sample) : q \in ToSet(cut.heard)})
       IN  /\ IF cut.dropped # <<>> THEN SendFlush(cut.flush) ELSE NoFlush
           /\ log' = FlushLog(log, cut.flush)
           /\ sched' = StartAt(sched, FirstStepAtOrAfter(clock, from))
           /\ floor' = c
    /\ run' = run + 1
    /\ quota' = sched.stopAfter
    /\ NotePosition
    /\ lag' = 0
    /\ UNCHANGED <<queue, published, renderVars, mode, clock, sent, call, now, sinceTick,
                   calls, restarts>>

\* resync, internal clock: the bar restarts on the commit point.
Resync ==
    /\ callPc = "commit" /\ call.op = "resync"
    /\ LET c == CommitPoint IN
        /\ clock' = RestartAt(clock, c)
        /\ IF sched.playing
           THEN /\ DropQueued(c)
                /\ sched' = Seek(sched, FirstStepAtOrAfter(clock', c), Unplayed(c))
                /\ restarts' = Append(restarts, c)
                /\ floor' = c
           ELSE /\ NoFlush
                /\ UNCHANGED <<log, sched, restarts, floor>>
    /\ NotePosition
    /\ lag' = 0
    /\ UNCHANGED <<queue, published, renderVars, mode, sent, call, now, sinceTick, calls,
                   run, quota>>

\* Where the last step heard is, in half samples, as a set of at most one: the
\* log tells, unless all it remembers is still ahead, when the old timeline
\* gives an estimate.
LastHeard(cut, c, unplayed) ==
    LET first == Min({unplayed, FirstStepAtOrAfter(clock, c)}) IN
    IF cut.heard # <<>> THEN {2 * cut.heard[1].sample}
    ELSE IF Len(log) = QueuedMemory /\ first > 0 THEN {StepPosition(clock, first - 1)}
    ELSE {}

\* Mutant: never seeks back before what was queued.
RealignForward(c, new) ==
    LET cut      == Cut(log, c)
        unplayed == IF cut.dropped = <<>> THEN sched.next ELSE cut.dropped[1].step
        grace    == IF c < SnapGrace THEN 0 ELSE c - SnapGrace
        from     == Max({grace} \cup {HalfStepAfter(new, h) : h \in LastHeard(cut, c, unplayed)})
    IN  /\ SendFlush(cut.flush)
        /\ log' = FlushLog(log, cut.flush)
        /\ sched' = Seek(sched, Max({unplayed, FirstStepAtOrAfter(new, from)}), unplayed)
        /\ floor' = c

\* realign_continuous, onto the timeline new.
RealignContinuous(c, new) ==
    LET cut      == Cut(log, c)
        unplayed == IF cut.dropped = <<>> THEN sched.next ELSE cut.dropped[1].step
        grace    == IF c < SnapGrace THEN 0 ELSE c - SnapGrace
        from     == Max({grace} \cup {HalfStepAfter(new, h) : h \in LastHeard(cut, c, unplayed)})
    IN  /\ SendFlush(cut.flush)
        /\ log' = FlushLog(log, cut.flush)
        /\ sched' = Seek(sched, FirstStepAtOrAfter(new, from), unplayed)
        /\ floor' = c

\* A tap (internal) or a snap of the follower: the timeline jumps, at a tempo
\* of its own, and a running pattern continues on it.
Jump ==
    /\ callPc = "commit" /\ call.op = "jump"
    /\ clock' = Moved(SetTempo(clock, call.len, now), call.shift)
    /\ IF sched.playing
       THEN RealignContinuous(CommitPoint, clock') /\ NotePosition
       ELSE NoFlush /\ UNCHANGED <<log, sched, floor, seen, block>>
    /\ lag' = 0
    /\ UNCHANGED <<queue, published, renderVars, mode, sent, call, now, sinceTick, calls,
                   run, quota, restarts>>

\* Calls that push nothing and do not look at the renderer.
StopCall ==
    /\ CountCall("stop")
    /\ sched' = Stop(sched)
    /\ UNCHANGED <<mode, clock>>

LimitRun ==
    /\ CountCall("stopAfter")
    /\ \E n \in RunLengths \cup {NoLimit} :
        /\ sched' = SetStopAfter(sched, n)
        /\ quota' = IF n = NoLimit THEN n ELSE Cardinality(HeardInRun) + Cardinality(Coming) + n
    /\ UNCHANGED <<mode, clock>>

\* set_tempo, at the published position; queued steps keep the old tempo.
ChangeTempo ==
    /\ CountCall("tempo") /\ mode = "internal"
    /\ \E len \in StepLens \ {clock.len} : clock' = SetTempo(clock, len, Position)
    /\ UNCHANGED <<mode, sched>>

\* A nudge, a latency setting, or a report the follower only slews to: the
\* timeline moves under the steps still to be scheduled.
Replan ==
    /\ CountCall("replan")
    /\ \E d \in Slews : clock' = Moved(clock, d)
    /\ UNCHANGED <<mode, sched>>

\* set_clock_mode keeps the beat where it is.
SetClockMode ==
    /\ CountCall("mode")
    /\ mode' = IF mode = "internal" THEN "follow" ELSE "internal"
    /\ UNCHANGED <<clock, sched>>

QuietCall ==
    /\ MayCall
    /\ LimitRun \/ ((StopCall \/ ChangeTempo \/ Replan \/ SetClockMode) /\ UNCHANGED quota)
    /\ UNCHANGED <<queue, published, renderVars, log, flushLeft, seen, block, sent, callVars,
                   lag, sinceTick, run, restarts, floor>>

\* set_voice_param at the published position: recorded as sent only if it fit
\* without using the slots kept for flushes.
SetParam ==
    /\ MayCall
    /\ CountCall("param")
    /\ \E v \in Values :
        IF Vacant > FlushReserve
        THEN queue' = Append(queue, ParamEvent(Position, v)) /\ sent' = v
        ELSE UNCHANGED <<queue, sent>>
    /\ UNCHANGED <<published, renderVars, mode, clock, sched, log, flushLeft, seen, block,
                   callVars, lag, sinceTick, historyVars>>

-----------------------------------------------------------------------------
(* The control tick *)

TickBegin ==
    /\ MayCall
    /\ callPc' = "note"
    /\ call' = NoCall
    /\ now' = Position
    /\ lag' = 0
    /\ UNCHANGED <<queue, published, renderVars, controlVars, todo, sinceTick, calls, historyVars>>

\* Notes the position again and takes up a flush that did not fit.
TickNote ==
    /\ callPc = "note"
    /\ NotePosition
    /\ todo' = IF flushLeft = None THEN <<>> ELSE <<FlushEvent(flushLeft)>>
    /\ flushLeft' = None
    /\ callPc' = "tick"
    /\ lag' = 0
    /\ UNCHANGED <<queue, published, renderVars, mode, clock, sched, log, sent, call, now,
                   sinceTick, calls, historyVars>>

\* The next step is due for scheduling and is sure to fit, grace notes and all.
StepDue ==
    /\ sched.playing
    /\ ~AtEnd(sched)
    /\ StepSample(clock, sched.next) < now + Lookahead
    /\ Vacant >= 2 * VoiceCount + FlushReserve

TickStep ==
    /\ callPc = "tick" /\ todo = <<>>
    /\ StepDue
    /\ todo' = StepEvents(sched.next)
    /\ log' = PushEntry(log, Entry(sched.next))
    /\ sched' = Advance(sched)
    /\ UNCHANGED <<queue, published, renderVars, mode, clock, flushLeft, seen, block, sent,
                   callPc, call, now, lag, sinceTick, calls, historyVars>>

\* Nothing more to schedule; a run that is over stops.
TickEnd ==
    /\ callPc = "tick" /\ todo = <<>>
    /\ ~StepDue
    /\ sched' = IF AtEnd(sched) THEN Stop(sched) ELSE sched
    /\ callPc' = "idle"
    /\ sinceTick' = 0
    /\ UNCHANGED <<queue, published, renderVars, mode, clock, log, flushLeft, seen, block, sent,
                   call, now, todo, lag, calls, historyVars>>

\* The producer end of the queue.
PushEvent ==
    /\ todo # <<>>
    /\ Vacant > 0
    /\ queue' = Append(queue, Head(todo))
    /\ todo' = Tail(todo)
    /\ callPc' = IF callPc = "push" THEN "idle" ELSE callPc
    /\ UNCHANGED <<published, renderVars, controlVars, call, now, lag, sinceTick, calls, historyVars>>

\* Mutant: a tick whose flush does not fit schedules steps all the same.
PushFailsUnnoticed ==
    /\ todo # <<>>
    /\ Vacant = 0
    /\ todo' = Tail(todo)
    /\ flushLeft' = IF Head(todo).kind = "flush" THEN Head(todo).sample ELSE flushLeft
    /\ callPc' = IF callPc = "push" THEN "idle" ELSE callPc
    /\ UNCHANGED <<queue, published, renderVars, mode, clock, sched, log, seen, block, sent,
                   call, now, lag, sinceTick, calls, historyVars>>

\* The queue is full: a flush is kept for the next tick, and this tick is over
\* before it schedules anything; a trigger would be lost.
PushFails ==
    /\ todo # <<>>
    /\ Vacant = 0
    /\ todo' = Tail(todo)
    /\ IF Head(todo).kind = "flush"
       THEN /\ flushLeft' = Head(todo).sample
            /\ callPc' = "idle"
            /\ sinceTick' = IF callPc = "tick" THEN 0 ELSE sinceTick
       ELSE UNCHANGED <<flushLeft, callPc, sinceTick>>
    /\ UNCHANGED <<queue, published, renderVars, mode, clock, sched, log, seen, block, sent,
                   call, now, lag, calls, historyVars>>

-----------------------------------------------------------------------------
(* The renderer's steps, at the pace of the audio device: a tick has run     *)
(* within the last TickBlocks blocks, and at most MaxLag blocks start        *)
(* between a call's read of the position and its end.                        *)
RenderStart ==
    /\ RenderPublish
    /\ sinceTick < TickBlocks
    /\ IF callPc = "idle" THEN TRUE ELSE split /\ lag < MaxLag
    /\ sinceTick' = sinceTick + 1
    /\ lag' = IF callPc = "idle" THEN 0 ELSE lag + 1
    /\ UNCHANGED <<controlVars, callVars, calls, historyVars>>

RenderBlock ==
    /\ RenderPull \/ RenderPlay
    /\ UNCHANGED <<controlVars, callVars, lag, sinceTick, calls, historyVars>>

-----------------------------------------------------------------------------
\* While following, a resync only asks the follower to snap, which is a jump.
RealignCalls ==
    {[op |-> "start"]}
    \cup (IF mode = "internal" THEN {[op |-> "resync"]} ELSE {})
    \cup [op : {"jump"}, shift : Shifts, len : StepLens]

Control ==
    \/ \E c \in RealignCalls : BeginCall(c)
    \/ StartInternal \/ StartFollow \/ Resync \/ Jump
    \/ QuietCall \/ SetParam
    \/ TickBegin \/ TickNote \/ TickStep \/ TickEnd
    \/ PushEvent \/ PushFails

Render == RenderStart \/ RenderBlock

\* The bound: a run of the model ends at MaxPosition.
Finished == pos >= MaxPosition /\ callPc = "idle" /\ renderPc = "idle" /\ UNCHANGED vars

Next == (Control \/ Render \/ Finished) /\ UNCHANGED <<split, capacity>>

Spec == Init /\ [][Next]_vars

-----------------------------------------------------------------------------
(* Properties *)

Hits == {h \in ToSet(heard) : h.kind = "hit"}

\* Half of the shortest step, in samples.
HalfStep == Min(StepLens) \div 4

(* Nothing is heard twice: within one continuation, no two hits (and no two  *)
(* grace notes) are less than half a step apart, through every jump of the   *)
(* timeline and every start while following (control.rs, realign_continuous; *)
(* ADR-0011, "no sooner than half a step after the last step heard").        *)
NothingTwice ==
    \A i, j \in DOMAIN heard :
        i < j /\ heard[i].kind = heard[j].kind /\ heard[i].epoch = heard[j].epoch =>
            heard[j].sample - heard[i].sample >= HalfStep

(* After a restart, no hit of what was queued before it sounds at or after   *)
(* the new downbeat (control.rs, start: the old run must not "play on top of *)
(* the new run").                                                            *)
OldRunSilent ==
    \A h \in Hits : \A e \in h.epoch + 1 .. Len(restarts) : h.sample < restarts[e]

(* A trigger queued at or after the commit point of the last realign fires   *)
(* on its own sample, neither early nor late: a restart's downbeat sounds    *)
(* exactly on the commit point (control.rs, start: "so the downbeat sounds   *)
(* on time").                                                                *)
OnTime == \A h \in ToSet(heard) : h.ahead => h.at = h.sample

(* Flams are whole: the hit of a grace note that sounded sounds as well, or  *)
(* is still on its way; only a restart may take it back.                     *)
FlamsWhole ==
    \A g \in ToSet(heard) : g.kind = "grace" /\ g.epoch = Len(restarts) =>
        \E h \in ToSet(heard) \cup ToSet(InFlight) :
            h.kind = "hit" /\ h.epoch = g.epoch /\ h.run = g.run /\ h.step = g.step
            /\ h.sample >= g.sample

(* Through every jump and start while following, a step sounds once, with    *)
(* its grace note.                                                           *)
SoundsOnce == NothingTwice /\ FlamsWhole

(* A run with a stop-after count plays exactly that many steps: what was     *)
(* heard, what is on its way and what the scheduler still has to play add up *)
(* through every jump and restart (ADR-0011, "Stop-after counts from the     *)
(* run's first step; realigns keep the number of steps still to play").      *)
RunLength ==
    quota # NoLimit /\ run > 0 /\ callPc = "idle" /\ flushLeft = None =>
        Cardinality(HeardInRun) + Cardinality(Coming) + Remaining(sched, sched.next) = quota

(* Past the first step of its timeline, a pattern that plays has no hole     *)
(* longer than a step and a half (and the swing): neither a jump nor a start *)
(* while following skips a step that was neither heard nor replaced          *)
(* (control.rs, realign_continuous: a source that jumps back is followed     *)
(* "instead of falling silent until our old step number comes round again"). *)
NoHole ==
    callPc = "idle" /\ sched.playing /\ ~AtEnd(sched) =>
        LET next == Min({StepSample(clock, sched.next)} \cup {InFlight[i].sample : i \in Coming})
            last == Max({floor, StepSample(clock, 0)} \cup {heard[i].sample : i \in HeardInRun})
        IN  next <= last + (6 * clock.len + Swing * clock.len) \div 8 + 1

(* Every step comes, and on its sample.                                      *)
StepsCome == OnTime /\ NoHole

(* The renderer ends up with the parameter value the control thread last     *)
(* recorded as sent, whatever the order in which late and early events are   *)
(* merged; a value that did not fit is not recorded.                         *)
ParamArrives == ParamAfter(param, InFlight) = sent

(* The control thread knows what is heard.  Between calls, with no flush     *)
(* waiting, the steps in its log are exactly those whose hit was heard or    *)
(* will be: no step it counts as heard was taken back, and no step it counts *)
(* as taken back had already reached the voices (control.rs, realign_        *)
(* continuous: "What was heard comes from QueuedLog"; commit_point: what is  *)
(* queued before it is "as good as heard").                                  *)
LogIsHeard ==
    LET heardOrComing ==
            Hits \cup {InFlight[i] : i \in {j \in DOMAIN InFlight :
                                              InFlight[j].kind = "hit" /\ Survives(j)}}
        Same(q, h) == q.step = h.step /\ q.sample = h.sample
    IN  callPc = "idle" /\ flushLeft = None =>
            /\ \A q \in ToSet(log) : \E h \in heardOrComing : Same(q, h)
            /\ Len(log) < QueuedMemory =>
                   \A h \in heardOrComing : \E q \in ToSet(log) : Same(q, h)
=============================================================================
