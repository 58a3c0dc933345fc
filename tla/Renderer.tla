------------------------------ MODULE Renderer ------------------------------
(* The render thread (core/engine/src/renderer.rs): each audio callback      *)
(* publishes its position, pulls the event queue into a sorted list of held  *)
(* events, and plays one block, firing every event that has come due.        *)
(*                                                                           *)
(* The queue is the bounded fifo EventQueue implements and the published     *)
(* position the register SharedTiming implements; a pull takes events one by *)
(* one, so the control thread may push in between.                           *)
EXTENDS Integers, SequencesExt

CONSTANTS
    Block,           \* samples per callback
    PendingCapacity, \* events the renderer can hold back
    MaxPosition      \* bound: no callback starts at or beyond this sample

VARIABLES
    queue,       \* events on their way to the renderer, oldest first
    published,   \* the position in SharedTiming
    pos,         \* the renderer's next sample
    renderPc,    \* "idle" between callbacks, "pull" inside one
    pending,     \* events held back, by sample
    param,       \* the value of the one modelled parameter
    heard        \* history: what fired, in order, with the sample it fired at

renderVars == <<pos, renderPc, pending, param, heard>>

RenderInit(start) ==
    /\ queue = <<>>
    /\ pos = start
    /\ renderPc = "idle"
    /\ pending = <<>>
    /\ param = 0
    /\ heard = <<>>

IsTrigger(e) == e.kind \in {"grace", "hit"}

\* The elements of a sequence at some of its places, in their order.
Places(s, kept) ==
    [n \in 1 .. Cardinality(kept) |->
        s[CHOOSE i \in kept : Cardinality({j \in kept : j <= i}) = n]]

\* A flush drops the held triggers at or after its sample.
FlushPending(held, sample) ==
    Places(held, {i \in DOMAIN held : ~(IsTrigger(held[i]) /\ held[i].sample >= sample)})

\* Mutant: in front of the events of the same sample.
InsertBeforeEqual(held, e) ==
    LET n == Max({i \in 0 .. Len(held) : i = 0 \/ held[i].sample < e.sample})
    IN  InsertAt(held, n + 1, e)

\* Insertion sort from the back: behind every event not later than this one.
InsertPending(held, e) ==
    LET n == Max({i \in 0 .. Len(held) : i = 0 \/ held[i].sample <= e.sample})
    IN  InsertAt(held, n + 1, e)

\* The start of a callback publishes the block's first sample.
RenderPublish ==
    /\ renderPc = "idle"
    /\ pos < MaxPosition
    /\ published' = pos
    /\ renderPc' = "pull"
    /\ UNCHANGED <<queue, pos, pending, param, heard>>

CanPull == queue # <<>> /\ Len(pending) < PendingCapacity

RenderPull ==
    /\ renderPc = "pull"
    /\ CanPull
    /\ LET e == Head(queue) IN
        pending' = IF e.kind = "flush" THEN FlushPending(pending, e.sample)
                                       ELSE InsertPending(pending, e)
    /\ queue' = Tail(queue)
    /\ UNCHANGED <<published, pos, renderPc, param, heard>>

\* Mutant: an event inside the block waits for the next one.
DueNextBlock == Max({n \in 0 .. Len(pending) : n = 0 \/ pending[n].sample < pos})

\* How many of the held events come due in the block: they are in order, and
\* a late one fires with the block's first sample.
DueCount == Max({n \in 0 .. Len(pending) : n = 0 \/ pending[n].sample < pos + Block})

\* The parameter after a sequence of events, starting from v.
ParamAfter(v, events) ==
    LET sets == {i \in DOMAIN events : events[i].kind = "param"}
    IN  IF sets = {} THEN v ELSE events[Max(sets)].value

\* The queue is empty or the list full: play the block.
RenderPlay ==
    /\ renderPc = "pull"
    /\ ~CanPull
    /\ LET due   == SubSeq(pending, 1, DueCount)
           fired == Places(due, {i \in DOMAIN due : IsTrigger(due[i])})
       IN  /\ heard' = heard \o
                 [i \in DOMAIN fired |->
                     [fired[i] EXCEPT !.at = Max({fired[i].sample, pos})]]
           /\ param' = ParamAfter(param, due)
           /\ pending' = SubSeq(pending, DueCount + 1, Len(pending))
    /\ pos' = pos + Block
    /\ renderPc' = "idle"
    /\ UNCHANGED <<queue, published>>
=============================================================================
