-------------------------- MODULE AppleHostProofs --------------------------
(* Whatever outputs, rates, clocks and patterns there are, an engine that    *)
(* runs plays the half whose other half takes the calls, the audio thread is *)
(* never in a renderer that was freed, and the control half is what the user *)
(* asked for however often the pair was replaced.                            *)
EXTENDS AppleHost, SequenceTheorems, TLAPS

-----------------------------------------------------------------------------
(* Types *)

Modes == {LocalModes[kind] : kind \in DOMAIN LocalModes} \cup {SourceModes[kind] : kind \in InCore}
Patterns == {0} \cup PatternTempos
Tempos == {0, 120} \cup PatternTempos
Nudge == {0} \cup Nudges
Devices == {0, 2}
Latencies == {NoSource} \cup Outputs
Sources == {NoSource} \cup InCore

\* What callers leave on the control queue, and the blocks of rebuildPair.
Calls ==
  [what : {"pattern"}, value : PatternTempos] \cup [what : {"playing"}, value : BOOLEAN]
    \cup [what : {"latency"}, value : Outputs] \cup [what : {"device"}, value : Devices]
    \cup [what : {"nudge"}, value : Nudge] \cup [what : {"clock"}, value : ClockKinds]
Pairs == [what : {"pair"}, value : Nat \ {0}]

Controls ==
  [pair : Nat \ {0}, pattern : Patterns, playing : BOOLEAN, mode : Modes, source : Sources,
   target : Devices, tempo : Tempos, nudge : [ms : Nudge, at : Tempos], latency : Latencies]
Desires ==
  [pattern : Patterns, playing : BOOLEAN, clock : ClockKinds, device : Devices, nudge : Nudge,
   latency : Latencies]
Waits ==
  [sync : BOOLEAN, back : BOOLEAN, kind : {NoSource} \cup ClockKinds, ok : BOOLEAN,
   after : Seq(Calls)]

MainTypeOK ==
  /\ graph \in [runs : BOOLEAN, node : Nat]
  /\ halves \in [pair : Nat, rate : Nat, made : Nat, live : SUBSET Nat]
  /\ wanted \in BOOLEAN
  /\ waiting \in Waits
  /\ blocks \in Seq(Calls \cup Pairs)
QueueTypeOK ==
  /\ control \in {NoControl} \cup Controls
  /\ desired \in Desires
  /\ nudgeTempo \in Tempos
HostTypeOK ==
  /\ MainTypeOK /\ QueueTypeOK
  /\ output \in Outputs /\ interrupted \in BOOLEAN
  /\ rendering \in Nat

-----------------------------------------------------------------------------
(* The invariant *)

\* The pair the host owns is not freed, nor is the one in a cycle.
LiveInv ==
  /\ halves.pair # NoPair => halves.pair \in halves.live
  /\ rendering # NoPair => rendering \in halves.live

\* There is one block of rebuildPair, with the pair made last, while the main
\* thread waits for it; afterwards the control half is of that pair.
IsPair(i) == blocks[i].what = "pair"
BlockInv ==
  /\ \A i \in DOMAIN blocks :
       IsPair(i) => waiting.sync /\ ~waiting.back /\ blocks[i].value = halves.pair
  /\ \A i, j \in DOMAIN blocks : IsPair(i) /\ IsPair(j) => i = j
  /\ waiting.back => waiting.sync
  /\ ~waiting.sync \/ waiting.back => control.pair = halves.pair

\* What runs was wanted, may run, and is the pair for the output; while the
\* main thread waits nothing runs and the pair is for the output.
GraphInv ==
  /\ graph.runs => /\ wanted /\ ~interrupted /\ ~waiting.sync
                   /\ graph.node = halves.pair /\ halves.rate = RateOf[output]
  /\ waiting.sync => wanted /\ halves.rate = RateOf[output]
  /\ graph.runs \/ waiting.sync => halves.pair # NoPair

PairInv == HostTypeOK /\ LiveInv /\ BlockInv /\ GraphInv

-----------------------------------------------------------------------------
(* Lemmas *)

LEMMA CallsAreNoPairs ==
  /\ \A c \in Calls : c.what # "pair"
  /\ \A p \in Pairs : p.what = "pair" /\ p.value \in Nat \ {0}
  /\ \A c \in Calls \cup Pairs : (c.what = "pair") => c \in Pairs
BY DEF Calls, Pairs

LEMMA CallValues ==
  ASSUME NEW c \in Calls \cup Pairs
  PROVE  /\ c.what = "pattern" => c.value \in PatternTempos
         /\ c.what = "playing" => c.value \in BOOLEAN
         /\ c.what = "latency" => c.value \in Outputs
         /\ c.what = "device" => c.value \in Devices
         /\ c.what = "nudge" => c.value \in Nudge
         /\ c.what = "clock" => c.value \in ClockKinds
BY DEF Calls, Pairs

LEMMA BlocksAre ==
  /\ \A v \in PatternTempos : Block("pattern", v) \in Calls
  /\ \A v \in BOOLEAN : Block("playing", v) \in Calls
  /\ \A v \in Outputs : Block("latency", v) \in Calls
  /\ \A v \in Devices : Block("device", v) \in Calls
  /\ \A v \in Nudge : Block("nudge", v) \in Calls
  /\ \A v \in ClockKinds : Block("clock", v) \in Calls
  /\ \A v \in Nat \ {0} : Block("pair", v) \in Pairs
BY DEF Calls, Pairs, Block

LEMMA ControlKinds ==
  ASSUME NEW c \in {NoControl} \cup Controls
  PROVE  /\ c.pair \in Nat
         /\ c = NoControl <=> c \notin Controls
         /\ c = NoControl <=> c.pair = 0
BY DEF NoControl, NoPair, Controls

LEMMA ControlFields ==
  ASSUME NEW c \in Controls
  PROVE  /\ c.pair \in Nat \ {0} /\ c.pattern \in Patterns /\ c.playing \in BOOLEAN
         /\ c.mode \in Modes /\ c.source \in Sources /\ c.target \in Devices
         /\ c.tempo \in Tempos /\ c.nudge \in [ms : Nudge, at : Tempos] /\ c.latency \in Latencies
BY DEF Controls

LEMMA DesireFields ==
  ASSUME NEW d \in Desires
  PROVE  /\ d.pattern \in Patterns /\ d.playing \in BOOLEAN /\ d.clock \in ClockKinds
         /\ d.device \in Devices /\ d.nudge \in Nudge /\ d.latency \in Latencies
BY DEF Desires

-----------------------------------------------------------------------------
(* The control half is what was asked for *)

ClockMatches(c, d) ==
  IF d.clock \in InCore
  THEN c.source = d.clock /\ c.mode = SourceModes[d.clock] /\ c.target = d.device
  ELSE c.source = NoSource /\ c.mode = LocalModes[d.clock]
RestMatches(c, d, at) ==
  /\ c.playing = d.playing /\ c.pattern = d.pattern /\ c.latency = d.latency
  /\ c.nudge.ms = d.nudge
  /\ d.nudge # 0 => c.nudge.at = at
Matches(c, d, at) == ClockMatches(c, d) /\ RestMatches(c, d, at)

LEMMA PatternAsked ==
  ASSUME NEW c \in Controls, NEW d \in Desires, NEW bpm \in PatternTempos, NEW at,
         Matches(c, d, at)
  PROVE  /\ WithPattern(c, bpm) \in Controls /\ WithPattern(c, bpm).pair = c.pair
         /\ [d EXCEPT !.pattern = bpm] \in Desires
         /\ Matches(WithPattern(c, bpm), [d EXCEPT !.pattern = bpm], at)
<1>1. bpm # 0 /\ bpm \in Patterns /\ bpm \in Tempos
  BY HostAssumption DEF Patterns, Tempos
<1>2. WithPattern(c, bpm) = [c EXCEPT !.pattern = bpm, !.tempo = IF c.mode = "internal" THEN bpm ELSE @]
  BY <1>1 DEF WithPattern
<1>3. (IF c.mode = "internal" THEN bpm ELSE c.tempo) \in Tempos
  BY <1>1, ControlFields
<1>4. WithPattern(c, bpm) \in Controls /\ WithPattern(c, bpm).pair = c.pair
  BY <1>1, <1>2, <1>3 DEF Controls
<1>5. [d EXCEPT !.pattern = bpm] \in Desires
  BY <1>1 DEF Desires
<1>6. Matches(WithPattern(c, bpm), [d EXCEPT !.pattern = bpm], at)
  BY <1>2 DEF Matches, ClockMatches, RestMatches, Controls, Desires
<1>7. QED
  BY <1>4, <1>5, <1>6

LEMMA PlayingAsked ==
  ASSUME NEW c \in Controls, NEW d \in Desires, NEW plays \in BOOLEAN, NEW at, Matches(c, d, at)
  PROVE  /\ [c EXCEPT !.playing = plays] \in Controls /\ [c EXCEPT !.playing = plays].pair = c.pair
         /\ [d EXCEPT !.playing = plays] \in Desires
         /\ Matches([c EXCEPT !.playing = plays], [d EXCEPT !.playing = plays], at)
BY DEF Matches, ClockMatches, RestMatches, Controls, Desires

LEMMA LatencyAsked ==
  ASSUME NEW c \in Controls, NEW d \in Desires, NEW o \in Outputs, NEW at, Matches(c, d, at)
  PROVE  /\ [c EXCEPT !.latency = o] \in Controls /\ [c EXCEPT !.latency = o].pair = c.pair
         /\ [d EXCEPT !.latency = o] \in Desires
         /\ Matches([c EXCEPT !.latency = o], [d EXCEPT !.latency = o], at)
BY DEF Matches, ClockMatches, RestMatches, Controls, Desires, Latencies

LEMMA DeviceAsked ==
  ASSUME NEW c \in Controls, NEW d \in Desires, NEW device \in Devices, NEW at, Matches(c, d, at)
  PROVE  /\ Aimed(c, device) \in Controls /\ Aimed(c, device).pair = c.pair
         /\ [d EXCEPT !.device = device] \in Desires
         /\ Matches(Aimed(c, device), [d EXCEPT !.device = device], at)
<1>1. d.clock \in InCore => c.source # NoSource
  BY HostAssumption DEF Matches, ClockMatches
<1>2. Aimed(c, device) \in Controls /\ Aimed(c, device).pair = c.pair
  BY DEF Aimed, Controls
<1>3. [d EXCEPT !.device = device] \in Desires
  BY DEF Desires
<1>4. Matches(Aimed(c, device), [d EXCEPT !.device = device], at)
  BY <1>1 DEF Aimed, Matches, ClockMatches, RestMatches, Controls, Desires
<1>5. QED
  BY <1>2, <1>3, <1>4

LEMMA NudgedIs ==
  ASSUME NEW c \in Controls, NEW ms \in Nudge
  PROVE  /\ Nudged(c, ms) \in Controls
         /\ Nudged(c, ms).nudge.ms = ms /\ Nudged(c, ms).nudge.at = c.tempo
         /\ Nudged(c, ms).pair = c.pair /\ Nudged(c, ms).pattern = c.pattern
         /\ Nudged(c, ms).playing = c.playing /\ Nudged(c, ms).mode = c.mode
         /\ Nudged(c, ms).source = c.source /\ Nudged(c, ms).target = c.target
         /\ Nudged(c, ms).tempo = c.tempo /\ Nudged(c, ms).latency = c.latency
<1>1. [ms |-> ms, at |-> c.tempo] \in [ms : Nudge, at : Tempos]
  BY ControlFields
<1> DEFINE N == [ms : Nudge, at : Tempos]
           n == [ms |-> ms, at |-> c.tempo]
<1>2. n \in N /\ Nudged(c, ms) = [c EXCEPT !.nudge = n]
  BY <1>1 DEF Nudged
<1>3. Controls = [pair : Nat \ {0}, pattern : Patterns, playing : BOOLEAN, mode : Modes, source : Sources,
                  target : Devices, tempo : Tempos, nudge : N, latency : Latencies]
  BY DEF Controls
<1>4. n.ms = ms /\ n.at = c.tempo
  OBVIOUS
<1> HIDE DEF N, n
<1> DEFINE k == [c EXCEPT !.nudge = n]
<1>5. /\ k \in Controls /\ k.nudge = n /\ k.pair = c.pair /\ k.pattern = c.pattern
      /\ k.playing = c.playing /\ k.mode = c.mode /\ k.source = c.source /\ k.target = c.target
      /\ k.tempo = c.tempo /\ k.latency = c.latency
  BY <1>2, <1>3
<1> HIDE DEF k
<1>6. QED
  BY <1>2, <1>4, <1>5 DEF k

LEMMA NudgeAsked ==
  ASSUME NEW c \in Controls, NEW d \in Desires, NEW ms \in Nudge, NEW at, Matches(c, d, at)
  PROVE  /\ [d EXCEPT !.nudge = ms] \in Desires
         /\ Matches(Nudged(c, ms), [d EXCEPT !.nudge = ms], c.tempo)
<1>1. [d EXCEPT !.nudge = ms] \in Desires
  BY DEF Desires
<1>2. /\ [d EXCEPT !.nudge = ms].nudge = ms
      /\ [d EXCEPT !.nudge = ms].pattern = d.pattern /\ [d EXCEPT !.nudge = ms].playing = d.playing
      /\ [d EXCEPT !.nudge = ms].clock = d.clock /\ [d EXCEPT !.nudge = ms].device = d.device
      /\ [d EXCEPT !.nudge = ms].latency = d.latency
  BY DEF Desires
<1> DEFINE k == Nudged(c, ms)
           e == [d EXCEPT !.nudge = ms]
<1>3. /\ k.nudge.ms = ms /\ k.nudge.at = c.tempo /\ k.pattern = c.pattern /\ k.playing = c.playing
      /\ k.mode = c.mode /\ k.source = c.source /\ k.target = c.target /\ k.latency = c.latency
  BY NudgedIs
<1> HIDE DEF k, e
<1>4. Matches(k, e, c.tempo)
  BY <1>2, <1>3 DEF Matches, ClockMatches, RestMatches, e
<1>5. QED
  BY <1>1, <1>4 DEF k, e

LEMMA AfterClockIs ==
  ASSUME NEW d \in Desires
  PROVE  /\ AfterClock(d) \in Desires
         /\ AfterClock(d).clock = IF d.clock \in Failing THEN "internal" ELSE d.clock
         /\ AfterClock(d).pattern = d.pattern /\ AfterClock(d).playing = d.playing
         /\ AfterClock(d).device = d.device /\ AfterClock(d).nudge = d.nudge
         /\ AfterClock(d).latency = d.latency
<1>1. "internal" \in ClockKinds
  BY HostAssumption DEF ClockKinds
<1>2. QED
  BY <1>1 DEF AfterClock, Runs, Desires

\* Starting the clock that is asked for leaves the rest alone, and makes the
\* clock that runs the one that is then asked for.
LEMMA ClockedMatches ==
  ASSUME NEW c \in Controls, NEW d \in Desires
  PROVE  /\ Clocked(c, d) \in Controls
         /\ ClockMatches(Clocked(c, d), AfterClock(d))
         /\ Clocked(c, d).pair = c.pair /\ Clocked(c, d).pattern = c.pattern
         /\ Clocked(c, d).playing = c.playing /\ Clocked(c, d).nudge = c.nudge
         /\ Clocked(c, d).latency = c.latency
<1>1. /\ "internal" \in Modes /\ NoSource \in Sources /\ 0 \in Devices
      /\ \A kind \in InCore : SourceModes[kind] \in Modes /\ kind \in Sources /\ kind # NoSource
      /\ \A kind \in ClockKinds \ InCore : LocalModes[kind] \in Modes
  BY HostAssumption DEF Modes, Sources, Devices, ClockKinds, InCore
<1>2. d.clock \in ClockKinds /\ d.device \in Devices
  BY DesireFields
<1>3. \A mode \in Modes, k \in Controls :
        /\ Unsourced(k, mode) \in Controls
        /\ Unsourced(k, mode).source = NoSource /\ Unsourced(k, mode).mode = mode
        /\ Unsourced(k, mode).pair = k.pair /\ Unsourced(k, mode).pattern = k.pattern
        /\ Unsourced(k, mode).playing = k.playing /\ Unsourced(k, mode).nudge = k.nudge
        /\ Unsourced(k, mode).latency = k.latency
  BY <1>1 DEF Unsourced, Controls
<1>4. CASE d.clock \notin InCore
  <2>1. d.clock \notin Failing
    BY <1>4, HostAssumption
  <2>2. Clocked(c, d) = Unsourced(c, LocalModes[d.clock]) /\ AfterClock(d).clock = d.clock
    BY <1>4, <2>1, AfterClockIs DEF Clocked
  <2>3. QED
    BY <1>1, <1>2, <1>3, <1>4, <2>2 DEF ClockMatches
<1>5. CASE d.clock \in InCore /\ d.clock \in Failing
  <2>1. Clocked(c, d) = Unsourced(Sourced(c, d.clock), "internal") /\ AfterClock(d).clock = "internal"
    BY <1>5, AfterClockIs DEF Clocked
  <2>2. Sourced(c, d.clock) = [c EXCEPT !.source = NoSource]
    BY <1>5 DEF Sourced
  <2> DEFINE k == Sourced(c, d.clock)
  <2>3. /\ k \in Controls /\ k.pair = c.pair /\ k.pattern = c.pattern
        /\ k.playing = c.playing /\ k.nudge = c.nudge /\ k.latency = c.latency
    BY <1>1, <2>2 DEF Controls
  <2>4. "internal" \notin InCore /\ LocalModes["internal"] = "internal"
    BY HostAssumption
  <2> HIDE DEF k
  <2>5. Clocked(c, d) = Unsourced(k, "internal")
    BY <2>1 DEF k
  <2>6. QED
    BY <1>1, <1>3, <2>1, <2>3, <2>4, <2>5 DEF ClockMatches
<1>6. CASE d.clock \in InCore /\ d.clock \notin Failing
  <2> DEFINE k == [c EXCEPT !.source = d.clock, !.target = 0, !.mode = SourceModes[d.clock]]
  <2>1. k = Sourced(c, d.clock) /\ AfterClock(d).clock = d.clock /\ AfterClock(d).device = d.device
    BY <1>6, AfterClockIs DEF Sourced
  <2>2. /\ k \in Controls /\ k.pair = c.pair /\ k.pattern = c.pattern
        /\ k.playing = c.playing /\ k.nudge = c.nudge /\ k.latency = c.latency
        /\ k.source = d.clock /\ k.target = 0 /\ k.mode = SourceModes[d.clock]
    BY <1>1, <1>6 DEF Controls
  <2> HIDE DEF k
  <2>3. CASE d.device = 0
    BY <1>6, <2>1, <2>2, <2>3 DEF Clocked, ClockMatches
  <2>4. CASE d.device # 0
    <3>1. Clocked(c, d) = [k EXCEPT !.target = d.device]
      BY <1>1, <1>6, <2>1, <2>2, <2>4 DEF Clocked, Aimed
    <3>2. /\ Clocked(c, d) \in Controls /\ Clocked(c, d).pair = k.pair
          /\ Clocked(c, d).pattern = k.pattern /\ Clocked(c, d).playing = k.playing
          /\ Clocked(c, d).nudge = k.nudge /\ Clocked(c, d).latency = k.latency
          /\ Clocked(c, d).source = k.source /\ Clocked(c, d).mode = k.mode
          /\ Clocked(c, d).target = d.device
      BY <1>2, <2>2, <3>1 DEF Controls
    <3>3. QED
      BY <1>6, <2>1, <2>2, <3>2 DEF ClockMatches
  <2>5. QED
    BY <2>3, <2>4
<1>7. QED
  BY <1>4, <1>5, <1>6

-----------------------------------------------------------------------------
(* The control queue *)

LEMMA AskedIsMatches == ComesBackAsAsked <=> (control # NoControl => Matches(control, desired, nudgeTempo))
BY DEF ComesBackAsAsked, Matches, ClockMatches, RestMatches

\* A block that is taken, and what is left.
LEMMA BlockTaken ==
  ASSUME MainTypeOK, NEW what, TakeBlock(what)
  PROVE  /\ Head(blocks) \in Calls \cup Pairs /\ Head(blocks).what = what
         /\ blocks' \in Seq(Calls \cup Pairs)
         /\ 1 \in DOMAIN blocks /\ Head(blocks) = blocks[1]
         /\ \A i \in DOMAIN blocks' : i + 1 \in DOMAIN blocks /\ blocks'[i] = blocks[i + 1]
<1>1. blocks \in Seq(Calls \cup Pairs) /\ blocks # <<>> /\ blocks' = Tail(blocks)
  BY DEF MainTypeOK, TakeBlock
<1>2. QED
  BY <1>1 DEF TakeBlock

\* What is asked for is kept, and the control half has it if there is one.
LEMMA AskKeeps ==
  ASSUME QueueTypeOK, ComesBackAsAsked, NEW d \in Desires, NEW c, NEW at \in Tempos,
         desired' = d, control' = IF control = NoControl THEN control ELSE c,
         nudgeTempo' = at,
         control # NoControl => c \in Controls /\ c.pair = control.pair /\ Matches(c, d, at)
  PROVE  QueueTypeOK' /\ ComesBackAsAsked' /\ control'.pair = control.pair
<1>1. control = NoControl => control' = NoControl
  OBVIOUS
<1>2. control # NoControl => control' = c
  OBVIOUS
<1>3. QueueTypeOK'
  BY <1>1, <1>2 DEF QueueTypeOK
<1>4. Matches(control, desired, nudgeTempo)' <=> Matches(control', d, at)
  OBVIOUS
<1>5. control' # NoControl => Matches(control', d, at)
  BY <1>1, <1>2
<1>6. ComesBackAsAsked'
  BY <1>5 DEF ComesBackAsAsked, Matches, ClockMatches, RestMatches
<1>7. QED
  BY <1>1, <1>2, <1>3, <1>6

LEMMA BlocksKeepAsked ==
  ASSUME HostTypeOK, ComesBackAsAsked,
         LoadPattern \/ SetPlaying \/ SetLatency \/ FollowDevice \/ SetNudge \/ SetClock
  PROVE  QueueTypeOK' /\ ComesBackAsAsked' /\ control'.pair = control.pair
<1> DEFINE v == Head(blocks).value
<1>1. /\ QueueTypeOK /\ MainTypeOK /\ desired \in Desires /\ nudgeTempo \in Tempos
      /\ control # NoControl => control \in Controls /\ Matches(control, desired, nudgeTempo)
  BY AskedIsMatches DEF HostTypeOK, QueueTypeOK
<1>2. CASE LoadPattern
  <2>1. v \in PatternTempos
    BY <1>1, <1>2, BlockTaken, CallValues DEF LoadPattern
  <2>2. /\ desired' = [desired EXCEPT !.pattern = v]
        /\ control' = IF control = NoControl THEN control ELSE WithPattern(control, v)
        /\ nudgeTempo' = nudgeTempo
    BY <1>2 DEF LoadPattern, Ask
  <2>3. v \in Patterns
    BY <2>1 DEF Patterns
  <2>4. [desired EXCEPT !.pattern = v] \in Desires
    BY <1>1, <2>3 DEF Desires
  <2> HIDE DEF v
  <2>5. QED
    BY <1>1, <2>1, <2>2, <2>4, PatternAsked, AskKeeps
<1>3. CASE SetPlaying
  <2>1. v \in BOOLEAN
    BY <1>1, <1>3, BlockTaken, CallValues DEF SetPlaying
  <2>2. /\ desired' = [desired EXCEPT !.playing = v]
        /\ control' = IF control = NoControl THEN control ELSE [control EXCEPT !.playing = v]
        /\ nudgeTempo' = nudgeTempo
    BY <1>3 DEF SetPlaying, Ask
  <2>3. [desired EXCEPT !.playing = v] \in Desires
    BY <1>1, <2>1 DEF Desires
  <2> HIDE DEF v
  <2>4. QED
    BY <1>1, <2>1, <2>2, <2>3, PlayingAsked, AskKeeps
<1>4. CASE SetLatency
  <2>1. v \in Outputs
    BY <1>1, <1>4, BlockTaken, CallValues DEF SetLatency
  <2>2. /\ desired' = [desired EXCEPT !.latency = v]
        /\ control' = IF control = NoControl THEN control ELSE [control EXCEPT !.latency = v]
        /\ nudgeTempo' = nudgeTempo
    BY <1>4 DEF SetLatency, Ask
  <2>3. [desired EXCEPT !.latency = v] \in Desires
    BY <1>1, <2>1 DEF Desires, Latencies
  <2> HIDE DEF v
  <2>4. QED
    BY <1>1, <2>1, <2>2, <2>3, LatencyAsked, AskKeeps
<1>5. CASE FollowDevice
  <2>1. v \in Devices
    BY <1>1, <1>5, BlockTaken, CallValues DEF FollowDevice
  <2>2. /\ desired' = [desired EXCEPT !.device = v]
        /\ control' = IF control = NoControl THEN control ELSE Aimed(control, v)
        /\ nudgeTempo' = nudgeTempo
    BY <1>5 DEF FollowDevice, Ask
  <2>3. [desired EXCEPT !.device = v] \in Desires
    BY <1>1, <2>1 DEF Desires
  <2> HIDE DEF v
  <2>4. QED
    BY <1>1, <2>1, <2>2, <2>3, DeviceAsked, AskKeeps
<1>6. CASE SetNudge
  <2>1. v \in Nudge
    BY <1>1, <1>6, BlockTaken, CallValues DEF SetNudge
  <2>2. /\ desired' = [desired EXCEPT !.nudge = v]
        /\ control' = IF control = NoControl THEN control ELSE Nudged(control, v)
        /\ nudgeTempo' = IF control = NoControl THEN nudgeTempo ELSE control.tempo
    BY <1>6 DEF SetNudge, Ask
  <2>3. [desired EXCEPT !.nudge = v] \in Desires
    BY <1>1, <2>1 DEF Desires
  <2>4. nudgeTempo' \in Tempos
    BY <1>1, <2>2, ControlFields
  <2> HIDE DEF v
  <2>5. ASSUME control # NoControl
        PROVE  /\ Nudged(control, v) \in Controls /\ Nudged(control, v).pair = control.pair
               /\ Matches(Nudged(control, v), [desired EXCEPT !.nudge = v], nudgeTempo')
    BY <1>1, <2>1, <2>2, <2>5, NudgedIs, NudgeAsked
  <2>6. QED
    BY <1>1, <2>2, <2>3, <2>4, <2>5, AskKeeps
<1>7. CASE SetClock
  <2>1. v \in ClockKinds
    BY <1>1, <1>7, BlockTaken, CallValues DEF SetClock
  <2> DEFINE d == [desired EXCEPT !.clock = v]
  <2>2. /\ desired' = IF control = NoControl \/ Runs(d) THEN d ELSE AfterClock(d)
        /\ control' = IF control = NoControl THEN control ELSE Clocked(control, d)
        /\ nudgeTempo' = nudgeTempo
    BY <1>7 DEF SetClock
  <2>3. /\ d \in Desires /\ d.playing = desired.playing /\ d.pattern = desired.pattern
        /\ d.latency = desired.latency /\ d.nudge = desired.nudge
    BY <1>1, <2>1 DEF Desires
  <2>4. Runs(d) => AfterClock(d) = d
    BY DEF AfterClock
  <2> DEFINE e == IF control = NoControl \/ Runs(d) THEN d ELSE AfterClock(d)
             c == Clocked(control, d)
  <2> HIDE DEF d, v
  <2>5. e \in Desires
    BY <2>3, AfterClockIs
  <2>6. ASSUME control # NoControl
        PROVE  /\ c \in Controls /\ c.pair = control.pair
               /\ Matches(c, e, nudgeTempo)
    <3>1. /\ e = AfterClock(d) /\ control \in Controls
          /\ RestMatches(control, desired, nudgeTempo)
      BY <1>1, <2>4, <2>6 DEF Matches
    <3>2. /\ c \in Controls /\ ClockMatches(c, AfterClock(d))
          /\ c.pair = control.pair /\ c.pattern = control.pattern /\ c.playing = control.playing
          /\ c.nudge = control.nudge /\ c.latency = control.latency
      BY <2>3, <3>1, ClockedMatches
    <3>3. /\ e.pattern = desired.pattern /\ e.playing = desired.playing
          /\ e.nudge = desired.nudge /\ e.latency = desired.latency
      BY <2>3, <3>1, AfterClockIs
    <3> HIDE DEF c, e
    <3>4. RestMatches(c, e, nudgeTempo)
      BY <3>1, <3>2, <3>3 DEF RestMatches
    <3>5. QED
      BY <3>1, <3>2, <3>4 DEF Matches
  <2>7. desired' = e /\ control' = IF control = NoControl THEN control ELSE c
    BY <2>2
  <2> HIDE DEF c, e
  <2>8. QED
    BY <1>1, <2>2, <2>5, <2>6, <2>7, AskKeeps
<1>8. QED
  BY <1>2, <1>3, <1>4, <1>5, <1>6, <1>7

\* The new control half of rebuildPair is what was asked for before.
LEMMA ReplaceKeepsAsked ==
  ASSUME HostTypeOK, ReplaceControl
  PROVE  /\ QueueTypeOK' /\ ComesBackAsAsked'
         /\ control'.pair = Head(blocks).value /\ waiting' \in Waits
<1> DEFINE p == Head(blocks).value
<1>1. desired \in Desires /\ MainTypeOK
  BY DEF HostTypeOK, QueueTypeOK
<1>2. p \in Nat \ {0}
  BY <1>1, BlockTaken, CallsAreNoPairs DEF ReplaceControl
<1> HIDE DEF p
<1>3. NewControl(p) \in Controls
  <2>1. /\ "internal" \in Modes /\ NoSource \in Sources /\ NoSource \in Latencies
        /\ 0 \in Devices /\ 0 \in Patterns /\ 120 \in Tempos /\ 0 \in Nudge
    BY HostAssumption DEF Modes, Sources, Latencies, Devices, Patterns, Tempos, Nudge
  <2> DEFINE N == [ms : Nudge, at : Tempos]
             n == [ms |-> 0, at |-> 120]
  <2>2. n \in N
    BY <2>1
  <2>3. Controls = [pair : Nat \ {0}, pattern : Patterns, playing : BOOLEAN, mode : Modes, source : Sources,
                    target : Devices, tempo : Tempos, nudge : N, latency : Latencies]
    BY DEF Controls
  <2>4. NewControl(p) = [pair |-> p, pattern |-> 0, playing |-> FALSE, mode |-> "internal",
                         source |-> NoSource, target |-> 0, tempo |-> 120, nudge |-> n,
                         latency |-> NoSource]
    BY DEF NewControl
  <2> HIDE DEF N, n
  <2>5. QED
    BY <1>2, <2>1, <2>2, <2>3, <2>4
<1>4. NewControl(p).pair = p /\ NewControl(p).pattern = 0
  BY DEF NewControl
<1>5. /\ Patterned(p) \in Controls /\ Patterned(p).pair = p
      /\ Patterned(p).pattern = desired.pattern
  <2>1. CASE desired.pattern = 0
    BY <1>3, <1>4, <2>1 DEF Patterned, WithPattern
  <2>2. CASE desired.pattern # 0
    <3>1. desired.pattern \in Patterns /\ desired.pattern \in Tempos
      BY <1>1, <2>2, DesireFields DEF Patterns, Tempos
    <3> DEFINE k == NewControl(p)
    <3>2. (IF k.mode = "internal" THEN desired.pattern ELSE k.tempo) \in Tempos
      BY <1>3, <3>1, ControlFields
    <3>3. Patterned(p) = [k EXCEPT !.pattern = desired.pattern,
                                   !.tempo = IF k.mode = "internal" THEN desired.pattern ELSE k.tempo]
      BY <1>3, <2>2 DEF Patterned, WithPattern, Controls
    <3>4. k \in Controls /\ k.pair = p
      BY <1>3, <1>4
    <3> HIDE DEF k
    <3>5. QED
      BY <3>1, <3>2, <3>3, <3>4 DEF Controls
  <2>3. QED
    BY <2>1, <2>2
<1> DEFINE at == Patterned(p).tempo
           n == Nudged(Patterned(p), desired.nudge)
           c == [n EXCEPT !.latency = desired.latency]
<1>6. /\ n \in Controls /\ n.pair = p /\ n.pattern = desired.pattern
      /\ n.nudge.ms = desired.nudge /\ n.nudge.at = at /\ at \in Tempos
  <2>1. desired.nudge \in Nudge /\ at \in Tempos
    BY <1>1, <1>5, DesireFields, ControlFields
  <2>2. QED
    BY <1>5, <2>1, NudgedIs
<1> HIDE DEF at, n
<1>7. /\ c \in Controls /\ c.pair = p /\ c.pattern = desired.pattern
      /\ c.nudge = n.nudge /\ c.latency = desired.latency
  BY <1>1, <1>6, DesireFields DEF Controls
<1> HIDE DEF c
<1> DEFINE k == Clocked(c, desired)
           d == AfterClock(desired)
<1>8. /\ k \in Controls /\ ClockMatches(k, d)
      /\ k.pair = p /\ k.pattern = desired.pattern /\ k.nudge = n.nudge /\ k.latency = desired.latency
  BY <1>1, <1>7, ClockedMatches
<1> HIDE DEF k
<1> DEFINE e == [k EXCEPT !.playing = desired.playing]
<1>9. /\ e \in Controls /\ e.pair = k.pair /\ e.pattern = k.pattern /\ e.nudge = k.nudge
      /\ e.latency = k.latency /\ e.playing = desired.playing
      /\ e.source = k.source /\ e.mode = k.mode /\ e.target = k.target
  BY <1>1, <1>8, DesireFields DEF Controls
<1>10. control' = e /\ desired' = d /\ nudgeTempo' = at
  BY DEF ReplaceControl, Restored, p, at, n, c, k, e, d
<1>11. /\ d \in Desires /\ d.pattern = desired.pattern /\ d.playing = desired.playing
       /\ d.nudge = desired.nudge /\ d.latency = desired.latency
  BY <1>1, AfterClockIs
<1> HIDE DEF e, d
<1>12. Matches(e, d, at)
  BY <1>6, <1>8, <1>9, <1>11 DEF Matches, ClockMatches, RestMatches
<1>13. QueueTypeOK'
  BY <1>6, <1>9, <1>10, <1>11 DEF QueueTypeOK
<1>14. ComesBackAsAsked'
  BY <1>10, <1>12 DEF ComesBackAsAsked, Matches, ClockMatches, RestMatches
<1>15. waiting' \in Waits
  <2>1. Runs(desired) \in BOOLEAN /\ desired.clock \in ClockKinds
    BY <1>1, DesireFields DEF Runs
  <2>2. waiting' = [waiting EXCEPT !.back = TRUE, !.kind = desired.clock, !.ok = Runs(desired)]
    BY DEF ReplaceControl
  <2>3. waiting \in Waits
    BY <1>1 DEF MainTypeOK
  <2> DEFINE A == Seq(Calls)
             K == {NoSource} \cup ClockKinds
  <2>4. Waits = [sync : BOOLEAN, back : BOOLEAN, kind : K, ok : BOOLEAN, after : A]
    BY DEF Waits
  <2>5. desired.clock \in K
    BY <2>1
  <2> HIDE DEF A, K
  <2>6. QED
    BY <2>1, <2>2, <2>3, <2>4, <2>5
<1>16. control'.pair = p
  BY <1>8, <1>9, <1>10
<1>17. QED
  BY <1>13, <1>14, <1>15, <1>16 DEF p

LEMMA TickKeepsAsked ==
  ASSUME HostTypeOK, ComesBackAsAsked, TimerTick
  PROVE  QueueTypeOK' /\ ComesBackAsAsked' /\ control'.pair = control.pair
<1>1. /\ control \in Controls /\ desired \in Desires /\ nudgeTempo \in Tempos
      /\ Matches(control, desired, nudgeTempo)
  BY AskedIsMatches DEF HostTypeOK, QueueTypeOK, TimerTick
<1>2. PICK bpm \in PatternTempos \cup {control.tempo}, sixth \in BOOLEAN :
        LET c == [control EXCEPT !.tempo = bpm]
            renudge == sixth /\ desired.nudge # 0 /\ bpm # nudgeTempo
        IN /\ control' = IF renudge THEN Nudged(c, desired.nudge) ELSE c
           /\ nudgeTempo' = IF renudge THEN bpm ELSE nudgeTempo
  BY DEF TimerTick
<1> DEFINE c == [control EXCEPT !.tempo = bpm]
           renudge == sixth /\ desired.nudge # 0 /\ bpm # nudgeTempo
<1>3. bpm \in Tempos
  BY <1>1, ControlFields DEF Tempos
<1>4. /\ c \in Controls /\ c.pair = control.pair /\ c.tempo = bpm /\ c.nudge = control.nudge
      /\ c.pattern = control.pattern /\ c.playing = control.playing /\ c.latency = control.latency
      /\ c.source = control.source /\ c.mode = control.mode /\ c.target = control.target
  BY <1>1, <1>3 DEF Controls
<1>5. /\ control' = IF renudge THEN Nudged(c, desired.nudge) ELSE c
      /\ nudgeTempo' = IF renudge THEN bpm ELSE nudgeTempo
      /\ desired' = desired
  BY <1>2 DEF TimerTick
<1> HIDE DEF c
<1>6. CASE renudge
  <2> DEFINE n == Nudged(c, desired.nudge)
  <2>1. /\ n \in Controls /\ n.pair = c.pair /\ n.nudge.ms = desired.nudge /\ n.nudge.at = bpm
        /\ n.pattern = c.pattern /\ n.playing = c.playing /\ n.latency = c.latency
        /\ n.source = c.source /\ n.mode = c.mode /\ n.target = c.target
    <3>1. desired.nudge \in Nudge
      BY <1>1, DesireFields
    <3>2. QED
      BY <1>4, <3>1, NudgedIs
  <2>2. control' = n /\ nudgeTempo' = bpm
    BY <1>5, <1>6
  <2> HIDE DEF n
  <2>3. Matches(n, desired, bpm)
    BY <1>1, <1>4, <2>1 DEF Matches, ClockMatches, RestMatches
  <2>4. ComesBackAsAsked'
    BY <1>5, <2>2, <2>3 DEF ComesBackAsAsked, Matches, ClockMatches, RestMatches
  <2>5. QED
    BY <1>1, <1>3, <1>4, <1>5, <2>1, <2>2, <2>4 DEF QueueTypeOK
<1>7. CASE ~renudge
  <2>1. control' = c /\ nudgeTempo' = nudgeTempo
    BY <1>5, <1>7
  <2>2. Matches(c, desired, nudgeTempo)
    BY <1>1, <1>4 DEF Matches, ClockMatches, RestMatches
  <2>3. ComesBackAsAsked'
    BY <1>5, <2>1, <2>2 DEF ComesBackAsAsked, Matches, ClockMatches, RestMatches
  <2>4. QED
    BY <1>1, <1>4, <1>5, <2>1, <2>3 DEF QueueTypeOK
<1>8. QED
  BY <1>6, <1>7

-----------------------------------------------------------------------------
(* The main thread *)

Blocks == Calls \cup Pairs

\* Calls put at the end bring no block of rebuildPair.
LEMMA CallsAppended ==
  ASSUME NEW s \in Seq(Blocks), NEW t \in Seq(Calls)
  PROVE  /\ s \o t \in Seq(Blocks)
         /\ \A i \in DOMAIN (s \o t) : (s \o t)[i].what = "pair" => i \in DOMAIN s /\ (s \o t)[i] = s[i]
<1>1. t \in Seq(Blocks)
  BY DEF Blocks
<1>2. \A i \in DOMAIN (s \o t) :
        \/ i \in DOMAIN s /\ (s \o t)[i] = s[i]
        \/ i - Len(s) \in DOMAIN t /\ (s \o t)[i] = t[i - Len(s)]
  BY <1>1
<1>3. \A j \in DOMAIN t : t[j].what # "pair"
  BY CallsAreNoPairs
<1>4. QED
  BY <1>1, <1>2, <1>3

\* What the queue of calls grows by changes nothing about the pair.
LEMMA BlockInvGrows ==
  ASSUME MainTypeOK, BlockInv, NEW t \in Seq(Calls), blocks' = blocks \o t,
         UNCHANGED <<waiting, halves, control>>
  PROVE  blocks' \in Seq(Blocks) /\ BlockInv'
<1>1. blocks \in Seq(Blocks)
  BY DEF MainTypeOK, Blocks
<1>2. /\ blocks' \in Seq(Blocks)
      /\ \A i \in DOMAIN blocks' : blocks'[i].what = "pair" => i \in DOMAIN blocks /\ blocks'[i] = blocks[i]
  BY <1>1, CallsAppended
<1>3. QED
  BY <1>2 DEF BlockInv, IsPair

\* What starting the engine leaves on the control queue.
LEMMA EngineStarted ==
  ASSUME MainTypeOK, NEW p \in Nat, NEW o \in Outputs, NEW ok \in BOOLEAN, NEW after \in Seq(Calls),
         StartEngine(p, o, ok, after)
  PROVE  /\ \E t \in Seq(Calls) : blocks' = blocks \o t
         /\ graph' \in [runs : BOOLEAN, node : Nat]
         /\ graph'.runs = ok /\ graph'.node = p
         /\ ok => ~interrupted
<1> DEFINE first == IF ok THEN <<Block("latency", o)>> ELSE <<>>
<1>1. first \in Seq(Calls)
  BY BlocksAre
<1>2. blocks' = (blocks \o first) \o after
  BY DEF StartEngine
<1> HIDE DEF first
<1>3. blocks \in Seq(Blocks) /\ after \in Seq(Blocks) /\ first \in Seq(Blocks)
  BY <1>1 DEF MainTypeOK, Blocks
<1>4. first \o after \in Seq(Calls) /\ blocks' = blocks \o (first \o after)
  BY <1>1, <1>2, <1>3
<1>5. QED
  BY <1>4 DEF StartEngine

LEMMA StartAudioKeeps ==
  ASSUME HostTypeOK, LiveInv, BlockInv, GraphInv, Idle,
         NEW o \in Outputs, NEW forced \in BOOLEAN, NEW after \in Seq(Calls),
         StartAudio(o, forced, after), output' = o, UNCHANGED <<interrupted, control, rendering>>
  PROVE  MainTypeOK' /\ LiveInv' /\ BlockInv' /\ GraphInv'
<1>1. /\ MainTypeOK /\ blocks \in Seq(Blocks) /\ waiting \in Waits /\ ~waiting.sync /\ ~waiting.back
      /\ graph \in [runs : BOOLEAN, node : Nat]
      /\ halves \in [pair : Nat, rate : Nat, made : Nat, live : SUBSET Nat]
      /\ control.pair = halves.pair
  BY DEF HostTypeOK, MainTypeOK, Blocks, Idle, BlockInv
<1>2. wanted' = TRUE
  BY DEF StartAudio
<1>3. CASE /\ interrupted /\ blocks' = blocks \o after /\ UNCHANGED <<graph, halves, waiting>>
  <2>1. blocks' \in Seq(Blocks) /\ BlockInv'
    BY <1>1, <1>3, BlockInvGrows
  <2>2. ~graph.runs
    BY <1>3 DEF GraphInv
  <2>3. QED
    BY <1>1, <1>2, <1>3, <2>1, <2>2 DEF MainTypeOK, LiveInv, GraphInv, Blocks
<1>4. CASE /\ graph' = [runs |-> FALSE, node |-> NoPair] /\ blocks' = blocks \o after
           /\ UNCHANGED <<halves, waiting>>
  <2>1. blocks' \in Seq(Blocks) /\ BlockInv'
    BY <1>1, <1>4, BlockInvGrows
  <2>2. graph' \in [runs : BOOLEAN, node : Nat] /\ ~graph'.runs
    BY <1>4 DEF NoPair
  <2>3. QED
    BY <1>1, <1>2, <1>4, <2>1, <2>2 DEF MainTypeOK, LiveInv, GraphInv, Blocks
<1>5. CASE /\ RateOf[o] # 0
           /\ graph' = [runs |-> FALSE, node |-> NoPair]
           /\ halves' = [pair |-> halves.made + 1, rate |-> RateOf[o], made |-> halves.made + 1,
                         live |-> halves.live \cup {halves.made + 1}]
           /\ blocks' = Append(blocks, Block("pair", halves.made + 1))
           /\ waiting' = [NotWaiting EXCEPT !.sync = TRUE, !.after = after]
  <2> DEFINE p == halves.made + 1
             b == Block("pair", p)
  <2>1. p \in Nat \ {0} /\ b \in Pairs /\ b.what = "pair" /\ b.value = p
    <3>1. p \in Nat \ {0}
      BY <1>1
    <3>2. QED
      BY <3>1, BlocksAre DEF Block
  <2>2. graph' \in [runs : BOOLEAN, node : Nat] /\ ~graph'.runs
    BY <1>5 DEF NoPair
  <2>3. /\ halves' \in [pair : Nat, rate : Nat, made : Nat, live : SUBSET Nat]
        /\ halves'.pair = p /\ halves'.rate = RateOf[o] /\ halves'.live = halves.live \cup {p}
    <3>1. RateOf[o] \in Nat
      BY HostAssumption
    <3> HIDE DEF p
    <3>2. QED
      BY <1>1, <1>5, <2>1, <3>1 DEF p
  <2>4. waiting' \in Waits /\ waiting'.sync /\ ~waiting'.back
    <3>1. waiting' = [sync |-> TRUE, back |-> FALSE, kind |-> NoSource, ok |-> TRUE, after |-> after]
      BY <1>5 DEF NotWaiting
    <3>2. QED
      BY <3>1 DEF Waits
  <2>5. \A i \in DOMAIN blocks : blocks[i].what # "pair"
    BY <1>1 DEF BlockInv, IsPair
  <2>6. blocks' = Append(blocks, b) /\ b \in Blocks
    BY <1>5, <2>1 DEF Blocks
  <2> HIDE DEF b, p
  <2>7. /\ blocks' \in Seq(Blocks)
        /\ \A i \in DOMAIN blocks' : blocks'[i].what = "pair" => i = Len(blocks) + 1
        /\ Len(blocks) + 1 \in DOMAIN blocks' /\ blocks'[Len(blocks) + 1] = b
    BY <1>1, <2>5, <2>6
  <2>8. BlockInv'
    BY <2>1, <2>3, <2>4, <2>7 DEF BlockInv, IsPair
  <2>9. MainTypeOK'
    BY <1>2, <2>2, <2>3, <2>4, <2>7 DEF MainTypeOK, Blocks
  <2>10. QED
    BY <1>2, <2>1, <2>2, <2>3, <2>8, <2>9 DEF LiveInv, GraphInv, NoPair
<1>6. CASE /\ ~interrupted /\ halves.pair # NoPair /\ halves.rate = RateOf[o]
           /\ \E ok \in BOOLEAN : StartEngine(halves.pair, o, ok, after)
           /\ UNCHANGED <<halves, waiting>>
  <2>1. PICK ok \in BOOLEAN : StartEngine(halves.pair, o, ok, after)
    BY <1>6
  <2>2. halves.pair \in Nat
    BY <1>1
  <2>3. PICK t \in Seq(Calls) : blocks' = blocks \o t
    BY <1>1, <2>1, <2>2, EngineStarted
  <2>4. graph' \in [runs : BOOLEAN, node : Nat] /\ graph'.node = halves.pair
    BY <1>1, <2>1, <2>2, EngineStarted
  <2>5. blocks' \in Seq(Blocks) /\ BlockInv'
    BY <1>1, <1>6, <2>3, BlockInvGrows
  <2>6. QED
    BY <1>1, <1>2, <1>6, <2>4, <2>5 DEF MainTypeOK, LiveInv, GraphInv, Blocks
<1>7. QED
  BY <1>3, <1>4, <1>5, <1>6 DEF StartAudio

LEMMA GoOnKeeps ==
  ASSUME HostTypeOK, LiveInv, BlockInv, GraphInv, GoOn
  PROVE  MainTypeOK' /\ LiveInv' /\ BlockInv' /\ GraphInv'
<1>1. /\ MainTypeOK /\ blocks \in Seq(Blocks) /\ waiting \in Waits /\ waiting.sync /\ waiting.back
      /\ halves \in [pair : Nat, rate : Nat, made : Nat, live : SUBSET Nat] /\ wanted \in BOOLEAN
      /\ output \in Outputs
      /\ control.pair = halves.pair
  BY DEF HostTypeOK, MainTypeOK, Blocks, BlockInv, GoOn
<1>2. waiting.after \in Seq(Calls) /\ halves.pair \in Nat
  BY <1>1 DEF Waits
<1>3. PICK ok \in BOOLEAN : StartEngine(halves.pair, output, ok, waiting.after)
  BY DEF GoOn
<1>4. PICK t \in Seq(Calls) : blocks' = blocks \o t
  BY <1>1, <1>2, <1>3, EngineStarted
<1>5. /\ graph' \in [runs : BOOLEAN, node : Nat] /\ graph'.node = halves.pair
      /\ graph'.runs => ~interrupted
  BY <1>1, <1>2, <1>3, EngineStarted
<1>6. /\ blocks' \in Seq(Blocks)
      /\ \A i \in DOMAIN blocks' : blocks'[i].what = "pair" => i \in DOMAIN blocks /\ blocks'[i] = blocks[i]
  BY <1>1, <1>4, CallsAppended
<1>7. waiting' = NotWaiting /\ UNCHANGED <<halves, wanted, control, output, interrupted, rendering>>
  BY DEF GoOn, systemVars, queueVars
<1>8. waiting' \in Waits /\ ~waiting'.sync /\ ~waiting'.back
  BY <1>7 DEF NotWaiting, Waits
<1>9. BlockInv'
  BY <1>1, <1>6, <1>7, <1>8 DEF BlockInv, IsPair
<1>10. MainTypeOK'
  BY <1>1, <1>5, <1>6, <1>7, <1>8 DEF MainTypeOK, Blocks
<1>11. QED
  BY <1>1, <1>5, <1>7, <1>8, <1>9, <1>10 DEF LiveInv, GraphInv

LEMMA EnqueueKeeps ==
  ASSUME HostTypeOK, LiveInv, BlockInv, GraphInv, NEW b \in Calls, Enqueue(b),
         UNCHANGED <<control, rendering>>
  PROVE  MainTypeOK' /\ LiveInv' /\ BlockInv' /\ GraphInv'
<1>1. UNCHANGED <<graph, halves, wanted, waiting, output, interrupted>> /\ blocks' = Append(blocks, b)
  BY DEF Enqueue, mainVars, systemVars
<1>2. MainTypeOK /\ blocks \in Seq(Blocks) /\ b \in Blocks
  BY DEF HostTypeOK, MainTypeOK, Blocks
<1>3. <<b>> \in Seq(Calls) /\ blocks' = blocks \o <<b>>
  BY <1>1, <1>2
<1>4. blocks' \in Seq(Blocks) /\ BlockInv'
  BY <1>1, <1>2, <1>3, BlockInvGrows
<1>5. QED
  BY <1>1, <1>2, <1>4 DEF MainTypeOK, LiveInv, GraphInv, Blocks

LEMMA EnsureAudioKeeps ==
  ASSUME HostTypeOK, LiveInv, BlockInv, GraphInv, Idle, NEW b \in Calls, EnsureAudio(b),
         UNCHANGED <<control, rendering>>
  PROVE  MainTypeOK' /\ LiveInv' /\ BlockInv' /\ GraphInv' /\ UNCHANGED systemVars
<1>1. CASE Enqueue(b)
  BY <1>1, EnqueueKeeps DEF Enqueue
<1>2. CASE StartAudio(output, FALSE, <<b>>) /\ UNCHANGED systemVars
  <2>1. output \in Outputs /\ <<b>> \in Seq(Calls) /\ output' = output /\ UNCHANGED interrupted
    BY <1>2 DEF HostTypeOK, systemVars
  <2>2. QED
    BY <1>2, <2>1, StartAudioKeeps
<1>3. QED
  BY <1>1, <1>2 DEF EnsureAudio

-----------------------------------------------------------------------------
(* The steps *)

\* What the control queue does with a block other than that of rebuildPair.
LEMMA OtherBlocksKeepPair ==
  ASSUME HostTypeOK, LiveInv, BlockInv, GraphInv, NEW what, TakeBlock(what), what # "pair",
         UNCHANGED <<systemVars, mainVars, rendering>>, control'.pair = control.pair
  PROVE  MainTypeOK' /\ LiveInv' /\ BlockInv' /\ GraphInv'
<1>1. /\ MainTypeOK /\ blocks' \in Seq(Calls \cup Pairs)
      /\ \A i \in DOMAIN blocks' : i + 1 \in DOMAIN blocks /\ blocks'[i] = blocks[i + 1]
  BY BlockTaken DEF HostTypeOK
<1>2. blocks' \in Seq(Calls \cup Pairs) /\ DOMAIN blocks' \subseteq Nat
  BY <1>1
<1>3. BlockInv'
  BY <1>1, <1>2 DEF BlockInv, IsPair, mainVars
<1>4. QED
  BY <1>1, <1>3 DEF MainTypeOK, LiveInv, GraphInv, mainVars, systemVars

LEMMA ReplaceKeepsPair ==
  ASSUME HostTypeOK, LiveInv, BlockInv, GraphInv, ReplaceControl
  PROVE  MainTypeOK' /\ LiveInv' /\ BlockInv' /\ GraphInv'
<1>1. /\ MainTypeOK /\ TakeBlock("pair")
      /\ UNCHANGED <<graph, halves, wanted, output, interrupted, rendering>>
  BY DEF HostTypeOK, ReplaceControl, systemVars
<1>2. /\ Head(blocks).what = "pair" /\ 1 \in DOMAIN blocks /\ Head(blocks) = blocks[1]
      /\ blocks' \in Seq(Calls \cup Pairs)
      /\ \A i \in DOMAIN blocks' : i + 1 \in DOMAIN blocks /\ blocks'[i] = blocks[i + 1]
  BY <1>1, BlockTaken
<1>3. waiting.sync /\ ~waiting.back /\ Head(blocks).value = halves.pair
  BY <1>2 DEF BlockInv, IsPair
<1>4. control'.pair = halves.pair /\ waiting' \in Waits
  BY <1>3, ReplaceKeepsAsked
<1>5. waiting'.back /\ waiting'.sync
  BY <1>1, <1>3 DEF ReplaceControl, MainTypeOK, Waits
<1>6. ASSUME NEW i \in DOMAIN blocks', IsPair(i)'
      PROVE  FALSE
  <2>1. i \in Nat /\ i > 0
    BY <1>2
  <2>2. i + 1 \in DOMAIN blocks /\ IsPair(i + 1) /\ IsPair(1) /\ i + 1 # 1
    BY <1>2, <1>6, <2>1 DEF IsPair
  <2>3. QED
    BY <1>2, <2>2 DEF BlockInv
<1>7. BlockInv'
  BY <1>1, <1>4, <1>5, <1>6 DEF BlockInv
<1>8. QED
  BY <1>1, <1>2, <1>3, <1>4, <1>5, <1>7 DEF MainTypeOK, LiveInv, GraphInv

\* Steps that move none of it but the engine's own stop, what is shown and
\* what the interface is told.
LEMMA RestKeeps ==
  ASSUME HostTypeOK, LiveInv, BlockInv, GraphInv,
         UNCHANGED <<halves, wanted, waiting, blocks, control, rendering>>,
         graph' = graph \/ (graph' \in [runs : BOOLEAN, node : Nat] /\ ~graph'.runs),
         graph'.runs => ~interrupted',
         graph'.runs \/ waiting.sync => RateOf[output'] = RateOf[output]
  PROVE  MainTypeOK' /\ LiveInv' /\ BlockInv' /\ GraphInv'
<1>1. MainTypeOK'
  BY DEF HostTypeOK, MainTypeOK
<1>2. BlockInv'
  BY DEF BlockInv, IsPair
<1>3. LiveInv'
  BY DEF LiveInv
<1>4. GraphInv'
  BY DEF GraphInv
<1>5. QED
  BY <1>1, <1>2, <1>3, <1>4

LEMMA PairStep ==
  ASSUME PairInv, HostNext
  PROVE  MainTypeOK' /\ LiveInv' /\ BlockInv' /\ GraphInv'
<1>0. /\ HostTypeOK /\ LiveInv /\ BlockInv /\ GraphInv /\ MainTypeOK
      /\ graph \in [runs : BOOLEAN, node : Nat] /\ output \in Outputs /\ waiting \in Waits
      /\ halves \in [pair : Nat, rate : Nat, made : Nat, live : SUBSET Nat]
  BY DEF PairInv, HostTypeOK, MainTypeOK
<1>1. CASE LoadPattern \/ SetPlaying \/ SetLatency \/ FollowDevice \/ SetNudge
  <2>1. UNCHANGED <<systemVars, mainVars, rendering>>
    BY <1>1 DEF LoadPattern, SetPlaying, SetLatency, FollowDevice, SetNudge, Ask
  <2>2. PICK what \in {"pattern", "playing", "latency", "device", "nudge"} : TakeBlock(what)
    BY <1>1 DEF LoadPattern, SetPlaying, SetLatency, FollowDevice, SetNudge
  <2>3. control'.pair = control.pair
    <3>1. CASE control = NoControl
      BY <1>1, <3>1 DEF LoadPattern, SetPlaying, SetLatency, FollowDevice, SetNudge, Ask
    <3>2. CASE control \in Controls
      <4>1. /\ \A plays : [control EXCEPT !.playing = plays].pair = control.pair
            /\ \A ms : [control EXCEPT !.latency = ms].pair = control.pair
            /\ \A v : Aimed(control, v).pair = control.pair
            /\ \A v : WithPattern(control, v).pair = control.pair
            /\ \A v : Nudged(control, v).pair = control.pair
        BY <3>2 DEF Controls, Aimed, WithPattern, Nudged
      <4>2. QED
        BY <1>1, <3>2, <4>1, ControlKinds DEF LoadPattern, SetPlaying, SetLatency, FollowDevice, SetNudge, Ask
    <3>3. QED
      BY <1>0, <3>1, <3>2 DEF HostTypeOK, QueueTypeOK
  <2>4. what # "pair"
    BY <2>2
  <2>5. QED
    BY <1>0, <2>1, <2>2, <2>3, <2>4, OtherBlocksKeepPair
<1>2. CASE SetClock
  <2>1. UNCHANGED <<systemVars, mainVars, rendering>> /\ TakeBlock("clock")
    BY <1>2 DEF SetClock
  <2>2. control'.pair = control.pair
    <3> DEFINE d == [desired EXCEPT !.clock = Head(blocks).value]
    <3>1. Head(blocks).value \in ClockKinds
      BY <1>0, <2>1, BlockTaken, CallValues
    <3>2. d \in Desires
      BY <1>0, <3>1 DEF HostTypeOK, QueueTypeOK, Desires
    <3>3. control' = IF control = NoControl THEN control ELSE Clocked(control, d)
      BY <1>2 DEF SetClock
    <3> HIDE DEF d
    <3>4. QED
      BY <1>0, <3>2, <3>3, ClockedMatches DEF HostTypeOK, QueueTypeOK
  <2>3. QED
    BY <1>0, <2>1, <2>2, OtherBlocksKeepPair
<1>3. CASE ReplaceControl
  BY <1>0, <1>3, ReplaceKeepsPair
<1>4. CASE TimerTick
  <2>1. UNCHANGED <<systemVars, mainVars, blocks, rendering>>
    BY <1>4 DEF TimerTick
  <2>2. control'.pair = control.pair
    <3>1. control \in Controls
      BY <1>0, <1>4 DEF TimerTick, HostTypeOK, QueueTypeOK
    <3>2. \A bpm : [control EXCEPT !.tempo = bpm].pair = control.pair
      BY <3>1 DEF Controls
    <3>3. \A bpm, ms : Nudged([control EXCEPT !.tempo = bpm], ms).pair = control.pair
      BY <3>1 DEF Controls, Nudged
    <3>4. QED
      BY <1>4, <3>2, <3>3 DEF TimerTick
  <2>3. BlockInv'
    BY <1>0, <2>1, <2>2 DEF BlockInv, IsPair, mainVars
  <2>4. QED
    BY <1>0, <2>1, <2>3 DEF MainTypeOK, LiveInv, GraphInv, mainVars, systemVars
<1>5. CASE GoOn
  BY <1>0, <1>5, GoOnKeeps
<1>6. CASE FreeRenderer
  <2>1. PICK r \in halves.live \ {halves.pair, rendering} : halves' = [halves EXCEPT !.live = @ \ {r}]
    BY <1>6 DEF FreeRenderer
  <2>2. /\ halves' \in [pair : Nat, rate : Nat, made : Nat, live : SUBSET Nat]
        /\ halves'.pair = halves.pair /\ halves'.rate = halves.rate
        /\ halves'.live = halves.live \ {r}
    BY <1>0, <2>1
  <2>3. UNCHANGED <<graph, wanted, waiting, blocks, control, output, interrupted, rendering>>
    BY <1>6 DEF FreeRenderer, systemVars, queueVars
  <2>4. BlockInv'
    BY <1>0, <2>2, <2>3 DEF BlockInv, IsPair
  <2>5. QED
    BY <1>0, <2>1, <2>2, <2>3, <2>4 DEF MainTypeOK, LiveInv, GraphInv
<1>7. CASE SelectClock
  <2>1. PICK kind \in ClockKinds : EnsureAudio(Block("clock", kind)) \/ Enqueue(Block("clock", kind))
    BY <1>7 DEF SelectClock
  <2>2. Block("clock", kind) \in Calls
    BY BlocksAre
  <2>3. Idle /\ UNCHANGED <<control, rendering>>
    BY <1>7 DEF SelectClock, Asks, queueVars
  <2>4. QED
    BY <1>0, <2>1, <2>2, <2>3, EnqueueKeeps, EnsureAudioKeeps
<1>8. CASE Play
  <2>1. EnsureAudio(Block("playing", TRUE)) \/ Enqueue(Block("playing", FALSE))
    BY <1>8 DEF Play
  <2>2. Block("playing", TRUE) \in Calls /\ Block("playing", FALSE) \in Calls
    BY BlocksAre
  <2>3. Idle /\ UNCHANGED <<control, rendering>>
    BY <1>8 DEF Play, Asks, queueVars
  <2>4. QED
    BY <1>0, <2>1, <2>2, <2>3, EnqueueKeeps, EnsureAudioKeeps
<1>9. CASE Adjust
  <2>1. PICK b \in Calls : Enqueue(b)
    <3>1. 2 \in Devices /\ Nudges \subseteq Nudge
      BY DEF Devices, Nudge
    <3>2. QED
      BY <1>9, <3>1, BlocksAre DEF Adjust
  <2>2. UNCHANGED <<control, rendering>>
    BY <1>9 DEF Adjust, Asks, queueVars
  <2>3. QED
    BY <1>0, <2>1, <2>2, EnqueueKeeps
<1>10. CASE SetOutputDevice
  <2>1. Idle /\ UNCHANGED <<control, rendering, interrupted>> /\ output' \in Outputs
    BY <1>10 DEF SetOutputDevice, Asks, queueVars
  <2>2. CASE wanted
    <3> <<>> \in Seq(Calls)
      OBVIOUS
    <3>1. StartAudio(output', FALSE, <<>>)
      BY <1>10, <2>2, Zenon DEF SetOutputDevice
    <3>2. \A o : o = output' => MainTypeOK' /\ LiveInv' /\ BlockInv' /\ GraphInv'
      BY <1>0, <2>1, <3>1, StartAudioKeeps
    <3>3. QED
      BY <3>2
  <2>3. CASE ~wanted
    <3>1. UNCHANGED <<mainVars, blocks>>
      BY <1>10, <2>3 DEF SetOutputDevice
    <3>2. ~graph.runs /\ ~waiting.sync
      BY <1>0, <2>3 DEF GraphInv
    <3>3. QED
      BY <1>0, <2>1, <3>1, <3>2, RestKeeps DEF mainVars
  <2>4. QED
    BY <2>2, <2>3
<1>11. CASE HandleConfigurationChange \/ HandleInterruption \/ HandleRouteChange
            \/ HandleMediaServicesReset \/ ClockResult
  <2>1. Idle /\ UNCHANGED <<systemVars, control, rendering>>
    BY <1>11 DEF HandleConfigurationChange, HandleInterruption, HandleRouteChange,
                 HandleMediaServicesReset, ClockResult, Notified, Taken, queueVars
  <2>2. CASE \E forced \in BOOLEAN : StartAudio(output, forced, <<>>)
    <3>1. <<>> \in Seq(Calls) /\ output' = output /\ UNCHANGED interrupted
      BY <2>1 DEF systemVars
    <3>2. QED
      BY <1>0, <2>1, <2>2, <3>1, StartAudioKeeps
  <2>3. CASE HandleRouteChange
    <3>1. UNCHANGED <<graph, halves, wanted, waiting>>
      BY <2>3 DEF HandleRouteChange
    <3>2. CASE UNCHANGED blocks
      BY <1>0, <2>1, <3>1, <3>2, RestKeeps DEF systemVars, GraphInv
    <3>3. CASE blocks' = Append(blocks, Block("latency", output))
      <4>1. <<Block("latency", output)>> \in Seq(Calls) /\ blocks \in Seq(Blocks)
        BY <1>0, BlocksAre DEF MainTypeOK, Blocks
      <4>2. blocks' = blocks \o <<Block("latency", output)>>
        BY <3>3, <4>1
      <4>3. blocks' \in Seq(Blocks) /\ BlockInv'
        BY <1>0, <2>1, <3>1, <4>1, <4>2, BlockInvGrows
      <4>4. QED
        BY <1>0, <2>1, <3>1, <4>3 DEF MainTypeOK, LiveInv, GraphInv, Blocks, systemVars
    <3>4. QED
      BY <2>3, <3>2, <3>3 DEF HandleRouteChange
  <2>4. CASE /\ UNCHANGED <<halves, wanted, waiting, blocks>>
             /\ graph' = graph \/ graph' = [runs |-> FALSE, node |-> NoPair]
    <3>1. graph' = graph \/ (graph' \in [runs : BOOLEAN, node : Nat] /\ ~graph'.runs)
      <4>1. [runs |-> FALSE, node |-> NoPair] \in [runs : BOOLEAN, node : Nat]
        BY DEF NoPair
      <4>2. ~[runs |-> FALSE, node |-> NoPair].runs
        OBVIOUS
      <4>3. QED
        BY <2>4, <4>1, <4>2
    <3>2. QED
      BY <1>0, <2>1, <2>4, <3>1, RestKeeps DEF systemVars, GraphInv
  <2>5. QED
    BY <1>11, <2>2, <2>3, <2>4
    DEF HandleConfigurationChange, HandleInterruption, HandleMediaServicesReset, ClockResult,
        Unmoved, mainVars
<1>12. CASE OutputChanges \/ RouteChanges \/ InterruptionBegins \/ MediaServicesReset
  <2>1. UNCHANGED <<halves, wanted, waiting, blocks, control, rendering>>
    BY <1>12 DEF OutputChanges, RouteChanges, InterruptionBegins, MediaServicesReset, Upset, queueVars
  <2>2. graph' = graph \/ (graph' \in [runs : BOOLEAN, node : Nat] /\ ~graph'.runs)
    BY <1>0, <1>12 DEF OutputChanges, RouteChanges, InterruptionBegins, MediaServicesReset, EngineStops
  <2>3. graph'.runs => RouteChanges
    BY <1>0, <1>12 DEF OutputChanges, InterruptionBegins, MediaServicesReset, EngineStops
  <2>4. graph'.runs => ~interrupted'
    BY <1>0, <2>2, <2>3 DEF RouteChanges, GraphInv
  <2>5. RouteChanges => RateOf[output'] = RateOf[output]
    BY DEF RouteChanges
  <2>6. waiting.sync => output' = output \/ RouteChanges
    BY <1>12 DEF OutputChanges, InterruptionBegins, MediaServicesReset, Idle
  <2>7. QED
    BY <1>0, <2>1, <2>2, <2>3, <2>4, <2>5, <2>6, RestKeeps
<1>13. CASE InterruptionEnds
  BY <1>0, <1>13, RestKeeps DEF InterruptionEnds, mainVars, queueVars, GraphInv
<1>14. CASE BeginCycle
  <2>1. UNCHANGED <<systemVars, mainVars, queueVars, blocks>> /\ rendering' = halves.pair
    BY <1>0, <1>14 DEF BeginCycle, GraphInv
  <2>2. QED
    BY <1>0, <2>1 DEF MainTypeOK, LiveInv, BlockInv, IsPair, GraphInv, mainVars, systemVars, queueVars
<1>15. CASE EndCycle
  <2>1. UNCHANGED <<systemVars, mainVars, queueVars, blocks>> /\ rendering' = NoPair
    BY <1>15 DEF EndCycle
  <2>2. QED
    BY <1>0, <2>1 DEF MainTypeOK, LiveInv, BlockInv, IsPair, GraphInv, mainVars, systemVars, queueVars
<1>16. QED
  BY <1>1, <1>2, <1>3, <1>4, <1>5, <1>6, <1>7, <1>8, <1>9, <1>10, <1>11, <1>12, <1>13, <1>14, <1>15
  DEF HostNext, ControlQueue, MainThread, Platform, AudioThread

LEMMA AskedStep ==
  ASSUME HostTypeOK, ComesBackAsAsked, HostNext
  PROVE  QueueTypeOK' /\ ComesBackAsAsked'
<1>1. CASE LoadPattern \/ SetPlaying \/ SetLatency \/ FollowDevice \/ SetNudge \/ SetClock
  BY <1>1, BlocksKeepAsked
<1>2. CASE ReplaceControl
  BY <1>2, ReplaceKeepsAsked
<1>3. CASE TimerTick
  BY <1>3, TickKeepsAsked
<1>4. CASE MainThread \/ Platform \/ AudioThread
  <2>1. UNCHANGED queueVars
    BY <1>4 DEF MainThread, Platform, AudioThread, GoOn, FreeRenderer, SelectClock, Play, Adjust,
      SetOutputDevice, Asks, HandleConfigurationChange, HandleInterruption, HandleRouteChange,
      HandleMediaServicesReset, ClockResult, Notified, Taken, OutputChanges, RouteChanges,
      InterruptionBegins, InterruptionEnds, MediaServicesReset, Upset, BeginCycle, EndCycle
  <2>2. QED
    BY <2>1 DEF queueVars, HostTypeOK, QueueTypeOK, ComesBackAsAsked
<1>5. QED
  BY <1>1, <1>2, <1>3, <1>4 DEF HostNext, ControlQueue

LEMMA SystemStep ==
  ASSUME HostTypeOK, HostNext
  PROVE  output' \in Outputs /\ interrupted' \in BOOLEAN /\ rendering' \in Nat
<1>1. graph.node \in Nat /\ output \in Outputs /\ interrupted \in BOOLEAN /\ rendering \in Nat
  BY DEF HostTypeOK, MainTypeOK
<1>2. CASE ControlQueue
  BY <1>1, <1>2 DEF ControlQueue, LoadPattern, SetPlaying, SetLatency, FollowDevice, SetNudge, Ask,
                    SetClock, ReplaceControl, TimerTick, systemVars
<1>3. CASE MainThread
  BY <1>1, <1>3 DEF MainThread, GoOn, FreeRenderer, SelectClock, Play, Adjust,
      SetOutputDevice, Asks, HandleConfigurationChange, HandleInterruption, HandleRouteChange,
      HandleMediaServicesReset, ClockResult, Notified, Taken, EnsureAudio, Enqueue, systemVars
<1>4. CASE Platform
  BY <1>1, <1>4 DEF Platform, OutputChanges, RouteChanges, InterruptionBegins, InterruptionEnds,
                    MediaServicesReset, Upset
<1>5. CASE AudioThread
  BY <1>1, <1>5 DEF AudioThread, BeginCycle, EndCycle, systemVars, NoPair
<1>6. QED
  BY <1>2, <1>3, <1>4, <1>5 DEF HostNext

-----------------------------------------------------------------------------
(* The theorems *)

LEMMA HostInitially == HostInit => PairInv /\ ComesBackAsAsked
<1> SUFFICES ASSUME HostInit PROVE PairInv /\ ComesBackAsAsked
  OBVIOUS
<1>1. waiting \in Waits /\ ~waiting.sync /\ ~waiting.back
  BY DEF HostInit, NotWaiting, Waits
<1>2. MainTypeOK
  <2>1. graph \in [runs : BOOLEAN, node : Nat]
    BY DEF HostInit, NoPair
  <2>2. halves \in [pair : Nat, rate : Nat, made : Nat, live : SUBSET Nat]
    BY DEF HostInit, NoPair
  <2>3. blocks \in Seq(Calls \cup Pairs)
    BY DEF HostInit
  <2>4. QED
    BY <1>1, <2>1, <2>2, <2>3 DEF HostInit, MainTypeOK
<1>3. desired \in Desires
  BY HostAssumption DEF HostInit, Desires, Patterns, ClockKinds, Devices, Nudge, Latencies
<1>4. HostTypeOK
  BY <1>2, <1>3 DEF HostInit, HostTypeOK, QueueTypeOK, Tempos, NoPair
<1>5. BlockInv
  BY <1>1 DEF HostInit, BlockInv, NoControl
<1>6. QED
  BY <1>1, <1>4, <1>5 DEF HostInit, PairInv, LiveInv, GraphInv, ComesBackAsAsked

HostInv == PairInv /\ ComesBackAsAsked

(* Every variable of the host has its type, the pair made last is the pair   *)
(* of the block the main thread waits for, and what runs is that pair.       *)
THEOREM HostInvariant == HostSpec => []HostInv
<1>1. HostInit => HostInv
  BY HostInitially DEF HostInv
<1>2. HostInv /\ [HostNext]_hostVars => HostInv'
  <2> SUFFICES ASSUME HostInv, [HostNext]_hostVars PROVE HostInv'
    OBVIOUS
  <2>1. CASE HostNext
    BY <2>1, PairStep, AskedStep, SystemStep DEF HostInv, PairInv, HostTypeOK
  <2>2. CASE UNCHANGED hostVars
    BY <2>2 DEF hostVars, systemVars, mainVars, queueVars, HostInv, PairInv, HostTypeOK, MainTypeOK,
                QueueTypeOK, LiveInv, BlockInv, IsPair, GraphInv, ComesBackAsAsked
  <2>3. QED
    BY <2>1, <2>2
<1>3. QED
  BY <1>1, <1>2, PTL DEF HostSpec

(* An engine that runs plays the half whose other half takes the calls, made *)
(* for the rate of the output, and the audio thread is never in a renderer   *)
(* that was freed (EngineHost.swift, startAudio and rebuildPair).            *)
THEOREM HostPlaysItsPair == HostSpec => []PairIsWhole
<1>1. HostInv => PairIsWhole
  BY DEF HostInv, PairInv, LiveInv, BlockInv, GraphInv, PairIsWhole
<1>2. QED
  BY <1>1, HostInvariant, PTL

(* The control half is what the user asked for, however often the pair was   *)
(* replaced (EngineHost.swift, applyDesired).                                *)
THEOREM HostRemembers == HostSpec => []ComesBackAsAsked
<1>1. HostInv => ComesBackAsAsked
  BY DEF HostInv
<1>2. QED
  BY <1>1, HostInvariant, PTL

-----------------------------------------------------------------------------
(* What is shown *)

\* The value of the last block of a kind, or what was asked for before when
\* there is none.
Ends(q, what, v) ==
  \E i \in DOMAIN q : /\ q[i].what = what /\ q[i].value = v
                      /\ \A j \in DOMAIN q : q[j].what = what => j <= i
IsLast(q, what, before, v) ==
  \/ Ends(q, what, v)
  \/ (\A i \in DOMAIN q : q[i].what # what) /\ v = before

NoticeKinds ==
  [what : {"config", "began", "ended", "reset", "route"}, kind : {NoSource}, ok : {TRUE}]
    \cup [what : {"clock"}, kind : ClockKinds, ok : BOOLEAN]

Said(what) == \E i \in DOMAIN notices : notices[i].what = what

ShownTypeOK ==
  /\ notices \in Seq(NoticeKinds) /\ shown \in ClockKinds
  /\ \A i \in DOMAIN waiting.after : waiting.after[i].what \in {"clock", "playing"}
  /\ ~waiting.sync => waiting.after = <<>>

\* The interface has it wrong whether audio runs only until a notice that is
\* under way was taken.
ToldInv ==
  /\ told = "running" => wanted
  /\ told = "running" /\ ~graph.runs => waiting.sync \/ Said("config") \/ Said("began") \/ Said("reset")
  /\ graph.runs /\ told # "running" => Said("ended")

\* The end of an interruption is said after its beginning.
EndedInv ==
  \A i \in DOMAIN notices : notices[i].what = "began" =>
    interrupted \/ \E j \in DOMAIN notices : j > i /\ notices[j].what = "ended"

\* The last latency that was set, or will be, is of the output.
LatencyInv == graph.runs => Said("route") \/ IsLast(blocks, "latency", desired.latency, output)

\* The clock that a kind comes to be.
Settled(kind) == IF kind \in Failing THEN "internal" ELSE kind

ClockComes(v) ==
  \E u \in ClockKinds : IsLast(blocks, "clock", desired.clock, u) /\ IsLast(waiting.after, "clock", u, v)

\* The clock asked for last is the one shown, or both come to be the same;
\* that one fails will still be said.
ComesTo(v) == IF control = NoControl THEN v = shown ELSE Settled(v) = Settled(shown)
InQueue(block) ==
  \/ \E i \in DOMAIN blocks : blocks[i] = block
  \/ \E i \in DOMAIN waiting.after : waiting.after[i] = block
Heard(kind) == \E i \in DOMAIN notices : notices[i] = Notice("clock", kind, FALSE)
FailureIsSaid ==
  \/ InQueue(Block("clock", shown))
  \/ Heard(shown)
  \/ waiting.back /\ ~waiting.ok /\ waiting.kind = shown
ClockInv ==
  /\ \E v \in ClockKinds : ClockComes(v) /\ ComesTo(v)
  /\ control # NoControl => desired.clock \notin Failing
  /\ control # NoControl /\ shown \in Failing => FailureIsSaid
  /\ \A kind \in ClockKinds : Heard(kind) => control # NoControl /\ kind \in Failing
  /\ waiting.back /\ ~waiting.ok => waiting.kind \in Failing

ShownInv == ShownTypeOK /\ ToldInv /\ EndedInv /\ LatencyInv /\ ClockInv

-----------------------------------------------------------------------------
(* The last of a kind *)

LEMMA Joined ==
  ASSUME NEW S, NEW q \in Seq(S), NEW t \in Seq(S)
  PROVE  /\ \A i \in DOMAIN q : i \in DOMAIN (q \o t) /\ (q \o t)[i] = q[i] /\ i <= Len(q)
         /\ \A i \in DOMAIN t : Len(q) + i \in DOMAIN (q \o t) /\ (q \o t)[Len(q) + i] = t[i]
         /\ \A k \in DOMAIN (q \o t) :
              \/ k \in DOMAIN q
              \/ k - Len(q) \in DOMAIN t /\ k = Len(q) + (k - Len(q)) /\ (q \o t)[k] = t[k - Len(q)]
         /\ Len(q) \in Nat /\ DOMAIN t \subseteq Nat \ {0} /\ DOMAIN q \subseteq Nat
         /\ DOMAIN (q \o t) \subseteq Nat
OBVIOUS

LEMMA EndsOfBoth ==
  ASSUME NEW S, NEW q \in Seq(S), NEW t \in Seq(S), NEW what, NEW v, Ends(t, what, v)
  PROVE  Ends(q \o t, what, v)
<1> DEFINE b == q \o t
<1> HIDE DEF b
<1>1. PICK i \in DOMAIN t : /\ t[i].what = what /\ t[i].value = v
                            /\ \A j \in DOMAIN t : t[j].what = what => j <= i
  BY DEF Ends
<1> DEFINE n == Len(q) + i
<1>2. n \in DOMAIN b /\ b[n].what = what /\ b[n].value = v
  BY <1>1, Joined DEF b
<1>3. ASSUME NEW k \in DOMAIN b, b[k].what = what
      PROVE  k <= n
  <2>1. CASE k \in DOMAIN q
    BY <2>1, Joined
  <2>2. CASE k - Len(q) \in DOMAIN t /\ k = Len(q) + (k - Len(q)) /\ b[k] = t[k - Len(q)]
    <3>1. k - Len(q) <= i
      BY <1>1, <1>3, <2>2
    <3>2. QED
      BY <1>1, <2>2, <3>1, Joined DEF b
  <2>3. QED
    BY <2>1, <2>2, Joined DEF b
<1>4. QED
  BY <1>2, <1>3 DEF Ends, b

LEMMA LastOfBoth ==
  ASSUME NEW S, NEW q \in Seq(S), NEW t \in Seq(S), NEW what, NEW before, NEW u, NEW v,
         IsLast(q, what, before, u), IsLast(t, what, u, v)
  PROVE  IsLast(q \o t, what, before, v)
<1> DEFINE b == q \o t
<1> HIDE DEF b
<1>1. CASE Ends(t, what, v)
  BY <1>1, EndsOfBoth DEF IsLast
<1>2. CASE (\A i \in DOMAIN t : t[i].what # what) /\ v = u
  <2>1. CASE Ends(q, what, u)
    <3>1. PICK i \in DOMAIN q : /\ q[i].what = what /\ q[i].value = u
                                /\ \A j \in DOMAIN q : q[j].what = what => j <= i
      BY <2>1 DEF Ends
    <3>2. i \in DOMAIN b /\ b[i].what = what /\ b[i].value = v
      BY <1>2, <3>1, Joined DEF b
    <3>3. ASSUME NEW k \in DOMAIN b, b[k].what = what
          PROVE  k <= i
      <4>1. k \in DOMAIN q /\ b[k] = q[k]
        BY <1>2, <3>3, Joined DEF b
      <4>2. QED
        BY <3>1, <3>3, <4>1
    <3>4. Ends(b, what, v)
      BY <3>2, <3>3 DEF Ends
    <3>5. QED
      BY <3>4 DEF IsLast, b
  <2>2. CASE (\A i \in DOMAIN q : q[i].what # what) /\ u = before
    <3>1. \A k \in DOMAIN b : b[k].what # what
      BY <1>2, <2>2, Joined DEF b
    <3>2. QED
      BY <1>2, <2>2, <3>1 DEF IsLast, b
  <2>3. QED
    BY <2>1, <2>2 DEF IsLast
<1>3. QED
  BY <1>1, <1>2 DEF IsLast

LEMMA LastOfNone ==
  ASSUME NEW q, NEW what, NEW v, \A i \in DOMAIN q : q[i].what # what
  PROVE  IsLast(q, what, v, v)
BY DEF IsLast

LEMMA EndsOfOne ==
  ASSUME NEW b
  PROVE  Ends(<<b>>, b.what, b.value)
<1>1. DOMAIN <<b>> = {1} /\ <<b>>[1] = b
  OBVIOUS
<1>2. QED
  BY <1>1 DEF Ends

LEMMA NoneInOne ==
  ASSUME NEW b, NEW what, b.what # what
  PROVE  \A i \in DOMAIN <<b>> : <<b>>[i].what # what
OBVIOUS

LEMMA LastOfTail ==
  ASSUME NEW S, NEW q \in Seq(S), q # <<>>, NEW what, NEW before, NEW v,
         IsLast(q, what, before, v)
  PROVE  IsLast(Tail(q), what, IF Head(q).what = what THEN Head(q).value ELSE before, v)
<1> DEFINE t == Tail(q)
           b == IF Head(q).what = what THEN Head(q).value ELSE before
<1>1. /\ \A i \in DOMAIN t : i + 1 \in DOMAIN q /\ t[i] = q[i + 1]
      /\ \A i \in DOMAIN q : i = 1 \/ (i - 1 \in DOMAIN t /\ t[i - 1] = q[i])
      /\ DOMAIN t \subseteq Nat \ {0} /\ DOMAIN q \subseteq Nat \ {0}
      /\ Head(q) = q[1] /\ 1 \in DOMAIN q
  OBVIOUS
<1> HIDE DEF t
<1>2. CASE (\A i \in DOMAIN q : q[i].what # what) /\ v = before
  BY <1>1, <1>2 DEF IsLast, t
<1>3. CASE Ends(q, what, v)
  <2>1. PICK i \in DOMAIN q : /\ q[i].what = what /\ q[i].value = v
                              /\ \A j \in DOMAIN q : q[j].what = what => j <= i
    BY <1>3 DEF Ends
  <2>2. CASE i = 1
    <3>1. \A j \in DOMAIN t : t[j].what # what
      <4> SUFFICES ASSUME NEW j \in DOMAIN t, t[j].what = what PROVE FALSE
        OBVIOUS
      <4>1. j + 1 \in DOMAIN q /\ q[j + 1].what = what /\ j \in Nat /\ j > 0
        BY <1>1
      <4>2. j + 1 <= 1
        BY <2>1, <2>2, <4>1
      <4>3. QED
        BY <4>1, <4>2
    <3>2. b = v
      BY <1>1, <2>1, <2>2
    <3>3. QED
      BY <3>1, <3>2 DEF IsLast, t
  <2>3. CASE i # 1
    <3>1. i - 1 \in DOMAIN t /\ t[i - 1].what = what /\ t[i - 1].value = v
      BY <1>1, <2>1, <2>3
    <3>2. ASSUME NEW j \in DOMAIN t, t[j].what = what
          PROVE  j <= i - 1
      <4>1. j + 1 \in DOMAIN q /\ q[j + 1].what = what /\ j \in Nat /\ i \in Nat
        BY <1>1, <3>2
      <4>2. j + 1 <= i
        BY <2>1, <4>1
      <4>3. QED
        BY <4>1, <4>2
    <3>3. Ends(t, what, v)
      BY <3>1, <3>2 DEF Ends
    <3>4. QED
      BY <3>3 DEF IsLast, t
  <2>4. QED
    BY <2>2, <2>3
<1>4. QED
  BY <1>2, <1>3 DEF IsLast

-----------------------------------------------------------------------------
(* Notices *)

LEMMA Removed ==
  ASSUME NEW S, NEW s \in Seq(S), NEW i \in DOMAIN s
  PROVE  /\ RemoveAt(s, i) \in Seq(S)
         /\ \A k \in DOMAIN RemoveAt(s, i) :
              \/ k < i /\ k \in DOMAIN s /\ RemoveAt(s, i)[k] = s[k]
              \/ k >= i /\ k + 1 \in DOMAIN s /\ RemoveAt(s, i)[k] = s[k + 1]
         /\ \A j \in DOMAIN s :
              /\ j < i => j \in DOMAIN RemoveAt(s, i) /\ RemoveAt(s, i)[j] = s[j]
              /\ j > i => j - 1 \in DOMAIN RemoveAt(s, i) /\ RemoveAt(s, i)[j - 1] = s[j]
<1>1. Len(s) \in Nat /\ i \in 1 .. Len(s) /\ DOMAIN s = 1 .. Len(s)
  OBVIOUS
<1> DEFINE a == SubSeq(s, 1, i - 1)
           b == SubSeq(s, i + 1, Len(s))
<1>2. /\ a \in Seq(S) /\ Len(a) = i - 1
      /\ \A k \in 1 .. i - 1 : a[k] = s[k]
  <2>1. \A k \in 1 .. i - 1 : s[k] \in S
    BY <1>1
  <2>2. i - 1 \in Int /\ 1 \in Int
    BY <1>1
  <2>3. /\ a \in Seq(S) /\ Len(a) = IF 1 <= i - 1 THEN (i - 1) - 1 + 1 ELSE 0
        /\ \A k \in 1 .. (i - 1) - 1 + 1 : a[k] = s[1 + k - 1]
    BY <2>1, <2>2, SubSeqProperties
  <2> HIDE DEF a
  <2>4. QED
    BY <1>1, <2>3
<1>3. /\ b \in Seq(S) /\ Len(b) = Len(s) - i
      /\ \A k \in 1 .. Len(s) - i : b[k] = s[i + k]
  <2>1. \A k \in i + 1 .. Len(s) : s[k] \in S
    BY <1>1
  <2>2. i + 1 \in Int /\ Len(s) \in Int
    BY <1>1
  <2>3. /\ b \in Seq(S) /\ Len(b) = IF i + 1 <= Len(s) THEN Len(s) - (i + 1) + 1 ELSE 0
        /\ \A k \in 1 .. Len(s) - (i + 1) + 1 : b[k] = s[(i + 1) + k - 1]
    BY <2>1, <2>2, SubSeqProperties
  <2> HIDE DEF b
  <2>4. Len(b) = Len(s) - i
    BY <1>1, <2>3
  <2>5. \A k \in 1 .. Len(s) - i : k \in 1 .. Len(s) - (i + 1) + 1 /\ (i + 1) + k - 1 = i + k
    BY <1>1
  <2>6. \A k \in 1 .. Len(s) - i : b[k] = s[i + k]
    BY <2>3, <2>5
  <2>7. QED
    BY <2>3, <2>4, <2>6
<1>4. RemoveAt(s, i) = a \o b
  BY DEF RemoveAt
<1> HIDE DEF a, b
<1> DEFINE r == a \o b
<1>5. /\ r \in Seq(S) /\ DOMAIN r = 1 .. Len(s) - 1
      /\ \A k \in 1 .. Len(s) - 1 : r[k] = IF k < i THEN a[k] ELSE b[k - (i - 1)]
  <2>1. /\ r \in Seq(S) /\ Len(r) = Len(a) + Len(b)
        /\ \A k \in 1 .. Len(a) + Len(b) : r[k] = IF k <= Len(a) THEN a[k] ELSE b[k - Len(a)]
    BY <1>2, <1>3, ConcatProperties
  <2> HIDE DEF r
  <2>2. Len(r) = Len(s) - 1 /\ DOMAIN r = 1 .. Len(s) - 1 /\ Len(a) + Len(b) = Len(s) - 1
    BY <1>1, <1>2, <1>3, <2>1
  <2>3. \A k \in 1 .. Len(s) - 1 : (k <= Len(a)) <=> (k < i)
    BY <1>1, <1>2
  <2>4. QED
    BY <1>2, <2>1, <2>2, <2>3
<1> HIDE DEF r
<1>6. \A k \in DOMAIN r : \/ k < i /\ k \in DOMAIN s /\ r[k] = s[k]
                          \/ k >= i /\ k + 1 \in DOMAIN s /\ r[k] = s[k + 1]
  <2> TAKE k \in DOMAIN r
  <2>1. CASE k < i
    BY <1>1, <1>2, <1>5, <2>1
  <2>2. CASE k >= i
    <3>1. k - (i - 1) \in 1 .. Len(s) - i /\ i + (k - (i - 1)) = k + 1
      BY <1>1, <1>5, <2>2
    <3>2. r[k] = b[k - (i - 1)] /\ b[k - (i - 1)] = s[i + (k - (i - 1))]
      BY <1>1, <1>3, <1>5, <2>2, <3>1
    <3>3. k + 1 \in DOMAIN s
      BY <1>1, <1>5, <2>2
    <3>4. QED
      BY <2>2, <3>1, <3>2, <3>3
  <2>3. QED
    BY <1>1, <1>5, <2>1, <2>2
<1>7. \A j \in DOMAIN s :
        /\ j < i => j \in DOMAIN r /\ r[j] = s[j]
        /\ j > i => j - 1 \in DOMAIN r /\ r[j - 1] = s[j]
  <2> TAKE j \in DOMAIN s
  <2>1. CASE j < i
    BY <1>1, <1>2, <1>5, <2>1
  <2>2. CASE j > i
    <3>1. j - 1 \in DOMAIN r /\ ~(j - 1 < i) /\ (j - 1) + 1 = j
      BY <1>1, <1>5, <2>2
    <3>2. r[j - 1] = s[(j - 1) + 1]
      BY <1>6, <3>1
    <3>3. QED
      BY <1>1, <2>2, <3>1, <3>2
  <2>3. QED
    BY <1>1, <2>1, <2>2
<1>8. QED
  BY <1>4, <1>5, <1>6, <1>7 DEF r

\* What is taken leaves the others, in their order.
LEMMA TakenLeaves ==
  ASSUME ShownTypeOK, NEW n, Taken(n)
  PROVE  /\ notices' \in Seq(NoticeKinds)
         /\ \A k \in DOMAIN notices' : \E j \in DOMAIN notices : notices'[k] = notices[j]
         /\ \A j \in DOMAIN notices : notices[j] # n => \E k \in DOMAIN notices' : notices'[k] = notices[j]
         /\ \E i \in DOMAIN notices : notices[i] = n
<1>1. PICK i \in DOMAIN notices : notices[i] = n /\ notices' = RemoveAt(notices, i)
  BY DEF Taken
<1>2. notices \in Seq(NoticeKinds)
  BY DEF ShownTypeOK
<1>3. DOMAIN notices \subseteq Nat
  BY <1>2
<1>4. \A j \in DOMAIN notices : notices[j] # n => j < i \/ j > i
  BY <1>1, <1>3
<1>5. QED
  BY <1>1, <1>2, <1>4, Removed

\* What is put at the end.
LEMMA NoticeAdded ==
  ASSUME ShownTypeOK, NEW n \in NoticeKinds, notices' = Append(notices, n)
  PROVE  /\ notices' \in Seq(NoticeKinds)
         /\ \A j \in DOMAIN notices : j \in DOMAIN notices' /\ notices'[j] = notices[j]
         /\ \E k \in DOMAIN notices' : notices'[k] = n /\ \A j \in DOMAIN notices : k > j
         /\ \A k \in DOMAIN notices' : notices'[k] = n \/ (k \in DOMAIN notices /\ notices'[k] = notices[k])
<1>1. notices \in Seq(NoticeKinds)
  BY DEF ShownTypeOK
<1>2. Len(notices) + 1 \in DOMAIN notices' /\ notices'[Len(notices) + 1] = n
  BY <1>1
<1>3. \A j \in DOMAIN notices : Len(notices) + 1 > j
  BY <1>1
<1>4. QED
  BY <1>1, <1>2, <1>3

-----------------------------------------------------------------------------
(* Starting audio *)

\* What a caller of startAudio leaves.
Afters == {s \in Seq(Calls) : \A i \in DOMAIN s : s[i].what \in {"clock", "playing"}}

LEMMA AftersAre ==
  /\ <<>> \in Afters
  /\ \A kind \in ClockKinds : <<Block("clock", kind)>> \in Afters
  /\ \A plays \in BOOLEAN : <<Block("playing", plays)>> \in Afters
<1>1. <<>> \in Afters
  <2>1. <<>> \in Seq(Calls) /\ DOMAIN <<>> = {}
    OBVIOUS
  <2>2. QED
    BY <2>1 DEF Afters
<1>2. ASSUME NEW b \in Calls, b.what \in {"clock", "playing"}
      PROVE  <<b>> \in Afters
  <2>1. <<b>> \in Seq(Calls) /\ DOMAIN <<b>> = {1} /\ <<b>>[1] = b
    OBVIOUS
  <2>2. QED
    BY <1>2, <2>1 DEF Afters
<1>3. \A v : Block("clock", v).what = "clock" /\ Block("playing", v).what = "playing"
  BY DEF Block
<1>4. QED
  BY <1>1, <1>2, <1>3, BlocksAre

\* Whether blocks that were there, and those of a caller, are there still.
AllIn(s, t) == \A i \in DOMAIN s : \E k \in DOMAIN t : t[k] = s[i]

LEMMA AllInBoth ==
  ASSUME NEW S, NEW q \in Seq(S), NEW t \in Seq(S)
  PROVE  AllIn(q, q \o t) /\ AllIn(t, q \o t)
<1>1. \A i \in DOMAIN t : Len(q) + i \in DOMAIN (q \o t) /\ (q \o t)[Len(q) + i] = t[i]
  OBVIOUS
<1>2. \A i \in DOMAIN q : i \in DOMAIN (q \o t) /\ (q \o t)[i] = q[i]
  OBVIOUS
<1>3. QED
  BY <1>1, <1>2 DEF AllIn

LEMMA AllInMore ==
  ASSUME NEW q, NEW r, NEW t, AllIn(q, r), AllIn(r, t)
  PROVE  AllIn(q, t)
BY DEF AllIn

LEMMA EngineDoes ==
  ASSUME MainTypeOK, NEW p, NEW o \in Outputs, NEW ok \in BOOLEAN, NEW after \in Afters,
         StartEngine(p, o, ok, after)
  PROVE  /\ graph'.runs = ok /\ (told' = "running" <=> ok)
         /\ ok => \A d : IsLast(blocks', "latency", d, o)
         /\ \A d, u, v : IsLast(blocks, "clock", d, u) /\ IsLast(after, "clock", u, v)
                           => IsLast(blocks', "clock", d, v)
         /\ AllIn(blocks, blocks') /\ AllIn(after, blocks')
<1> DEFINE lat == Block("latency", o)
           first == IF ok THEN <<lat>> ELSE <<>>
           q == blocks \o first
<1>1. lat \in Calls /\ lat.what = "latency" /\ lat.value = o
  BY BlocksAre DEF Block
<1>2. blocks \in Seq(Blocks) /\ after \in Seq(Blocks) /\ blocks' = q \o after
  BY DEF MainTypeOK, Blocks, StartEngine, Afters
<1> HIDE DEF lat
<1>3. first \in Seq(Blocks)
  <2>1. lat \in Blocks
    BY <1>1 DEF Blocks
  <2>2. QED
    BY <2>1
<1>4. q \in Seq(Blocks)
  BY <1>2, <1>3
<1>5. \A i \in DOMAIN after : after[i].what \in {"clock", "playing"}
  BY DEF Afters
<1>6. ASSUME ok, NEW d
      PROVE  IsLast(blocks', "latency", d, o)
  <2>1. Ends(first, "latency", o)
    BY <1>1, <1>6, EndsOfOne
  <2> HIDE DEF first
  <2>2. Ends(q, "latency", o)
    BY <1>2, <1>3, <2>1, EndsOfBoth
  <2>3. IsLast(q, "latency", d, o) /\ IsLast(after, "latency", o, o)
    BY <1>5, <2>2, LastOfNone DEF IsLast
  <2> HIDE DEF q
  <2>4. QED
    BY <1>2, <1>4, <2>3, LastOfBoth
<1>7. ASSUME NEW d, NEW u, NEW v, IsLast(blocks, "clock", d, u), IsLast(after, "clock", u, v)
      PROVE  IsLast(blocks', "clock", d, v)
  <2>1. \A i \in DOMAIN first : first[i].what # "clock"
    BY <1>1, NoneInOne
  <2> HIDE DEF first
  <2>2. IsLast(first, "clock", u, u)
    BY <2>1, LastOfNone
  <2>3. IsLast(q, "clock", d, u)
    BY <1>2, <1>3, <1>7, <2>2, LastOfBoth
  <2> HIDE DEF q
  <2>4. QED
    BY <1>2, <1>4, <1>7, <2>3, LastOfBoth
<1>8. AllIn(blocks, blocks') /\ AllIn(after, blocks')
  <2> HIDE DEF first
  <2>1. AllIn(blocks, q)
    BY <1>2, <1>3, AllInBoth
  <2> HIDE DEF q
  <2>2. AllIn(q, blocks') /\ AllIn(after, blocks')
    BY <1>2, <1>4, AllInBoth
  <2>3. QED
    BY <2>1, <2>2, AllInMore
<1>9. QED
  BY <1>6, <1>7, <1>8 DEF StartEngine

\* Starting audio tells how it went or makes the main thread wait, leaves the
\* latency of what then runs, and what its caller left comes last.
LEMMA StartAudioDoes ==
  ASSUME HostTypeOK, BlockInv, GraphInv, ShownTypeOK, Idle,
         NEW o \in Outputs, NEW forced \in BOOLEAN, NEW after \in Afters, StartAudio(o, forced, after)
  PROVE  /\ wanted'
         /\ (told' = "running" <=> graph'.runs) \/ (~graph'.runs /\ waiting'.sync)
         /\ graph'.runs => \A d : IsLast(blocks', "latency", d, o)
         /\ \A d, u, v : IsLast(blocks, "clock", d, u) /\ IsLast(after, "clock", u, v)
              => \E w \in {u, v} : IsLast(blocks', "clock", d, w) /\ IsLast(waiting'.after, "clock", w, v)
         /\ AllIn(blocks, blocks')
         /\ AllIn(after, blocks') \/ AllIn(after, waiting'.after)
         /\ ~waiting'.back /\ (~waiting'.sync => waiting'.after = <<>>)
         /\ \A i \in DOMAIN waiting'.after : waiting'.after[i].what \in {"clock", "playing"}
<1>1. /\ MainTypeOK /\ blocks \in Seq(Blocks) /\ after \in Seq(Blocks) /\ after \in Seq(Calls)
      /\ ~waiting.sync /\ ~waiting.back /\ waiting.after = <<>> /\ wanted'
  BY DEF HostTypeOK, MainTypeOK, Blocks, Afters, Idle, BlockInv, ShownTypeOK, StartAudio
<1>2. CASE blocks' = blocks \o after /\ UNCHANGED waiting /\ told' = "failed" /\ ~graph'.runs
  <2>1. \A v : IsLast(waiting'.after, "clock", v, v)
    BY <1>1, <1>2 DEF IsLast
  <2>2. \A d, u, v : IsLast(blocks, "clock", d, u) /\ IsLast(after, "clock", u, v)
          => IsLast(blocks', "clock", d, v)
    BY <1>1, <1>2, LastOfBoth
  <2>3. AllIn(blocks, blocks') /\ AllIn(after, blocks')
    BY <1>1, <1>2, AllInBoth
  <2>4. QED
    BY <1>1, <1>2, <2>1, <2>2, <2>3
<1>3. CASE /\ graph' = [runs |-> FALSE, node |-> NoPair]
           /\ blocks' = Append(blocks, Block("pair", halves.made + 1))
           /\ waiting' = [NotWaiting EXCEPT !.sync = TRUE, !.after = after]
  <2> DEFINE b == Block("pair", halves.made + 1)
  <2>1. b \in Blocks /\ b.what = "pair"
    <3>1. halves.made + 1 \in Nat \ {0}
      BY <1>1 DEF MainTypeOK
    <3>2. QED
      BY <3>1, BlocksAre DEF Block, Blocks
  <2> HIDE DEF b
  <2>2. <<b>> \in Seq(Blocks) /\ blocks' = blocks \o <<b>>
    BY <1>1, <1>3, <2>1 DEF b
  <2>3. \A d, u : IsLast(blocks, "clock", d, u) => IsLast(blocks', "clock", d, u)
    <3>1. \A u : IsLast(<<b>>, "clock", u, u)
      BY <2>1, NoneInOne, LastOfNone
    <3>2. QED
      BY <1>1, <2>2, <3>1, LastOfBoth
  <2>4. AllIn(blocks, blocks')
    BY <1>1, <2>2, AllInBoth
  <2>5. waiting'.sync /\ ~waiting'.back /\ waiting'.after = after
    BY <1>3 DEF NotWaiting
  <2>6. AllIn(after, waiting'.after)
    BY <2>5 DEF AllIn
  <2>7. ~graph'.runs
    BY <1>3
  <2>8. QED
    BY <1>1, <2>3, <2>4, <2>5, <2>6, <2>7 DEF Afters
<1>4. CASE (\E ok \in BOOLEAN : StartEngine(halves.pair, o, ok, after)) /\ UNCHANGED waiting
  <2>1. PICK ok \in BOOLEAN : StartEngine(halves.pair, o, ok, after)
    BY <1>4
  <2>2. /\ graph'.runs = ok /\ (told' = "running" <=> ok)
        /\ ok => \A d : IsLast(blocks', "latency", d, o)
        /\ \A d, u, v : IsLast(blocks, "clock", d, u) /\ IsLast(after, "clock", u, v)
                          => IsLast(blocks', "clock", d, v)
        /\ AllIn(blocks, blocks') /\ AllIn(after, blocks')
    BY <1>1, <2>1, EngineDoes
  <2>3. \A v : IsLast(waiting'.after, "clock", v, v)
    BY <1>1, <1>4 DEF IsLast
  <2>4. QED
    BY <1>1, <1>4, <2>2, <2>3
<1>5. CASE interrupted /\ told' = "failed" /\ blocks' = blocks \o after /\ UNCHANGED <<graph, waiting>>
  BY <1>2, <1>5 DEF GraphInv
<1>6. CASE graph' = [runs |-> FALSE, node |-> NoPair] /\ told' = "failed" /\ blocks' = blocks \o after
           /\ UNCHANGED waiting
  BY <1>2, <1>6
<1>7. QED
  BY <1>3, <1>4, <1>5, <1>6 DEF StartAudio

-----------------------------------------------------------------------------
(* What the actions do to the queues *)

\* A call of the interface on the control queue, one of the clock left aside.
LEMMA QueueCallDoes ==
  ASSUME QueueTypeOK, LoadPattern \/ SetPlaying \/ SetLatency \/ FollowDevice \/ SetNudge
  PROVE  /\ UNCHANGED <<graph, told, wanted, waiting, output, interrupted, notices, shown>>
         /\ blocks # <<>> /\ blocks' = Tail(blocks)
         /\ Head(blocks).what \in {"pattern", "playing", "latency", "device", "nudge"}
         /\ desired'.clock = desired.clock
         /\ desired'.latency = IF Head(blocks).what = "latency" THEN Head(blocks).value
                               ELSE desired.latency
         /\ (control' = NoControl) <=> (control = NoControl)
<1>1. UNCHANGED <<graph, told, wanted, waiting, output, interrupted, notices, shown>>
  BY DEF LoadPattern, SetPlaying, SetLatency, FollowDevice, SetNudge, Ask, systemVars, mainVars
<1>2. /\ blocks # <<>> /\ blocks' = Tail(blocks)
      /\ Head(blocks).what \in {"pattern", "playing", "latency", "device", "nudge"}
  BY DEF LoadPattern, SetPlaying, SetLatency, FollowDevice, SetNudge, TakeBlock
<1>3. PICK field \in {"pattern", "playing", "latency", "device", "nudge"} :
        field = Head(blocks).what /\ desired' = [desired EXCEPT ![field] = Head(blocks).value]
  BY DEF LoadPattern, SetPlaying, SetLatency, FollowDevice, SetNudge, Ask, TakeBlock
<1>4. /\ desired'.clock = desired.clock
      /\ desired'.latency = IF Head(blocks).what = "latency" THEN Head(blocks).value
                            ELSE desired.latency
  BY <1>3 DEF QueueTypeOK, Desires
<1>5. (control' = NoControl) <=> (control = NoControl)
  <2>1. CASE control = NoControl
    BY <2>1 DEF LoadPattern, SetPlaying, SetLatency, FollowDevice, SetNudge, Ask
  <2>2. CASE control \in Controls /\ control # NoControl
    <3>1. /\ \A v : WithPattern(control, v) # NoControl
          /\ \A v : [control EXCEPT !.playing = v] # NoControl
          /\ \A v : [control EXCEPT !.latency = v] # NoControl
          /\ \A v : Aimed(control, v) # NoControl
          /\ \A v : Nudged(control, v) # NoControl
      BY <2>2 DEF Controls, WithPattern, Aimed, Nudged, NoControl, NoPair
    <3>2. QED
      BY <2>2, <3>1 DEF LoadPattern, SetPlaying, SetLatency, FollowDevice, SetNudge, Ask
  <2>3. QED
    BY <2>1, <2>2 DEF QueueTypeOK
<1>6. QED
  BY <1>1, <1>2, <1>4, <1>5

\* What the user does starts audio, and leaves a block then or at once.
LEMMA UserDoes ==
  ASSUME HostTypeOK, SelectClock \/ Play \/ Adjust \/ SetOutputDevice
  PROVE  /\ Idle /\ UNCHANGED <<queueVars, notices, interrupted>> /\ output' \in Outputs
         /\ \/ /\ UNCHANGED <<mainVars, blocks, shown>> /\ ~wanted
            \/ \E after \in Afters :
                 /\ StartAudio(output', FALSE, after)
                 /\ \/ after = <<Block("clock", shown')>> /\ shown' \in ClockKinds
                    \/ (\A i \in DOMAIN after : after[i].what # "clock") /\ shown' = shown
            \/ \E block \in Calls :
                 /\ UNCHANGED <<mainVars, output>> /\ blocks' = Append(blocks, block)
                 /\ block.what # "latency"
                 /\ \/ block = Block("clock", shown') /\ shown' \in ClockKinds
                    \/ block.what # "clock" /\ shown' = shown
<1> USE DEF HostTypeOK
<1>1. CASE SelectClock
  <2>1. shown' \in ClockKinds /\ (EnsureAudio(Block("clock", shown')) \/ Enqueue(Block("clock", shown')))
    BY <1>1 DEF SelectClock
  <2>2. Idle /\ UNCHANGED <<queueVars, notices>>
    BY <1>1 DEF SelectClock, Asks
  <2>3. Block("clock", shown') \in Calls /\ Block("clock", shown').what # "latency"
    BY <2>1, BlocksAre DEF Block
  <2>4. CASE Enqueue(Block("clock", shown'))
    BY <2>1, <2>2, <2>3, <2>4 DEF Enqueue, systemVars
  <2>5. CASE StartAudio(output, FALSE, <<Block("clock", shown')>>) /\ UNCHANGED systemVars
    BY <2>1, <2>2, <2>5, AftersAre DEF systemVars
  <2>6. QED
    BY <2>1, <2>4, <2>5 DEF EnsureAudio
<1>2. CASE Play
  <2>1. EnsureAudio(Block("playing", TRUE)) \/ Enqueue(Block("playing", FALSE))
    BY <1>2 DEF Play
  <2>2. Idle /\ UNCHANGED <<queueVars, notices, shown>>
    BY <1>2 DEF Play, Asks
  <2>3. \A plays \in BOOLEAN : /\ Block("playing", plays) \in Calls
                               /\ Block("playing", plays).what = "playing"
    BY BlocksAre DEF Block
  <2>4. ASSUME NEW plays \in BOOLEAN, Enqueue(Block("playing", plays))
        PROVE  \E block \in Calls :
                 /\ UNCHANGED <<mainVars, output, interrupted>> /\ blocks' = Append(blocks, block)
                 /\ block.what # "latency" /\ block.what # "clock" /\ shown' = shown
    BY <2>2, <2>3, <2>4 DEF Enqueue, systemVars
  <2>5. CASE StartAudio(output, FALSE, <<Block("playing", TRUE)>>) /\ UNCHANGED systemVars
    <3>1. <<Block("playing", TRUE)>> \in Afters
      BY AftersAre
    <3>2. \A i \in DOMAIN <<Block("playing", TRUE)>> : <<Block("playing", TRUE)>>[i].what # "clock"
      BY <2>3, NoneInOne
    <3>3. QED
      BY <2>2, <2>5, <3>1, <3>2 DEF systemVars
  <2>6. QED
    BY <2>1, <2>2, <2>4, <2>5 DEF EnsureAudio
<1>3. CASE Adjust
  <2>1. Idle /\ UNCHANGED <<queueVars, notices, shown, systemVars, mainVars>>
    BY <1>3 DEF Adjust, Asks, Enqueue
  <2>2. PICK block \in Calls : blocks' = Append(blocks, block) /\ block.what \in {"pattern", "device", "nudge"}
    <3>1. PICK what \in {"pattern", "device", "nudge"} :
             \E v : Enqueue(Block(what, v)) /\ Block(what, v) \in Calls
      <4>1. 2 \in Devices /\ Nudges \subseteq Nudge
        BY DEF Devices, Nudge
      <4>2. QED
        BY <1>3, <4>1, BlocksAre DEF Adjust
    <3>2. QED
      BY <3>1 DEF Enqueue, Block
  <2>3. QED
    BY <2>1, <2>2 DEF systemVars
<1>4. CASE SetOutputDevice
  <2>1. /\ Idle /\ UNCHANGED <<queueVars, notices, shown, interrupted>> /\ output' \in Outputs
        /\ IF wanted THEN StartAudio(output', FALSE, <<>>) ELSE UNCHANGED <<mainVars, blocks>>
    BY <1>4 DEF SetOutputDevice, Asks
  <2>2. <<>> \in Afters /\ DOMAIN <<>> = {}
    BY AftersAre
  <2>3. QED
    BY <2>1, <2>2
<1>5. QED
  BY <1>1, <1>2, <1>3, <1>4

\* A handler of the main thread takes its notice and starts audio, tells, or
\* leaves things.
LEMMA HandlerDoes ==
  ASSUME HostTypeOK, HandleConfigurationChange \/ HandleInterruption \/ HandleRouteChange
                       \/ HandleMediaServicesReset
  PROVE  /\ Idle /\ UNCHANGED <<systemVars, queueVars, shown>>
         /\ \E what \in {"config", "began", "ended", "route", "reset"} :
              /\ Taken(Notice(what, NoSource, TRUE))
              /\ \/ \E forced \in BOOLEAN : StartAudio(output, forced, <<>>)
                 \/ /\ UNCHANGED <<mainVars, blocks>>
                    /\ what \in {"config", "ended", "route"}
                    /\ ~wanted \/ (what = "config" /\ graph.runs) \/ (what = "route" /\ ~graph.runs)
                 \/ /\ what = "began" /\ told' = "failed"
                    /\ UNCHANGED <<graph, halves, wanted, waiting, blocks>>
                 \/ /\ what = "route" /\ wanted /\ graph.runs /\ told' = "running"
                    /\ blocks' = Append(blocks, Block("latency", output))
                    /\ UNCHANGED <<graph, halves, wanted, waiting>>
                 \/ /\ what = "reset" /\ ~wanted /\ ~graph'.runs
                    /\ UNCHANGED <<halves, wanted, told, waiting, blocks>>
<1> USE DEF Notified
<1>1. ASSUME NEW what, Taken(Notice(what, NoSource, TRUE))
      PROVE  Idle /\ UNCHANGED <<systemVars, queueVars>>
  BY <1>1 DEF Taken
<1>2. CASE HandleConfigurationChange
  <2>1. Taken(Notice("config", NoSource, TRUE)) /\ UNCHANGED shown
    BY <1>2 DEF HandleConfigurationChange
  <2>2. StartAudio(output, FALSE, <<>>) \/ (UNCHANGED <<mainVars, blocks>> /\ (~wanted \/ graph.runs))
    BY <1>2 DEF HandleConfigurationChange, Unmoved, HostTypeOK, MainTypeOK
  <2>3. QED
    BY <1>1, <2>1, <2>2
<1>3. CASE HandleInterruption
  <2>1. CASE /\ Taken(Notice("began", NoSource, TRUE)) /\ told' = "failed"
             /\ UNCHANGED <<graph, halves, wanted, waiting, blocks>>
    BY <1>1, <1>3, <2>1 DEF HandleInterruption
  <2>2. CASE /\ Taken(Notice("ended", NoSource, TRUE))
             /\ IF wanted THEN StartAudio(output, FALSE, <<>>) ELSE Unmoved
    <3>1. StartAudio(output, FALSE, <<>>) \/ (UNCHANGED <<mainVars, blocks>> /\ ~wanted)
      BY <2>2 DEF Unmoved
    <3>2. QED
      BY <1>1, <1>3, <2>2, <3>1 DEF HandleInterruption
  <2>3. QED
    BY <1>3, <2>1, <2>2 DEF HandleInterruption
<1>4. CASE HandleRouteChange
  <2>1. Taken(Notice("route", NoSource, TRUE)) /\ UNCHANGED <<shown, graph, halves, wanted, waiting>>
    BY <1>4 DEF HandleRouteChange
  <2>2. CASE wanted /\ graph.runs
    BY <1>1, <1>4, <2>1, <2>2 DEF HandleRouteChange
  <2>3. CASE ~(wanted /\ graph.runs)
    <3>1. UNCHANGED <<mainVars, blocks>>
      BY <1>4, <2>1, <2>3 DEF HandleRouteChange, mainVars
    <3>2. QED
      BY <1>1, <2>1, <2>3, <3>1
  <2>4. QED
    BY <2>2, <2>3
<1>5. CASE HandleMediaServicesReset
  <2>1. Taken(Notice("reset", NoSource, TRUE)) /\ UNCHANGED shown
    BY <1>5 DEF HandleMediaServicesReset
  <2>2. CASE wanted
    BY <1>1, <1>5, <2>1, <2>2 DEF HandleMediaServicesReset
  <2>3. CASE ~wanted
    <3>1. UNCHANGED <<halves, wanted, told, waiting, blocks>> /\ ~graph'.runs
      BY <1>5, <2>3 DEF HandleMediaServicesReset
    <3>2. QED
      BY <1>1, <2>1, <2>3, <3>1
  <2>4. QED
    BY <2>2, <2>3
<1>6. QED
  BY <1>2, <1>3, <1>4, <1>5

\* The platform says what it did, and what it stops it says.
LEMMA PlatformDoes ==
  ASSUME PairInv, Platform
  PROVE  /\ UNCHANGED <<told, wanted, waiting, queueVars, blocks, shown>>
         /\ graph'.runs \in {graph.runs, FALSE}
         /\ graph'.runs => output' = output \/ RouteChanges
         /\ \/ UNCHANGED <<notices, interrupted>> /\ ~graph.runs
            \/ \E what \in {"config", "began", "ended", "reset", "route"} :
                 /\ notices' = Append(notices, Notice(what, NoSource, TRUE))
                 /\ graph'.runs # graph.runs => what \in {"config", "began", "reset"}
                 /\ what = "began" => interrupted'
                 /\ interrupted /\ ~interrupted' => what = "ended"
                 /\ RouteChanges => what = "route"
<1> USE DEF mainVars, queueVars, Upset, Tell, EngineStops
<1>0. /\ graph \in [runs : BOOLEAN, node : Nat] /\ interrupted \in BOOLEAN
      /\ graph.runs => ~interrupted
  BY DEF PairInv, HostTypeOK, MainTypeOK, GraphInv
<1>1. CASE OutputChanges
  <2>1. UNCHANGED <<told, wanted, waiting, queueVars, blocks, shown, interrupted>> /\ graph'.runs = FALSE
    BY <1>0, <1>1 DEF OutputChanges
  <2>2. IF graph.runs THEN notices' = Append(notices, Notice("config", NoSource, TRUE))
        ELSE UNCHANGED notices
    BY <1>1 DEF OutputChanges
  <2>3. RouteChanges => FALSE
    BY <1>0, <2>1 DEF RouteChanges
  <2>4. QED
    BY <1>0, <2>1, <2>2, <2>3
<1>2. CASE RouteChanges
  BY <1>0, <1>2 DEF RouteChanges
<1>3. CASE InterruptionBegins
  <2>1. UNCHANGED <<told, wanted, waiting, queueVars, blocks, shown>> /\ graph'.runs = FALSE /\ interrupted'
    BY <1>0, <1>3 DEF InterruptionBegins
  <2>2. notices' = Append(notices, Notice("began", NoSource, TRUE)) /\ output' = output
    BY <1>3 DEF InterruptionBegins
  <2>3. RouteChanges => FALSE
    BY <1>0, <2>1 DEF RouteChanges
  <2>4. QED
    BY <1>0, <2>1, <2>2, <2>3
<1>4. CASE InterruptionEnds
  <2>1. /\ UNCHANGED <<told, wanted, waiting, queueVars, blocks, shown, output, graph>>
        /\ interrupted /\ ~interrupted'
        /\ notices' = Append(notices, Notice("ended", NoSource, TRUE))
    BY <1>4 DEF InterruptionEnds
  <2>2. RouteChanges => FALSE
    BY <2>1 DEF RouteChanges
  <2>3. QED
    BY <1>0, <2>1, <2>2
<1>5. CASE MediaServicesReset
  <2>1. UNCHANGED <<told, wanted, waiting, queueVars, blocks, shown, interrupted>> /\ graph'.runs = FALSE
    BY <1>0, <1>5 DEF MediaServicesReset
  <2>2. notices' = Append(notices, Notice("reset", NoSource, TRUE)) /\ output' = output
    BY <1>5 DEF MediaServicesReset
  <2>3. RouteChanges => FALSE
    BY <1>0, <2>1 DEF RouteChanges
  <2>4. QED
    BY <1>0, <2>1, <2>2, <2>3
<1>6. QED
  BY <1>1, <1>2, <1>3, <1>4, <1>5 DEF Platform

\* The rest of startAudio after the wait.
LEMMA GoOnDoes ==
  ASSUME PairInv, ShownTypeOK, GoOn
  PROVE  /\ UNCHANGED <<queueVars, notices, interrupted, output, wanted>> /\ wanted
         /\ waiting.sync /\ waiting.back /\ waiting' = NotWaiting
         /\ (told' = "running" <=> graph'.runs)
         /\ graph'.runs => \A d : IsLast(blocks', "latency", d, output)
         /\ \A d, u, v : IsLast(blocks, "clock", d, u) /\ IsLast(waiting.after, "clock", u, v)
                           => IsLast(blocks', "clock", d, v)
         /\ AllIn(blocks, blocks') /\ AllIn(waiting.after, blocks')
         /\ shown' = IF ~waiting.ok /\ shown = waiting.kind THEN "internal" ELSE shown
<1>1. /\ MainTypeOK /\ output \in Outputs
      /\ waiting.after \in Afters
  BY DEF PairInv, HostTypeOK, MainTypeOK, Waits, Afters, ShownTypeOK
<1>2. PICK ok \in BOOLEAN : StartEngine(halves.pair, output, ok, waiting.after)
  BY DEF GoOn
<1>3. /\ UNCHANGED <<queueVars, notices, interrupted, output, wanted>> /\ wanted
      /\ waiting.sync /\ waiting.back /\ waiting' = NotWaiting
      /\ shown' = IF ~waiting.ok /\ shown = waiting.kind THEN "internal" ELSE shown
  BY DEF GoOn, systemVars, PairInv, GraphInv
<1>4. /\ graph'.runs = ok /\ (told' = "running" <=> ok)
      /\ ok => \A d : IsLast(blocks', "latency", d, output)
      /\ \A d, u, v : IsLast(blocks, "clock", d, u) /\ IsLast(waiting.after, "clock", u, v)
                        => IsLast(blocks', "clock", d, v)
      /\ AllIn(blocks, blocks') /\ AllIn(waiting.after, blocks')
  BY <1>1, <1>2, EngineDoes
<1>5. QED
  BY <1>3, <1>4

\* The notices there are.
LEMMA NoticesAre ==
  /\ \A what \in {"config", "began", "ended", "reset", "route"} :
       Notice(what, NoSource, TRUE) \in NoticeKinds /\ Notice(what, NoSource, TRUE).what = what
  /\ \A kind \in ClockKinds, ok \in BOOLEAN :
       /\ Notice("clock", kind, ok) \in NoticeKinds
       /\ Notice("clock", kind, ok).what = "clock" /\ Notice("clock", kind, ok).kind = kind
       /\ Notice("clock", kind, ok).ok = ok
BY DEF Notice, NoticeKinds

LEMMA SaidStill ==
  ASSUME ShownTypeOK, NEW n, Taken(n)
  PROVE  \A what : what # n.what /\ Said(what) => Said(what)'
<1>1. \A j \in DOMAIN notices : notices[j] # n => \E k \in DOMAIN notices' : notices'[k] = notices[j]
  BY TakenLeaves
<1>2. QED
  BY <1>1 DEF Said

LEMMA SaidMore ==
  ASSUME ShownTypeOK, NEW n \in NoticeKinds, notices' = Append(notices, n)
  PROVE  Said(n.what)' /\ \A what : Said(what) => Said(what)'
<1>1. /\ \A j \in DOMAIN notices : j \in DOMAIN notices' /\ notices'[j] = notices[j]
      /\ \E k \in DOMAIN notices' : notices'[k] = n
  BY NoticeAdded
<1>2. QED
  BY <1>1 DEF Said

LEMMA QuietKeepsTold ==
  ASSUME ToldInv, UNCHANGED <<graph, told, wanted>>, waiting'.sync = waiting.sync,
         \A what \in {"config", "began", "reset", "ended"} : Said(what) => Said(what)'
  PROVE  ToldInv'
BY DEF ToldInv

\* The actions that neither start nor stop anything.
Quiet ==
  LoadPattern \/ SetPlaying \/ SetLatency \/ FollowDevice \/ SetNudge \/ SetClock \/ ReplaceControl
    \/ TimerTick \/ FreeRenderer \/ ClockResult \/ AudioThread

LEMMA QuietDoes ==
  ASSUME HostTypeOK, ShownTypeOK, Quiet
  PROVE  /\ UNCHANGED <<graph, told, wanted, output, interrupted>> /\ waiting'.sync = waiting.sync
         /\ waiting'.after = waiting.after
         /\ \A what : what # "clock" /\ Said(what) => Said(what)'
         /\ \/ UNCHANGED notices
            \/ \E kind \in ClockKinds, ok \in BOOLEAN :
                 notices' = Append(notices, Notice("clock", kind, ok)) \/ Taken(Notice("clock", kind, ok))
<1> USE DEF systemVars, mainVars
<1>1. CASE LoadPattern \/ SetPlaying \/ SetLatency \/ FollowDevice \/ SetNudge
  BY <1>1, QueueCallDoes DEF HostTypeOK, Said
<1>2. CASE SetClock
  <2>1. /\ UNCHANGED <<graph, told, wanted, output, interrupted, waiting>>
        /\ Head(blocks).what = "clock" /\ blocks # <<>>
    BY <1>2 DEF SetClock, TakeBlock
  <2>2. Head(blocks).value \in ClockKinds
    <3>1. Head(blocks) \in Calls \cup Pairs
      BY <2>1 DEF HostTypeOK, MainTypeOK
    <3>2. QED
      BY <2>1, <3>1, CallValues
  <2>3. PICK ok \in BOOLEAN : notices' = Append(notices, Notice("clock", Head(blocks).value, ok))
    <3> DEFINE runs == control = NoControl \/ Runs([desired EXCEPT !.clock = Head(blocks).value])
    <3>1. runs \in BOOLEAN /\ notices' = Append(notices, Notice("clock", Head(blocks).value, runs))
      BY <1>2 DEF SetClock, Runs
    <3>2. QED
      BY <3>1
  <2>4. \A what : Said(what) => Said(what)'
    BY <2>2, <2>3, NoticesAre, SaidMore
  <2>5. QED
    BY <2>1, <2>2, <2>3, <2>4
<1>3. CASE ReplaceControl
  <2>1. waiting \in Waits
    BY DEF HostTypeOK, MainTypeOK
  <2>2. waiting'.sync = waiting.sync /\ waiting'.after = waiting.after
    BY <1>3, <2>1 DEF ReplaceControl, Waits
  <2>3. QED
    BY <1>3, <2>2 DEF ReplaceControl, Said
<1>4. CASE TimerTick
  BY <1>4 DEF TimerTick, Said
<1>5. CASE FreeRenderer
  BY <1>5 DEF FreeRenderer, Said
<1>6. CASE ClockResult
  <2>1. PICK kind \in ClockKinds, ok \in BOOLEAN : Taken(Notice("clock", kind, ok))
    BY <1>6 DEF ClockResult
  <2>2. UNCHANGED <<graph, told, wanted, output, interrupted, waiting>>
    BY <1>6, <2>1 DEF ClockResult, Unmoved, Taken
  <2>3. \A what : what # "clock" /\ Said(what) => Said(what)'
    BY <2>1, NoticesAre, SaidStill
  <2>4. QED
    BY <2>1, <2>2, <2>3
<1>7. CASE AudioThread
  BY <1>7 DEF AudioThread, BeginCycle, EndCycle, Said
<1>8. QED
  BY <1>1, <1>2, <1>3, <1>4, <1>5, <1>6, <1>7 DEF Quiet

LEMMA NextIs ==
  ASSUME HostNext
  PROVE  \/ Quiet \/ GoOn \/ Platform
         \/ SelectClock \/ Play \/ Adjust \/ SetOutputDevice
         \/ HandleConfigurationChange \/ HandleInterruption \/ HandleRouteChange
         \/ HandleMediaServicesReset
BY DEF HostNext, ControlQueue, MainThread, Quiet

-----------------------------------------------------------------------------
(* What the interface was told *)

LEMMA StartIsTold ==
  ASSUME PairInv, ShownTypeOK, Idle, NEW o \in Outputs, NEW forced \in BOOLEAN, NEW after \in Afters,
         StartAudio(o, forced, after)
  PROVE  ToldInv'
<1>1. wanted' /\ ((told' = "running" <=> graph'.runs) \/ (~graph'.runs /\ waiting'.sync))
  BY StartAudioDoes DEF PairInv
<1>2. QED
  BY <1>1 DEF ToldInv

LEMMA ToldStep ==
  ASSUME PairInv, ShownTypeOK, ToldInv, EndedInv, HostNext
  PROVE  ToldInv'
<1>0. /\ HostTypeOK /\ output \in Outputs /\ <<>> \in Afters
      /\ graph \in [runs : BOOLEAN, node : Nat]
      /\ graph.runs => wanted /\ ~interrupted
  BY AftersAre DEF PairInv, HostTypeOK, MainTypeOK, GraphInv
<1>1. CASE Quiet
  BY <1>0, <1>1, QuietDoes, QuietKeepsTold
<1>2. CASE GoOn
  <2>1. wanted' /\ (told' = "running" <=> graph'.runs)
    BY <1>2, GoOnDoes
  <2>2. QED
    BY <2>1 DEF ToldInv
<1>3. CASE SelectClock \/ Play \/ Adjust \/ SetOutputDevice
  <2>1. Idle /\ UNCHANGED notices /\ output' \in Outputs
    BY <1>0, <1>3, UserDoes
  <2>2. CASE UNCHANGED mainVars
    BY <2>1, <2>2, QuietKeepsTold DEF mainVars, Said
  <2>3. ASSUME NEW after \in Afters, StartAudio(output', FALSE, after)
        PROVE  ToldInv'
    BY <2>1, <2>3, StartIsTold
  <2>4. QED
    BY <1>0, <1>3, <2>2, <2>3, UserDoes
<1>4. CASE HandleConfigurationChange \/ HandleInterruption \/ HandleRouteChange
             \/ HandleMediaServicesReset
  <2>1. PICK what \in {"config", "began", "ended", "route", "reset"} :
          /\ Taken(Notice(what, NoSource, TRUE))
          /\ \/ \E forced \in BOOLEAN : StartAudio(output, forced, <<>>)
             \/ /\ UNCHANGED <<mainVars, blocks>>
                /\ what \in {"config", "ended", "route"}
                /\ ~wanted \/ (what = "config" /\ graph.runs) \/ (what = "route" /\ ~graph.runs)
             \/ /\ what = "began" /\ told' = "failed"
                /\ UNCHANGED <<graph, halves, wanted, waiting, blocks>>
             \/ /\ what = "route" /\ wanted /\ graph.runs /\ told' = "running"
                /\ blocks' = Append(blocks, Block("latency", output))
                /\ UNCHANGED <<graph, halves, wanted, waiting>>
             \/ /\ what = "reset" /\ ~wanted /\ ~graph'.runs
                /\ UNCHANGED <<halves, wanted, told, waiting, blocks>>
    BY <1>0, <1>4, HandlerDoes
  <2>0. Taken(Notice(what, NoSource, TRUE)) /\ Notice(what, NoSource, TRUE).what = what
    BY <2>1 DEF Notice
  <2>2. Idle /\ \A w : w # what /\ Said(w) => Said(w)'
    <3>1. Idle
      BY <1>0, <1>4, HandlerDoes
    <3>2. \A w : w # Notice(what, NoSource, TRUE).what /\ Said(w) => Said(w)'
      BY <2>0, SaidStill
    <3>3. QED
      BY <2>0, <3>1, <3>2
  <2>3. ASSUME NEW forced \in BOOLEAN, StartAudio(output, forced, <<>>)
        PROVE  ToldInv'
    BY <1>0, <2>2, <2>3, StartIsTold
  <2>4. CASE UNCHANGED mainVars /\ ~wanted
    BY <1>0, <2>4 DEF ToldInv, mainVars
  <2>5. CASE UNCHANGED mainVars /\ what = "config" /\ graph.runs
    BY <2>2, <2>5 DEF ToldInv, mainVars
  <2>6. CASE UNCHANGED mainVars /\ what = "route"
    BY <2>2, <2>6, QuietKeepsTold DEF mainVars
  <2>7. CASE what = "began" /\ told' = "failed" /\ UNCHANGED <<graph, halves, wanted, waiting, blocks>>
    <3>1. graph.runs /\ told # "running" => Said("ended")
      BY DEF ToldInv
    <3>2. graph.runs => Said("ended")
      <4>1. \E i \in DOMAIN notices : notices[i].what = "began"
        BY <2>7, <2>0, TakenLeaves
      <4>2. QED
        BY <1>0, <4>1 DEF EndedInv, Said
    <3>3. graph.runs => Said("ended")'
      BY <2>2, <2>7, <3>2
    <3>4. QED
      BY <2>7, <3>3 DEF ToldInv
  <2>8. CASE wanted /\ graph.runs /\ told' = "running" /\ UNCHANGED <<graph, halves, wanted, waiting>>
    BY <2>8 DEF ToldInv
  <2>9. CASE ~wanted /\ ~graph'.runs /\ UNCHANGED <<halves, wanted, told, waiting, blocks>>
    BY <2>9 DEF ToldInv
  <2>10. QED
    BY <2>1, <2>3, <2>4, <2>5, <2>6, <2>7, <2>8, <2>9
<1>5. CASE Platform
  <2>1. UNCHANGED <<told, wanted, waiting>> /\ graph'.runs \in {graph.runs, FALSE}
    BY <1>5, PlatformDoes
  <2>2. CASE UNCHANGED notices /\ ~graph.runs
    <3>1. ~graph'.runs /\ \A w : Said(w) => Said(w)'
      BY <2>1, <2>2 DEF Said
    <3>2. QED
      BY <2>1, <2>2, <3>1 DEF ToldInv
  <2>3. ASSUME NEW what \in {"config", "began", "ended", "reset", "route"},
               notices' = Append(notices, Notice(what, NoSource, TRUE)),
               graph'.runs # graph.runs => what \in {"config", "began", "reset"}
        PROVE  ToldInv'
    <3>1. Said(what)' /\ \A w : Said(w) => Said(w)'
      BY <2>3, NoticesAre, SaidMore
    <3>2. QED
      BY <1>0, <2>1, <2>3, <3>1 DEF ToldInv
  <2>4. QED
    BY <1>5, <2>2, <2>3, PlatformDoes
<1>6. QED
  BY <1>1, <1>2, <1>3, <1>4, <1>5, NextIs

-----------------------------------------------------------------------------
(* Interruptions are said in their order *)

LEMMA EndedGrows ==
  ASSUME ShownTypeOK, EndedInv, NEW n \in NoticeKinds, notices' = Append(notices, n),
         n.what = "began" => interrupted', interrupted /\ ~interrupted' => n.what = "ended"
  PROVE  EndedInv'
<1>1. PICK k \in DOMAIN notices' : notices'[k] = n /\ \A j \in DOMAIN notices : k > j
  BY NoticeAdded
<1>2. /\ \A j \in DOMAIN notices : j \in DOMAIN notices' /\ notices'[j] = notices[j]
      /\ \A j \in DOMAIN notices' : notices'[j] = n \/ (j \in DOMAIN notices /\ notices'[j] = notices[j])
  BY NoticeAdded
<1>3. SUFFICES ASSUME NEW i \in DOMAIN notices', notices'[i].what = "began", ~interrupted'
               PROVE  \E j \in DOMAIN notices' : j > i /\ notices'[j].what = "ended"
  BY DEF EndedInv
<1>4. i \in DOMAIN notices /\ notices[i].what = "began"
  BY <1>2, <1>3
<1>5. CASE interrupted
  BY <1>1, <1>3, <1>4, <1>5
<1>6. CASE ~interrupted
  BY <1>2, <1>4, <1>6 DEF EndedInv
<1>7. QED
  BY <1>5, <1>6

LEMMA EndedStays ==
  ASSUME ShownTypeOK, EndedInv, NEW n \in NoticeKinds, Taken(n)
  PROVE  EndedInv'
<1>1. PICK i \in DOMAIN notices :
        /\ notices[i] = n /\ notices' = RemoveAt(notices, i)
        /\ \A j \in 1 .. i - 1 : n.what # "route" => notices[j].what = "route"
  BY DEF Taken
<1>2. notices \in Seq(NoticeKinds) /\ interrupted' = interrupted
  BY DEF ShownTypeOK, Taken, systemVars
<1>3. /\ \A k \in DOMAIN notices' : \/ k < i /\ k \in DOMAIN notices /\ notices'[k] = notices[k]
                                    \/ k >= i /\ k + 1 \in DOMAIN notices /\ notices'[k] = notices[k + 1]
      /\ \A j \in DOMAIN notices : /\ j < i => j \in DOMAIN notices' /\ notices'[j] = notices[j]
                                   /\ j > i => j - 1 \in DOMAIN notices' /\ notices'[j - 1] = notices[j]
  BY <1>1, <1>2, Removed
<1>4. DOMAIN notices = 1 .. Len(notices) /\ Len(notices) \in Nat
  BY <1>2
<1>5. i \in Nat /\ DOMAIN notices' \subseteq Int
  <2>1. notices' \in Seq(NoticeKinds)
    BY TakenLeaves
  <2>2. QED
    BY <1>4, <2>1
<1>6. SUFFICES ASSUME NEW k \in DOMAIN notices', notices'[k].what = "began", ~interrupted
               PROVE  \E j \in DOMAIN notices' : j > k /\ notices'[j].what = "ended"
  BY <1>2 DEF EndedInv
<1>7. CASE k < i /\ k \in DOMAIN notices /\ notices'[k] = notices[k]
  <2>1. PICK j \in DOMAIN notices : j > k /\ notices[j].what = "ended"
    BY <1>6, <1>7 DEF EndedInv
  <2>2. k \in 1 .. i - 1 /\ notices[k].what # "route"
    BY <1>4, <1>5, <1>6, <1>7
  <2>3. n.what = "route"
    BY <1>1, <2>2
  <2>4. j # i
    BY <1>1, <2>1, <2>3
  <2>5. CASE j < i
    BY <1>3, <2>1, <2>5
  <2>6. CASE j > i
    <3>1. j - 1 > k
      BY <1>4, <1>5, <1>7, <2>6
    <3>2. QED
      BY <1>3, <2>1, <2>6, <3>1
  <2>7. QED
    BY <1>4, <1>5, <2>4, <2>5, <2>6
<1>8. CASE k >= i /\ k + 1 \in DOMAIN notices /\ notices'[k] = notices[k + 1]
  <2>1. PICK j \in DOMAIN notices : j > k + 1 /\ notices[j].what = "ended"
    BY <1>6, <1>8 DEF EndedInv
  <2>2. j > i /\ j - 1 > k
    BY <1>4, <1>5, <1>8, <2>1
  <2>3. QED
    BY <1>3, <2>1, <2>2
<1>9. QED
  BY <1>3, <1>7, <1>8

LEMMA EndedStep ==
  ASSUME PairInv, ShownTypeOK, EndedInv, HostNext
  PROVE  EndedInv'
<1>0. HostTypeOK
  BY DEF PairInv
<1>1. CASE UNCHANGED <<notices, interrupted>>
  BY <1>1 DEF EndedInv
<1>2. CASE Quiet
  <2>1. UNCHANGED interrupted
    BY <1>0, <1>2, QuietDoes
  <2>2. ASSUME NEW kind \in ClockKinds, NEW ok \in BOOLEAN,
               notices' = Append(notices, Notice("clock", kind, ok))
        PROVE  EndedInv'
    <3>1. Notice("clock", kind, ok) \in NoticeKinds /\ Notice("clock", kind, ok).what = "clock"
      BY NoticesAre
    <3>2. QED
      BY <2>1, <2>2, <3>1, EndedGrows
  <2>3. ASSUME NEW kind \in ClockKinds, NEW ok \in BOOLEAN, Taken(Notice("clock", kind, ok))
        PROVE  EndedInv'
    BY <2>3, NoticesAre, EndedStays
  <2>4. QED
    BY <1>0, <1>1, <1>2, <2>1, <2>2, <2>3, QuietDoes
<1>3. CASE GoOn
  BY <1>1, <1>3, GoOnDoes
<1>4. CASE SelectClock \/ Play \/ Adjust \/ SetOutputDevice
  BY <1>0, <1>1, <1>4, UserDoes
<1>5. CASE HandleConfigurationChange \/ HandleInterruption \/ HandleRouteChange
             \/ HandleMediaServicesReset
  <2>1. PICK what \in {"config", "began", "ended", "route", "reset"} : Taken(Notice(what, NoSource, TRUE))
    BY <1>0, <1>5, HandlerDoes
  <2>2. QED
    BY <2>1, NoticesAre, EndedStays
<1>6. CASE Platform
  <2>1. ASSUME NEW what \in {"config", "began", "ended", "reset", "route"},
               notices' = Append(notices, Notice(what, NoSource, TRUE)),
               what = "began" => interrupted', interrupted /\ ~interrupted' => what = "ended"
        PROVE  EndedInv'
    BY <2>1, NoticesAre, EndedGrows
  <2>2. QED
    BY <1>1, <1>6, <2>1, PlatformDoes
<1>7. QED
  BY <1>2, <1>3, <1>4, <1>5, <1>6, NextIs

-----------------------------------------------------------------------------
(* The latency *)

LEMMA LatencyOfNone ==
  ASSUME ~graph'.runs
  PROVE  LatencyInv'
BY DEF LatencyInv

LEMMA LatencyKept ==
  ASSUME LatencyInv, UNCHANGED <<blocks, output>>, desired'.latency = desired.latency,
         graph'.runs => graph.runs, Said("route") => Said("route")'
  PROVE  LatencyInv'
BY DEF LatencyInv

LEMMA LatencyOfStart ==
  ASSUME PairInv, ShownTypeOK, Idle, NEW forced \in BOOLEAN, NEW after \in Afters,
         output' \in Outputs, StartAudio(output', forced, after)
  PROVE  LatencyInv'
<1>1. graph'.runs => \A d : IsLast(blocks', "latency", d, output')
  BY StartAudioDoes DEF PairInv
<1>2. QED
  BY <1>1 DEF LatencyInv

\* Another block, or the latency of the output, is put at the end.
LEMMA LatencyGrows ==
  ASSUME HostTypeOK, LatencyInv, NEW block \in Calls, blocks' = Append(blocks, block),
         UNCHANGED <<graph, output>>, desired'.latency = desired.latency,
         \/ block = Block("latency", output)
         \/ block.what # "latency" /\ (Said("route") => Said("route")')
  PROVE  LatencyInv'
<1>1. <<block>> \in Seq(Blocks) /\ blocks \in Seq(Blocks) /\ blocks' = blocks \o <<block>>
  <2>1. block \in Blocks /\ blocks \in Seq(Blocks)
    BY DEF Blocks, HostTypeOK, MainTypeOK
  <2> HIDE DEF Blocks
  <2>2. QED
    BY <2>1
<1>2. CASE block = Block("latency", output)
  <2>1. block.what = "latency" /\ block.value = output
    BY <1>2 DEF Block
  <2>2. Ends(<<block>>, "latency", output)
    BY <2>1, EndsOfOne
  <2>3. Ends(blocks', "latency", output)
    BY <1>1, <2>2, EndsOfBoth
  <2>4. QED
    BY <2>3 DEF LatencyInv, IsLast
<1>3. CASE block.what # "latency" /\ (Said("route") => Said("route")')
  <2>1. \A v : IsLast(<<block>>, "latency", v, v)
    BY <1>3, NoneInOne, LastOfNone
  <2>2. \A d, v : IsLast(blocks, "latency", d, v) => IsLast(blocks', "latency", d, v)
    BY <1>1, <2>1, LastOfBoth
  <2>3. QED
    BY <1>3, <2>2 DEF LatencyInv
<1>4. QED
  BY <1>2, <1>3

\* A block is taken.
LEMMA LatencyTaken ==
  ASSUME HostTypeOK, LatencyInv, UNCHANGED <<graph, output>>, blocks # <<>>, blocks' = Tail(blocks),
         Said("route") => Said("route")',
         desired'.latency = IF Head(blocks).what = "latency" THEN Head(blocks).value
                            ELSE desired.latency
  PROVE  LatencyInv'
<1>1. blocks \in Seq(Blocks)
  BY DEF Blocks, HostTypeOK, MainTypeOK
<1>2. \A v : IsLast(blocks, "latency", desired.latency, v) => IsLast(blocks', "latency", desired'.latency, v)
  BY <1>1, LastOfTail
<1>3. QED
  BY <1>2 DEF LatencyInv

LEMMA LatencyStep ==
  ASSUME PairInv, ShownTypeOK, LatencyInv, HostNext
  PROVE  LatencyInv'
<1>0. /\ HostTypeOK /\ output \in Outputs /\ <<>> \in Afters
      /\ graph \in [runs : BOOLEAN, node : Nat]
      /\ graph.runs => wanted /\ ~interrupted /\ ~waiting.sync
  BY AftersAre DEF PairInv, HostTypeOK, MainTypeOK, GraphInv
<1>1. CASE LoadPattern \/ SetPlaying \/ SetLatency \/ FollowDevice \/ SetNudge
  <2>1. QueueTypeOK /\ Quiet
    BY <1>0, <1>1 DEF HostTypeOK, Quiet
  <2>2. Said("route") => Said("route")'
    BY <1>0, <2>1, QuietDoes
  <2>3. QED
    BY <1>0, <1>1, <2>1, <2>2, QueueCallDoes, LatencyTaken
<1>2. CASE SetClock
  <2>1. /\ UNCHANGED <<graph, output>> /\ blocks # <<>> /\ blocks' = Tail(blocks)
        /\ Head(blocks).what = "clock"
    BY <1>2 DEF SetClock, TakeBlock, systemVars, mainVars
  <2>2. Said("route") => Said("route")'
    BY <1>0, <1>2, QuietDoes DEF Quiet
  <2>3. desired'.latency = desired.latency
    BY <1>0, <1>2 DEF HostTypeOK, QueueTypeOK, Desires, SetClock, AfterClock
  <2>4. QED
    BY <1>0, <2>1, <2>2, <2>3, LatencyTaken
<1>3. CASE ReplaceControl
  <2>1. \E i \in DOMAIN blocks : IsPair(i)
    <3>1. blocks \in Seq(Blocks) /\ blocks # <<>> /\ Head(blocks).what = "pair"
      BY <1>0, <1>3 DEF ReplaceControl, TakeBlock, HostTypeOK, MainTypeOK, Blocks
    <3>2. 1 \in DOMAIN blocks /\ Head(blocks) = blocks[1]
      BY <3>1
    <3>3. QED
      BY <3>1, <3>2 DEF IsPair
  <2>2. ~graph'.runs
    BY <1>0, <1>3, <2>1 DEF ReplaceControl, PairInv, BlockInv
  <2>3. QED
    BY <2>2, LatencyOfNone
<1>4. CASE TimerTick \/ FreeRenderer \/ AudioThread
  <2>1. UNCHANGED <<graph, blocks, output, desired, notices>>
    BY <1>4 DEF TimerTick, FreeRenderer, AudioThread, BeginCycle, EndCycle, systemVars, mainVars,
                queueVars
  <2>2. QED
    BY <2>1, LatencyKept DEF Said
<1>5. CASE ClockResult
  <2>1. UNCHANGED <<graph, blocks, output, desired>>
    BY <1>5 DEF ClockResult, Unmoved, Taken, systemVars, mainVars, queueVars
  <2>2. Said("route") => Said("route")'
    BY <1>0, <1>5, QuietDoes DEF Quiet
  <2>3. QED
    BY <2>1, <2>2, LatencyKept
<1>6. CASE GoOn
  <2>1. output' = output /\ (graph'.runs => \A d : IsLast(blocks', "latency", d, output))
    BY <1>6, GoOnDoes
  <2>2. QED
    BY <2>1 DEF LatencyInv
<1>7. CASE SelectClock \/ Play \/ Adjust \/ SetOutputDevice
  <2>1. Idle /\ UNCHANGED <<desired, notices>> /\ output' \in Outputs
    BY <1>0, <1>7, UserDoes DEF queueVars
  <2>2. CASE UNCHANGED <<mainVars, blocks, shown>> /\ ~wanted
    BY <1>0, <2>2, LatencyOfNone DEF mainVars
  <2>3. ASSUME NEW after \in Afters, StartAudio(output', FALSE, after)
        PROVE  LatencyInv'
    BY <2>1, <2>3, LatencyOfStart
  <2>4. ASSUME NEW block \in Calls, UNCHANGED <<mainVars, output>>, blocks' = Append(blocks, block),
               block.what # "latency"
        PROVE  LatencyInv'
    <3>1. UNCHANGED <<graph, output>> /\ desired'.latency = desired.latency
          /\ (Said("route") => Said("route")')
      BY <2>1, <2>4 DEF mainVars, Said
    <3>2. QED
      BY <1>0, <2>4, <3>1, LatencyGrows
  <2>5. QED
    BY <1>0, <1>7, <2>2, <2>3, <2>4, UserDoes
<1>8. CASE HandleConfigurationChange \/ HandleInterruption \/ HandleRouteChange
             \/ HandleMediaServicesReset
  <2>1. PICK what \in {"config", "began", "ended", "route", "reset"} :
          /\ Taken(Notice(what, NoSource, TRUE))
          /\ \/ \E forced \in BOOLEAN : StartAudio(output, forced, <<>>)
             \/ /\ UNCHANGED <<mainVars, blocks>>
                /\ what \in {"config", "ended", "route"}
                /\ ~wanted \/ (what = "config" /\ graph.runs) \/ (what = "route" /\ ~graph.runs)
             \/ /\ what = "began" /\ told' = "failed"
                /\ UNCHANGED <<graph, halves, wanted, waiting, blocks>>
             \/ /\ what = "route" /\ wanted /\ graph.runs /\ told' = "running"
                /\ blocks' = Append(blocks, Block("latency", output))
                /\ UNCHANGED <<graph, halves, wanted, waiting>>
             \/ /\ what = "reset" /\ ~wanted /\ ~graph'.runs
                /\ UNCHANGED <<halves, wanted, told, waiting, blocks>>
    BY <1>0, <1>8, HandlerDoes
  <2>2. Idle /\ UNCHANGED <<desired, output>>
    BY <1>0, <1>8, HandlerDoes DEF systemVars, queueVars
  <2>3. Taken(Notice(what, NoSource, TRUE)) /\ Notice(what, NoSource, TRUE).what = what
    BY <2>1 DEF Notice
  <2>4. what # "route" => (Said("route") => Said("route")')
    BY <2>3, SaidStill
  <2>5. ASSUME NEW forced \in BOOLEAN, StartAudio(output, forced, <<>>)
        PROVE  LatencyInv'
    BY <1>0, <2>2, <2>5, LatencyOfStart
  <2>6. CASE UNCHANGED <<mainVars, blocks>> /\ (~wanted \/ ~graph.runs)
    BY <1>0, <2>6, LatencyOfNone DEF mainVars
  <2>7. CASE UNCHANGED <<mainVars, blocks>> /\ what = "config"
    BY <2>2, <2>4, <2>7, LatencyKept DEF mainVars
  <2>8. CASE what = "began" /\ UNCHANGED <<graph, halves, wanted, waiting, blocks>>
    BY <2>2, <2>4, <2>8, LatencyKept
  <2>9. CASE blocks' = Append(blocks, Block("latency", output)) /\ UNCHANGED <<graph, halves, wanted, waiting>>
    <3>1. Block("latency", output) \in Calls /\ UNCHANGED <<graph, output>>
          /\ desired'.latency = desired.latency
      BY <1>0, <2>2, <2>9, BlocksAre
    <3>2. QED
      BY <1>0, <2>9, <3>1, LatencyGrows
  <2>10. CASE ~graph'.runs
    BY <2>10, LatencyOfNone
  <2>11. QED
    BY <2>1, <2>5, <2>6, <2>7, <2>8, <2>9, <2>10
<1>9. CASE Platform
  <2>1. UNCHANGED <<blocks, desired>> /\ graph'.runs \in {graph.runs, FALSE}
        /\ (graph'.runs => output' = output \/ RouteChanges)
    BY <1>9, PlatformDoes DEF queueVars
  <2>2. CASE ~graph'.runs
    BY <2>2, LatencyOfNone
  <2>3. ASSUME NEW what \in {"config", "began", "ended", "reset", "route"},
               notices' = Append(notices, Notice(what, NoSource, TRUE)),
               RouteChanges => what = "route", graph'.runs
        PROVE  LatencyInv'
    <3>1. Notice(what, NoSource, TRUE) \in NoticeKinds /\ Notice(what, NoSource, TRUE).what = what
      BY NoticesAre
    <3>2. Said(what)' /\ \A w : Said(w) => Said(w)'
      BY <2>3, <3>1, SaidMore
    <3>3. CASE output' = output
      BY <2>1, <2>3, <3>2, <3>3, LatencyKept
    <3>4. CASE RouteChanges
      BY <2>3, <3>2, <3>4 DEF LatencyInv
    <3>5. QED
      BY <2>1, <2>3, <3>3, <3>4
  <2>4. QED
    BY <1>9, <2>1, <2>2, <2>3, PlatformDoes
<1>10. QED
  BY <1>1, <1>2, <1>3, <1>4, <1>5, <1>6, <1>7, <1>8, <1>9, NextIs DEF Quiet

-----------------------------------------------------------------------------
(* Types *)

LEMMA ShownTypeStep ==
  ASSUME PairInv, ShownTypeOK, HostNext
  PROVE  ShownTypeOK'
<1>0. /\ HostTypeOK /\ output \in Outputs /\ <<>> \in Afters /\ shown \in ClockKinds
      /\ notices \in Seq(NoticeKinds) /\ "internal" \in ClockKinds
  BY AftersAre, HostAssumption DEF PairInv, HostTypeOK, ShownTypeOK, ClockKinds
<1>1. CASE Quiet
  <2>1. notices' \in Seq(NoticeKinds)
    <3>1. ASSUME NEW kind \in ClockKinds, NEW ok \in BOOLEAN
          PROVE  /\ notices' = Append(notices, Notice("clock", kind, ok)) => notices' \in Seq(NoticeKinds)
                 /\ Taken(Notice("clock", kind, ok)) => notices' \in Seq(NoticeKinds)
      BY NoticesAre, NoticeAdded, TakenLeaves
    <3>2. QED
      BY <1>0, <1>1, <3>1, QuietDoes
  <2>2. shown' \in ClockKinds
    <3>1. shown' = shown \/ shown' = "internal"
      BY <1>1 DEF Quiet, LoadPattern, SetPlaying, SetLatency, FollowDevice, SetNudge, Ask, SetClock,
                  ReplaceControl, TimerTick, FreeRenderer, ClockResult, AudioThread, BeginCycle, EndCycle
    <3>2. QED
      BY <1>0, <3>1
  <2>3. QED
    BY <1>0, <1>1, <2>1, <2>2, QuietDoes DEF ShownTypeOK
<1>2. CASE GoOn
  <2>1. UNCHANGED notices /\ waiting' = NotWaiting /\ shown' \in {shown, "internal"}
    BY <1>2, GoOnDoes
  <2>2. QED
    BY <1>0, <2>1 DEF ShownTypeOK, NotWaiting
<1>3. ASSUME NEW o \in Outputs, NEW forced \in BOOLEAN, NEW after \in Afters, Idle,
             StartAudio(o, forced, after)
      PROVE  /\ \A i \in DOMAIN waiting'.after : waiting'.after[i].what \in {"clock", "playing"}
             /\ ~waiting'.sync => waiting'.after = <<>>
  BY <1>3, StartAudioDoes DEF PairInv
<1>4. CASE SelectClock \/ Play \/ Adjust \/ SetOutputDevice
  <2>1. Idle /\ notices' \in Seq(NoticeKinds) /\ output' \in Outputs
    BY <1>0, <1>4, UserDoes
  <2>2. shown' \in ClockKinds
    BY <1>0, <1>4, UserDoes
  <2>3. \/ UNCHANGED waiting
        \/ \E after \in Afters : StartAudio(output', FALSE, after)
    BY <1>0, <1>4, UserDoes DEF mainVars
  <2>4. QED
    BY <1>3, <2>1, <2>2, <2>3 DEF ShownTypeOK
<1>5. CASE HandleConfigurationChange \/ HandleInterruption \/ HandleRouteChange
             \/ HandleMediaServicesReset
  <2>1. Idle /\ shown' \in ClockKinds
    BY <1>0, <1>5, HandlerDoes
  <2>2. notices' \in Seq(NoticeKinds)
    BY <1>0, <1>5, HandlerDoes, TakenLeaves
  <2>3. UNCHANGED waiting \/ \E forced \in BOOLEAN : StartAudio(output, forced, <<>>)
    BY <1>0, <1>5, HandlerDoes DEF mainVars
  <2>4. QED
    BY <1>0, <1>3, <2>1, <2>2, <2>3 DEF ShownTypeOK
<1>6. CASE Platform
  <2>1. UNCHANGED <<waiting, shown>>
    BY <1>6, PlatformDoes
  <2>2. notices' \in Seq(NoticeKinds)
    <3>1. ASSUME NEW what \in {"config", "began", "ended", "reset", "route"},
                 notices' = Append(notices, Notice(what, NoSource, TRUE))
          PROVE  notices' \in Seq(NoticeKinds)
      BY <3>1, NoticesAre, NoticeAdded
    <3>2. QED
      BY <1>0, <1>6, <3>1, PlatformDoes
  <2>3. QED
    BY <2>1, <2>2 DEF ShownTypeOK
<1>7. QED
  BY <1>1, <1>2, <1>4, <1>5, <1>6, NextIs

-----------------------------------------------------------------------------
(* The clock *)

LEMMA SettledIs ==
  /\ "internal" \notin Failing /\ "internal" \in ClockKinds
  /\ \A kind \in ClockKinds : /\ Settled(kind) \in ClockKinds /\ Settled(kind) \notin Failing
                              /\ Settled(Settled(kind)) = Settled(kind)
BY HostAssumption DEF Settled, ClockKinds

LEMMA HeardSame ==
  ASSUME ShownTypeOK, NEW n \in NoticeKinds, n.what # "clock" \/ n.ok,
         notices' = Append(notices, n) \/ Taken(n)
  PROVE  \A kind \in ClockKinds : Heard(kind)' <=> Heard(kind)
<1> SUFFICES ASSUME NEW kind \in ClockKinds PROVE Heard(kind)' <=> Heard(kind)
  OBVIOUS
<1> DEFINE f == Notice("clock", kind, FALSE)
<1>1. f # n
  <2>1. f.what = "clock" /\ ~f.ok
    BY DEF Notice
  <2> HIDE DEF f
  <2>2. QED
    BY <2>1
<1> HIDE DEF f
<1>2. CASE notices' = Append(notices, n)
  <2>1. /\ \A j \in DOMAIN notices : j \in DOMAIN notices' /\ notices'[j] = notices[j]
        /\ \A k \in DOMAIN notices' : notices'[k] = n \/ (k \in DOMAIN notices /\ notices'[k] = notices[k])
    BY <1>2, NoticeAdded
  <2>2. QED
    BY <1>1, <2>1 DEF Heard, f
<1>3. CASE Taken(n)
  <2>1. /\ \A k \in DOMAIN notices' : \E j \in DOMAIN notices : notices'[k] = notices[j]
        /\ \A j \in DOMAIN notices : notices[j] # n => \E k \in DOMAIN notices' : notices'[k] = notices[j]
    BY <1>3, TakenLeaves
  <2>2. QED
    BY <1>1, <2>1 DEF Heard, f
<1>4. QED
  BY <1>2, <1>3

\* What was asked for before matters only if nothing is in the queue.
LEMMA OtherBefore ==
  ASSUME NEW q, NEW what, NEW a, NEW b, NEW v, IsLast(q, what, a, v)
  PROVE  IsLast(q, what, b, v) \/ (v = a /\ IsLast(q, what, b, b))
BY DEF IsLast

\* A step that leaves the clock alone.
LEMMA ClockKept ==
  ASSUME ClockInv, UNCHANGED shown, shown \in ClockKinds, desired'.clock = desired.clock,
         (control' = NoControl) <=> (control = NoControl),
         \A v \in ClockKinds : ClockComes(v) => ClockComes(v)',
         \A kind \in ClockKinds : InQueue(Block("clock", kind)) => InQueue(Block("clock", kind))',
         \A kind \in ClockKinds : Heard(kind)' <=> Heard(kind),
         waiting.back \/ waiting'.back => UNCHANGED waiting
  PROVE  ClockInv'
<1>1. PICK v \in ClockKinds : ClockComes(v) /\ ComesTo(v)
  BY DEF ClockInv
<1>2. ClockComes(v)' /\ ComesTo(v)'
  BY <1>1 DEF ComesTo
<1>3. control' # NoControl => desired'.clock \notin Failing
  BY DEF ClockInv
<1>4. control' # NoControl /\ shown' \in Failing => FailureIsSaid'
  BY DEF ClockInv, FailureIsSaid
<1>5. \A kind \in ClockKinds : Heard(kind)' => control' # NoControl /\ kind \in Failing
  BY DEF ClockInv
<1>6. waiting'.back /\ ~waiting'.ok => waiting'.kind \in Failing
  BY DEF ClockInv
<1>7. QED
  BY <1>2, <1>3, <1>4, <1>5, <1>6 DEF ClockInv

\* What the main thread leaves on the control queue.
Leaves(after) ==
  /\ \A u, v \in ClockKinds : ClockComes(u) /\ IsLast(after, "clock", u, v) => ClockComes(v)'
  /\ \A block : InQueue(block) => InQueue(block)'
  /\ \A i \in DOMAIN after : InQueue(after[i])'
  /\ ~waiting'.back

LEMMA StartLeaves ==
  ASSUME PairInv, ShownTypeOK, Idle, NEW o \in Outputs, NEW forced \in BOOLEAN, NEW after \in Afters,
         StartAudio(o, forced, after), UNCHANGED desired
  PROVE  Leaves(after)
<1>1. /\ \A d, u, v : IsLast(blocks, "clock", d, u) /\ IsLast(after, "clock", u, v)
              => \E w \in {u, v} : IsLast(blocks', "clock", d, w) /\ IsLast(waiting'.after, "clock", w, v)
      /\ AllIn(blocks, blocks')
      /\ AllIn(after, blocks') \/ AllIn(after, waiting'.after)
      /\ ~waiting'.back
  BY StartAudioDoes DEF PairInv
<1>2. waiting.after = <<>>
  BY DEF Idle, ShownTypeOK
<1>3. ASSUME NEW u \in ClockKinds, NEW v \in ClockKinds, ClockComes(u), IsLast(after, "clock", u, v)
      PROVE  ClockComes(v)'
  <2>1. IsLast(blocks, "clock", desired.clock, u)
    BY <1>2, <1>3 DEF ClockComes, IsLast, Ends
  <2>2. PICK w \in {u, v} :
          IsLast(blocks', "clock", desired.clock, w) /\ IsLast(waiting'.after, "clock", w, v)
    BY <1>1, <1>3, <2>1
  <2>3. QED
    BY <2>2 DEF ClockComes
<1>4. ASSUME NEW block, InQueue(block)
      PROVE  InQueue(block)'
  BY <1>1, <1>2, <1>4 DEF InQueue, AllIn
<1>5. \A i \in DOMAIN after : InQueue(after[i])'
  BY <1>1 DEF InQueue, AllIn
<1>6. QED
  BY <1>1, <1>3, <1>4, <1>5 DEF Leaves

LEMMA EnqueueLeaves ==
  ASSUME HostTypeOK, BlockInv, ShownTypeOK, Idle, NEW block \in Calls, blocks' = Append(blocks, block),
         UNCHANGED <<waiting, desired>>
  PROVE  Leaves(<<block>>)
<1>1. <<block>> \in Seq(Blocks) /\ blocks \in Seq(Blocks) /\ blocks' = blocks \o <<block>>
  <2>1. block \in Blocks /\ blocks \in Seq(Blocks)
    BY DEF Blocks, HostTypeOK, MainTypeOK
  <2> HIDE DEF Blocks
  <2>2. QED
    BY <2>1
<1>2. waiting.after = <<>> /\ ~waiting'.back
  BY DEF Idle, ShownTypeOK, BlockInv
<1>3. ASSUME NEW u \in ClockKinds, NEW v \in ClockKinds, ClockComes(u), IsLast(<<block>>, "clock", u, v)
      PROVE  ClockComes(v)'
  <2>1. IsLast(blocks, "clock", desired.clock, u)
    BY <1>2, <1>3 DEF ClockComes, IsLast, Ends
  <2>2. IsLast(blocks', "clock", desired.clock, v)
    BY <1>1, <1>3, <2>1, LastOfBoth
  <2>3. IsLast(waiting'.after, "clock", v, v)
    BY <1>2 DEF IsLast
  <2>4. QED
    BY <2>2, <2>3 DEF ClockComes
<1>4. AllIn(blocks, blocks') /\ AllIn(<<block>>, blocks')
  BY <1>1, AllInBoth
<1>5. QED
  BY <1>2, <1>3, <1>4 DEF Leaves, InQueue, AllIn

\* The main thread leaves no clock.
LEMMA LeavesClock ==
  ASSUME ClockInv, BlockInv, Idle, UNCHANGED <<control, desired, shown>>, shown \in ClockKinds,
         NEW after, Leaves(after), \A i \in DOMAIN after : after[i].what # "clock",
         \A kind \in ClockKinds : Heard(kind)' <=> Heard(kind)
  PROVE  ClockInv'
<1>1. ~waiting.back /\ ~waiting'.back
  BY DEF Idle, BlockInv, Leaves
<1>2. \A v : IsLast(after, "clock", v, v)
  BY LastOfNone
<1>3. \A v \in ClockKinds : ClockComes(v) => ClockComes(v)'
  BY <1>2 DEF Leaves
<1>4. \A block : InQueue(block) => InQueue(block)'
  BY DEF Leaves
<1>5. QED
  BY <1>1, <1>3, <1>4, ClockKept

\* The user selects a clock.
LEMMA LeavesNewClock ==
  ASSUME ClockInv, UNCHANGED <<control, desired, notices>>, NEW kind \in ClockKinds, shown' = kind,
         Leaves(<<Block("clock", kind)>>)
  PROVE  ClockInv'
<1> DEFINE b == Block("clock", kind)
<1>1. b.what = "clock" /\ b.value = kind
  BY DEF Block
<1>2. PICK v \in ClockKinds : ClockComes(v) /\ ComesTo(v)
  BY DEF ClockInv
<1> HIDE DEF b
<1>3. IsLast(<<b>>, "clock", v, kind)
  BY <1>1, EndsOfOne DEF IsLast
<1>4. ClockComes(kind)'
  BY <1>2, <1>3 DEF Leaves, b
<1>5. ComesTo(kind)'
  BY DEF ComesTo
<1>6. FailureIsSaid'
  <2>1. 1 \in DOMAIN <<b>> /\ <<b>>[1] = b
    OBVIOUS
  <2>2. InQueue(b)'
    BY <2>1 DEF Leaves, b
  <2>3. QED
    BY <2>2 DEF FailureIsSaid, b
<1>7. \A k : Heard(k)' <=> Heard(k)
  BY DEF Heard
<1>8. ~waiting'.back
  BY DEF Leaves
<1>9. QED
  BY <1>4, <1>5, <1>6, <1>7, <1>8 DEF ClockInv

\* A block is taken, what was asked for becomes another clock or not.
LEMMA ComesWhenTaken ==
  ASSUME HostTypeOK, blocks # <<>>, blocks' = Tail(blocks), waiting'.after = waiting.after,
         NEW v \in ClockKinds, ClockComes(v),
         NEW before, before = IF Head(blocks).what = "clock" THEN Head(blocks).value ELSE desired.clock,
         NEW d \in ClockKinds, desired'.clock = d
  PROVE  ClockComes(v)' \/ (v = before /\ ClockComes(d)')
<1>1. blocks \in Seq(Blocks)
  BY DEF Blocks, HostTypeOK, MainTypeOK
<1>2. PICK u \in ClockKinds :
        IsLast(blocks, "clock", desired.clock, u) /\ IsLast(waiting.after, "clock", u, v)
  BY DEF ClockComes
<1>3. IsLast(Tail(blocks), "clock", before, u)
  BY <1>1, <1>2, LastOfTail
<1>4. IsLast(blocks', "clock", d, u) \/ (u = before /\ IsLast(blocks', "clock", d, d))
  BY <1>3, OtherBefore
<1>5. CASE IsLast(blocks', "clock", d, u)
  BY <1>2, <1>5 DEF ClockComes
<1>6. CASE u = before /\ IsLast(blocks', "clock", d, d)
  <2>1. IsLast(waiting.after, "clock", d, v) \/ (v = u /\ IsLast(waiting.after, "clock", d, d))
    BY <1>2, OtherBefore
  <2>2. QED
    BY <1>6, <2>1 DEF ClockComes
<1>7. QED
  BY <1>4, <1>5, <1>6

LEMMA InQueueWhenTaken ==
  ASSUME HostTypeOK, blocks # <<>>, blocks' = Tail(blocks), waiting'.after = waiting.after,
         NEW block, InQueue(block)
  PROVE  InQueue(block)' \/ block = Head(blocks)
<1>1. blocks \in Seq(Blocks)
  BY DEF Blocks, HostTypeOK, MainTypeOK
<1>2. /\ \A i \in DOMAIN blocks : i = 1 \/ (i - 1 \in DOMAIN blocks' /\ blocks'[i - 1] = blocks[i])
      /\ Head(blocks) = blocks[1]
  BY <1>1
<1>3. QED
  BY <1>2 DEF InQueue

\* A clock that is in a queue.
LEMMA EndsInQueue ==
  ASSUME HostTypeOK, NEW kind, Ends(blocks, "clock", kind) \/ Ends(waiting.after, "clock", kind)
  PROVE  InQueue(Block("clock", kind))
<1>1. \A b \in Calls \cup Pairs : b = Block(b.what, b.value)
  BY DEF Calls, Pairs, Block
<1>2. /\ \A j \in DOMAIN blocks : blocks[j] \in Calls \cup Pairs
      /\ \A j \in DOMAIN waiting.after : waiting.after[j] \in Calls \cup Pairs
  BY DEF HostTypeOK, MainTypeOK, Waits
<1>3. QED
  BY <1>1, <1>2 DEF Ends, InQueue

LEMMA QueueCallsKeepClock ==
  ASSUME HostTypeOK, ShownTypeOK, ClockInv,
         LoadPattern \/ SetPlaying \/ SetLatency \/ FollowDevice \/ SetNudge
  PROVE  ClockInv'
<1>1. /\ UNCHANGED <<waiting, notices, shown>>
      /\ blocks # <<>> /\ blocks' = Tail(blocks)
      /\ Head(blocks).what \in {"pattern", "playing", "latency", "device", "nudge"}
      /\ desired'.clock = desired.clock
      /\ (control' = NoControl) <=> (control = NoControl)
  BY QueueCallDoes DEF HostTypeOK
<1>2. desired.clock \in ClockKinds /\ shown \in ClockKinds
  BY DesireFields DEF HostTypeOK, QueueTypeOK, ShownTypeOK
<1>3. ASSUME NEW v \in ClockKinds, ClockComes(v)
      PROVE  ClockComes(v)'
  <2>1. PICK d \in ClockKinds : d = desired.clock
    BY <1>2
  <2>2. ClockComes(v)' \/ (v = d /\ ClockComes(d)')
    BY <1>1, <1>3, <2>1, ComesWhenTaken
  <2>3. QED
    BY <2>2
<1>4. \A kind \in ClockKinds : InQueue(Block("clock", kind)) => InQueue(Block("clock", kind))'
  <2>1. \A kind : Block("clock", kind) # Head(blocks)
    BY <1>1 DEF Block
  <2>2. QED
    BY <1>1, <2>1, InQueueWhenTaken
<1>5. \A kind \in ClockKinds : Heard(kind)' <=> Heard(kind)
  BY <1>1 DEF Heard
<1>6. QED
  BY <1>1, <1>2, <1>3, <1>4, <1>5, ClockKept

LEMMA SetClockKeepsClock ==
  ASSUME HostTypeOK, ShownTypeOK, ClockInv, SetClock
  PROVE  ClockInv'
<1>0. PICK kind \in ClockKinds : Head(blocks).value = kind
  <2>1. Head(blocks) \in Calls \cup Pairs /\ Head(blocks).what = "clock"
    BY BlockTaken DEF HostTypeOK, SetClock
  <2>2. QED
    BY <2>1, CallValues
<1> DEFINE d == [desired EXCEPT !.clock = kind]
           runs == control = NoControl \/ Runs(d)
<1>1. /\ UNCHANGED <<waiting, shown>> /\ blocks # <<>> /\ blocks' = Tail(blocks)
      /\ Head(blocks).what = "clock"
      /\ desired' = IF runs THEN d ELSE AfterClock(d)
      /\ control' = IF control = NoControl THEN control ELSE Clocked(control, d)
      /\ notices' = Append(notices, Notice("clock", kind, runs))
  BY <1>0 DEF SetClock, TakeBlock, mainVars
<1>2. desired \in Desires /\ shown \in ClockKinds /\ control \in {NoControl} \cup Controls
  BY DEF HostTypeOK, QueueTypeOK, ShownTypeOK
<1>3. d \in Desires /\ d.clock = kind
  BY <1>2 DEF Desires
<1>4. PICK e \in ClockKinds : e = IF control = NoControl THEN kind ELSE Settled(kind)
  BY SettledIs
<1>5. /\ runs \in BOOLEAN /\ (Runs(d) <=> kind \notin Failing)
      /\ desired'.clock = e
  BY <1>1, <1>3, <1>4, AfterClockIs DEF Runs, Settled
<1>7. (control' = NoControl) <=> (control = NoControl)
  <2>1. control \in Controls => Clocked(control, d).pair = control.pair /\ control.pair # 0
    BY <1>3, ClockedMatches, ControlFields
  <2>2. NoControl.pair = 0
    BY DEF NoControl, NoPair
  <2> HIDE DEF d
  <2>3. QED
    BY <1>1, <1>2, <2>1, <2>2
<1> HIDE DEF d
<1>8. PICK v \in ClockKinds : ClockComes(v) /\ ComesTo(v)
  BY DEF ClockInv
<1>9. ClockComes(v)' \/ (v = kind /\ ClockComes(e)')
  BY <1>0, <1>1, <1>5, <1>8, ComesWhenTaken
<1>10. \E w \in ClockKinds : ClockComes(w)' /\ ComesTo(w)'
  <2>1. \A w \in ClockKinds : w = v \/ (v = kind /\ w = e) => ComesTo(w)'
    BY <1>1, <1>4, <1>7, <1>8, SettledIs DEF ComesTo
  <2>2. QED
    BY <1>8, <1>9, <2>1
<1> DEFINE n == Notice("clock", kind, runs)
<1>11. n \in NoticeKinds /\ n.ok = runs /\ (~runs => n = Notice("clock", kind, FALSE))
  <2>1. n \in NoticeKinds /\ n.ok = runs
    BY <1>5, NoticesAre
  <2> HIDE DEF runs
  <2>2. ~runs => runs = FALSE
    BY <1>5
  <2>3. QED
    BY <2>1, <2>2
<1>12. /\ \A k \in ClockKinds : Heard(k) => Heard(k)'
       /\ \A k \in ClockKinds : Heard(k)' => Heard(k) \/ (~runs /\ k = kind)
       /\ ~runs => Heard(kind)'
  <2> HIDE DEF runs
  <2>1. n.kind = kind
    BY DEF Notice
  <2> HIDE DEF n
  <2>2. ASSUME NEW k, n = Notice("clock", k, FALSE)
        PROVE  ~runs /\ k = kind
    <3>1. n.kind = k /\ ~n.ok
      BY <2>2 DEF Notice
    <3>2. QED
      BY <1>11, <2>1, <3>1
  <2>3. /\ \A j \in DOMAIN notices : j \in DOMAIN notices' /\ notices'[j] = notices[j]
        /\ \E k \in DOMAIN notices' : notices'[k] = n
        /\ \A k \in DOMAIN notices' : notices'[k] = n \/ (k \in DOMAIN notices /\ notices'[k] = notices[k])
    BY <1>1, <1>11, NoticeAdded DEF n
  <2>4. QED
    BY <1>11, <2>2, <2>3 DEF Heard
<1>13. control' # NoControl => desired'.clock \notin Failing
  BY <1>4, <1>5, <1>7, SettledIs
<1>14. ASSUME control' # NoControl, shown' \in Failing
       PROVE  FailureIsSaid'
  <2>1. FailureIsSaid
    BY <1>1, <1>7, <1>14 DEF ClockInv
  <2>2. CASE InQueue(Block("clock", shown))
    <3>1. InQueue(Block("clock", shown))' \/ Block("clock", shown) = Head(blocks)
      BY <1>1, <2>2, InQueueWhenTaken
    <3>2. Block("clock", shown) = Head(blocks) => kind = shown
      BY <1>0 DEF Block
    <3>3. kind = shown => ~runs
      BY <1>1, <1>5, <1>7, <1>14
    <3>4. QED
      BY <1>1, <1>12, <3>1, <3>2, <3>3 DEF FailureIsSaid
  <2>3. CASE Heard(shown)
    BY <1>1, <1>2, <1>12, <2>3 DEF FailureIsSaid
  <2>4. CASE waiting.back /\ ~waiting.ok /\ waiting.kind = shown
    BY <1>1, <2>4 DEF FailureIsSaid
  <2>5. QED
    BY <2>1, <2>2, <2>3, <2>4 DEF FailureIsSaid
<1>15. \A k \in ClockKinds : Heard(k)' => control' # NoControl /\ k \in Failing
  BY <1>5, <1>7, <1>12 DEF ClockInv
<1>16. waiting'.back /\ ~waiting'.ok => waiting'.kind \in Failing
  BY <1>1 DEF ClockInv
<1>17. QED
  BY <1>10, <1>13, <1>14, <1>15, <1>16 DEF ClockInv

LEMMA ReplaceKeepsClock ==
  ASSUME PairInv, ShownTypeOK, ClockInv, ReplaceControl
  PROVE  ClockInv'
<1>0. HostTypeOK
  BY DEF PairInv
<1>1. /\ UNCHANGED <<shown, notices>> /\ blocks # <<>> /\ blocks' = Tail(blocks)
      /\ Head(blocks).what = "pair"
      /\ desired' = AfterClock(desired)
  BY DEF ReplaceControl, TakeBlock
<1>2. desired \in Desires /\ shown \in ClockKinds /\ waiting \in Waits /\ desired.clock \in ClockKinds
  BY <1>0, DesireFields DEF HostTypeOK, MainTypeOK, QueueTypeOK, ShownTypeOK
<1>3. /\ waiting'.after = waiting.after /\ waiting'.back /\ waiting'.kind = desired.clock
      /\ (waiting'.ok <=> desired.clock \notin Failing)
  BY <1>2 DEF ReplaceControl, Waits, Runs
<1>4. PICK e \in ClockKinds : e = Settled(desired.clock) /\ desired'.clock = e
  BY <1>1, <1>2, AfterClockIs, SettledIs DEF Settled
<1>5. control' # NoControl
  <2>1. control'.pair = Head(blocks).value
    BY <1>0, ReplaceKeepsAsked
  <2>2. Head(blocks).value # 0
    <3>1. Head(blocks) \in Calls \cup Pairs
      BY <1>0, <1>1 DEF HostTypeOK, MainTypeOK
    <3>2. QED
      BY <1>1, <3>1, CallsAreNoPairs
  <2>3. QED
    BY <2>1, <2>2 DEF NoControl, NoPair
<1>6. ~waiting.back
  <2>1. 1 \in DOMAIN blocks /\ Head(blocks) = blocks[1]
    BY <1>0, <1>1 DEF HostTypeOK, MainTypeOK
  <2>2. QED
    BY <1>1, <2>1 DEF PairInv, BlockInv, IsPair
<1>7. PICK v \in ClockKinds : ClockComes(v) /\ ComesTo(v)
  BY DEF ClockInv
<1>8. ClockComes(v)' \/ (v = desired.clock /\ ClockComes(e)')
  BY <1>0, <1>1, <1>3, <1>4, <1>7, ComesWhenTaken
<1>9. \E w \in ClockKinds : ClockComes(w)' /\ ComesTo(w)'
  <2>1. Settled(v) = Settled(shown)
    BY <1>7 DEF ComesTo
  <2>2. \A w \in ClockKinds : Settled(w) = Settled(v) => ComesTo(w)'
    BY <1>1, <1>5, <2>1 DEF ComesTo
  <2>3. QED
    BY <1>2, <1>4, <1>7, <1>8, <2>2, SettledIs
<1>10. \A block : block.what = "clock" /\ InQueue(block) => InQueue(block)'
  BY <1>0, <1>1, <1>3, InQueueWhenTaken
<1>11. \A kind : Heard(kind)' <=> Heard(kind)
  BY <1>1 DEF Heard
<1>12. ASSUME shown \in Failing
       PROVE  FailureIsSaid'
  <2>1. Block("clock", shown).what = "clock"
    BY DEF Block
  <2>2. CASE control # NoControl
    BY <1>1, <1>6, <1>10, <1>11, <1>12, <2>1, <2>2 DEF ClockInv, FailureIsSaid
  <2>3. CASE control = NoControl
    <3>1. ClockComes(shown)
      BY <1>7, <2>3 DEF ComesTo
    <3>2. PICK u \in ClockKinds :
            IsLast(blocks, "clock", desired.clock, u) /\ IsLast(waiting.after, "clock", u, shown)
      BY <3>1 DEF ClockComes
    <3>3. InQueue(Block("clock", shown)) \/ shown = desired.clock
      BY <1>0, <3>2, EndsInQueue DEF IsLast
    <3>4. QED
      BY <1>1, <1>3, <1>10, <1>12, <2>1, <3>3 DEF FailureIsSaid
  <2>4. QED
    BY <2>2, <2>3
<1>13. \A kind \in ClockKinds : Heard(kind)' => control' # NoControl /\ kind \in Failing
  BY <1>5, <1>11 DEF ClockInv
<1>14. desired'.clock \notin Failing
  BY <1>2, <1>4, SettledIs
<1>15. QED
  BY <1>1, <1>3, <1>9, <1>12, <1>13, <1>14 DEF ClockInv

LEMMA GoOnKeepsClock ==
  ASSUME PairInv, ShownTypeOK, ClockInv, GoOn
  PROVE  ClockInv'
<1>1. /\ UNCHANGED <<queueVars, notices>>
      /\ waiting.sync /\ waiting.back /\ waiting' = NotWaiting
      /\ \A d, u, v : IsLast(blocks, "clock", d, u) /\ IsLast(waiting.after, "clock", u, v)
                        => IsLast(blocks', "clock", d, v)
      /\ AllIn(blocks, blocks') /\ AllIn(waiting.after, blocks')
      /\ shown' = IF ~waiting.ok /\ shown = waiting.kind THEN "internal" ELSE shown
  BY GoOnDoes
<1>2. control # NoControl /\ control' = control /\ desired' = desired
  BY <1>1 DEF PairInv, BlockInv, GraphInv, NoControl, queueVars
<1>3. waiting'.after = <<>> /\ ~waiting'.back
  BY <1>1 DEF NotWaiting
<1>4. Settled(shown') = Settled(shown) /\ (shown' \in Failing => shown' = shown)
  BY <1>1, SettledIs DEF ClockInv, Settled
<1>5. PICK v \in ClockKinds : ClockComes(v) /\ ComesTo(v)
  BY DEF ClockInv
<1>6. ClockComes(v)'
  <2>1. IsLast(blocks', "clock", desired.clock, v)
    BY <1>1, <1>5 DEF ClockComes
  <2>2. IsLast(waiting'.after, "clock", v, v)
    BY <1>3 DEF IsLast
  <2>3. QED
    BY <1>2, <2>1, <2>2 DEF ClockComes
<1>7. ComesTo(v)'
  BY <1>2, <1>4, <1>5 DEF ComesTo
<1>8. \A block : InQueue(block) => InQueue(block)'
  BY <1>1 DEF InQueue, AllIn
<1>9. \A kind : Heard(kind)' <=> Heard(kind)
  BY <1>1 DEF Heard
<1>10. ASSUME shown' \in Failing
       PROVE  FailureIsSaid'
  <2>1. shown' = shown /\ ~(waiting.back /\ ~waiting.ok /\ waiting.kind = shown)
    BY <1>1, <1>4, <1>10, SettledIs
  <2>2. InQueue(Block("clock", shown)) \/ Heard(shown)
    BY <1>2, <1>10, <2>1 DEF ClockInv, FailureIsSaid
  <2>3. QED
    BY <1>8, <1>9, <2>1, <2>2 DEF FailureIsSaid
<1>11. QED
  BY <1>2, <1>3, <1>5, <1>6, <1>7, <1>9, <1>10 DEF ClockInv

LEMMA ResultKeepsClock ==
  ASSUME HostTypeOK, ShownTypeOK, ClockInv, ClockResult
  PROVE  ClockInv'
<1>1. PICK kind \in ClockKinds, ok \in BOOLEAN :
        /\ Taken(Notice("clock", kind, ok))
        /\ shown' = IF ~ok /\ shown = kind THEN "internal" ELSE shown
  BY DEF ClockResult
<1>2. UNCHANGED <<control, desired, waiting, blocks>>
  BY <1>1 DEF ClockResult, Unmoved, Taken, queueVars, mainVars
<1> DEFINE n == Notice("clock", kind, ok)
<1>3. n.kind = kind /\ n.ok = ok
  BY DEF Notice
<1> HIDE DEF n
<1>4. /\ \A k \in DOMAIN notices' : \E j \in DOMAIN notices : notices'[k] = notices[j]
      /\ \A j \in DOMAIN notices : notices[j] # n => \E k \in DOMAIN notices' : notices'[k] = notices[j]
      /\ \E i \in DOMAIN notices : notices[i] = n
  BY <1>1, TakenLeaves DEF n
<1>5. \A k : Heard(k)' => Heard(k)
  BY <1>4 DEF Heard
<1>6. ASSUME NEW k, Heard(k), k # kind \/ ok
      PROVE  Heard(k)'
  <2>1. n # Notice("clock", k, FALSE)
    <3>1. Notice("clock", k, FALSE).kind = k /\ ~Notice("clock", k, FALSE).ok
      BY DEF Notice
    <3>2. QED
      BY <1>3, <1>6, <3>1
  <2>2. QED
    BY <1>4, <1>6, <2>1 DEF Heard
<1>7. ~ok => control # NoControl /\ kind \in Failing
  <2>1. ~ok => Heard(kind)
    BY <1>4 DEF Heard, n
  <2>2. QED
    BY <2>1 DEF ClockInv
<1>8. /\ Settled(shown') = Settled(shown) /\ (shown' \in Failing => shown' = shown)
      /\ control = NoControl => shown' = shown
  BY <1>1, <1>7, SettledIs DEF Settled
<1>9. PICK v \in ClockKinds : ClockComes(v) /\ ComesTo(v)
  BY DEF ClockInv
<1>10. ClockComes(v)' /\ ComesTo(v)'
  BY <1>2, <1>8, <1>9 DEF ClockComes, ComesTo
<1>11. ASSUME control' # NoControl, shown' \in Failing
       PROVE  FailureIsSaid'
  <2>1. shown' = shown /\ (shown # kind \/ ok)
    BY <1>1, <1>8, <1>11, SettledIs
  <2>2. FailureIsSaid
    BY <1>2, <1>11, <2>1 DEF ClockInv
  <2>3. Heard(shown) => Heard(shown)'
    BY <1>6, <2>1
  <2>4. QED
    BY <1>2, <2>1, <2>2, <2>3 DEF FailureIsSaid, InQueue
<1>12. \A k \in ClockKinds : Heard(k)' => control' # NoControl /\ k \in Failing
  BY <1>2, <1>5 DEF ClockInv
<1>13. QED
  BY <1>2, <1>10, <1>11, <1>12 DEF ClockInv

LEMMA UserKeepsClock ==
  ASSUME PairInv, ShownTypeOK, ClockInv, SelectClock \/ Play \/ Adjust \/ SetOutputDevice
  PROVE  ClockInv'
<1>1. HostTypeOK /\ BlockInv /\ shown \in ClockKinds
  BY DEF PairInv, ShownTypeOK
<1>2. Idle /\ UNCHANGED <<control, desired, notices>> /\ output' \in Outputs
  BY <1>1, UserDoes DEF queueVars
<1>3. \A kind : Heard(kind)' <=> Heard(kind)
  BY <1>2 DEF Heard
<1>4. CASE UNCHANGED <<mainVars, blocks, shown>>
  <2>1. UNCHANGED waiting
    BY <1>4 DEF mainVars
  <2>2. QED
    BY <1>1, <1>2, <1>3, <1>4, <2>1, ClockKept DEF ClockComes, InQueue
<1>5. ASSUME NEW after, Leaves(after), \A i \in DOMAIN after : after[i].what # "clock", shown' = shown
      PROVE  ClockInv'
  BY <1>1, <1>2, <1>3, <1>5, LeavesClock
<1>6. ASSUME NEW kind \in ClockKinds, shown' = kind, Leaves(<<Block("clock", kind)>>)
      PROVE  ClockInv'
  BY <1>2, <1>6, LeavesNewClock
<1>7. ASSUME NEW after \in Afters, StartAudio(output', FALSE, after),
             \/ after = <<Block("clock", shown')>> /\ shown' \in ClockKinds
             \/ (\A i \in DOMAIN after : after[i].what # "clock") /\ shown' = shown
      PROVE  ClockInv'
  <2>1. Leaves(after)
    BY <1>2, <1>7, StartLeaves
  <2>2. CASE after = <<Block("clock", shown')>> /\ shown' \in ClockKinds
    <3>1. PICK kind \in ClockKinds : shown' = kind
      BY <2>2
    <3>2. Leaves(<<Block("clock", kind)>>)
      BY <2>1, <2>2, <3>1
    <3>3. QED
      BY <1>6, <3>1, <3>2
  <2>3. QED
    BY <1>5, <1>7, <2>1, <2>2
<1>8. ASSUME NEW block \in Calls, UNCHANGED <<mainVars, output>>, blocks' = Append(blocks, block),
             \/ block = Block("clock", shown') /\ shown' \in ClockKinds
             \/ block.what # "clock" /\ shown' = shown
      PROVE  ClockInv'
  <2>1. UNCHANGED waiting
    BY <1>8 DEF mainVars
  <2>2. Leaves(<<block>>)
    BY <1>1, <1>2, <1>8, <2>1, EnqueueLeaves
  <2>3. CASE block = Block("clock", shown') /\ shown' \in ClockKinds
    <3>1. PICK kind \in ClockKinds : shown' = kind
      BY <2>3
    <3>2. QED
      BY <1>6, <2>2, <2>3, <3>1
  <2>4. CASE block.what # "clock" /\ shown' = shown
    <3>1. \A i \in DOMAIN <<block>> : <<block>>[i].what # "clock"
      BY <2>4, NoneInOne
    <3>2. QED
      BY <1>5, <2>2, <2>4, <3>1
  <2>5. QED
    BY <1>8, <2>3, <2>4
<1>9. QED
  BY <1>1, <1>4, <1>7, <1>8, UserDoes

LEMMA HandlersKeepClock ==
  ASSUME PairInv, ShownTypeOK, ClockInv,
         HandleConfigurationChange \/ HandleInterruption \/ HandleRouteChange \/ HandleMediaServicesReset
  PROVE  ClockInv'
<1>1. HostTypeOK /\ BlockInv /\ shown \in ClockKinds /\ output \in Outputs /\ <<>> \in Afters
  BY AftersAre DEF PairInv, ShownTypeOK, HostTypeOK
<1>2. Idle /\ UNCHANGED <<control, desired, shown>>
  BY <1>1, HandlerDoes DEF queueVars
<1>3. PICK what \in {"config", "began", "ended", "route", "reset"} :
        /\ Taken(Notice(what, NoSource, TRUE))
        /\ \/ \E forced \in BOOLEAN : StartAudio(output, forced, <<>>)
           \/ UNCHANGED <<waiting, blocks>>
           \/ UNCHANGED waiting /\ blocks' = Append(blocks, Block("latency", output))
  BY <1>1, HandlerDoes DEF mainVars
<1>4. \A kind \in ClockKinds : Heard(kind)' <=> Heard(kind)
  BY <1>3, NoticesAre, HeardSame
<1>5. ASSUME NEW forced \in BOOLEAN, StartAudio(output, forced, <<>>)
      PROVE  ClockInv'
  <2>1. Leaves(<<>>)
    BY <1>1, <1>2, <1>5, StartLeaves
  <2>2. QED
    BY <1>1, <1>2, <1>4, <2>1, LeavesClock
<1>6. CASE UNCHANGED <<waiting, blocks>>
  BY <1>1, <1>2, <1>4, <1>6, ClockKept DEF ClockComes, InQueue
<1>7. CASE UNCHANGED waiting /\ blocks' = Append(blocks, Block("latency", output))
  <2> DEFINE b == Block("latency", output)
  <2>1. b \in Calls /\ b.what # "clock"
    BY <1>1, BlocksAre DEF Block
  <2> HIDE DEF b
  <2>2. Leaves(<<b>>)
    BY <1>1, <1>2, <1>7, <2>1, EnqueueLeaves DEF b
  <2>3. \A i \in DOMAIN <<b>> : <<b>>[i].what # "clock"
    BY <2>1, NoneInOne
  <2>4. QED
    BY <1>1, <1>2, <1>4, <2>2, <2>3, LeavesClock
<1>8. QED
  BY <1>3, <1>5, <1>6, <1>7

LEMMA ClockStep ==
  ASSUME PairInv, ShownTypeOK, ClockInv, HostNext
  PROVE  ClockInv'
<1>0. HostTypeOK /\ shown \in ClockKinds
  BY DEF PairInv, ShownTypeOK
<1>1. CASE LoadPattern \/ SetPlaying \/ SetLatency \/ FollowDevice \/ SetNudge
  BY <1>0, <1>1, QueueCallsKeepClock
<1>2. CASE SetClock
  BY <1>0, <1>2, SetClockKeepsClock
<1>3. CASE ReplaceControl
  BY <1>3, ReplaceKeepsClock
<1>4. CASE TimerTick
  <2>1. UNCHANGED <<waiting, desired, shown, notices, blocks>> /\ control # NoControl
    BY <1>4 DEF TimerTick, mainVars
  <2>2. control' # NoControl
    <3>1. control \in Controls
      BY <1>0, <2>1 DEF HostTypeOK, QueueTypeOK
    <3>2. /\ \A bpm : [control EXCEPT !.tempo = bpm].pair = control.pair
          /\ \A bpm, ms : Nudged([control EXCEPT !.tempo = bpm], ms).pair = control.pair
      BY <3>1 DEF Controls, Nudged
    <3>3. control'.pair = control.pair
      BY <1>4, <3>2 DEF TimerTick
    <3>4. QED
      BY <3>1, <3>3, ControlFields DEF NoControl, NoPair
  <2>3. QED
    BY <1>0, <2>1, <2>2, ClockKept DEF ClockComes, InQueue, Heard
<1>5. CASE FreeRenderer \/ AudioThread
  <2>1. UNCHANGED <<waiting, desired, control, shown, notices, blocks>>
    BY <1>5 DEF FreeRenderer, AudioThread, BeginCycle, EndCycle, mainVars, queueVars
  <2>2. QED
    BY <1>0, <2>1, ClockKept DEF ClockComes, InQueue, Heard
<1>6. CASE ClockResult
  BY <1>0, <1>6, ResultKeepsClock
<1>7. CASE GoOn
  BY <1>7, GoOnKeepsClock
<1>8. CASE SelectClock \/ Play \/ Adjust \/ SetOutputDevice
  BY <1>8, UserKeepsClock
<1>9. CASE HandleConfigurationChange \/ HandleInterruption \/ HandleRouteChange
             \/ HandleMediaServicesReset
  BY <1>9, HandlersKeepClock
<1>10. CASE Platform
  <2>1. UNCHANGED <<waiting, desired, control, shown, blocks>>
    BY <1>10, PlatformDoes DEF queueVars
  <2>2. \A kind \in ClockKinds : Heard(kind)' <=> Heard(kind)
    <3>1. ASSUME NEW what \in {"config", "began", "ended", "reset", "route"},
                 notices' = Append(notices, Notice(what, NoSource, TRUE))
          PROVE  \A kind \in ClockKinds : Heard(kind)' <=> Heard(kind)
      BY <3>1, NoticesAre, HeardSame
    <3>2. CASE UNCHANGED notices
      BY <3>2 DEF Heard
    <3>3. QED
      BY <1>10, <3>1, <3>2, PlatformDoes
  <2>3. QED
    BY <1>0, <2>1, <2>2, ClockKept DEF ClockComes, InQueue
<1>11. QED
  BY <1>1, <1>2, <1>3, <1>4, <1>5, <1>6, <1>7, <1>8, <1>9, <1>10, NextIs DEF Quiet

LEMMA ShownInitially == HostInit => ShownInv
<1> SUFFICES ASSUME HostInit PROVE ShownInv
  OBVIOUS
<1>1. /\ waiting.after = <<>> /\ ~waiting.back /\ ~waiting.sync /\ blocks = <<>> /\ notices = <<>>
      /\ shown = "internal" /\ desired.clock = "internal" /\ control = NoControl
      /\ ~graph.runs /\ told = "off"
  BY DEF HostInit, NotWaiting
<1>2. ClockComes("internal") /\ ComesTo("internal")
  BY <1>1, SettledIs DEF ClockComes, IsLast, ComesTo
<1>3. ClockInv
  BY <1>1, <1>2, SettledIs DEF ClockInv, Heard
<1>4. QED
  BY <1>1, <1>3, SettledIs DEF ShownInv, ShownTypeOK, ToldInv, EndedInv, LatencyInv

(* Wherever the blocks and the notices are, the last of each kind is what is *)
(* shown, or will still be said to have failed.                              *)
THEOREM ShownInvariant == HostSpec => []ShownInv
<1>1. HostInit => ShownInv
  BY ShownInitially
<1>2. HostInv /\ ShownInv /\ [HostNext]_hostVars => ShownInv'
  <2> SUFFICES ASSUME HostInv, ShownInv, [HostNext]_hostVars PROVE ShownInv'
    OBVIOUS
  <2>1. CASE HostNext
    BY <2>1, ShownTypeStep, ToldStep, EndedStep, LatencyStep, ClockStep DEF HostInv, ShownInv
  <2>2. CASE UNCHANGED hostVars
    BY <2>2 DEF hostVars, systemVars, mainVars, queueVars, ShownInv, ShownTypeOK, ToldInv, Said, EndedInv,
                LatencyInv, ClockInv, ClockComes, ComesTo, FailureIsSaid, InQueue, Heard
  <2>3. QED
    BY <2>1, <2>2
<1>3. QED
  BY <1>1, <1>2, HostInvariant, PTL DEF HostSpec

(* Once every block and notice was taken, the clock shown is the one that    *)
(* runs, the interface knows whether audio runs, and the latency is that of  *)
(* the output (EngineHost.swift and AppModel.swift).                         *)
THEOREM HostShowsWhatIs == HostSpec => []ShownIsTrue
<1>1. HostInv /\ ShownInv => ShownIsTrue
  <2> SUFFICES ASSUME HostInv, ShownInv, blocks = <<>>, notices = <<>>, Idle
               PROVE  /\ shown = desired.clock
                      /\ told = "running" <=> graph.runs
                      /\ graph.runs => control.latency = output
    BY DEF ShownIsTrue
  <2>1. waiting.after = <<>> /\ ~waiting.back /\ ~waiting.sync
    BY DEF Idle, ShownInv, ShownTypeOK, HostInv, PairInv, BlockInv
  <2>2. shown = desired.clock
    <3>1. PICK v \in ClockKinds : ClockComes(v) /\ ComesTo(v)
      BY DEF ShownInv, ClockInv
    <3>2. v = desired.clock
      BY <2>1, <3>1 DEF ClockComes, IsLast, Ends
    <3>3. control # NoControl => desired.clock \notin Failing /\ shown \notin Failing
      BY <2>1 DEF ShownInv, ClockInv, FailureIsSaid, InQueue, Heard
    <3>4. QED
      BY <3>1, <3>2, <3>3 DEF ComesTo, Settled
  <2>3. told = "running" <=> graph.runs
    BY <2>1 DEF ShownInv, ToldInv, Said
  <2>4. ASSUME graph.runs
        PROVE  control.latency = output
    <3>1. control # NoControl
      BY <2>1, <2>4 DEF HostInv, PairInv, BlockInv, GraphInv, NoControl
    <3>2. control.latency = desired.latency
      BY <3>1 DEF HostInv, ComesBackAsAsked
    <3>3. desired.latency = output
      BY <2>4 DEF ShownInv, LatencyInv, Said, IsLast, Ends
    <3>4. QED
      BY <3>2, <3>3
  <2>5. QED
    BY <2>2, <2>3, <2>4
<1>2. QED
  BY <1>1, HostInvariant, ShownInvariant, PTL
=============================================================================
