------------------------------ MODULE OpusSession ------------------------------
(* The Opus Quad source: player5 poses as rekordbox lighting, finds the      *)
(* unit, defends a device number against the others on the network, chooses  *)
(* the deck to follow and estimates its beats from coarse status packets     *)
(* (core/sync/src/opus/session.rs, tracker.rs, source.rs).                   *)
(*                                                                           *)
(* Several sessions may run, on computers of their own, next to other        *)
(* devices and to the unit.  Every time the code keeps is kept here as an    *)
(* age in ticks, no older than Oldest.  Notices to the user and the tempo    *)
(* of the device table are left out.                                         *)
EXTENDS Integers, Sequences, FiniteSets, FiniteSetsExt

CONSTANTS
    Sessions,         \* the player5s, ordered as their MAC addresses are
    Others,           \* other devices, with MAC addresses of their own
    OtherNumber,      \* the number of each
    Decks,            \* of the unit
    Addresses,        \* where the unit may come up
    FALLBACK,         \* FALLBACK_DEVICE_NUMBERS
    Configured,       \* device number each session starts with
    Discovers,        \* sessions that have to find their own address
    Targets,          \* what the user may ask to follow
    MAX_PEERS,
    EXPIRY,           \* a device unheard for longer is dropped
    Interval,         \* between two announcements
    WINDOW,           \* beats the tracker remembers
    SLACK,            \* added on both sides of a bracket
    MAX_GAP,          \* after a longer gap the brackets are dropped
    MAX_UNCERTAINTY,  \* half-width of the least certain estimate reported
    Periods,          \* ticks a beat may last
    Beats,            \* beats of a track, which then starts over
    MaxChanges,       \* changes in the booth
    MaxLost           \* packets lost or without flags, and failed probes

Master == 0           \* FollowTarget::Master, the others are decks
None == 0
Oldest == EXPIRY + MAX_GAP + 2

ASSUME OpusAssumption ==
    /\ Sessions \subseteq Nat \ {0} /\ Others \subseteq Nat \ {0}
    /\ Sessions \cap Others = {} /\ IsFiniteSet(Sessions) /\ IsFiniteSet(Others)
    /\ FALLBACK \subseteq Nat \ {0} /\ IsFiniteSet(FALLBACK)
    /\ OtherNumber \in [Others -> Nat \ {0}] /\ Configured \in [Sessions -> Nat \ {0}]
    /\ Discovers \subseteq Sessions /\ Decks \subseteq 1..4 /\ None \notin Addresses
    /\ Targets \subseteq Decks \cup {Master} /\ Master \in Targets
    /\ MAX_PEERS \in Nat /\ Interval \in Nat \ {0} /\ EXPIRY \in Nat /\ WINDOW \in Nat \ {0}
    /\ SLACK \in Nat /\ MAX_GAP \in Nat /\ MAX_UNCERTAINTY \in Nat
    /\ Periods \subseteq Nat \ {0} /\ Beats \in Nat \ {0} /\ MaxChanges \in Nat /\ MaxLost \in Nat

VARIABLES
    session,    \* of each: Session
    \* what the last step reported
    obs,        \* observations
    \* external: the network and the unit
    awake,    \* sessions that run
    present,    \* other devices that are on
    unheard,    \* of each device: sessions its last keep-alive may still reach
    unitAt,     \* the unit's address, None while it is off
    asked,      \* sessions the unit sends status to
    due,        \* of each session: what the unit still sends it in this period
    silent,     \* decks that send no status
    deck,       \* of each deck: what it does
    leads,      \* decks flagged tempo master, the new one first
    changes, lost

unitVars == <<unitAt, asked, silent, deck, leads>>
boothVars == <<awake, present, unitVars, changes>>
opusVars == <<session, obs, unheard, due, lost, boothVars>>

Hello == 0            \* due from the unit next to the decks: its keep-alive

Older(age) == IF age < Oldest THEN age + 1 ELSE Oldest

-----------------------------------------------------------------------------
(* The beat tracker: the last report, the last tempo and the brackets of the *)
(* last beats, the newest first.  A bracket began at most lo and at least    *)
(* hi ticks ago.                                                             *)

Unknown == -1         \* no beat counter: no track
NoReport == [beat |-> Unknown, age |-> 0]
EmptyTracker == [last |-> NoReport, bpm |-> None, ring |-> <<>>]

Cleared(t) == [t EXCEPT !.ring = <<>>]

Push(t, bracket) ==
    [t EXCEPT !.ring = SubSeq(<<bracket>> \o t.ring, 1, Min({WINDOW, Len(t.ring) + 1}))]

\* The newest brackets that agree, each moved on to the newest beat.
Agreed(ring, period) ==
    LET Shift(i) == (ring[1].beat - ring[i].beat) * period
        narrow[i \in 1..Len(ring)] ==
            IF i = 1 THEN [lo |-> ring[1].lo, hi |-> ring[1].hi, used |-> 1]
            ELSE LET so == narrow[i - 1]
                     lo == Min({so.lo, ring[i].lo - Shift(i)})
                     hi == Max({so.hi, ring[i].hi - Shift(i)})
                 IN  IF so.used < i - 1 \/ lo < hi
                     THEN so ELSE [lo |-> lo, hi |-> hi, used |-> i]
    IN  narrow[Len(ring)]

\* A status of the deck that is followed: what the tracker then is, and its
\* estimate of when the beat began, in half ticks, with the width of the
\* bracket it lies in.
Update(t, beat, isPlaying, period) ==
    LET prev == t.last
        seen == [t EXCEPT !.last = [beat |-> beat, age |-> 0]]
        quiet(new) == [tracker |-> new, estimate |-> {}]
        moved == period # t.bpm
        base == IF prev.age > MAX_GAP \/ moved THEN Cleared(seen) ELSE seen
        ring == Push(base, [beat |-> beat, lo |-> prev.age + SLACK, hi |-> - SLACK]).ring
        best == Agreed(ring, period)
        sum  == Max({0, best.lo + best.hi})
    IN  IF beat = Unknown THEN quiet(EmptyTracker)
        ELSE IF prev = NoReport THEN quiet(seen)
        ELSE IF ~ isPlaying THEN quiet(Cleared(seen))
        ELSE IF beat = prev.beat THEN quiet(seen)
        ELSE IF prev.beat = 0 \/ beat # prev.beat + 1 THEN quiet(Cleared(seen))
        ELSE [tracker |-> [seen EXCEPT !.bpm = period, !.ring = SubSeq(ring, 1, best.used)],
              estimate |-> IF best.lo - best.hi <= 2 * MAX_UNCERTAINTY
                           THEN {[beat |-> beat, began |-> sum, width |-> best.lo - best.hi]}
                           ELSE {}]

TrackerLater(t) ==
    [last |-> IF t.last = NoReport THEN NoReport ELSE [t.last EXCEPT !.age = Older(@)],
     bpm  |-> t.bpm,
     ring |-> [i \in 1..Len(t.ring) |->
                  [t.ring[i] EXCEPT !.lo = Older(@), !.hi = Older(@)]]]

-----------------------------------------------------------------------------
(* A session.                                                                *)

NoFlags == {}
NoStatus == [known |-> FALSE]
NewDeck == [status |-> NoStatus, age |-> 0, valid |-> NoFlags]

\* adopt_interface, for one that was given.
NewSession(s) ==
    [number |-> Configured[s], interface |-> s \notin Discovers, mac |-> s \notin Discovers,
     unit |-> None, unitAge |-> 0, peers |-> <<>>,
     decks |-> [d \in Decks |-> NewDeck], follow |-> Master, followed |-> None,
     tracker |-> EmptyTracker, wait |-> 0, ticked |-> FALSE]

KnownDecks(me) == {d \in Decks : me.decks[d].status.known}
First(S) == IF S = {} THEN None ELSE Min(S)

\* Mutant: the first of two masters, whichever was followed.
ChooseFirst(me) ==
    LET masters == {d \in KnownDecks(me) : me.decks[d].status.master}
        playing == {d \in KnownDecks(me) : me.decks[d].status.playing}
        both    == masters \cap playing
    IN  IF me.unit = None THEN None
        ELSE IF me.follow # Master THEN me.follow
        ELSE IF both # {} THEN First(both)
        ELSE IF me.followed \in playing THEN me.followed
        ELSE IF Cardinality(playing) = 1 THEN First(playing)
        ELSE First(masters)

\* The playing master, and the one already followed while two claim to be it;
\* else the deck already followed while it plays, else the only one that
\* plays, else a stopped master.
Choose(me) ==
    LET masters == {d \in KnownDecks(me) : me.decks[d].status.master}
        playing == {d \in KnownDecks(me) : me.decks[d].status.playing}
        both    == masters \cap playing
    IN  IF me.unit = None THEN None
        ELSE IF me.follow # Master THEN me.follow
        ELSE IF me.followed \in both THEN me.followed
        ELSE IF both # {} THEN First(both)
        ELSE IF me.followed \in playing THEN me.followed
        ELSE IF Cardinality(playing) = 1 THEN First(playing)
        ELSE First(masters)

\* Mutant: the beats of the deck left are kept for the next.
ReselectKept(me) == [me EXCEPT !.followed = Choose(me)]

Reselect(me) ==
    IF Choose(me) = me.followed THEN me
    ELSE [me EXCEPT !.followed = Choose(me), !.tracker = EmptyTracker]

\* The unit's keep-alive or its status.  A second unit is ignored.
SecondUnit(me, addr) == me.unit \notin {None, addr}

SeeUnit(me, addr) ==
    IF SecondUnit(me, addr) THEN me
    ELSE IF me.unit = addr THEN [me EXCEPT !.unitAge = 0]
    ELSE [me EXCEPT !.unit = addr, !.unitAge = 0, !.wait = 0]

\* A status with an empty flag byte is read with the last valid one.
WithStatus(me, d, st) ==
    LET slot  == me.decks[d]
        flags == IF st.glitch THEN slot.valid ELSE {st.flags}
    IN  IF flags = NoFlags THEN me
        ELSE [me EXCEPT !.decks[d] =
                [status |-> [known |-> TRUE, playing |-> st.moving \/ \E f \in flags : f.playing,
                             master |-> \E f \in flags : f.master],
                 age |-> 0, valid |-> flags]]

Peers(me) == DOMAIN me.peers
ClaimHeard(me, p, number) ==
    IF p \in Peers(me) \/ Cardinality(Peers(me)) < MAX_PEERS
    THEN [me EXCEPT !.peers = [q \in Peers(me) \cup {p} |->
            IF q = p THEN [number |-> number, age |-> 0] ELSE me.peers[q]]]
    ELSE me

\* Mutant: a session gives way to no session, whatever their MAC addresses.
MustYieldToOthers(me, s) ==
    \E p \in Peers(me) : me.peers[p].number = me.number /\ p \in Others

\* Between two player5s the lower MAC address keeps the number.
MustYield(me, s) ==
    \E p \in Peers(me) :
        /\ me.peers[p].number = me.number
        /\ p \in Others \/ ~ me.mac \/ p < s

DefendNumber(me, s) ==
    LET free == FALLBACK \ {me.peers[p].number : p \in Peers(me)}
    IN  IF MustYield(me, s) /\ free # {}
        THEN [me EXCEPT !.number = Min(free), !.wait = 0]
        ELSE me

\* Mutant: the decks are dropped with the unit only.
ExpireUnitOnly(me, s) ==
    LET gone  == me.unit # None /\ me.unitAge > EXPIRY
    IN  Reselect([me EXCEPT
            !.peers = [p \in {q \in Peers(me) : me.peers[q].age <= EXPIRY} |-> me.peers[p]],
            !.unit = IF gone THEN None ELSE @,
            !.decks = IF gone THEN [d \in Decks |-> NewDeck] ELSE @,
            !.interface = @ /\ ~ (gone /\ s \in Discovers)])

\* What is silent is dropped; with the unit go its decks, and the address that
\* was found toward it.  The MAC address is kept.
Expire(me, s) ==
    LET gone  == me.unit # None /\ me.unitAge > EXPIRY
        decks == [d \in Decks |-> IF gone THEN NewDeck
                                  ELSE IF me.decks[d].age > EXPIRY
                                  THEN [me.decks[d] EXCEPT !.status = NoStatus]
                                  ELSE me.decks[d]]
    IN  Reselect([me EXCEPT
            !.peers = [p \in {q \in Peers(me) : me.peers[q].age <= EXPIRY} |-> me.peers[p]],
            !.unit = IF gone THEN None ELSE @,
            !.decks = decks,
            !.interface = @ /\ ~ (gone /\ s \in Discovers)])

Announces(me) == me.interface /\ me.mac /\ me.wait = 0

SessionLater(me) ==
    [me EXCEPT !.unitAge = IF me.unit = None THEN 0 ELSE Older(@),
               !.peers = [p \in Peers(me) |-> [me.peers[p] EXCEPT !.age = Older(@)]],
               !.decks = [d \in Decks |-> IF me.decks[d].status.known
                                          THEN [me.decks[d] EXCEPT !.age = Older(@)]
                                          ELSE me.decks[d]],
               !.tracker = TrackerLater(@),
               !.wait = IF @ > 0 THEN @ - 1 ELSE 0,
               !.ticked = FALSE]

-----------------------------------------------------------------------------
(* What a session receives, and its tick.                                    *)

Becomes(s, me) == s \in awake /\ session' = [session EXCEPT ![s] = me]

\* The unit sends its keep-alive and the status of its decks in turn.
Sent(s, d) ==
    /\ due[s] # {} /\ d = Min(due[s])
    /\ due' = [due EXCEPT ![s] = @ \ {d}]

\* The keep-alive of another device, with the number it had when it sent it.
HearPeer(s, p) ==
    /\ s \in unheard[p].to
    /\ Becomes(s, DefendNumber(ClaimHeard(session[s], p, unheard[p].number), s))
    /\ unheard' = [unheard EXCEPT ![p].to = @ \ {s}]
    /\ obs' = {}
    /\ UNCHANGED <<due, lost, boothVars>>

\* A keep-alive of the unit, or its hello.
HearUnit(s) ==
    /\ Sent(s, Hello)
    /\ Becomes(s, SeeUnit(session[s], unitAt))
    /\ obs' = {}
    /\ UNCHANGED <<unheard, lost, boothVars>>

OnStatus(s, d, glitch) ==
    LET flags == [playing |-> deck[d].playing, master |-> \E i \in DOMAIN leads : leads[i] = d]
        st == [flags |-> flags, glitch |-> glitch, moving |-> deck[d].playing]
        me == SeeUnit(session[s], unitAt)
        read == WithStatus(me, d, st)
        now == Reselect(read)
        up == Update(now.tracker, deck[d].beat, now.decks[d].status.playing, deck[d].period)
    IN  /\ Sent(s, d)
        /\ glitch => lost < MaxLost
        /\ lost' = IF glitch THEN lost + 1 ELSE lost
        /\ IF SecondUnit(session[s], unitAt)
           THEN Becomes(s, session[s]) /\ obs' = {}
           ELSE IF glitch /\ me.decks[d].valid = NoFlags
           THEN Becomes(s, me) /\ obs' = {}
           ELSE IF now.followed # d
           THEN Becomes(s, now) /\ obs' = {}
           ELSE /\ Becomes(s, [now EXCEPT !.tracker = up.tracker])
                /\ obs' = {[deck |-> d, beat |-> e.beat, began |-> e.began, width |-> e.width] :
                              e \in up.estimate}
        /\ UNCHANGED <<unheard, boothVars>>

\* SourceCommand::Follow.
SetFollow(s, want) ==
    /\ session[s].follow # want /\ due[s] = {} /\ ~ session[s].ticked
    /\ changes < MaxChanges /\ changes' = changes + 1
    /\ Becomes(s, Reselect([session[s] EXCEPT !.follow = want]))
    /\ obs' = {}
    /\ UNCHANGED <<unheard, due, lost, awake, present, unitVars>>

\* The end of the source thread's loop, once in a period: it looks for its own address once the
\* unit is known, drops what is silent and announces itself when that is due.
\* The unit sends status to a session from its lighting request on.
Tick(s, found) ==
    LET me    == session[s]
        home  == IF ~ me.interface /\ me.unit # None /\ found
                 THEN [me EXCEPT !.interface = TRUE, !.mac = TRUE, !.wait = 0] ELSE me
        left  == Expire(home, s)
        sends == Announces(left)
        fails == ~ me.interface /\ me.unit # None /\ ~ found
    IN  /\ s \in awake /\ ~ me.ticked /\ due[s] = {}
        /\ fails => lost < MaxLost
        /\ lost' = IF fails THEN lost + 1 ELSE lost
        /\ session' = [session EXCEPT ![s] =
                          [left EXCEPT !.ticked = TRUE, !.wait = IF sends THEN Interval ELSE @]]
        /\ unheard' = IF sends
                      THEN [unheard EXCEPT ![s] = [to |-> awake \ {s}, number |-> left.number]]
                      ELSE unheard
        /\ asked' = IF sends /\ left.unit # None /\ left.unit = unitAt
                    THEN asked \cup {s} ELSE asked
        /\ obs' = {}
        /\ UNCHANGED <<due, awake, present, unitAt, silent, deck, leads, changes>>

-----------------------------------------------------------------------------
(* External: the network, the other devices and the unit.                    *)

Lose ==
    /\ lost < MaxLost /\ lost' = lost + 1
    /\ obs' = {}
    /\ UNCHANGED <<session, boothVars>>

LoseOfUnit(s, d) == Sent(s, d) /\ Lose /\ UNCHANGED unheard

LoseOfPeer(s, p) ==
    /\ s \in unheard[p].to /\ unheard' = [unheard EXCEPT ![p].to = @ \ {s}]
    /\ Lose /\ UNCHANGED due

\* Changes come between the packets of one period and those of the next.
Change ==
    /\ changes < MaxChanges /\ changes' = changes + 1
    /\ \A s \in Sessions : due[s] = {} /\ ~ session[s].ticked
    /\ \A p \in Sessions \cup Others : unheard[p].to = {}
    /\ obs' = {}
    /\ UNCHANGED <<session, unheard, due, lost>>

Starts(s) ==
    /\ s \notin awake
    /\ awake' = awake \cup {s}
    /\ Change
    /\ UNCHANGED <<present, unitVars>>

ComesOrGoes(p) ==
    /\ present' = IF p \in present THEN present \ {p} ELSE present \cup {p}
    /\ Change
    /\ UNCHANGED <<awake, unitVars>>

\* A deck that has just been loaded; beat 0 is the start of the track.
Loaded == [playing |-> FALSE, beat |-> 0, phase |-> 0, began |-> 0, rest |-> 0,
           period |-> Min(Periods)]

UnitOn(addr) ==
    /\ unitAt = None /\ unitAt' = addr
    /\ Change
    /\ UNCHANGED <<awake, present, asked, silent, deck, leads>>

UnitOff ==
    /\ unitAt # None /\ unitAt' = None
    /\ asked' = {} /\ leads' = <<>> /\ deck' = [d \in Decks |-> Loaded] /\ silent' = {}
    /\ Change
    /\ UNCHANGED <<awake, present>>

FallsSilent(d) ==
    /\ unitAt # None /\ silent' = silent \cup {d}
    /\ Change
    /\ UNCHANGED <<awake, present, unitAt, asked, deck, leads>>

OnDeck(d, new) ==
    /\ unitAt # None
    /\ deck' = [deck EXCEPT ![d] = new]
    /\ Change
    /\ UNCHANGED <<awake, present, unitAt, asked, silent, leads>>

Load(d, beat) == ~ deck[d].playing /\ OnDeck(d, [Loaded EXCEPT !.beat = beat])

\* A deck stands still for longer than the gap that is taken for a pause.
Start(d) ==
    /\ ~ deck[d].playing /\ deck[d].beat # Unknown
    /\ deck[d].rest > MAX_GAP \/ deck[d].beat = 0
    /\ OnDeck(d, [deck[d] EXCEPT !.playing = TRUE, !.beat = IF @ = 0 THEN 1 ELSE @,
                                 !.began = IF deck[d].phase = 0 THEN 0 ELSE @])

Pause(d) ==
    /\ deck[d].playing
    /\ OnDeck(d, [deck[d] EXCEPT !.playing = FALSE, !.rest = 0])

\* Back, or on, to a cue point: not to the very next beat, which a packet
\* without flags would show as reached by playing.
Cue(d, beat) ==
    /\ deck[d].playing /\ beat \notin {deck[d].beat, deck[d].beat + 1}
    /\ OnDeck(d, [deck[d] EXCEPT !.playing = FALSE, !.rest = 0, !.beat = beat, !.phase = 0])

\* The tempo changes on a beat, to a slower one: tempos are compared on beats,
\* and one that changed and came back within a beat would go unnoticed.
ChangeTempo(d, period) ==
    /\ deck[d].playing /\ deck[d].phase = 0 /\ deck[d].began = 0 /\ period > deck[d].period
    /\ OnDeck(d, [deck[d] EXCEPT !.period = period])

\* Deck d becomes the tempo master; the old one keeps its flag for a while.
BeginHandoff(d) ==
    /\ unitAt # None /\ Len(leads) <= 1 /\ d \notin {leads[i] : i \in DOMAIN leads}
    /\ leads' = <<d>> \o leads
    /\ Change
    /\ UNCHANGED <<awake, present, unitAt, asked, silent, deck>>

EndHandoff ==
    /\ Len(leads) = 2 /\ leads' = <<leads[1]>>
    /\ obs' = {}
    /\ UNCHANGED <<session, unheard, due, lost, awake, present, unitAt, asked, silent, deck, changes>>

DeckLater(x) ==
    IF ~ x.playing
    THEN [x EXCEPT !.rest = Min({MAX_GAP + 1, @ + 1}), !.began = Older(@)]
    ELSE IF x.phase + 1 < x.period
    THEN [x EXCEPT !.phase = @ + 1, !.began = Older(@)]
    ELSE [x EXCEPT !.phase = 0, !.began = 0, !.beat = IF @ = Beats THEN 1 ELSE @ + 1]

Advance ==
    /\ \A s \in awake : session[s].ticked /\ due[s] = {}
    /\ \A p \in Sessions \cup Others : unheard[p].to = {}
    /\ session' = [s \in Sessions |-> IF s \in awake THEN SessionLater(session[s])
                                                      ELSE session[s]]
    /\ deck' = [d \in Decks |-> IF unitAt # None THEN DeckLater(deck[d]) ELSE deck[d]]
    /\ due' = [s \in Sessions |-> IF unitAt = None \/ s \notin awake THEN {}
                                  ELSE IF s \in asked THEN {Hello} \cup (Decks \ silent)
                                  ELSE {Hello}]
    /\ unheard' = [p \in Sessions \cup Others |->
                      IF p \in present THEN [to |-> awake, number |-> OtherNumber[p]]
                                      ELSE unheard[p]]
    /\ obs' = {}
    /\ UNCHANGED <<lost, awake, present, unitAt, asked, silent, leads, changes>>

-----------------------------------------------------------------------------

OpusInit ==
    /\ session = [s \in Sessions |-> NewSession(s)]
    /\ obs = {}
    /\ awake \in SUBSET Sessions /\ awake # {}
    /\ present \in SUBSET Others
    /\ unheard = [p \in Sessions \cup Others |-> [to |-> {}, number |-> None]]
    /\ unitAt \in Addresses \cup {None}
    /\ asked = {} /\ silent = {} /\ due = [s \in Sessions |-> {}]
    /\ \/ deck = [d \in Decks |-> Loaded] /\ leads = <<>>
       \/ /\ deck \in [Decks -> {[Loaded EXCEPT !.playing = TRUE, !.beat = 1, !.phase = k, !.began = k] :
                                     k \in 0..Min(Periods) - 1}]
          /\ leads \in {<<d>> : d \in Decks}
    /\ changes = 0 /\ lost = 0

Receive(s) ==
    \/ \E p \in Sessions \cup Others : HearPeer(s, p) \/ LoseOfPeer(s, p)
    \/ HearUnit(s)
    \/ \E d \in Decks, glitch \in BOOLEAN : OnStatus(s, d, glitch)
    \/ \E d \in Decks \cup {Hello} : LoseOfUnit(s, d)

Booth ==
    \/ \E s \in Sessions : Starts(s)
    \/ \E p \in Others : ComesOrGoes(p)
    \/ \E addr \in Addresses : UnitOn(addr)
    \/ UnitOff
    \/ \E d \in Decks :
          \/ Start(d) \/ Pause(d) \/ BeginHandoff(d) \/ FallsSilent(d)
          \/ \E beat \in {Unknown, 0} : Load(d, beat)
          \/ \E beat \in 1..Beats : Cue(d, beat)
          \/ \E period \in Periods : ChangeTempo(d, period)
    \/ EndHandoff

OpusNext ==
    \/ \E s \in Sessions : Receive(s)
    \/ \E s \in Sessions, want \in Targets : SetFollow(s, want)
    \/ \E s \in Sessions, found \in BOOLEAN : Tick(s, found)
    \/ Booth
    \/ Advance

\* Time passes without bound, and in every period the source thread polls and
\* what is sent arrives, unless it is lost: only finitely much happens in one.
\* A period ends with every session's tick, and the next begins with Advance.
PeriodEnds == \A s \in awake : session[s].ticked
OpusFairness == []<>PeriodEnds /\ []<>~PeriodEnds

OpusSpec == OpusInit /\ [][OpusNext]_opusVars /\ OpusFairness

-----------------------------------------------------------------------------
(* What should hold.                                                         *)

NumbersApart ==
    \A s \in awake :
        /\ \A p \in awake \ {s} : session[p].number # session[s].number
        /\ \A p \in present : OtherNumber[p] # session[s].number

\* Sessions do not leapfrog each other for ever: whoever starts, comes or goes,
\* and whatever keep-alives are lost or were sent under a number given up since,
\* the numbers end up different and stay so (defend_number).
NumbersSettle == <>[]NumbersApart

\* The beat reported is the beat the deck is in, and it began within the
\* bracket reported: over lost packets, pauses, cues and tempo changes no
\* bracket of another deck, another tempo or another place in the track is
\* projected onto it (update, reset, reselect).
EstimateHoldsTheBeat ==
    \A o \in obs :
        LET off == o.began - 2 * deck[o.deck].began
        IN  o.beat = deck[o.deck].beat /\ - o.width <= off /\ off <= o.width

UpToDate(me, d) ==
    LET st == me.decks[d].status
    IN  st.known /\ st.master /\ st.playing = deck[d].playing

\* A session that follows the tempo master leaves it only when it has not
\* heard from it: during a hand-off, while two decks claim to be master, it
\* does not go back to the old one (choose).
Follows(me, d) == me.follow = Master /\ me.followed = d

StaysWithTheMaster ==
    [][\A i \in {1} \cap DOMAIN leads : \A s \in awake :
         /\ Follows(session[s], leads[i]) /\ deck[leads[i]].playing
         /\ session'[s].follow = Master /\ session'[s].unit = session[s].unit
         /\ UpToDate(session'[s], leads[i])
         => Follows(session'[s], leads[i])]_opusVars

\* A deck that has fallen silent, or gone with the unit, is not followed as
\* master any longer than it takes to expire (expire, reselect).
NoGhostDeck ==
    \A s \in awake :
        LET me == session[s]
        IN  me.ticked /\ me.follow = Master /\ me.followed # None =>
                /\ me.unit # None /\ me.unitAge <= EXPIRY
                /\ me.decks[me.followed].status.known
                /\ me.decks[me.followed].age <= EXPIRY

================================================================================
