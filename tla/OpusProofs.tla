---------------------------- MODULE OpusProofs ----------------------------
EXTENDS OpusSession, SequenceTheorems, TLAPS

-----------------------------------------------------------------------------
(* The Opus Quad session                                                     *)

SessionFields == {"number", "interface", "mac", "unit", "unitAge", "peers", "decks", "follow",
                  "followed", "tracker", "wait", "ticked"}

\* A session's record, without what relates its unit and the deck it follows.
Shaped(me) ==
    /\ DOMAIN me = SessionFields
    /\ me.unitAge \in Nat
    /\ DOMAIN me.decks = Decks
    /\ \A d \in Decks : /\ DOMAIN me.decks[d] = {"status", "age", "valid"}
                        /\ me.decks[d].age \in Nat
    /\ me.follow \in Targets
    /\ me.followed \in Decks \cup {None}

\* Without a unit no deck is followed.
SessionOK(me) == Shaped(me) /\ (me.unit = None => me.followed = None)

\* The deck followed as master has been heard from.
Heard(me) ==
    me.follow = Master /\ me.followed # None =>
        /\ me.unit # None /\ me.unitAge <= EXPIRY
        /\ me.decks[me.followed].status.known
        /\ me.decks[me.followed].age <= EXPIRY

\* From its tick on until time passes a session receives nothing of the unit,
\* and what it follows is what the tick chose.
OpusInv ==
    /\ DOMAIN session = Sessions /\ DOMAIN due = Sessions
    /\ leads \in Seq(Decks)
    /\ \A s \in Sessions : /\ SessionOK(session[s])
                           /\ session[s].ticked => due[s] = {} /\ Heard(session[s])

LEMMA OpusFacts ==
    /\ Decks \subseteq 1..4 /\ None = 0 /\ Master = 0 /\ None \notin Decks
    /\ Targets \subseteq Decks \cup {Master} /\ EXPIRY \in Nat
BY OpusAssumption DEF None, Master

\* The first of some decks is one of them.
LEMMA FirstIsOne ==
    ASSUME NEW S \in SUBSET Decks
    PROVE  First(S) \in S \cup {None}
<1>1. CASE S = {}
  BY <1>1 DEF First
<1>2. CASE S # {}
  <2>1. S \subseteq 1..4
    BY OpusFacts
  <2>2. \E x \in S : \A y \in S : x <= y
    <3>1. CASE 1 \in S
      BY <2>1, <3>1
    <3>2. CASE 1 \notin S /\ 2 \in S
      BY <2>1, <3>2
    <3>3. CASE 1 \notin S /\ 2 \notin S /\ 3 \in S
      BY <2>1, <3>3
    <3>4. CASE 1 \notin S /\ 2 \notin S /\ 3 \notin S
      <4>1. \A x \in S : x = 4
        BY <2>1, <3>4
      <4>2. QED
        BY <1>2, <4>1
    <3>5. QED
      BY <3>1, <3>2, <3>3, <3>4
  <2>3. QED
    BY <1>2, <2>2 DEF First, Min
<1>3. QED
  BY <1>1, <1>2

\* A session that follows the master chooses a deck whose status it knows, and
\* none without the unit (choose).
LEMMA ChoiceKnown ==
    ASSUME NEW me, Shaped(me)
    PROVE  /\ Choose(me) \in Decks \cup {None}
           /\ me.unit = None => Choose(me) = None
           /\ me.follow = Master /\ Choose(me) # None => me.decks[Choose(me)].status.known
<1> DEFINE masters == {d \in KnownDecks(me) : me.decks[d].status.master}
           playing == {d \in KnownDecks(me) : me.decks[d].status.playing}
           both == masters \cap playing
<1>1. /\ masters \in SUBSET Decks /\ playing \in SUBSET Decks /\ both \in SUBSET Decks
      /\ \A d \in masters \cup playing : me.decks[d].status.known
  BY DEF KnownDecks
<1>2. Choose(me) = IF me.unit = None THEN None
                   ELSE IF me.follow # Master THEN me.follow
                   ELSE IF me.followed \in both THEN me.followed
                   ELSE IF both # {} THEN First(both)
                   ELSE IF me.followed \in playing THEN me.followed
                   ELSE IF Cardinality(playing) = 1 THEN First(playing)
                   ELSE First(masters)
  BY DEF Choose
<1>3. /\ First(both) \in both \cup {None} /\ First(playing) \in playing \cup {None}
      /\ First(masters) \in masters \cup {None}
  BY <1>1, FirstIsOne
<1>4. me.follow \in Targets
  BY DEF Shaped
<1> HIDE DEF masters, playing
<1>5. CASE me.unit = None
  BY <1>2, <1>5
<1>6. CASE me.unit # None /\ me.follow # Master
  BY <1>2, <1>4, <1>6, OpusFacts
<1>7. CASE me.unit # None /\ me.follow = Master
  <2>1. Choose(me) \in masters \cup playing \cup {None}
    BY <1>2, <1>3, <1>7
  <2>2. QED
    BY <1>1, <1>7, <2>1
<1>8. QED
  BY <1>5, <1>6, <1>7

\* reselect keeps everything but the deck that is followed and the tracker.
LEMMA Reselects ==
    ASSUME NEW me, Shaped(me)
    PROVE  /\ SessionOK(Reselect(me))
           /\ Reselect(me).followed = Choose(me)
           /\ \A f \in SessionFields \ {"followed", "tracker"} : Reselect(me)[f] = me[f]
<1>1. /\ Choose(me) \in Decks \cup {None} /\ (me.unit = None => Choose(me) = None)
  BY ChoiceKnown
<1> DEFINE r == Reselect(me)
<1>2. /\ DOMAIN r = SessionFields /\ r.followed = Choose(me)
      /\ \A f \in SessionFields \ {"followed", "tracker"} : r[f] = me[f]
  BY DEF Reselect, Shaped, SessionFields
<1>3. /\ r.unit = me.unit /\ r.unitAge = me.unitAge /\ r.decks = me.decks /\ r.follow = me.follow
  BY <1>2 DEF SessionFields
<1> HIDE DEF r
<1>4. SessionOK(r)
  BY <1>1, <1>2, <1>3 DEF SessionOK, Shaped
<1>5. QED
  BY <1>2, <1>4 DEF r

\* A deck that is followed as master, plays and is master is chosen again.
LEMMA MasterIsKept ==
    ASSUME NEW me, NEW d \in Decks, me.unit # None, me.follow = Master, me.followed = d,
           me.decks[d].status.known, me.decks[d].status.master, me.decks[d].status.playing
    PROVE  Choose(me) = d
BY DEF Choose, KnownDecks

\* The unit's packets leave the rest of a session as it was (see_unit, on_status).
LEMMA SeesUnit ==
    ASSUME NEW me, NEW addr, SessionOK(me)
    PROVE  /\ SessionOK(SeeUnit(me, addr))
           /\ SeeUnit(me, addr).ticked = me.ticked /\ SeeUnit(me, addr).follow = me.follow
           /\ SeeUnit(me, addr).followed = me.followed
           /\ me.unit # None => SeeUnit(me, addr).unit = me.unit
BY DEF SeeUnit, SecondUnit, SessionOK, Shaped, SessionFields

LEMMA ReadsStatus ==
    ASSUME NEW me, NEW d \in Decks, NEW st, SessionOK(me)
    PROVE  /\ SessionOK(WithStatus(me, d, st))
           /\ WithStatus(me, d, st).ticked = me.ticked /\ WithStatus(me, d, st).follow = me.follow
           /\ WithStatus(me, d, st).followed = me.followed
           /\ WithStatus(me, d, st).unit = me.unit
<1> DEFINE flags == IF st.glitch THEN me.decks[d].valid ELSE {st.flags}
           status == [known |-> TRUE, playing |-> st.moving \/ \E f \in flags : f.playing,
                      master |-> \E f \in flags : f.master]
           r == [me EXCEPT !.decks[d] = [status |-> status, age |-> 0, valid |-> flags]]
<1>1. WithStatus(me, d, st) = IF flags = NoFlags THEN me ELSE r
  BY DEF WithStatus
<1> HIDE DEF flags, status
<1>2. /\ SessionOK(r) /\ r.ticked = me.ticked /\ r.follow = me.follow
      /\ r.followed = me.followed /\ r.unit = me.unit
  <2>1. /\ DOMAIN r = SessionFields /\ r.unitAge = me.unitAge /\ r.ticked = me.ticked
        /\ r.follow = me.follow /\ r.followed = me.followed /\ r.unit = me.unit
        /\ r.decks = [me.decks EXCEPT ![d] = [status |-> status, age |-> 0, valid |-> flags]]
    BY DEF SessionOK, Shaped, SessionFields
  <2> HIDE DEF r
  <2>2. QED
    BY <2>1 DEF SessionOK, Shaped
<1>3. QED
  BY <1>1, <1>2

\* The keep-alives of others change the peers, the number and the wait.
LEMMA HearsPeer ==
    ASSUME NEW me, NEW p, NEW number, NEW s, SessionOK(me)
    PROVE  LET r == DefendNumber(ClaimHeard(me, p, number), s)
           IN  /\ SessionOK(r) /\ r.ticked = me.ticked /\ r.follow = me.follow
               /\ r.followed = me.followed /\ r.unit = me.unit /\ r.unitAge = me.unitAge
               /\ r.decks = me.decks
<1> DEFINE c == ClaimHeard(me, p, number)
           r == DefendNumber(c, s)
           Same(x, y) == /\ DOMAIN x = SessionFields /\ x.ticked = y.ticked /\ x.follow = y.follow
                         /\ x.followed = y.followed /\ x.unit = y.unit /\ x.unitAge = y.unitAge
                         /\ x.decks = y.decks
<1>1. DOMAIN me = SessionFields
  BY DEF SessionOK, Shaped
<1>2. Same(c, me)
  <2> DEFINE heard == [q \in Peers(me) \cup {p} |->
                          IF q = p THEN [number |-> number, age |-> 0] ELSE me.peers[q]]
  <2>1. c = [me EXCEPT !.peers = heard] \/ c = me
    BY DEF ClaimHeard
  <2> HIDE DEF heard, c
  <2>2. QED
    BY <1>1, <2>1 DEF SessionFields
<1> HIDE DEF c
<1>3. Same(r, c)
  <2> DEFINE new == Min(FALLBACK \ {c.peers[q].number : q \in Peers(c)})
  <2>1. r = [c EXCEPT !.number = new, !.wait = 0] \/ r = c
    BY DEF DefendNumber
  <2> HIDE DEF new, r
  <2>2. QED
    BY <1>2, <2>1 DEF SessionFields
<1> HIDE DEF r
<1>4. SessionOK(r)
  BY <1>2, <1>3 DEF SessionOK, Shaped
<1>5. QED
  BY <1>2, <1>3, <1>4 DEF r, c

\* What is left after expire: the choice is made anew from what has been heard
\* lately, and a master that has been is kept.
LEMMA Expires ==
    ASSUME NEW me, NEW s, SessionOK(me)
    PROVE  LET r == Expire(me, s)
           IN  /\ SessionOK(r) /\ Heard(r) /\ r.follow = me.follow
               /\ \A d \in Decks : /\ me.follow = Master /\ me.followed = d /\ r.unit = me.unit
                                   /\ r.decks[d].status.known /\ r.decks[d].status.master
                                   /\ r.decks[d].status.playing
                                   => r.followed = d
<1> DEFINE gone == me.unit # None /\ me.unitAge > EXPIRY
           decks == [d \in Decks |-> IF gone THEN NewDeck
                                     ELSE IF me.decks[d].age > EXPIRY
                                     THEN [me.decks[d] EXCEPT !.status = NoStatus]
                                     ELSE me.decks[d]]
           peers == [p \in {q \in Peers(me) : me.peers[q].age <= EXPIRY} |-> me.peers[p]]
           left == [me EXCEPT !.peers = peers, !.unit = IF gone THEN None ELSE @, !.decks = decks,
                              !.interface = @ /\ ~ (gone /\ s \in Discovers)]
           r == Expire(me, s)
<1>1. r = Reselect(left)
  BY DEF Expire
<1> HIDE DEF peers, r
<1>2. /\ DOMAIN left = SessionFields /\ left.unitAge = me.unitAge /\ left.decks = decks
      /\ left.unit = IF gone THEN None ELSE me.unit
      /\ left.follow = me.follow /\ left.followed = me.followed
  <2> HIDE DEF gone, decks
  <2>1. QED
    BY DEF SessionOK, Shaped, SessionFields
<1> HIDE DEF left
<1>3. /\ DOMAIN decks = Decks
      /\ \A d \in Decks : /\ DOMAIN decks[d] = {"status", "age", "valid"} /\ decks[d].age \in Nat
                          /\ decks[d].status.known => decks[d].age <= EXPIRY
  <2> SUFFICES ASSUME NEW d \in Decks
               PROVE  /\ DOMAIN decks[d] = {"status", "age", "valid"} /\ decks[d].age \in Nat
                      /\ decks[d].status.known => decks[d].age <= EXPIRY
    OBVIOUS
  <2>1. DOMAIN me.decks[d] = {"status", "age", "valid"} /\ me.decks[d].age \in Nat
    BY DEF SessionOK, Shaped
  <2>2. CASE gone
    BY <2>2 DEF NewDeck, NoStatus
  <2>3. CASE ~ gone /\ me.decks[d].age > EXPIRY
    <3>1. decks[d] = [me.decks[d] EXCEPT !.status = NoStatus]
      BY <2>3
    <3>2. QED
      BY <2>1, <3>1 DEF NoStatus
  <2>4. CASE ~ gone /\ ~ (me.decks[d].age > EXPIRY)
    <3>1. decks[d] = me.decks[d]
      BY <2>4
    <3>2. QED
      BY <2>1, <2>4, <3>1, OpusFacts
  <2>5. QED
    BY <2>2, <2>3, <2>4
<1> HIDE DEF decks
<1>4. Shaped(left)
  BY <1>2, <1>3 DEF SessionOK, Shaped
<1>5. /\ SessionOK(r) /\ r.followed = Choose(left) /\ r.unit = left.unit /\ r.decks = left.decks
      /\ r.unitAge = left.unitAge /\ r.follow = left.follow
  BY <1>1, <1>4, Reselects DEF SessionFields
<1>6. Heard(r)
  <2> SUFFICES ASSUME r.follow = Master, r.followed # None
               PROVE  /\ r.unit # None /\ r.unitAge <= EXPIRY
                      /\ r.decks[r.followed].status.known /\ r.decks[r.followed].age <= EXPIRY
    BY DEF Heard
  <2>1. /\ left.unit # None /\ Choose(left) \in Decks
        /\ left.decks[Choose(left)].status.known
    BY <1>4, <1>5, ChoiceKnown
  <2>2. r.unitAge <= EXPIRY
    BY <1>2, <1>5, <2>1, OpusFacts DEF SessionOK, Shaped
  <2>3. QED
    BY <1>2, <1>3, <1>5, <2>1, <2>2
<1>7. ASSUME NEW d \in Decks, me.follow = Master, me.followed = d, r.unit = me.unit,
             r.decks[d].status.known, r.decks[d].status.master, r.decks[d].status.playing
      PROVE  r.followed = d
  <2>1. me.unit # None
    BY <1>7, OpusFacts DEF SessionOK
  <2>2. QED
    BY <1>2, <1>5, <1>7, <2>1, MasterIsKept
<1>8. QED
  BY <1>2, <1>5, <1>6, <1>7 DEF r

-----------------------------------------------------------------------------
(* Every step                                                                *)

\* What session s becomes in a step in which the others stay as they are.
LEMMA OneSession ==
    ASSUME OpusInv, NEW s \in Sessions, NEW me, session' = [session EXCEPT ![s] = me],
           SessionOK(me), DOMAIN due' = Sessions, leads' \in Seq(Decks),
           \A q \in Sessions \ {s} : due'[q] = due[q],
           me.ticked => due'[s] = {} /\ Heard(me)
    PROVE  OpusInv'
<1>1. DOMAIN session' = Sessions /\ session'[s] = me
      /\ \A q \in Sessions \ {s} : session'[q] = session[q]
  BY DEF OpusInv
<1>2. ASSUME NEW q \in Sessions
      PROVE  SessionOK(session'[q]) /\ (session'[q].ticked => due'[q] = {} /\ Heard(session'[q]))
  <2>1. CASE q = s
    BY <1>1, <2>1
  <2>2. CASE q # s
    BY <1>1, <2>2 DEF OpusInv
  <2>3. QED
    BY <2>1, <2>2
<1>3. QED
  BY <1>1, <1>2 DEF OpusInv, SessionOK, Shaped, Heard

\* A step that leaves the sessions, what is due and the masters alone, or only
\* loses what is due.
LEMMA NoSession ==
    ASSUME OpusInv, session' = session, DOMAIN due' = Sessions, leads' \in Seq(Decks),
           \A q \in Sessions : due[q] = {} => due'[q] = {}
    PROVE  OpusInv'
BY DEF OpusInv, SessionOK, Shaped, Heard

\* What came of the unit came before the tick.
LEMMA SentBeforeTick ==
    ASSUME OpusInv, NEW s \in Sessions, NEW d, Sent(s, d)
    PROVE  /\ DOMAIN due' = Sessions /\ \A q \in Sessions \ {s} : due'[q] = due[q]
           /\ ~ session[s].ticked /\ due[s] # {}
BY DEF OpusInv, Sent

LEMMA InvHearPeer ==
    ASSUME OpusInv, NEW s \in Sessions, NEW p, HearPeer(s, p)
    PROVE  OpusInv'
<1> DEFINE me == DefendNumber(ClaimHeard(session[s], p, unheard[p].number), s)
<1>1. /\ session' = [session EXCEPT ![s] = me] /\ due' = due /\ leads' = leads
  BY DEF HearPeer, Becomes, boothVars, unitVars
<1>2. SessionOK(session[s]) /\ (session[s].ticked => due[s] = {} /\ Heard(session[s]))
  BY DEF OpusInv
<1>3. /\ SessionOK(me) /\ me.ticked = session[s].ticked /\ me.follow = session[s].follow
      /\ me.followed = session[s].followed /\ me.unit = session[s].unit
      /\ me.unitAge = session[s].unitAge /\ me.decks = session[s].decks
  BY <1>2, HearsPeer
<1> HIDE DEF me
<1>4. me.ticked => due'[s] = {} /\ Heard(me)
  BY <1>1, <1>2, <1>3 DEF Heard
<1>5. DOMAIN due' = Sessions /\ leads' \in Seq(Decks)
  BY <1>1 DEF OpusInv
<1>6. QED
  BY <1>1, <1>3, <1>4, <1>5, OneSession

LEMMA InvHearUnit ==
    ASSUME OpusInv, NEW s \in Sessions, HearUnit(s)
    PROVE  OpusInv'
<1> DEFINE me == SeeUnit(session[s], unitAt)
<1>1. /\ session' = [session EXCEPT ![s] = me] /\ leads' = leads /\ Sent(s, Hello)
  BY DEF HearUnit, Becomes, boothVars, unitVars
<1>2. SessionOK(session[s]) /\ leads' \in Seq(Decks)
  BY <1>1 DEF OpusInv
<1>3. SessionOK(me) /\ me.ticked = session[s].ticked
  BY <1>2, SeesUnit
<1> HIDE DEF me
<1>4. QED
  BY <1>1, <1>2, <1>3, SentBeforeTick, OneSession

\* What a session becomes at a status, whichever way it is taken: what it
\* follows it chose from what it has heard, or it kept it.
LEMMA StatusTaken ==
    ASSUME OpusInv, NEW s \in Sessions, NEW d \in Decks, NEW glitch, OnStatus(s, d, glitch)
    PROVE  \E me, read :
              /\ session' = [session EXCEPT ![s] = me]
              /\ SessionOK(me) /\ me.ticked = session[s].ticked
              /\ \/ me.followed = session[s].followed
                 \/ /\ SessionOK(read) /\ read.follow = session[s].follow
                    /\ read.followed = session[s].followed
                    /\ session[s].unit # None => read.unit = session[s].unit
                    /\ me.followed = Choose(read) /\ me.decks = read.decks
<1> DEFINE flags == [playing |-> deck[d].playing, master |-> \E i \in DOMAIN leads : leads[i] = d]
           st == [flags |-> flags, glitch |-> glitch, moving |-> deck[d].playing]
           seen == SeeUnit(session[s], unitAt)
           read == WithStatus(seen, d, st)
           now == Reselect(read)
           up == Update(now.tracker, deck[d].beat, now.decks[d].status.playing, deck[d].period)
<1>1. \/ Becomes(s, session[s]) \/ Becomes(s, seen) \/ Becomes(s, now)
      \/ Becomes(s, [now EXCEPT !.tracker = up.tracker])
  BY DEF OnStatus
<1>2. SessionOK(session[s])
  BY DEF OpusInv
<1>3. /\ SessionOK(seen) /\ seen.ticked = session[s].ticked /\ seen.follow = session[s].follow
      /\ seen.followed = session[s].followed
      /\ session[s].unit # None => seen.unit = session[s].unit
  BY <1>2, SeesUnit
<1> HIDE DEF seen, st
<1>4. /\ SessionOK(read) /\ read.ticked = seen.ticked /\ read.follow = seen.follow
      /\ read.followed = seen.followed /\ read.unit = seen.unit
  BY <1>3, ReadsStatus
<1> HIDE DEF read
<1>5. Shaped(read)
  BY <1>4 DEF SessionOK
<1>6. /\ SessionOK(now) /\ now.followed = Choose(read) /\ now.ticked = read.ticked
      /\ now.decks = read.decks
  BY <1>5, Reselects DEF SessionFields
<1> HIDE DEF now, up
<1> DEFINE with == [now EXCEPT !.tracker = up.tracker]
<1>7. /\ SessionOK(with) /\ with.followed = now.followed /\ with.ticked = now.ticked
      /\ with.decks = now.decks
  <2>1. DOMAIN now = SessionFields
    BY <1>6 DEF SessionOK, Shaped
  <2>2. /\ DOMAIN with = SessionFields
        /\ \A f \in SessionFields \ {"tracker"} : with[f] = now[f]
    BY <2>1
  <2> HIDE DEF with
  <2>3. /\ with.followed = now.followed /\ with.ticked = now.ticked /\ with.decks = now.decks
        /\ with.unit = now.unit /\ with.unitAge = now.unitAge /\ with.follow = now.follow
    BY <2>2 DEF SessionFields
  <2>4. QED
    BY <1>6, <2>2, <2>3 DEF SessionOK, Shaped
<1> HIDE DEF with
<1>8. CASE Becomes(s, session[s]) \/ Becomes(s, seen)
  <2>1. PICK x \in {session[s], seen} : session' = [session EXCEPT ![s] = x]
    BY <1>8 DEF Becomes
  <2>2. SessionOK(x) /\ x.ticked = session[s].ticked /\ x.followed = session[s].followed
    BY <1>2, <1>3
  <2>3. QED
    BY <2>1, <2>2
<1>9. CASE Becomes(s, now) \/ Becomes(s, with)
  <2>1. PICK x \in {now, with} : session' = [session EXCEPT ![s] = x]
    BY <1>9 DEF Becomes
  <2>2. /\ SessionOK(x) /\ x.ticked = session[s].ticked
        /\ x.followed = Choose(read) /\ x.decks = read.decks
    BY <1>3, <1>4, <1>6, <1>7
  <2>3. /\ SessionOK(read) /\ read.follow = session[s].follow
        /\ read.followed = session[s].followed
        /\ session[s].unit # None => read.unit = session[s].unit
    BY <1>3, <1>4
  <2>4. QED
    BY <2>1, <2>2, <2>3
<1>10. QED
  BY <1>1, <1>8, <1>9 DEF with

LEMMA InvOnStatus ==
    ASSUME OpusInv, NEW s \in Sessions, NEW d \in Decks, NEW glitch, OnStatus(s, d, glitch)
    PROVE  OpusInv'
<1>1. PICK me : /\ session' = [session EXCEPT ![s] = me]
                /\ SessionOK(me) /\ me.ticked = session[s].ticked
  BY StatusTaken
<1>2. Sent(s, d) /\ leads' = leads
  BY DEF OnStatus, boothVars, unitVars
<1>3. leads' \in Seq(Decks)
  BY <1>2 DEF OpusInv
<1>4. QED
  BY <1>1, <1>2, <1>3, SentBeforeTick, OneSession

LEMMA InvSetFollow ==
    ASSUME OpusInv, NEW s \in Sessions, NEW want \in Targets, SetFollow(s, want)
    PROVE  OpusInv'
<1> DEFINE asks == [session[s] EXCEPT !.follow = want]
           me == Reselect(asks)
<1>1. /\ session' = [session EXCEPT ![s] = me] /\ due' = due /\ leads' = leads
      /\ ~ session[s].ticked
  BY DEF SetFollow, Becomes, unitVars
<1>2. SessionOK(session[s]) /\ DOMAIN due' = Sessions /\ leads' \in Seq(Decks)
  BY <1>1 DEF OpusInv
<1>3. Shaped(asks) /\ asks.ticked = session[s].ticked
  BY <1>2 DEF SessionOK, Shaped, SessionFields
<1> HIDE DEF asks
<1>4. SessionOK(me) /\ me.ticked = session[s].ticked
  BY <1>3, Reselects DEF SessionFields
<1> HIDE DEF me
<1>5. QED
  BY <1>1, <1>2, <1>4, OneSession

\* What the tick leaves of a session: what was expired, with the tick noted.
LEMMA TickTaken ==
    ASSUME OpusInv, NEW s \in Sessions, NEW found, Tick(s, found)
    PROVE  \E me :
              /\ session' = [session EXCEPT ![s] = me]
              /\ SessionOK(me) /\ Heard(me) /\ me.follow = session[s].follow
              /\ \A d \in Decks :
                    /\ session[s].follow = Master /\ session[s].followed = d
                    /\ me.unit = session[s].unit
                    /\ me.decks[d].status.known /\ me.decks[d].status.master
                    /\ me.decks[d].status.playing
                    => me.followed = d
<1> DEFINE me == session[s]
           home == IF ~ me.interface /\ me.unit # None /\ found
                   THEN [me EXCEPT !.interface = TRUE, !.mac = TRUE, !.wait = 0] ELSE me
           left == Expire(home, s)
           wait == IF Announces(left) THEN Interval ELSE left.wait
           ticks == [left EXCEPT !.ticked = TRUE,
                                 !.wait = IF Announces(left) THEN Interval ELSE @]
<1>1. session' = [session EXCEPT ![s] = ticks]
  BY DEF Tick
<1>2. SessionOK(me)
  BY DEF OpusInv
<1>3. /\ SessionOK(home) /\ home.follow = me.follow /\ home.followed = me.followed
      /\ home.unit = me.unit
  BY <1>2 DEF SessionOK, Shaped, SessionFields
<1> HIDE DEF home
<1>4. /\ SessionOK(left) /\ Heard(left) /\ left.follow = home.follow
      /\ \A d \in Decks : /\ home.follow = Master /\ home.followed = d /\ left.unit = home.unit
                          /\ left.decks[d].status.known /\ left.decks[d].status.master
                          /\ left.decks[d].status.playing
                          => left.followed = d
  BY <1>3, Expires
<1> HIDE DEF left
<1>5. /\ DOMAIN ticks = SessionFields
      /\ \A f \in SessionFields \ {"ticked", "wait"} : ticks[f] = left[f]
  BY <1>4 DEF SessionOK, Shaped
<1> HIDE DEF ticks
<1>6. /\ ticks.unit = left.unit /\ ticks.unitAge = left.unitAge /\ ticks.decks = left.decks
      /\ ticks.follow = left.follow /\ ticks.followed = left.followed
  BY <1>5 DEF SessionFields
<1>7. SessionOK(ticks) /\ Heard(ticks)
  BY <1>4, <1>5, <1>6 DEF SessionOK, Shaped, Heard
<1>8. QED
  BY <1>1, <1>3, <1>4, <1>6, <1>7

LEMMA InvTick ==
    ASSUME OpusInv, NEW s \in Sessions, NEW found, Tick(s, found)
    PROVE  OpusInv'
<1>1. PICK me : session' = [session EXCEPT ![s] = me] /\ SessionOK(me) /\ Heard(me)
  BY TickTaken
<1>2. due' = due /\ leads' = leads /\ due[s] = {}
  BY DEF Tick
<1>3. DOMAIN due' = Sessions /\ leads' \in Seq(Decks)
  BY <1>2 DEF OpusInv
<1>4. QED
  BY <1>1, <1>2, <1>3, OneSession

\* Time leaves what a session follows.
LEMMA Ages ==
    ASSUME NEW me, SessionOK(me)
    PROVE  /\ SessionOK(SessionLater(me)) /\ SessionLater(me).ticked = FALSE
           /\ SessionLater(me).follow = me.follow /\ SessionLater(me).followed = me.followed
<1> DEFINE r == SessionLater(me)
           unitAge == IF me.unit = None THEN 0 ELSE Older(me.unitAge)
           decks == [d \in Decks |-> IF me.decks[d].status.known
                                     THEN [me.decks[d] EXCEPT !.age = Older(@)] ELSE me.decks[d]]
<1>1. DOMAIN me = SessionFields /\ me.unitAge \in Nat
  BY DEF SessionOK, Shaped
<1>2. \A age \in Nat : Older(age) \in Nat
  BY OpusAssumption DEF Older, Oldest
<1>3. /\ DOMAIN decks = Decks
      /\ \A d \in Decks : /\ DOMAIN decks[d] = {"status", "age", "valid"} /\ decks[d].age \in Nat
  BY <1>2 DEF SessionOK, Shaped
<1>4. unitAge \in Nat
  BY <1>1, <1>2
<1> HIDE DEF decks, unitAge
<1>5. /\ DOMAIN r = SessionFields /\ r.unitAge = unitAge /\ r.decks = decks /\ r.ticked = FALSE
      /\ r.follow = me.follow /\ r.followed = me.followed /\ r.unit = me.unit
  BY <1>1 DEF SessionLater, SessionFields, decks, unitAge
<1> HIDE DEF r
<1>6. SessionOK(r)
  BY <1>3, <1>4, <1>5 DEF SessionOK, Shaped
<1>7. QED
  BY <1>5, <1>6 DEF r

LEMMA InvAdvance ==
    ASSUME OpusInv, Advance
    PROVE  OpusInv'
<1>1. /\ session' = [s \in Sessions |-> IF s \in awake THEN SessionLater(session[s])
                                                        ELSE session[s]]
      /\ DOMAIN due' = Sessions /\ leads' = leads
      /\ \A s \in Sessions \ awake : due'[s] = {}
  BY DEF Advance
<1>2. ASSUME NEW s \in Sessions
      PROVE  SessionOK(session'[s]) /\ (session'[s].ticked => due'[s] = {} /\ Heard(session'[s]))
  <2>1. SessionOK(session[s]) /\ (session[s].ticked => Heard(session[s]))
    BY DEF OpusInv
  <2>2. CASE s \in awake
    BY <1>1, <2>1, <2>2, Ages
  <2>3. CASE s \notin awake
    BY <1>1, <2>1, <2>3
  <2>4. QED
    BY <2>2, <2>3
<1>3. leads' \in Seq(Decks) /\ DOMAIN session' = Sessions
  BY <1>1 DEF OpusInv
<1>4. QED
  BY <1>1, <1>2, <1>3 DEF OpusInv, SessionOK, Shaped, Heard

LEMMA InvBooth ==
    ASSUME OpusInv, Booth
    PROVE  OpusInv'
<1>1. session' = session /\ due' = due
  BY DEF Booth, Starts, ComesOrGoes, UnitOn, UnitOff, Start, Pause, BeginHandoff, FallsSilent,
         Load, Cue, ChangeTempo, EndHandoff, OnDeck, Change
<1>2. leads \in Seq(Decks)
  BY DEF OpusInv
<1>3. leads' = leads \/ leads' = <<>> => leads' \in Seq(Decks)
  <2>1. <<>> \in Seq(Decks)
    OBVIOUS
  <2>2. QED
    BY <1>2, <2>1, Zenon
<1>4. EndHandoff => leads' \in Seq(Decks)
  <2> SUFFICES ASSUME EndHandoff PROVE leads' \in Seq(Decks)
    OBVIOUS
  <2>1. leads[1] \in Decks /\ leads' = <<leads[1]>>
    BY <1>2 DEF EndHandoff
  <2>2. QED
    BY <2>1
<1>5. ASSUME NEW d \in Decks, BeginHandoff(d) PROVE leads' \in Seq(Decks)
  <2>1. <<d>> \in Seq(Decks) /\ leads' = <<d>> \o leads
    BY <1>5 DEF BeginHandoff
  <2>2. QED
    BY <1>2, <2>1, ConcatProperties
<1>6. ASSUME NEW d \in Decks,
             \/ Start(d) \/ Pause(d) \/ FallsSilent(d)
             \/ \E beat \in {Unknown, 0} : Load(d, beat)
             \/ \E beat \in 1..Beats : Cue(d, beat)
             \/ \E period \in Periods : ChangeTempo(d, period)
      PROVE  leads' = leads
  BY <1>6 DEF Start, Pause, FallsSilent, Load, Cue, ChangeTempo, OnDeck
<1>7. ASSUME \/ UnitOff \/ \E s \in Sessions : Starts(s)
             \/ \E p \in Others : ComesOrGoes(p)
             \/ \E addr \in Addresses : UnitOn(addr)
      PROVE  leads' = leads \/ leads' = <<>>
  BY <1>7 DEF UnitOff, Starts, ComesOrGoes, UnitOn, unitVars
<1>8. leads' \in Seq(Decks)
  BY <1>3, <1>4, <1>5, <1>6, <1>7 DEF Booth
<1>9. QED
  BY <1>1, <1>8, NoSession DEF OpusInv

LEMMA InvLost ==
    ASSUME OpusInv, NEW s \in Sessions, NEW p,
           LoseOfPeer(s, p) \/ LoseOfUnit(s, p)
    PROVE  OpusInv'
<1>1. session' = session /\ leads' = leads
  BY DEF LoseOfPeer, LoseOfUnit, Lose, boothVars, unitVars
<1>2. DOMAIN due' = Sessions /\ \A q \in Sessions : due[q] = {} => due'[q] = {}
  BY DEF LoseOfPeer, LoseOfUnit, Sent, OpusInv
<1>3. leads' \in Seq(Decks)
  BY <1>1 DEF OpusInv
<1>4. QED
  BY <1>1, <1>2, <1>3, NoSession

LEMMA OpusStarts == OpusInit => OpusInv
<1> SUFFICES ASSUME OpusInit PROVE OpusInv
  OBVIOUS
<1>1. /\ session = [s \in Sessions |-> NewSession(s)] /\ due = [s \in Sessions |-> {}]
      /\ (leads = <<>> \/ \E d \in Decks : leads = <<d>>)
  BY DEF OpusInit
<1>2. leads \in Seq(Decks)
  <2>1. <<>> \in Seq(Decks) /\ \A d \in Decks : <<d>> \in Seq(Decks)
    OBVIOUS
  <2>2. QED
    BY <1>1, <2>1
<1>3. ASSUME NEW s \in Sessions
      PROVE  SessionOK(NewSession(s)) /\ NewSession(s).ticked = FALSE
  BY OpusAssumption DEF NewSession, NewDeck, SessionOK, Shaped, SessionFields, Master, None
<1>4. QED
  BY <1>1, <1>2, <1>3 DEF OpusInv

LEMMA OpusStep == OpusInv /\ [OpusNext]_opusVars => OpusInv'
<1> SUFFICES ASSUME OpusInv, [OpusNext]_opusVars PROVE OpusInv'
  OBVIOUS
<1>1. CASE OpusNext
  <2>1. CASE \E s \in Sessions : Receive(s)
    <3>1. PICK s \in Sessions : Receive(s)
      BY <2>1
    <3>2. ASSUME NEW p, HearPeer(s, p) \/ LoseOfPeer(s, p) \/ LoseOfUnit(s, p) PROVE OpusInv'
      BY <3>2, InvHearPeer, InvLost
    <3>3. QED
      BY <3>1, <3>2, InvHearUnit, InvOnStatus DEF Receive
  <2>2. CASE \E s \in Sessions, want \in Targets : SetFollow(s, want)
    BY <2>2, InvSetFollow
  <2>3. CASE \E s \in Sessions, found \in BOOLEAN : Tick(s, found)
    BY <2>3, InvTick
  <2>4. QED
    BY <1>1, <2>1, <2>2, <2>3, InvBooth, InvAdvance DEF OpusNext
<1>2. CASE UNCHANGED opusVars
  BY <1>2, NoSession DEF opusVars, boothVars, unitVars, OpusInv
<1>3. QED
  BY <1>1, <1>2

LEMMA AwakeGrows ==
    ASSUME [OpusNext]_opusVars
    PROVE  awake' = awake \/ \E s \in Sessions : awake' = awake \cup {s}
<1>1. CASE \E s \in Sessions : Receive(s)
  <2>1. PICK s \in Sessions : Receive(s)
    BY <1>1
  <2>2. ASSUME NEW p, HearPeer(s, p) \/ LoseOfPeer(s, p) \/ LoseOfUnit(s, p) PROVE awake' = awake
    BY <2>2 DEF HearPeer, LoseOfPeer, LoseOfUnit, Lose, boothVars
  <2>3. HearUnit(s) => awake' = awake
    BY DEF HearUnit, boothVars
  <2>4. ASSUME NEW d, NEW glitch, OnStatus(s, d, glitch) PROVE awake' = awake
    BY <2>4 DEF OnStatus, boothVars
  <2>5. QED
    BY <2>1, <2>2, <2>3, <2>4 DEF Receive
<1>2. CASE \/ \E s \in Sessions, want \in Targets : SetFollow(s, want)
           \/ \E s \in Sessions, found \in BOOLEAN : Tick(s, found)
           \/ Advance
  BY <1>2 DEF SetFollow, Tick, Advance
<1>3. CASE Booth
  <2>1. CASE \E s \in Sessions : Starts(s)
    BY <2>1 DEF Starts
  <2>2. CASE \E d \in Decks :
                \/ Start(d) \/ Pause(d) \/ BeginHandoff(d) \/ FallsSilent(d)
                \/ \E beat \in {Unknown, 0} : Load(d, beat)
                \/ \E beat \in 1..Beats : Cue(d, beat)
                \/ \E period \in Periods : ChangeTempo(d, period)
    BY <2>2 DEF Start, Pause, BeginHandoff, FallsSilent, Load, Cue, ChangeTempo, OnDeck
  <2>3. CASE \/ \E p \in Others : ComesOrGoes(p)
             \/ \E addr \in Addresses : UnitOn(addr)
             \/ UnitOff \/ EndHandoff
    BY <2>3 DEF ComesOrGoes, UnitOn, UnitOff, EndHandoff
  <2>4. QED
    BY <1>3, <2>1, <2>2, <2>3 DEF Booth
<1>4. CASE UNCHANGED opusVars
  BY <1>4 DEF opusVars, boothVars
<1>5. QED
  BY <1>1, <1>2, <1>3, <1>4 DEF OpusNext

LEMMA AwakeAreSessions == OpusSpec => [](awake \subseteq Sessions)
<1>1. OpusInit => awake \subseteq Sessions
  BY DEF OpusInit
<1>2. awake \subseteq Sessions /\ [OpusNext]_opusVars => (awake \subseteq Sessions)'
  BY AwakeGrows
<1>3. QED
  BY <1>1, <1>2, PTL DEF OpusSpec

\* The invariant of the session (session.rs): without the unit it follows no
\* deck, and from its tick to the next period it follows, as master, only a deck
\* and a unit that were heard from.
THEOREM OpusInvariant == OpusSpec => []OpusInv
BY OpusStarts, OpusStep, PTL DEF OpusSpec

\* A deck that fell silent, or went with the unit, is not followed as master
\* beyond its expiry, whatever is lost and in whatever order the unit, its
\* decks and the user change (expire, reselect).
THEOREM NoGhostFollowed == OpusSpec => []NoGhostDeck
<1>1. OpusInv /\ awake \subseteq Sessions => NoGhostDeck
  BY DEF OpusInv, NoGhostDeck, Heard
<1>2. QED
  BY <1>1, AwakeAreSessions, OpusInvariant, PTL


\* What a session follows, when the master it followed is still one: every step
\* keeps it, or chooses anew from what was heard of it.
LEMMA KeepsMaster ==
    ASSUME OpusInv, [OpusNext]_opusVars, NEW s \in Sessions, NEW d \in Decks,
           session[s].follow = Master, session[s].followed = d,
           session'[s].follow = Master, session'[s].unit = session[s].unit,
           session'[s].decks[d].status.known, session'[s].decks[d].status.master,
           session'[s].decks[d].status.playing
    PROVE  session'[s].followed = d
<1>1. /\ DOMAIN session = Sessions /\ SessionOK(session[s]) /\ session[s].unit # None
  BY OpusFacts DEF OpusInv, SessionOK
<1>2. CASE session'[s] = session[s]
  BY <1>2
<1>3. ASSUME NEW q \in Sessions, NEW me, session' = [session EXCEPT ![q] = me], q # s
      PROVE  session'[s] = session[s]
  BY <1>1, <1>3
<1>4. ASSUME NEW q \in Sessions, NEW p, HearPeer(q, p) PROVE session'[s].followed = d
  <2> DEFINE me == DefendNumber(ClaimHeard(session[q], p, unheard[p].number), q)
  <2>1. session' = [session EXCEPT ![q] = me]
    BY <1>4 DEF HearPeer, Becomes
  <2>2. SessionOK(session[q]) => me.followed = session[q].followed
    BY HearsPeer
  <2> HIDE DEF me
  <2>3. QED
    BY <1>1, <1>2, <1>3, <2>1, <2>2
<1>5. ASSUME NEW q \in Sessions, HearUnit(q) PROVE session'[s].followed = d
  <2> DEFINE me == SeeUnit(session[q], unitAt)
  <2>1. session' = [session EXCEPT ![q] = me]
    BY <1>5 DEF HearUnit, Becomes
  <2>2. SessionOK(session[q]) => me.followed = session[q].followed
    BY SeesUnit
  <2> HIDE DEF me
  <2>3. QED
    BY <1>1, <1>2, <1>3, <2>1, <2>2
<1>6. ASSUME NEW q \in Sessions, NEW e \in Decks, NEW glitch, OnStatus(q, e, glitch)
      PROVE  session'[s].followed = d
  <2>1. PICK me, read :
           /\ session' = [session EXCEPT ![q] = me]
           /\ \/ me.followed = session[q].followed
              \/ /\ read.follow = session[q].follow /\ read.followed = session[q].followed
                 /\ session[q].unit # None => read.unit = session[q].unit
                 /\ me.followed = Choose(read) /\ me.decks = read.decks
    BY <1>6, StatusTaken
  <2>2. CASE q # s
    BY <1>2, <1>3, <2>1, <2>2
  <2>3. CASE q = s /\ me.followed = session[q].followed
    BY <1>1, <2>1, <2>3
  <2>4. CASE q = s /\ me.followed # session[q].followed
    <3>1. session'[s] = me
      BY <1>1, <2>1, <2>4
    <3>2. QED
      BY <1>1, <2>1, <2>4, <3>1, MasterIsKept
  <2>5. QED
    BY <2>2, <2>3, <2>4
<1>7. ASSUME NEW q \in Sessions, NEW want \in Targets, SetFollow(q, want)
      PROVE  session'[s].followed = d
  <2> DEFINE asks == [session[q] EXCEPT !.follow = want]
  <2>1. session' = [session EXCEPT ![q] = Reselect(asks)] /\ session[q].follow # want
    BY <1>7 DEF SetFollow, Becomes
  <2>2. CASE q # s
    BY <1>2, <1>3, <2>1, <2>2
  <2>3. CASE q = s
    <3>1. Shaped(asks) /\ asks.follow = want
      BY <1>1, <2>3 DEF SessionOK, Shaped, SessionFields
    <3> HIDE DEF asks
    <3>2. Reselect(asks).follow = want
      BY <3>1, Reselects DEF SessionFields
    <3>3. QED
      BY <1>1, <2>1, <2>3, <3>2
  <2>4. QED
    BY <2>2, <2>3
<1>8. ASSUME NEW q \in Sessions, NEW found, Tick(q, found) PROVE session'[s].followed = d
  <2>1. PICK me :
           /\ session' = [session EXCEPT ![q] = me]
           /\ session[q].follow = Master /\ session[q].followed = d
              /\ me.unit = session[q].unit /\ me.decks[d].status.known
              /\ me.decks[d].status.master /\ me.decks[d].status.playing
              => me.followed = d
    BY <1>8, TickTaken
  <2>2. CASE q # s
    BY <1>2, <1>3, <2>1, <2>2
  <2>3. CASE q = s
    BY <1>1, <2>1, <2>3
  <2>4. QED
    BY <2>2, <2>3
<1>9. ASSUME NEW q \in Sessions, NEW p, LoseOfPeer(q, p) \/ LoseOfUnit(q, p)
      PROVE  session'[s] = session[s]
  BY <1>9 DEF LoseOfPeer, LoseOfUnit, Lose
<1>10. CASE \E q \in Sessions : Receive(q)
  <2>1. PICK q \in Sessions : Receive(q)
    BY <1>10
  <2>2. CASE \E p \in Sessions \cup Others : HearPeer(q, p) \/ LoseOfPeer(q, p)
    BY <1>2, <1>4, <1>9, <2>2
  <2>3. CASE HearUnit(q)
    BY <1>5, <2>3
  <2>4. CASE \E e \in Decks, glitch \in BOOLEAN : OnStatus(q, e, glitch)
    BY <1>6, <2>4
  <2>5. CASE \E e \in Decks \cup {Hello} : LoseOfUnit(q, e)
    BY <1>2, <1>9, <2>5
  <2>6. QED
    BY <2>1, <2>2, <2>3, <2>4, <2>5 DEF Receive
<1>11. CASE Advance
  <2>1. session'[s] = IF s \in awake THEN SessionLater(session[s]) ELSE session[s]
    BY <1>11 DEF Advance
  <2>2. QED
    BY <1>1, <2>1, Ages
<1>12. CASE Booth
  <2>1. session' = session
    BY <1>12 DEF Booth, Starts, ComesOrGoes, UnitOn, UnitOff, Start, Pause, BeginHandoff,
           FallsSilent, Load, Cue, ChangeTempo, EndHandoff, OnDeck, Change
  <2>2. QED
    BY <1>2, <2>1
<1>13. CASE UNCHANGED opusVars
  BY <1>2, <1>13 DEF opusVars
<1>14. QED
  BY <1>7, <1>8, <1>10, <1>11, <1>12, <1>13 DEF OpusNext

\* While two decks claim to be master, and whatever packets are lost or come
\* without flags, a session that follows the new one does not go back to the
\* old one as long as what it heard of the new one is up to date (choose).
THEOREM StaysOnMaster == OpusSpec => StaysWithTheMaster
<1> DEFINE Stays == \A i \in {1} \cap DOMAIN leads : \A s \in awake :
                       /\ Follows(session[s], leads[i]) /\ deck[leads[i]].playing
                       /\ session'[s].follow = Master /\ session'[s].unit = session[s].unit
                       /\ UpToDate(session'[s], leads[i])
                       => Follows(session'[s], leads[i])
<1>1. OpusInv /\ awake \subseteq Sessions /\ [OpusNext]_opusVars => [Stays]_opusVars
  <2> SUFFICES ASSUME OpusInv, awake \subseteq Sessions, [OpusNext]_opusVars,
                      NEW s \in awake, 1 \in DOMAIN leads,
                      Follows(session[s], leads[1]), deck[leads[1]].playing,
                      session'[s].follow = Master, session'[s].unit = session[s].unit,
                      UpToDate(session'[s], leads[1])
               PROVE  Follows(session'[s], leads[1])
    OBVIOUS
  <2>1. leads[1] \in Decks
    BY DEF OpusInv
  <2>2. QED
    BY <2>1, KeepsMaster DEF Follows, UpToDate
<1>2. QED
  BY <1>1, AwakeAreSessions, OpusInvariant, PTL DEF OpusSpec, StaysWithTheMaster
===========================================================================
