--------------------------- MODULE AudioThreadProofs ---------------------------
(* What the audio thread shares and what it keeps.  However many events are   *)
(* sent, the ring between the threads is a bounded queue, and the sequence    *)
(* lock one register, read and written at once.  And for any amplitudes,      *)
(* velocities, levels and number of calls, a voice of the kit that has        *)
(* fallen silent is like new, and one that sounds does not jump.              *)
EXTENDS EventQueue, SharedTiming, Kit, FiniteSetTheorems, SequenceTheorems,
        WellFoundedInduction, TLAPS

-----------------------------------------------------------------------------
(* The event ring *)

(* A product with a factor of at least one is at least the other factor.     *)
LEMMA ProductAtLeast ==
    ASSUME NEW c \in Nat, NEW d \in Int, d >= 1
    PROVE  c * d >= c
<1>1. d = 1 + (d - 1) /\ d - 1 \in Nat
  OBVIOUS
<1>2. c * (d - 1) >= 0
  BY <1>1
<1>3. c * d = c + c * (d - 1)
  BY <1>1
<1>4. QED
  BY <1>2, <1>3

(* A multiple of c strictly between 0 and c does not exist. *)
LEMMA NoMultipleBetween ==
    ASSUME NEW c \in Nat, NEW d \in Int
    PROVE  ~(0 < c * d /\ c * d < c)
<1>1. CASE d >= 1
  BY <1>1, ProductAtLeast
<1>2. CASE d <= 0
  <2>1. -d \in Nat
    BY <1>2
  <2>2. c * (-d) >= 0
    BY <2>1
  <2>3. c * d <= 0
    BY <2>2
  <2>4. QED
    BY <2>3
<1>3. QED
  BY <1>1, <1>2

(* Division with remainder, for the mask of an index. *)
LEMMA SlotDivision ==
    ASSUME NEW i \in Nat
    PROVE  /\ Slot(i) \in SlotIndices
           /\ \E q \in Int : i = Capacity * q + Slot(i)
<1>1. Capacity \in Nat \ {0}
  BY CapacityAssumption
<1>2. i % Capacity \in 0 .. Capacity - 1
  BY <1>1
<1>3. i = Capacity * (i \div Capacity) + (i % Capacity) /\ i \div Capacity \in Int
  BY <1>1
<1>4. QED
  BY <1>2, <1>3 DEF Slot, SlotIndices

(* Two indices less than the capacity apart, and not equal, have different   *)
(* slots, on either side of the wrap.                                        *)
LEMMA SlotsApart ==
    ASSUME NEW i \in Indices, NEW j \in Indices,
           WrapSub(i, j) > 0, WrapSub(i, j) < Capacity
    PROVE  Slot(i) # Slot(j)
<1> SUFFICES ASSUME Slot(i) = Slot(j)
             PROVE  FALSE
  OBVIOUS
<1>0. Capacity \in Nat /\ Modulus \in Nat /\ i \in Nat /\ j \in Nat
  BY CapacityAssumption DEF Indices
<1>1. PICK k \in 2 .. Modulus : Modulus = k * Capacity
  BY CapacityAssumption
<1>2. PICK p \in Int : i = Capacity * p + Slot(i)
  BY <1>0, SlotDivision
<1>3. PICK q \in Int : j = Capacity * q + Slot(j)
  BY <1>0, SlotDivision
<1>4. Slot(i) \in Int /\ Slot(j) \in Int
  BY <1>0, SlotDivision DEF SlotIndices
<1>5. i - j = Capacity * p - Capacity * q
  BY <1>0, <1>2, <1>3, <1>4
<1>6. Capacity * p - Capacity * q = Capacity * (p - q)
  BY <1>0
<1>7. CASE j <= i
  BY <1>0, <1>5, <1>6, <1>7, NoMultipleBetween, p - q \in Int DEF WrapSub
<1>8. CASE ~(j <= i)
  <2>1. k \in Int /\ p - q + k \in Int
    BY <1>0, <1>1
  <2>2. Capacity * (p - q) + k * Capacity = Capacity * (p - q + k)
    BY <1>0, <2>1
  <2>3. WrapSub(i, j) = Capacity * (p - q + k)
    BY <1>0, <1>1, <1>5, <1>6, <1>8, <2>2 DEF WrapSub
  <2>4. QED
    BY <1>0, <2>1, <2>3, NoMultipleBetween
<1>9. QED
  BY <1>7, <1>8, <1>0

-----------------------------------------------------------------------------
(* The distance between two indices is itself an index, and grows or shrinks *)
(* by one as either index is advanced.                                       *)
LEMMA WrapArithmetic ==
    ASSUME NEW i \in Indices, NEW j \in Indices
    PROVE  /\ WrapInc(i) \in Indices
           /\ WrapSub(i, j) \in Indices
           /\ WrapSub(i, j) < Capacity => WrapSub(WrapInc(i), j) = WrapSub(i, j) + 1
           /\ WrapSub(i, j) > 0 => WrapSub(i, WrapInc(j)) = WrapSub(i, j) - 1
<1>1. Capacity \in Nat /\ Modulus \in Nat /\ Capacity >= 2
  BY CapacityAssumption
<1>2. Modulus >= 2 * Capacity
  <2>1. PICK k \in 2 .. Modulus : Modulus = k * Capacity
    BY CapacityAssumption
  <2>2. k - 1 \in Int /\ k - 1 >= 1 /\ k * Capacity = Capacity + Capacity * (k - 1)
    BY <1>1, <2>1
  <2>3. QED
    BY <1>1, <2>1, <2>2, ProductAtLeast
<1>3. QED
  BY <1>1, <1>2 DEF Indices, WrapInc, WrapSub

-----------------------------------------------------------------------------
(* The initial ring is empty. *)
LEMMA InitRing == RingInit => RingInv
<1> SUFFICES ASSUME RingInit PROVE RingInv
  OBVIOUS
<1>1. Capacity \in Nat /\ Modulus \in Nat /\ Capacity >= 2 /\ Modulus >= 2
  BY CapacityAssumption
<1>2. RingTypeOK
  BY <1>1 DEF RingInit, RingTypeOK, Indices
<1>3. Used = 0
  BY DEF RingInit, Used, WrapSub
<1>4. QED
  BY <1>1, <1>2, <1>3 DEF RingInit, RingInv

(* Every step of either end keeps the ring invariant. *)
LEMMA StepRing == RingInv /\ [RingNext]_ringVars => RingInv'
<1> SUFFICES ASSUME RingInv, [RingNext]_ringVars
             PROVE  RingInv'
  OBVIOUS
<1>1. /\ RingTypeOK
      /\ head \in Indices /\ tail \in Indices
      /\ Capacity \in Nat
      /\ Used \in Nat
      /\ room \in Nat
  BY CapacityAssumption, WrapArithmetic DEF RingInv, RingTypeOK, Used, Indices
<1>2. CASE PushRefused
  BY <1>1, <1>2 DEF RingInv, RingTypeOK, PushRefused, consumerVars, Used
<1>3. CASE \E e \in Events : PushBegin(e)
  <2>1. Used < Capacity
    BY <1>1, <1>3 DEF PushBegin, IsFull, Used
  <2>2. QED
    BY <1>1, <1>3, <2>1 DEF RingInv, RingTypeOK, PushBegin, consumerVars, Used
<1>4. CASE PushWrite
  <2>1. Slot(tail) \in SlotIndices
    BY <1>1, SlotDivision DEF Indices
  <2>2. slots' \in [SlotIndices -> Events \cup {Nothing}]
    BY <1>1, <1>4, <2>1 DEF RingTypeOK, PushWrite
  <2>3. QED
    BY <1>1, <1>4, <2>2 DEF RingInv, RingTypeOK, PushWrite, consumerVars, Used
<1>5. CASE PushPublish
  <2>1. Used < Capacity
    BY <1>5 DEF RingInv, PushPublish
  <2>2. tail' \in Indices /\ Used' = Used + 1
    BY <1>1, <1>5, <2>1, WrapArithmetic DEF PushPublish, Used
  <2>3. room' \in Nat /\ room' <= Capacity - Used'
    BY <1>1, <1>5, <2>1, <2>2 DEF RingInv, PushPublish
  <2>4. RingTypeOK'
    BY <1>1, <1>5, <2>2, <2>3 DEF RingTypeOK, PushPublish, consumerVars
  <2>5. QED
    BY <1>1, <1>5, <2>1, <2>2, <2>3, <2>4 DEF RingInv, PushPublish, consumerVars
<1>6. CASE Vacant
  <2>1. room' = Capacity - Used /\ room' \in 0 .. Capacity
    BY <1>1, <1>6 DEF RingInv, Vacant, VacantNow, Used
  <2>2. QED
    BY <1>1, <1>6, <2>1 DEF RingInv, RingTypeOK, Vacant, consumerVars, Used
<1>7. CASE PopEmpty
  BY <1>1, <1>7 DEF RingInv, RingTypeOK, PopEmpty, producerVars, Used
<1>8. CASE PopBegin
  <2>1. Used > 0
    BY <1>1, <1>8, CapacityAssumption DEF PopBegin, Empty, Used, WrapSub, Indices
  <2>2. QED
    BY <1>1, <1>8, <2>1 DEF RingInv, RingTypeOK, PopBegin, producerVars, Used
<1>9. CASE PopRead
  <2>1. Slot(head) \in SlotIndices
    BY <1>1, SlotDivision DEF Indices
  <2>2. popped' \in Events \cup {Nothing}
    BY <1>1, <1>9, <2>1 DEF RingTypeOK, PopRead
  <2>3. QED
    BY <1>1, <1>9, <2>2 DEF RingInv, RingTypeOK, PopRead, producerVars, Used
<1>10. CASE PopRelease
  <2>1. Used > 0
    BY <1>10 DEF RingInv, PopRelease
  <2>2. head' \in Indices /\ Used' = Used - 1
    BY <1>1, <1>10, <2>1, WrapArithmetic DEF PopRelease, Used
  <2>3. RingTypeOK'
    BY <1>1, <1>10, <2>2 DEF RingTypeOK, PopRelease, producerVars
  <2>4. QED
    BY <1>1, <1>10, <2>1, <2>2, <2>3 DEF RingInv, PopRelease, producerVars
<1>11. CASE UNCHANGED ringVars
  BY <1>1, <1>11 DEF RingInv, RingTypeOK, ringVars, Used
<1>12. QED
  BY <1>2, <1>3, <1>4, <1>5, <1>6, <1>7, <1>8, <1>9, <1>10, <1>11
  DEF RingNext, Producer, Consumer

(* The ring invariant keeps the two ends on different slots. *)
LEMMA RingSeparatesSlots == RingInv => NoSlotRace
<1> SUFFICES ASSUME RingInv, pushPc = "writing", popPc = "reading"
             PROVE  Slot(tail) # Slot(head)
  BY DEF NoSlotRace
<1>1. tail \in Indices /\ head \in Indices
  BY DEF RingInv, RingTypeOK
<1>2. Used > 0 /\ Used < Capacity
  BY DEF RingInv
<1>3. QED
  BY <1>1, <1>2, SlotsApart DEF Used

(* A refused push was not covered by an answer of vacant(). *)
LEMMA RefusedOnlyUncovered == RingInv /\ [RingNext]_ringVars => [PushRefused => room = 0]_ringVars
<1> SUFFICES ASSUME RingInv, PushRefused
             PROVE  room = 0
  OBVIOUS
<1>1. Used > Capacity - 1
  BY DEF PushRefused, IsFull, Used
<1>2. QED
  BY <1>1, CapacityAssumption, WrapArithmetic DEF RingInv, RingTypeOK, Used, Indices

-----------------------------------------------------------------------------
(* The ring invariant holds in every reachable state. *)
THEOREM RingInvariant == RingSpec => []RingInv
<1>1. QED
  BY InitRing, StepRing, PTL DEF RingSpec

(* The variables of the queue stay in their ranges. *)
THEOREM SlotsTyped == RingSpec => []RingTypeOK
<1>1. RingInv => RingTypeOK
  BY DEF RingInv
<1>2. QED
  BY <1>1, RingInvariant, PTL

(* The producer never writes the slot the consumer is reading, for every     *)
(* capacity and however often the indices have wrapped.                      *)
THEOREM SlotsNeverRace == RingSpec => []NoSlotRace
<1>1. QED
  BY RingInvariant, RingSeparatesSlots, PTL

(* A push the producer was promised room for is accepted. *)
THEOREM VacancyIsAPromise == RingSpec => VacancyHolds
<1>1. QED
  BY RingInvariant, RefusedOnlyUncovered, PTL DEF RingSpec, VacancyHolds

-----------------------------------------------------------------------------
(* The slots in use, in the order of the queue. *)

\* The index n places after i.
Ahead(i, n) == (i + n) % Modulus

LEMMA AheadIs ==
    ASSUME NEW i \in Indices, NEW n \in Indices
    PROVE  Ahead(i, n) = IF i + n < Modulus THEN i + n ELSE i + n - Modulus
<1> DEFINE x == i + n
           q == x \div Modulus
           r == x % Modulus
<1>1. Modulus \in Nat /\ Modulus >= 1 /\ x \in Nat /\ x < 2 * Modulus
  BY CapacityAssumption DEF Indices
<1>2. x = Modulus * q + r /\ q \in Int /\ r \in 0 .. Modulus - 1
  <2> HIDE DEF x
  <2>1. q \in Int /\ r \in 0 .. Modulus - 1
    BY <1>1
  <2>2. x = Modulus * q + r
    BY <1>1
  <2>3. QED
    BY <2>1, <2>2
<1>3. Ahead(i, n) = r
  BY DEF Ahead
<1> HIDE DEF x, q, r
<1>4. ~(q >= 2)
  <2> SUFFICES ASSUME q >= 2 PROVE FALSE
    OBVIOUS
  <2>1. q - 1 \in Int /\ q - 1 >= 1 /\ Modulus * q = Modulus + Modulus * (q - 1)
    BY <1>1, <1>2
  <2>2. Modulus * (q - 1) >= Modulus
    BY <1>1, <2>1, ProductAtLeast
  <2>3. QED
    BY <1>1, <1>2, <2>1, <2>2
<1>5. ~(q <= -1)
  <2> SUFFICES ASSUME q <= -1 PROVE FALSE
    OBVIOUS
  <2>1. -q \in Int /\ -q >= 1 /\ Modulus * (-q) = -(Modulus * q)
    BY <1>1, <1>2
  <2>2. Modulus * (-q) >= Modulus
    BY <1>1, <2>1, ProductAtLeast
  <2>3. QED
    BY <1>1, <1>2, <2>1, <2>2
<1>6. q = 0 \/ q = 1
  BY <1>2, <1>4, <1>5
<1>7. CASE q = 0
  <2>1. Modulus * q = 0
    BY <1>1, <1>7
  <2>2. x = r
    BY <1>1, <1>2, <2>1
  <2>3. QED
    BY <1>1, <1>2, <1>3, <2>2 DEF x
<1>8. CASE q = 1
  <2>1. Modulus * q = Modulus
    BY <1>1, <1>8
  <2>2. x = Modulus + r
    BY <1>1, <1>2, <2>1
  <2>3. QED
    BY <1>1, <1>2, <1>3, <2>2 DEF x, Indices
<1>9. QED
  BY <1>6, <1>7, <1>8

\* Where the queue ends, where it begins, and that the slots of what is
\* queued are not the slot at its end.
LEMMA AheadArithmetic ==
    ASSUME NEW h \in Indices, NEW t \in Indices, WrapSub(t, h) <= Capacity
    PROVE  /\ Ahead(h, WrapSub(t, h)) = t
           /\ Ahead(h, 0) = h
           /\ \A n \in 0 .. WrapSub(t, h) - 1 :
                /\ Ahead(h, n) \in Indices
                /\ Ahead(WrapInc(h), n) = Ahead(h, n + 1)
                /\ WrapSub(t, Ahead(h, n)) = WrapSub(t, h) - n
<1>1. /\ Modulus \in Nat /\ Capacity \in Nat /\ Capacity < Modulus /\ 0 \in Indices
      /\ WrapSub(t, h) \in Indices /\ WrapInc(h) \in Indices
  <2>1. PICK k \in 2 .. Modulus : Modulus = k * Capacity
    BY CapacityAssumption
  <2>2. k - 1 \in Int /\ k - 1 >= 1 /\ k * Capacity = Capacity + Capacity * (k - 1)
    BY <2>1, CapacityAssumption
  <2>3. Capacity * (k - 1) >= Capacity
    BY <2>2, ProductAtLeast, CapacityAssumption
  <2>4. QED
    BY <2>1, <2>2, <2>3, CapacityAssumption, WrapArithmetic DEF Indices
<1>2. Ahead(h, WrapSub(t, h)) = t
  BY <1>1, AheadIs DEF WrapSub, Indices
<1>3. Ahead(h, 0) = h
  BY <1>1, AheadIs DEF Indices
<1>4. ASSUME NEW n \in 0 .. WrapSub(t, h) - 1
      PROVE  /\ Ahead(h, n) \in Indices
             /\ Ahead(WrapInc(h), n) = Ahead(h, n + 1)
             /\ WrapSub(t, Ahead(h, n)) = WrapSub(t, h) - n
  <2>1. n \in Indices /\ n + 1 \in Indices
    BY <1>1 DEF Indices
  <2>2. Ahead(h, n) = IF h + n < Modulus THEN h + n ELSE h + n - Modulus
    BY <2>1, AheadIs
  <2>3. Ahead(h, n + 1) = IF h + (n + 1) < Modulus THEN h + (n + 1) ELSE h + (n + 1) - Modulus
    BY <2>1, AheadIs
  <2>4. Ahead(WrapInc(h), n)
          = IF WrapInc(h) + n < Modulus THEN WrapInc(h) + n ELSE WrapInc(h) + n - Modulus
    BY <1>1, <2>1, AheadIs
  <2>5. Ahead(h, n) \in Indices
    BY <1>1, <2>1, <2>2 DEF Indices
  <2>6. Ahead(WrapInc(h), n) = Ahead(h, n + 1)
    BY <1>1, <2>1, <2>3, <2>4 DEF Indices, WrapInc
  <2>7. WrapSub(t, Ahead(h, n)) = WrapSub(t, h) - n
    BY <1>1, <2>1, <2>2 DEF Indices, WrapSub
  <2>8. QED
    BY <2>5, <2>6, <2>7
<1>5. QED
  BY <1>2, <1>3, <1>4

\* The contents are a sequence of Used events or free slots.
ContentsOK ==
    /\ Used \in 0 .. Capacity
    /\ Contents \in Seq(Events \cup {Nothing}) /\ Len(Contents) = Used
    /\ \A i \in 1 .. Used : Contents[i] = slots[Slot(Ahead(head, i - 1))]

LEMMA ContentsAre == RingInv => ContentsOK
<1> SUFFICES ASSUME RingInv PROVE ContentsOK
  OBVIOUS
<1>1. Used \in Nat /\ Used \in 0 .. Capacity /\ head \in Indices /\ tail \in Indices
  BY CapacityAssumption, WrapArithmetic DEF RingInv, RingTypeOK, Used, Indices
<1>2. \A i \in 1 .. Used : i - 1 \in 0 .. WrapSub(tail, head) - 1
  BY <1>1 DEF Used
<1>3. ASSUME NEW i \in 1 .. Used
      PROVE  /\ slots[Slot(Ahead(head, i - 1))] \in Events \cup {Nothing}
             /\ (head + i - 1) % Modulus = Ahead(head, i - 1)
  <2>1. Ahead(head, i - 1) \in Indices
    BY <1>1, <1>2, AheadArithmetic DEF RingInv, Used
  <2>2. Slot(Ahead(head, i - 1)) \in SlotIndices
    BY <2>1, SlotDivision DEF Indices
  <2>3. head + i - 1 = head + (i - 1)
    BY <1>1 DEF Indices
  <2>4. QED
    BY <2>2, <2>3 DEF RingInv, RingTypeOK, Ahead
<1>4. Contents = [i \in 1 .. Used |-> slots[Slot(Ahead(head, i - 1))]]
  BY <1>3 DEF Contents
<1>5. Contents \in [1 .. Used -> Events \cup {Nothing}]
  BY <1>3, <1>4
<1>6. Contents \in Seq(Events \cup {Nothing})
  BY <1>1, <1>5, SeqDef
<1>7. DOMAIN Contents = 1 .. Used
  BY <1>4
<1>8. Len(Contents) = Used
  BY <1>1, <1>6, <1>7, LenProperties
<1>9. QED
  BY <1>1, <1>4, <1>6, <1>8 DEF ContentsOK

LEMMA ContentsAreNext == RingInv' => ContentsOK'
BY ContentsAre, PTL

-----------------------------------------------------------------------------
(* The ring is a bounded first-in first-out queue. *)

(* What the refinement needs besides the ring invariant: what is about to be *)
(* published is in its slot, and what is about to be released was copied     *)
(* from its slot, whatever the other end does meanwhile.                     *)
CopyInv ==
    /\ pushPc # "idle" => pushed \in Events
    /\ pushPc = "publish" => slots[Slot(tail)] = pushed
    /\ popPc = "release" => popped = slots[Slot(head)]

LEMMA InitCopies == RingInit => CopyInv
BY DEF RingInit, CopyInv

LEMMA StepCopies == RingInv /\ CopyInv /\ [RingNext]_ringVars => CopyInv'
<1> SUFFICES ASSUME RingInv, CopyInv, [RingNext]_ringVars PROVE CopyInv'
  OBVIOUS
<1>1. head \in Indices /\ tail \in Indices /\ Slot(head) \in SlotIndices /\ Slot(tail) \in SlotIndices
  BY SlotDivision DEF RingInv, RingTypeOK, Indices
<1>2. CASE PushRefused \/ Vacant \/ PopEmpty \/ PopBegin \/ UNCHANGED ringVars
  BY <1>2 DEF CopyInv, PushRefused, Vacant, PopEmpty, PopBegin, ringVars, producerVars, consumerVars
<1>3. CASE \E e \in Events : PushBegin(e)
  BY <1>3 DEF CopyInv, PushBegin, consumerVars
<1>4. CASE PushWrite
  <2>1. slots'[Slot(tail)] = pushed
    BY <1>1, <1>4 DEF PushWrite, RingInv, RingTypeOK
  <2>2. ASSUME popPc = "release"
        PROVE  slots'[Slot(head)] = slots[Slot(head)]
    <3>1. Slot(tail) # Slot(head)
      BY <1>1, <1>4, <2>2, SlotsApart DEF PushWrite, RingInv, Used
    <3>2. QED
      BY <1>1, <1>4, <3>1 DEF PushWrite, RingInv, RingTypeOK
  <2>3. QED
    BY <1>4, <2>1, <2>2 DEF CopyInv, PushWrite, consumerVars
<1>5. CASE PushPublish
  BY <1>5 DEF CopyInv, PushPublish, consumerVars
<1>6. CASE PopRead
  BY <1>6 DEF CopyInv, PopRead, producerVars
<1>7. CASE PopRelease
  BY <1>7 DEF CopyInv, PopRelease, producerVars
<1>8. QED
  BY <1>2, <1>3, <1>4, <1>5, <1>6, <1>7 DEF RingNext, Producer, Consumer

\* Steps that leave both indices and the slots in use alone leave the queue.
LEMMA QueueKept ==
    ASSUME RingInv, RingInv', UNCHANGED <<head, tail>>,
           \A i \in 1 .. Used : slots'[Slot(Ahead(head, i - 1))] = slots[Slot(Ahead(head, i - 1))]
    PROVE  Contents' = Contents
<1>1. Used' = Used
  BY DEF Used
<1>2. /\ Contents' \in Seq(Events \cup {Nothing}) /\ Len(Contents') = Used
      /\ \A i \in 1 .. Used : Contents'[i] = slots'[Slot(Ahead(head, i - 1))]
  BY <1>1, ContentsAreNext DEF Ahead, ContentsOK
<1>3. QED
  BY <1>2, ContentsAre, SeqEqual DEF ContentsOK

LEMMA PublishPushes ==
    ASSUME RingInv, RingInv', CopyInv, PushPublish
    PROVE  \E e \in Events : Fifo!Push(e)
<1>1. Used < Capacity /\ pushed \in Events
  BY DEF RingInv, CopyInv, PushPublish
<1>2. head \in Indices /\ tail \in Indices /\ WrapSub(tail, head) <= Capacity
  BY DEF RingInv, RingTypeOK, Used
<1>3. Used' = Used + 1 /\ Used \in Nat /\ UNCHANGED <<slots, head>>
  BY <1>1, <1>2, WrapArithmetic DEF PushPublish, Used, Indices
<1> DEFINE S == Events \cup {Nothing}
           pushedQueue == Append(Contents, pushed)
<1>4. /\ Contents \in Seq(S) /\ Len(Contents) = Used
      /\ \A i \in 1 .. Used : Contents[i] = slots[Slot(Ahead(head, i - 1))]
  BY ContentsAre DEF ContentsOK
<1>5. /\ Contents' \in Seq(S) /\ Len(Contents') = Used + 1
      /\ \A i \in 1 .. Used + 1 : Contents'[i] = slots[Slot(Ahead(head, i - 1))]
  BY <1>3, ContentsAreNext DEF Ahead, ContentsOK
<1>6. slots[Slot(Ahead(head, Used + 1 - 1))] = pushed
  <2>1. Used + 1 - 1 = Used
    BY <1>3
  <2>2. Ahead(head, Used) = tail
    BY <1>2, AheadArithmetic DEF Used
  <2>3. QED
    BY <2>1, <2>2 DEF CopyInv, PushPublish
<1> HIDE DEF S
<1>7. /\ pushedQueue \in Seq(S) /\ Len(pushedQueue) = Used + 1
      /\ \A i \in 1 .. Used : pushedQueue[i] = Contents[i]
      /\ pushedQueue[Used + 1] = pushed
  BY <1>1, <1>3, <1>4 DEF S
<1>8. \A i \in 1 .. Used + 1 : Contents'[i] = pushedQueue[i]
  <2> TAKE i \in 1 .. Used + 1
  <2>1. CASE i = Used + 1
    BY <1>3, <1>5, <1>6, <1>7, <2>1
  <2>2. CASE i # Used + 1
    <3>1. i \in 1 .. Used
      BY <1>3, <2>2
    <3>2. QED
      BY <1>4, <1>5, <1>7, <3>1
  <2>3. QED
    BY <2>1, <2>2
<1> HIDE DEF pushedQueue
<1>9. Contents' = pushedQueue
  BY <1>5, <1>7, <1>8, SeqEqual
<1>10. QED
  BY <1>1, <1>4, <1>9 DEF Fifo!Push, PushPublish, consumerVars, pushedQueue

LEMMA ReleasePops ==
    ASSUME RingInv, RingInv', CopyInv, PopRelease
    PROVE  Fifo!Pop
<1>1. Used > 0
  BY DEF RingInv, PopRelease
<1>2. head \in Indices /\ tail \in Indices /\ WrapSub(tail, head) <= Capacity
  BY DEF RingInv, RingTypeOK, Used
<1>3. Used' = Used - 1 /\ Used \in Nat /\ UNCHANGED slots /\ head' = WrapInc(head)
  BY <1>1, <1>2, WrapArithmetic DEF PopRelease, Used, Indices
<1> DEFINE S == Events \cup {Nothing}
           rest == Tail(Contents)
<1>4. /\ Contents \in Seq(S) /\ Len(Contents) = Used
      /\ \A i \in 1 .. Used : Contents[i] = slots[Slot(Ahead(head, i - 1))]
  BY ContentsAre DEF ContentsOK
<1>5. /\ Contents' \in Seq(S) /\ Len(Contents') = Used - 1
      /\ \A i \in 1 .. Used - 1 : Contents'[i] = slots[Slot(Ahead(WrapInc(head), i - 1))]
  BY <1>3, ContentsAreNext DEF Ahead, ContentsOK
<1> HIDE DEF S
<1>6. /\ rest \in Seq(S) /\ Len(rest) = Used - 1
      /\ \A i \in 1 .. Used - 1 : rest[i] = Contents[i + 1]
      /\ Contents # <<>> /\ Head(Contents) = Contents[1]
  BY <1>1, <1>3, <1>4
<1>7. \A i \in 1 .. Used - 1 : Contents'[i] = rest[i]
  <2> TAKE i \in 1 .. Used - 1
  <2>1. i - 1 \in 0 .. WrapSub(tail, head) - 1 /\ i + 1 \in 1 .. Used /\ (i - 1) + 1 = (i + 1) - 1
    BY <1>3 DEF Used
  <2>2. Ahead(WrapInc(head), i - 1) = Ahead(head, (i + 1) - 1)
    BY <1>2, <2>1, AheadArithmetic
  <2>3. QED
    BY <1>4, <1>5, <1>6, <2>1, <2>2
<1>8. Head(Contents) = popped
  <2>1. 1 \in 1 .. Used /\ 1 - 1 = 0
    BY <1>1, <1>3
  <2>2. Ahead(head, 0) = head
    BY <1>2, AheadArithmetic
  <2>3. QED
    BY <1>4, <1>6, <2>1, <2>2 DEF CopyInv, PopRelease
<1> HIDE DEF rest
<1>9. Contents' = rest
  BY <1>5, <1>6, <1>7, SeqEqual
<1>10. QED
  BY <1>6, <1>8, <1>9 DEF Fifo!Pop, PopRelease, producerVars, rest

LEMMA RingStepIsFifoStep ==
    RingInv /\ RingInv' /\ CopyInv /\ [RingNext]_ringVars => [Fifo!Next]_(Fifo!fifoVars)
<1> SUFFICES ASSUME RingInv, RingInv', CopyInv, [RingNext]_ringVars
             PROVE  Fifo!Next \/ UNCHANGED Fifo!fifoVars
  OBVIOUS
<1>1. head \in Indices /\ tail \in Indices /\ Used <= Capacity /\ Capacity \in Nat
  BY CapacityAssumption DEF RingInv, RingTypeOK
<1>2. CASE PushRefused
  <2>1. Used = Capacity
    <3>1. Used \in Nat /\ Used > Capacity - 1
      BY <1>2, ContentsAre DEF PushRefused, IsFull, Used, ContentsOK
    <3>2. QED
      BY <1>1, <3>1
  <2>2. Contents' = Contents /\ Len(Contents) = Capacity
    BY <1>2, <2>1, ContentsAre, QueueKept DEF PushRefused, ContentsOK
  <2>3. Fifo!Refuse
    BY <1>2, <2>2 DEF Fifo!Refuse, PushRefused, consumerVars
  <2>4. QED
    BY <2>3 DEF Fifo!Next
<1>3. CASE Vacant \/ PopBegin \/ PopRead \/ UNCHANGED ringVars \/ \E e \in Events : PushBegin(e)
  <2>1. UNCHANGED <<slots, head, tail, accepted, delivered>>
    BY <1>3 DEF Vacant, PopBegin, PopRead, PushBegin, ringVars, producerVars, consumerVars
  <2>2. Contents' = Contents
    BY <2>1, QueueKept
  <2>3. QED
    BY <2>1, <2>2 DEF Fifo!fifoVars
<1>4. CASE PushWrite
  <2>1. Used < Capacity
    BY <1>4 DEF PushWrite, RingInv
  <2>2. ASSUME NEW i \in 1 .. Used
        PROVE  slots'[Slot(Ahead(head, i - 1))] = slots[Slot(Ahead(head, i - 1))]
    <3>1. Used \in Nat
      BY ContentsAre DEF ContentsOK
    <3>2. i - 1 \in 0 .. WrapSub(tail, head) - 1
      BY <3>1 DEF Used
    <3>3. /\ Ahead(head, i - 1) \in Indices
          /\ WrapSub(tail, Ahead(head, i - 1)) = Used - (i - 1)
      BY <1>1, <3>2, AheadArithmetic DEF Used
    <3>4. Slot(tail) # Slot(Ahead(head, i - 1))
      BY <1>1, <2>1, <3>1, <3>3, SlotsApart
    <3>5. QED
      BY <1>4, <3>4 DEF PushWrite, RingInv, RingTypeOK
  <2>3. Contents' = Contents
    BY <1>4, <2>2, QueueKept DEF PushWrite
  <2>4. QED
    BY <1>4, <2>3 DEF Fifo!fifoVars, PushWrite, consumerVars
<1>5. CASE PushPublish
  BY <1>5, PublishPushes DEF Fifo!Next
<1>6. CASE PopEmpty
  <2>1. Used = 0
    BY <1>1, <1>6 DEF PopEmpty, Empty, Used, WrapSub, Indices
  <2>2. Contents' = Contents /\ Len(Contents) = 0
    BY <1>6, <2>1, ContentsAre, QueueKept DEF PopEmpty, ContentsOK
  <2>3. Contents = <<>>
    BY <2>2, ContentsAre, EmptySeq DEF ContentsOK
  <2>4. Fifo!PopEmpty
    BY <1>6, <2>2, <2>3 DEF Fifo!PopEmpty, PopEmpty, producerVars
  <2>5. QED
    BY <2>4 DEF Fifo!Next
<1>7. CASE PopRelease
  BY <1>7, ReleasePops DEF Fifo!Next
<1>8. QED
  BY <1>2, <1>3, <1>4, <1>5, <1>6, <1>7 DEF RingNext, Producer, Consumer

LEMMA InitIsFifoInit == RingInit => Fifo!Init
<1> SUFFICES ASSUME RingInit PROVE Contents = <<>>
  BY DEF RingInit, Fifo!Init
<1>1. Used = 0
  BY DEF RingInit, Used, WrapSub
<1>2. Len(Contents) = 0
  BY <1>1, InitRing, ContentsAre DEF ContentsOK
<1>3. QED
  BY <1>2, InitRing, ContentsAre, EmptySeq DEF ContentsOK

(* The ring implements the bounded first-in first-out queue: no event is     *)
(* lost, repeated, reordered or read before it was written, for every        *)
(* capacity and however often the indices wrap.                              *)
THEOREM RingIsFifo == RingSpec => IsFifo
<1>1. RingInv /\ CopyInv /\ [RingNext]_ringVars => (RingInv /\ CopyInv)'
  BY StepRing, StepCopies
<1>2. RingInv /\ RingInv' /\ CopyInv /\ [RingNext]_ringVars => [Fifo!Next]_(Fifo!fifoVars)
  BY RingStepIsFifoStep
<1>3. QED
  BY InitRing, InitCopies, StepRing, StepCopies, InitIsFifoInit, <1>2, PTL
  DEF RingSpec, IsFifo, Fifo!Spec

-----------------------------------------------------------------------------
(* The sequence lock *)

(* What the constants give the provers. *)
LEMMA NoWrapFacts ==
    /\ MaxPublish \in Nat /\ SeqModulus \in Nat
    /\ MaxPosition \in Nat /\ MaxTicks \in Nat
    /\ 2 * MaxPublish < SeqModulus
    /\ Zero \in Snapshots
  BY NoWrapAssumption DEF Zero, Snapshots, Positions, Ticks

(* The value of Half in and out of a publication. *)
LEMMA HalfValues == (writing = "open" => Half = 1) /\ (writing = "idle" => Half = 0)
  BY DEF Half

(* The lock is closed and stable initially. *)
LEMMA InitLock == LockInit => LockInv
<1> SUFFICES ASSUME LockInit PROVE LockInv
  OBVIOUS
<1>1. LockTypeOK
  BY NoWrapFacts DEF LockInit, LockTypeOK
<1>2. Half = 0
  BY DEF LockInit, Half
<1>3. QED
  BY <1>1, <1>2, NoWrapFacts DEF LockInit, LockInv

(* Replacing one word of a pair by that word of another gives a pair. *)
LEMMA StoreKeepsType ==
    ASSUME NEW x \in Snapshots, NEW y \in Snapshots, NEW w \in Words
    PROVE  /\ [x EXCEPT ![w] = y[w]] \in Snapshots
           /\ [x EXCEPT ![w] = y[w]][w] = y[w]
           /\ \A v \in Words : v # w => [x EXCEPT ![w] = y[w]][v] = x[v]
  BY DEF Snapshots, Words

(* A pair is its two words. *)
LEMMA PairIsItsWords ==
    ASSUME NEW x \in Snapshots, NEW y \in Snapshots,
           \A w \in Words : x[w] = y[w]
    PROVE  x = y
  BY DEF Snapshots, Words

(* Each access of either thread keeps the lock invariant. *)
LEMMA StepLock == LockInv /\ [LockNext]_lockVars => LockInv'
<1> SUFFICES ASSUME LockInv, [LockNext]_lockVars
             PROVE  LockInv'
  OBVIOUS
<1> USE NoWrapFacts
<1>1. LockTypeOK /\ seq \in Nat /\ publishes \in Nat
  BY DEF LockInv, LockTypeOK
<1>2. CASE PublishOpen
  <2>1. writing = "idle" /\ publishes < MaxPublish /\ seq = 2 * publishes
    <3>1. Half = 0 /\ writing = "idle" /\ publishes < MaxPublish
      BY <1>2, HalfValues DEF PublishOpen
    <3>2. QED
      BY <1>1, <3>1 DEF LockInv
  <2>2. seq' = seq + 1 /\ seq' \in 0 .. SeqModulus - 1
    BY <1>1, <1>2, <2>1 DEF PublishOpen
  <2>3. newest' \in Snapshots /\ newest'.position >= published'.position
    BY <1>2 DEF PublishOpen, Snapshots
  <2>4. LockTypeOK'
    BY <1>1, <1>2, <2>2, <2>3 DEF LockTypeOK, PublishOpen, readerVars
  <2>5. reading' = "load" => s1' % 2 = 0 /\ s1' <= seq' /\ s1' # seq'
    BY <1>1, <1>2, <2>2 DEF LockInv, LockTypeOK, PublishOpen, readerVars
  <2>6. seq' = 2 * publishes' + Half' /\ publishes' + Half' <= MaxPublish
    BY <1>1, <1>2, <2>1, <2>2 DEF PublishOpen, Half
  <2>7. writing' = "open" /\ Words \ toStore' = {}
    BY <1>2 DEF PublishOpen
  <2>8. QED
    BY <2>3, <2>4, <2>5, <2>6, <2>7, Zenon DEF LockInv
<1>3. ASSUME NEW w \in Words, PublishStore(w)
      PROVE  LockInv'
  <2>1. data' = [data EXCEPT ![w] = newest[w]] /\ data' \in Snapshots
    BY <1>1, <1>3, StoreKeepsType DEF LockTypeOK, PublishStore
  <2>2. LockTypeOK'
    BY <1>1, <1>3, <2>1 DEF LockTypeOK, PublishStore, readerVars
  <2>3. \A v \in Words \ toStore' : data'[v] = newest'[v]
    BY <1>1, <1>3, <2>1, StoreKeepsType DEF LockTypeOK, LockInv, PublishStore
  <2>4. reading = "load" => s1 # seq
    BY <1>1, <1>3 DEF LockInv, PublishStore, Half
  <2>5. QED
    BY <1>1, <1>3, <2>2, <2>3, <2>4 DEF LockInv, PublishStore, readerVars, Half
<1>4. CASE PublishClose
  <2>1. seq = 2 * publishes + 1 /\ publishes + 1 <= MaxPublish
    <3>1. Half = 1
      BY <1>4, HalfValues DEF PublishClose
    <3>2. QED
      BY <1>1, <3>1 DEF LockInv
  <2>2. seq' = seq + 1 /\ seq' \in 0 .. SeqModulus - 1
    BY <1>1, <1>4, <2>1 DEF PublishClose
  <2>3. data' = published'
    <3>1. \A w \in Words : data[w] = newest[w]
      BY <1>4 DEF PublishClose, LockInv
    <3>2. QED
      BY <1>1, <1>4, <3>1, PairIsItsWords DEF LockTypeOK, PublishClose
  <2>4. LockTypeOK'
    <3>1. publishes' \in 0 .. MaxPublish
      BY <1>1, <1>4, <2>1 DEF PublishClose
    <3>2. writing' \in {"idle", "open"} /\ toStore' \in SUBSET Words
      BY <1>1, <1>4 DEF PublishClose, LockTypeOK
    <3>3. published' \in Snapshots
      BY <1>1, <1>4 DEF PublishClose, LockTypeOK
    <3>4. QED
      BY <1>1, <1>4, <2>2, <3>1, <3>2, <3>3 DEF LockTypeOK, PublishClose, readerVars
  <2>5. reading' = "load" => s1' % 2 = 0 /\ s1' <= seq' /\ s1' # seq'
    BY <1>1, <1>4, <2>2 DEF LockInv, LockTypeOK, PublishClose, readerVars
  <2>6. seq' = 2 * publishes' + Half' /\ publishes' + Half' <= MaxPublish /\ writing' = "idle"
    <3>1. Half' = 0 /\ writing' = "idle"
      BY <1>4 DEF PublishClose, Half
    <3>2. QED
      BY <1>1, <1>4, <2>1, <2>2, <3>1 DEF PublishClose
  <2>7. writing' # "open"
    BY <2>6
  <2>8. QED
    BY <2>3, <2>4, <2>5, <2>6, <2>7, Zenon DEF LockInv
<1>5. CASE ReadBegin
  BY <1>1, <1>5 DEF LockInv, LockTypeOK, ReadBegin, writerVars, Half
<1>6. CASE ReadOpen
  BY <1>1, <1>6 DEF LockInv, LockTypeOK, ReadOpen, Stable, writerVars, Half
<1>7. ASSUME NEW w \in Words, ReadLoad(w)
      PROVE  LockInv'
  <2>1. got' = [got EXCEPT ![w] = data[w]] /\ got' \in Snapshots
    BY <1>1, <1>7, StoreKeepsType DEF LockTypeOK, ReadLoad
  <2>2. LockTypeOK'
    BY <1>1, <1>7, <2>1 DEF LockTypeOK, ReadLoad, writerVars
  <2>3. s1 = seq => \A v \in Words \ toLoad' : got'[v] = data'[v]
    BY <1>1, <1>7, <2>1, StoreKeepsType DEF LockTypeOK, LockInv, ReadLoad
  <2>4. QED
    BY <1>1, <1>7, <2>2, <2>3 DEF LockInv, ReadLoad, writerVars, Half
<1>8. CASE ReadReturn
  BY <1>1, <1>8 DEF LockInv, LockTypeOK, ReadReturn, writerVars, Half
<1>9. CASE ReadRetry
  BY <1>1, <1>9 DEF LockInv, LockTypeOK, ReadRetry, writerVars, Half
<1>10. CASE UNCHANGED lockVars
  BY <1>1, <1>10 DEF LockInv, LockTypeOK, lockVars, Half
<1>11. QED
  BY <1>2, <1>3, <1>4, <1>5, <1>6, <1>7, <1>8, <1>9, <1>10 DEF LockNext, Writer, Reader

(* What read returns is the publication in force when it returns. *)
LEMMA ReturnsPublished ==
    ASSUME LockInv, ReadReturn
    PROVE  got = published
<1>1. seq % 2 = 0 /\ s1 = seq
  BY DEF LockInv, ReadReturn
<1>2. writing = "idle"
  BY <1>1, NoWrapFacts DEF LockInv, LockTypeOK, Half
<1>3. \A w \in Words : got[w] = data[w]
  BY <1>1 DEF LockInv, ReadReturn
<1>4. QED
  BY <1>2, <1>3, PairIsItsWords DEF LockInv, LockTypeOK

(* Every access is a publication or a read of the register, or leaves it     *)
(* alone.                                                                    *)
LEMMA StepRegister ==
    LockInv /\ [LockNext]_lockVars => [Register!Next]_<<published, snapshot>>
<1> SUFFICES ASSUME LockInv, [LockNext]_lockVars
             PROVE  Register!Next \/ UNCHANGED <<published, snapshot>>
  OBVIOUS
<1>1. CASE PublishClose
  <2>1. /\ newest.position \in Positions /\ newest.hostTicks \in Ticks
        /\ newest = [position |-> newest.position, hostTicks |-> newest.hostTicks]
        /\ newest.position >= published.position
    BY <1>1 DEF LockInv, LockTypeOK, PublishClose, Snapshots
  <2>2. published' = newest /\ UNCHANGED snapshot
    BY <1>1 DEF PublishClose, readerVars
  <2>3. QED
    BY <2>1, <2>2 DEF Register!Next, Register!Publish
<1>2. CASE ReadReturn
  BY <1>2, ReturnsPublished DEF ReadReturn, Register!Next, Register!Read
<1>3. CASE ~PublishClose /\ ~ReadReturn
  BY <1>3 DEF LockNext, Writer, Reader, PublishOpen, PublishStore, ReadBegin, ReadOpen,
      ReadLoad, ReadRetry, readerVars, lockVars
<1>4. QED
  BY <1>1, <1>2, <1>3

-----------------------------------------------------------------------------
(* The lock invariant holds in every reachable state. *)
THEOREM LockInvariant == LockSpec => []LockInv
  BY InitLock, StepLock, PTL DEF LockSpec

(* The variables of the lock stay in their ranges. *)
THEOREM WordsTyped == LockSpec => []LockTypeOK
<1>1. LockInv => LockTypeOK
  BY DEF LockInv
<1>2. QED
  BY <1>1, LockInvariant, PTL

(* The sequence lock implements the register: no torn, unfinished or stale   *)
(* snapshot is ever returned.                                                *)
THEOREM ImplementsRegister == LockSpec => IsRegister
<1>1. LockInit => Register!Init
  BY DEF LockInit, Register!Init, Zero, Register!Zero
<1>2. QED
  BY <1>1, LockInvariant, StepRegister, PTL DEF LockSpec, IsRegister, Register!Spec

-----------------------------------------------------------------------------
(* What is kept of a voice                                                   *)

KickFields == {"active", "amp", "pitch", "click", "pulse", "gain", "coef", "level"}
SnareFields ==
    {"active", "phase", "low", "high", "blip", "wires", "snap", "offset", "lastBody",
     "filters", "noise", "gain", "coef", "level"}
TomFields ==
    {"active", "phase", "amp", "ramp", "pitch", "attack", "filter", "noise", "coef", "level"}
RimFields ==
    {"active", "low", "high", "clickOn", "click", "clickFilter", "highpass", "coef", "level"}
ClapFields ==
    {"active", "elapsed", "next", "burst", "burstAmp", "tail", "tailAmp", "filters",
     "noise", "gain", "coef", "level"}
CowbellFields == {"active", "osc", "fast", "tail", "env", "filter", "coef", "level"}
HatFields == {"active", "oscs", "env", "gain", "filters", "coef", "level"}

KickOK(x) == DOMAIN x = KickFields

\* A silent snare has nothing to fade away; one just hit begins where it was.
SnareOK(x) ==
    /\ DOMAIN x = SnareFields
    /\ ~ x.active => x.lastBody = 0 /\ x.filters = 0
    /\ x.active /\ x.phase = 0 => x.offset = x.lastBody

TomOK(x) ==
    /\ DOMAIN x = TomFields
    /\ x.amp \in Int /\ x.ramp \in Int /\ x.coef \in Int

\* The resonators, the click and the filters of a silent rimshot are at rest.
RimOK(x) ==
    /\ DOMAIN x = RimFields
    /\ ~ x.active => /\ x.low = 0 /\ x.high = 0 /\ x.click = 0
                     /\ x.clickFilter = 0 /\ x.highpass = 0

ClapOK(x) ==
    /\ DOMAIN x = ClapFields
    /\ ~ x.active => /\ x.burst = 0 /\ x.burstAmp = 0 /\ x.tail = 0
                     /\ x.tailAmp = 0 /\ x.filters = 0

CowbellOK(x) == DOMAIN x = CowbellFields

\* A hat that sounds has something to fade away; a silent one has taken the
\* level it will be heard at.
HatOK(x, c) ==
    /\ DOMAIN x = HatFields
    /\ x.env \in 0 .. Full /\ x.gain \in 0 .. Full /\ x.coef \in Nat
    /\ x.active => x.env > 0 \/ x.gain > 0
    /\ ~ x.active => x.gain = 0 /\ x.filters = 0 /\ x.level = c.level

VoiceOK(kind, x, c) ==
    /\ kind = "kick" => KickOK(x)
    /\ kind = "snare" => SnareOK(x)
    /\ kind = "tom" => TomOK(x)
    /\ kind = "rim" => RimOK(x)
    /\ kind = "clap" => ClapOK(x)
    /\ kind = "cowbell" => CowbellOK(x)
    /\ kind = "hat" => HatOK(x, c)

-----------------------------------------------------------------------------
(* Kick                                                                      *)

LEMMA KickKept ==
  ASSUME NEW c
  PROVE  /\ KickOK(FreshKick(c))
         /\ \A x : KickOK(x) => KickOK(ResetKick(x))
         /\ \A x, v : KickOK(x) => KickOK(HitKick(x, c, v))
         /\ \A x : KickOK(x) => KickOK(SampleKick(x, c))
<1>1. KickOK(FreshKick(c))
  BY DEF FreshKick, KickFields, KickOK
<1>2. \A x : KickOK(x) => KickOK(ResetKick(x))
  BY DEF ResetKick, KickOK
<1>3. \A x, v : KickOK(x) => KickOK(HitKick(x, c, v))
  BY DEF HitKick, ResetKick, KickOK
<1>4. ASSUME NEW x, KickOK(x)
      PROVE  KickOK(SampleKick(x, c))
  <2> DEFINE y == [x EXCEPT !.pulse = Filtered(@, x.click), !.amp = Fade(@, x.coef),
                       !.pitch = Fade(@, 1), !.click = Fade(@, QUICK),
                       !.level = Glide(@, c.level)]
  <2>1. KickOK(y)
    BY <1>4 DEF KickOK
  <2>2. SampleKick(x, c) = IF y.amp = 0 /\ y.click = 0 THEN ResetKick(y) ELSE y
    BY DEF SampleKick
  <2> HIDE DEF y
  <2>3. QED
    BY <1>2, <2>1, <2>2
<1>5. QED
  BY <1>1, <1>2, <1>3, <1>4

LEMMA KickLeavesNothing ==
  ASSUME NEW c, NEW x, KickOK(x), ~ x.active, NEW v
  PROVE  Settled(HitKick(x, c, v)) = Settled(HitKick(FreshKick(c), c, v))
<1> DEFINE y == HitKick(x, c, v)
           z == HitKick(FreshKick(c), c, v)
<1>1. DOMAIN y = KickFields /\ DOMAIN z = KickFields
  BY DEF HitKick, ResetKick, FreshKick, KickOK, KickFields
<1>2. \A f \in KickFields : y[f] = z[f]
  <2>1. DOMAIN x = KickFields
    BY DEF KickOK
  <2>2. QED
    BY <2>1 DEF HitKick, ResetKick, FreshKick, KickFields
<1>3. QED
  <2> HIDE DEF y, z
  <2>1. Settled(y) = Settled(z)
    BY <1>1, <1>2 DEF Settled
  <2>2. QED
    BY <2>1 DEF y, z

-----------------------------------------------------------------------------
(* Snare                                                                     *)

LEMMA SnareKept ==
  ASSUME NEW c
  PROVE  /\ SnareOK(FreshSnare(c))
         /\ \A x : SnareOK(x) => SnareOK([IdleSnare(x) EXCEPT !.noise = 0])
         /\ \A x, v : SnareOK(x) => SnareOK(HitSnare(x, c, v))
         /\ \A x : SnareOK(x) /\ x.active => SnareOK(SampleSnare(x, c))
<1>1. SnareOK(FreshSnare(c))
  BY DEF FreshSnare, SnareFields, SnareOK
<1>2. ASSUME NEW x, DOMAIN x = SnareFields
      PROVE  SnareOK(IdleSnare(x)) /\ SnareOK([IdleSnare(x) EXCEPT !.noise = 0])
  BY <1>2 DEF IdleSnare, SnareFields, SnareOK
<1>3. ASSUME NEW x, NEW v, SnareOK(x)
      PROVE  SnareOK(HitSnare(x, c, v))
  BY <1>3 DEF HitSnare, SnareFields, SnareOK
<1>4. ASSUME NEW x, SnareOK(x), x.active
      PROVE  SnareOK(SampleSnare(x, c))
  <2> DEFINE level == Glide(x.level, c.level)
             body == IF x.phase = 0 THEN 0 ELSE Least(Most(x.low, x.high), Least(x.gain, level))
             y == [x EXCEPT !.phase = 1, !.level = level,
                       !.low = Fade(@, x.coef), !.high = Fade(@, QUICK),
                       !.blip = Fade(@, QUICK), !.wires = Fade(@, x.coef),
                       !.snap = Fade(@, QUICK), !.offset = Fade(@, QUICK),
                       !.filters = Filtered(@, Full), !.noise = Flip(@)]
  <2>1. DOMAIN y = SnareFields /\ y.active /\ y.phase = 1
    BY <1>4 DEF SnareOK, SnareFields
  <2>2. SampleSnare(x, c) =
          IF y.low = 0 /\ y.high = 0 /\ y.wires = 0 /\ y.snap = 0 /\ y.offset = 0
          THEN IdleSnare(y) ELSE [y EXCEPT !.lastBody = body + x.offset]
    BY DEF SampleSnare
  <2> HIDE DEF y, body
  <2>3. SnareOK([y EXCEPT !.lastBody = body + x.offset])
    BY <2>1 DEF SnareOK, SnareFields
  <2>4. QED
    BY <1>2, <2>1, <2>2, <2>3
<1>5. QED
  BY <1>1, <1>2, <1>3, <1>4 DEF SnareOK

LEMMA SnareLeavesNothing ==
  ASSUME NEW c, NEW x, SnareOK(x), ~ x.active, NEW v
  PROVE  Settled(HitSnare(x, c, v)) = Settled(HitSnare(FreshSnare(c), c, v))
<1> DEFINE y == HitSnare(x, c, v)
           z == HitSnare(FreshSnare(c), c, v)
<1>1. DOMAIN x = SnareFields /\ x.lastBody = 0 /\ x.filters = 0
  BY DEF SnareOK
<1>2. DOMAIN y = SnareFields /\ DOMAIN z = SnareFields
  BY <1>1 DEF HitSnare, FreshSnare, SnareFields
<1>3. \A f \in SnareFields \ Drift : y[f] = z[f]
  <2>1. /\ y.active = z.active /\ y.phase = z.phase /\ y.low = z.low
        /\ y.high = z.high /\ y.blip = z.blip /\ y.wires = z.wires /\ y.snap = z.snap
    BY <1>1 DEF HitSnare, FreshSnare, SnareFields
  <2>2. /\ y.offset = z.offset /\ y.lastBody = z.lastBody /\ y.filters = z.filters
        /\ y.gain = z.gain /\ y.coef = z.coef /\ y.level = z.level
    BY <1>1 DEF HitSnare, FreshSnare, SnareFields
  <2> HIDE DEF y, z
  <2>3. QED
    BY <2>1, <2>2 DEF SnareFields, Drift
<1>4. QED
  <2> HIDE DEF y, z
  <2>1. Settled(y) = Settled(z)
    BY <1>2, <1>3 DEF Settled
  <2>2. QED
    BY <2>1 DEF y, z

(* A hit on a snare that sounds begins with what it last put out. *)
LEMMA SnareSeamless ==
  ASSUME NEW c, NEW x, SnareOK(x), x.active, NEW v
  PROVE  Heard("snare", HitSnare(x, c, v)) = Heard("snare", x)
<1>1. DOMAIN x = SnareFields /\ (x.phase = 0 => x.offset = x.lastBody)
  BY DEF SnareOK
<1>2. HitSnare(x, c, v).phase = 0 /\ HitSnare(x, c, v).offset = x.lastBody
  BY <1>1 DEF HitSnare, SnareFields
<1>3. QED
  BY <1>1, <1>2 DEF Heard

-----------------------------------------------------------------------------
(* Toms                                                                      *)

(* A set of natural numbers has a least element: of the intervals below its  *)
(* elements, which are finite, one has none strictly inside.                 *)
LEMMA LeastOf ==
  ASSUME NEW S \in SUBSET Nat, S # {}
  PROVE  \E m \in S : \A n \in S : m <= n
<1> DEFINE Below == {0 .. m : m \in S}
<1>1. Below \subseteq FiniteSubsetsOf(Nat) /\ Below # {}
  <2>1. ASSUME NEW m \in S
        PROVE  0 .. m \in FiniteSubsetsOf(Nat)
    <3>1. m \in Int /\ 0 \in Int /\ 0 .. m \in SUBSET Nat
      OBVIOUS
    <3>2. IsFiniteSet(0 .. m)
      BY <3>1, FS_Interval
    <3>3. QED
      BY <3>1, <3>2 DEF FiniteSubsetsOf
  <2>2. QED
    BY <2>1
<1>2. PICK x \in Below : \A y \in Below : <<y, x>> \notin StrictSubsetOrdering(Nat)
  <2> HIDE DEF Below
  <2> QED BY <1>1, FS_StrictSubsetOrderingWellFounded, WFMin
<1>3. PICK m \in S : x = 0 .. m
  OBVIOUS
<1>4. ASSUME NEW n \in S, n < m
      PROVE  FALSE
  <2>1. n \in Nat /\ m \in Nat
    OBVIOUS
  <2>2. (0 .. n) \subseteq (0 .. m) /\ m \in 0 .. m /\ m \notin 0 .. n
    BY <1>4, <2>1
  <2>3. (0 .. n) \in SUBSET Nat /\ (0 .. m) \in SUBSET Nat /\ (0 .. n) # (0 .. m)
    BY <2>1, <2>2
  <2>4. <<0 .. n, 0 .. m>> \in StrictSubsetOrdering(Nat)
    BY <2>2, <2>3 DEF StrictSubsetOrdering
  <2>5. (0 .. n) \in Below
    OBVIOUS
  <2>6. QED
    BY <1>2, <1>3, <2>4, <2>5
<1>5. QED
  BY <1>4

(* What a strike makes of two energies is an amplitude. *)
LEMMA RootIsInt ==
  ASSUME NEW n \in Nat
  PROVE  Root(n) \in Int
<1> DEFINE S == {r \in Nat : r * r >= n}
<1>1. n \in S
  <2>1. CASE n = 0
    BY <2>1
  <2>2. CASE n >= 1
    <3>1. n * n = n * (n - 1) + n /\ n * (n - 1) >= 0
      <4>1. \A a, b \in Nat : a * b >= 0
        OBVIOUS
      <4>2. n - 1 \in Nat
        BY <2>2
      <4>3. n * (n - 1) >= 0
        BY <4>1, <4>2
      <4>4. n * n = n * (n - 1) + n
        OBVIOUS
      <4>5. QED
        BY <4>3, <4>4
    <3>2. n * n >= n
      <4>1. PICK p \in Int, q \in Int : p = n * n /\ q = n * (n - 1)
        OBVIOUS
      <4>2. p = q + n /\ q >= 0
        BY <3>1, <4>1
      <4>3. p >= n
        BY <4>2
      <4>4. QED
        BY <4>1, <4>3
    <3>3. QED
      BY <3>2
  <2>3. QED
    BY <2>1, <2>2
<1>2. PICK m \in S : \A r \in S : m <= r
  <2>1. S \in SUBSET Nat /\ S # {}
    BY <1>1
  <2> HIDE DEF S
  <2>2. QED
    BY <2>1, LeastOf
<1>3. m \in Nat /\ m <= n /\ m * m >= n
  BY <1>1, <1>2
<1>4. m = 0 \/ (m - 1) * (m - 1) < n
  <2>1. SUFFICES ASSUME m # 0 PROVE (m - 1) * (m - 1) < n
    OBVIOUS
  <2>2. m - 1 \in Nat /\ ~ (m <= m - 1)
    BY <1>3, <2>1
  <2>3. m - 1 \notin S
    BY <1>2, <2>2
  <2>4. (m - 1) * (m - 1) \in Int
    BY <2>2
  <2>5. QED
    BY <2>2, <2>3, <2>4
<1>5. \E r \in 0 .. n : r * r >= n /\ (r = 0 \/ (r - 1) * (r - 1) < n)
  <2>1. m \in 0 .. n
    BY <1>3
  <2>2. QED
    BY <1>3, <1>4, <2>1
<1>6. Root(n) \in 0 .. n
  BY <1>5 DEF Root
<1>7. QED
  BY <1>6

LEMMA FadeInt ==
  ASSUME NEW x \in Int, NEW rate \in Int
  PROVE  Fade(x, rate) \in Int
BY DEF Fade

LEMMA SquareIsNat ==
  ASSUME NEW x \in Int
  PROVE  x * x \in Nat
<1>1. CASE x >= 0
  <2>1. \A a, b \in Nat : a * b \in Nat
    OBVIOUS
  <2>2. QED
    BY <1>1, <2>1
<1>2. CASE x < 0
  <2>1. \A a, b \in Nat : a * b \in Nat
    OBVIOUS
  <2>2. (-x) * (-x) \in Nat /\ (-x) * (-x) = x * x
    BY <1>2, <2>1
  <2>3. QED
    BY <2>2
<1>3. QED
  BY <1>1, <1>2

(* What a hit makes of the wave of a tom that sounds. *)
LEMMA TomTarget ==
  ASSUME NEW current \in Int, NEW v \in Int
  PROVE  Least(Root(current * current + v * v), Full) \in Int
<1>1. current * current \in Nat /\ v * v \in Nat
  BY SquareIsNat
<1>2. current * current + v * v \in Nat
  BY <1>1
<1>3. Root(current * current + v * v) \in Int
  BY <1>2, RootIsInt
<1>4. QED
  BY <1>3, VoicesAssumption DEF Least

LEMMA TomKept ==
  ASSUME NEW c, c.decay \in Int
  PROVE  /\ TomOK(FreshTom(c))
         /\ \A x : TomOK(x) => TomOK([ResetTom(x, c) EXCEPT !.noise = 0])
         /\ \A x : \A v \in Int : TomOK(x) => TomOK(HitTom(x, c, v))
         /\ \A x : TomOK(x) => TomOK(SampleTom(x, c))
<1>1. TomOK(FreshTom(c))
  BY DEF FreshTom, TomFields, TomOK
<1>2. ASSUME NEW x, TomOK(x)
      PROVE  TomOK(ResetTom(x, c)) /\ TomOK([ResetTom(x, c) EXCEPT !.noise = 0])
  <2> DEFINE y == ResetTom(x, c)
  <2>1. DOMAIN x = TomFields /\ x.coef \in Int
    BY <1>2 DEF TomOK
  <2>2. DOMAIN y = TomFields
    BY <2>1 DEF ResetTom, TomFields
  <2>3. y.amp = 0 /\ y.ramp = 0 /\ y.coef = x.coef
    BY <2>1 DEF ResetTom, TomFields
  <2> HIDE DEF y
  <2>4. TomOK(y)
    BY <2>1, <2>2, <2>3 DEF TomOK
  <2>5. TomOK([y EXCEPT !.noise = 0])
    <3>1. DOMAIN [y EXCEPT !.noise = 0] = TomFields
      BY <2>2
    <3>2. /\ [y EXCEPT !.noise = 0].amp = 0 /\ [y EXCEPT !.noise = 0].ramp = 0
          /\ [y EXCEPT !.noise = 0].coef = x.coef
      BY <2>2, <2>3 DEF TomFields
    <3>3. QED
      BY <2>1, <3>1, <3>2 DEF TomOK
  <2>6. QED
    BY <2>4, <2>5 DEF y
<1>3. ASSUME NEW x, NEW v \in Int, TomOK(x)
      PROVE  TomOK(HitTom(x, c, v))
  <2> DEFINE current == x.amp - x.ramp
             target == Least(Root(current * current + v * v), Full)
  <2>1. DOMAIN x = TomFields /\ current \in Int
    BY <1>3 DEF TomOK
  <2>2. target \in Int /\ target - current \in Int
    <3> HIDE DEF current
    <3>1. target \in Int
      BY <2>1, TomTarget
    <3> HIDE DEF target
    <3>2. QED
      BY <2>1, <3>1
  <2>3. HitTom(x, c, v) =
          IF x.active
          THEN [x EXCEPT !.amp = target, !.ramp = target - current, !.pitch = Most(@, v),
                         !.attack = Most(@, v), !.coef = c.decay]
          ELSE [x EXCEPT !.active = TRUE, !.phase = 0, !.amp = v, !.ramp = 0, !.pitch = v,
                         !.attack = v, !.filter = 0, !.coef = c.decay, !.level = c.level]
    BY DEF HitTom
  <2> HIDE DEF target, current
  <2>4. CASE x.active
    <3> DEFINE y == [x EXCEPT !.amp = target, !.ramp = target - current, !.pitch = Most(@, v),
                         !.attack = Most(@, v), !.coef = c.decay]
    <3>1. DOMAIN y = TomFields
      BY <2>1
    <3>2. y.amp = target /\ y.ramp = target - current /\ y.coef = c.decay
      BY <2>1 DEF TomFields
    <3> HIDE DEF y
    <3>3. TomOK(y)
      BY <2>2, <3>1, <3>2 DEF TomOK
    <3>4. QED
      BY <2>3, <2>4, <3>3 DEF y
  <2>5. CASE ~ x.active
    <3> DEFINE y == [x EXCEPT !.active = TRUE, !.phase = 0, !.amp = v, !.ramp = 0, !.pitch = v,
                         !.attack = v, !.filter = 0, !.coef = c.decay, !.level = c.level]
    <3>1. DOMAIN y = TomFields
      BY <2>1
    <3>2. y.amp = v /\ y.ramp = 0 /\ y.coef = c.decay
      BY <2>1 DEF TomFields
    <3> HIDE DEF y
    <3>3. TomOK(y)
      BY <3>1, <3>2 DEF TomOK
    <3>4. QED
      BY <2>3, <2>5, <3>3 DEF y
  <2>6. QED
    BY <2>4, <2>5
<1>4. ASSUME NEW x, TomOK(x)
      PROVE  TomOK(SampleTom(x, c))
  <2> DEFINE attack == Fade(x.attack, QUICK)
             y == [x EXCEPT !.phase = 1, !.attack = attack,
                       !.filter = IF attack = 0 THEN 0 ELSE Filtered(@, x.attack),
                       !.noise = IF x.attack > 0 THEN Flip(@) ELSE @,
                       !.level = Glide(@, c.level), !.amp = Fade(@, x.coef),
                       !.ramp = Fade(@, QUICK), !.pitch = Fade(@, QUICK)]
  <2>0. DOMAIN x = TomFields /\ x.amp \in Int /\ x.ramp \in Int /\ x.coef \in Int
    BY <1>4 DEF TomOK
  <2>1. Fade(x.amp, x.coef) \in Int /\ Fade(x.ramp, QUICK) \in Int
    <3>1. QUICK \in Int
      BY DEF QUICK
    <3>2. QED
      BY <2>0, <3>1, FadeInt
  <2>2. y.amp \in Int /\ y.ramp \in Int /\ y.coef \in Int /\ DOMAIN y = TomFields
    BY <2>0, <2>1 DEF TomFields
  <2>3. SampleTom(x, c) = IF y.amp = 0 /\ y.attack = 0 THEN ResetTom(y, c) ELSE y
    BY DEF SampleTom
  <2> HIDE DEF y
  <2>4. TomOK(y)
    BY <2>2 DEF TomOK
  <2>5. QED
    BY <1>2, <2>3, <2>4
<1>5. QED
  BY <1>1, <1>2, <1>3, <1>4

LEMMA TomLeavesNothing ==
  ASSUME NEW c, NEW x, TomOK(x), ~ x.active, NEW v
  PROVE  Settled(HitTom(x, c, v)) = Settled(HitTom(FreshTom(c), c, v))
<1> DEFINE Hit(w) == [w EXCEPT !.active = TRUE, !.phase = 0, !.amp = v, !.ramp = 0,
                               !.pitch = v, !.attack = v, !.filter = 0,
                               !.coef = c.decay, !.level = c.level]
           y == Hit(x)
           z == Hit(FreshTom(c))
<1>1. DOMAIN x = TomFields
  BY DEF TomOK
<1>2. HitTom(x, c, v) = y
  BY DEF HitTom
<1>3. HitTom(FreshTom(c), c, v) = z
  <2>1. ~ FreshTom(c).active
    BY DEF FreshTom
  <2>2. QED
    BY <2>1 DEF HitTom
<1>4. DOMAIN y = TomFields /\ DOMAIN z = TomFields
  BY <1>1 DEF FreshTom, TomFields
<1>5. \A f \in TomFields \ Drift : y[f] = z[f]
  <2>1. /\ y.active = z.active /\ y.phase = z.phase /\ y.amp = z.amp /\ y.ramp = z.ramp
        /\ y.pitch = z.pitch /\ y.attack = z.attack /\ y.filter = z.filter
        /\ y.coef = z.coef /\ y.level = z.level
    BY <1>1 DEF FreshTom, TomFields
  <2> HIDE DEF y, z
  <2>2. QED
    BY <2>1 DEF TomFields, Drift
<1>6. QED
  <2> HIDE DEF y, z
  <2>1. Settled(y) = Settled(z)
    BY <1>4, <1>5 DEF Settled
  <2>2. QED
    BY <1>2, <1>3, <2>1

(* The ramp makes up for what a hit adds. *)
LEMMA TomSeamless ==
  ASSUME NEW c, NEW x, TomOK(x), x.active, NEW v \in Int
  PROVE  Heard("tom", HitTom(x, c, v)) = Heard("tom", x)
<1> DEFINE current == x.amp - x.ramp
           target == Least(Root(current * current + v * v), Full)
           y == [x EXCEPT !.amp = target, !.ramp = target - current, !.pitch = Most(@, v),
                          !.attack = Most(@, v), !.coef = c.decay]
<1>1. DOMAIN x = TomFields /\ current \in Int
  BY DEF TomOK
<1>2. target \in Int
  <2> HIDE DEF current
  <2>1. QED
    BY <1>1, TomTarget
<1>3. HitTom(x, c, v) = y
  BY DEF HitTom
<1>4. y.amp = target /\ y.ramp = target - current
  <2> HIDE DEF current, target
  <2>1. QED
    BY <1>1 DEF TomFields
<1>5. y.amp - y.ramp = current
  <2> HIDE DEF current, target, y
  <2>1. QED
    BY <1>1, <1>2, <1>4
<1>6. Heard("tom", y) = y.amp - y.ramp /\ Heard("tom", x) = current
  <2> HIDE DEF y
  <2>1. QED
    BY DEF Heard
<1>7. QED
  <2> HIDE DEF y, current
  <2>1. QED
    BY <1>3, <1>5, <1>6

-----------------------------------------------------------------------------
(* Rimshot                                                                   *)

LEMMA RimKept ==
  ASSUME NEW c
  PROVE  /\ RimOK(FreshRim(c))
         /\ \A x : RimOK(x) => RimOK(ResetRim(x))
         /\ \A x, v : RimOK(x) => \A y \in HitRim(x, c, v) : RimOK(y)
         /\ \A x : RimOK(x) /\ x.active => RimOK(SampleRim(x, c))
<1>1. RimOK(FreshRim(c))
  BY DEF FreshRim, RimFields, RimOK
<1>2. ASSUME NEW x, DOMAIN x = RimFields
      PROVE  RimOK(ResetRim(x))
  BY <1>2 DEF ResetRim, RimFields, RimOK
<1>3. ASSUME NEW x, NEW v, RimOK(x), NEW y \in HitRim(x, c, v)
      PROVE  RimOK(y)
  <2>1. PICK low, high : y = StrikeRim(x, c, v, low, high)
    BY DEF HitRim
  <2>2. DOMAIN x = RimFields
    BY <1>3 DEF RimOK
  <2>3. DOMAIN y = RimFields /\ y.active
    BY <2>1, <2>2 DEF RimFields, StrikeRim
  <2>4. QED
    BY <2>3 DEF RimOK
<1>4. ASSUME NEW x, RimOK(x), x.active
      PROVE  RimOK(SampleRim(x, c))
  <2> DEFINE click == IF x.clickOn THEN Fade(x.click, QUICK) ELSE x.click
             ring == IF x.clickOn THEN Filtered(x.clickFilter, x.click) ELSE 0
             off == x.clickOn /\ click = 0 /\ ring = 0
             mix == Most(ring, Most(x.low, x.high))
             y == [x EXCEPT !.low = Fade(@, x.coef), !.high = Fade(@, QUICK), !.click = click,
                       !.clickOn = @ /\ ~ off, !.clickFilter = ring,
                       !.highpass = Filtered(@, mix), !.level = Glide(@, c.level)]
  <2>1. DOMAIN x = RimFields
    BY <1>4 DEF RimOK
  <2>2. DOMAIN y = RimFields /\ y.active
    <3> HIDE DEF click, ring, off, mix
    <3>1. QED
      BY <1>4, <2>1 DEF RimFields
  <2>3. SampleRim(x, c) =
          IF y.low = 0 /\ y.high = 0 /\ y.click = 0 /\ y.highpass = 0 THEN ResetRim(y) ELSE y
    BY DEF SampleRim
  <2> HIDE DEF y
  <2>4. RimOK(y)
    BY <2>2 DEF RimOK
  <2>5. QED
    BY <1>2, <2>2, <2>3, <2>4
<1>5. QED
  BY <1>1, <1>2, <1>3, <1>4 DEF RimOK

LEMMA RimLeavesNothing ==
  ASSUME NEW c, NEW x, RimOK(x), ~ x.active, NEW v, NEW low, NEW high
  PROVE  Settled(StrikeRim(x, c, v, low, high)) = Settled(StrikeRim(FreshRim(c), c, v, low, high))
<1> DEFINE y == StrikeRim(x, c, v, low, high)
           z == StrikeRim(FreshRim(c), c, v, low, high)
<1>1. /\ DOMAIN x = RimFields /\ x.click = 0
      /\ x.clickFilter = 0 /\ x.highpass = 0
  BY DEF RimOK
<1>2. DOMAIN y = RimFields /\ DOMAIN z = RimFields
  BY <1>1 DEF StrikeRim, FreshRim, RimFields
<1>3. \A f \in RimFields \ Drift : y[f] = z[f]
  <2>1. /\ y.active = z.active /\ y.low = z.low /\ y.high = z.high
        /\ y.clickOn = z.clickOn /\ y.coef = z.coef /\ y.level = z.level
    BY <1>1 DEF StrikeRim, FreshRim, RimFields
  <2>2. /\ y.click = z.click /\ y.clickFilter = z.clickFilter /\ y.highpass = z.highpass
    BY <1>1 DEF StrikeRim, FreshRim, RimFields
  <2> HIDE DEF y, z
  <2>3. QED
    BY <2>1, <2>2 DEF RimFields, Drift
<1>4. QED
  <2> HIDE DEF y, z
  <2>1. Settled(y) = Settled(z)
    BY <1>2, <1>3 DEF Settled
  <2>2. QED
    BY <2>1 DEF y, z

LEMMA RimsLeaveNothing ==
  ASSUME NEW c, NEW x, RimOK(x), ~ x.active, NEW v
  PROVE  {Settled(y) : y \in HitRim(x, c, v)} = {Settled(y) : y \in HitRim(FreshRim(c), c, v)}
<1>1. FreshRim(c).low = 0 /\ FreshRim(c).high = 0
  BY DEF FreshRim
<1>2. x.low = 0 /\ x.high = 0
  BY DEF RimOK
<1> DEFINE S == Struck(0, v)
<1>3. /\ HitRim(x, c, v) = {StrikeRim(x, c, v, low, high) : low \in S, high \in S}
      /\ HitRim(FreshRim(c), c, v) =
           {StrikeRim(FreshRim(c), c, v, low, high) : low \in S, high \in S}
  BY <1>1, <1>2 DEF HitRim
<1> HIDE DEF S
<1>4. ASSUME NEW y \in HitRim(x, c, v)
      PROVE  \E z \in HitRim(FreshRim(c), c, v) : Settled(y) = Settled(z)
  <2>1. PICK low \in S, high \in S : y = StrikeRim(x, c, v, low, high)
    BY <1>3
  <2>2. Settled(y) = Settled(StrikeRim(FreshRim(c), c, v, low, high))
    BY <2>1, RimLeavesNothing
  <2>3. StrikeRim(FreshRim(c), c, v, low, high) \in HitRim(FreshRim(c), c, v)
    BY <1>3
  <2>4. QED
    BY <2>2, <2>3
<1>5. ASSUME NEW z \in HitRim(FreshRim(c), c, v)
      PROVE  \E y \in HitRim(x, c, v) : Settled(z) = Settled(y)
  <2>1. PICK low \in S, high \in S : z = StrikeRim(FreshRim(c), c, v, low, high)
    BY <1>3
  <2>2. Settled(StrikeRim(x, c, v, low, high)) = Settled(z)
    BY <2>1, RimLeavesNothing
  <2>3. StrikeRim(x, c, v, low, high) \in HitRim(x, c, v)
    BY <1>3
  <2>4. QED
    BY <2>2, <2>3
<1>6. QED
  BY <1>4, <1>5

(* The filter that is heard only passes on what it holds. *)
LEMMA RimSeamless ==
  ASSUME NEW c, NEW x, RimOK(x), NEW v, NEW y \in HitRim(x, c, v)
  PROVE  Heard("rim", y) = Heard("rim", x)
<1>1. PICK low, high : y = StrikeRim(x, c, v, low, high)
  BY DEF HitRim
<1>2. DOMAIN x = RimFields
  BY DEF RimOK
<1>3. y.highpass = x.highpass
  BY <1>1, <1>2 DEF StrikeRim, RimFields
<1>4. QED
  BY <1>3 DEF Heard

-----------------------------------------------------------------------------
(* Clap                                                                      *)

LEMMA ClapKept ==
  ASSUME NEW c
  PROVE  /\ ClapOK(FreshClap(c))
         /\ \A x : ClapOK(x) => ClapOK([IdleClap(x) EXCEPT !.noise = 0])
         /\ \A x, v : ClapOK(x) => ClapOK(HitClap(x, c, v))
         /\ \A x : ClapOK(x) /\ x.active => ClapOK(SampleClap(x, c))
<1>1. ClapOK(FreshClap(c))
  BY DEF FreshClap, ClapFields, ClapOK
<1>2. ASSUME NEW x, DOMAIN x = ClapFields
      PROVE  ClapOK(IdleClap(x)) /\ ClapOK([IdleClap(x) EXCEPT !.noise = 0])
  BY <1>2 DEF IdleClap, ClapFields, ClapOK
<1>3. ASSUME NEW x, NEW v, ClapOK(x)
      PROVE  ClapOK(HitClap(x, c, v))
  <2>1. DOMAIN x = ClapFields
    BY <1>3 DEF ClapOK
  <2>2. DOMAIN HitClap(x, c, v) = ClapFields /\ HitClap(x, c, v).active
    BY <2>1 DEF HitClap, ClapFields
  <2>3. QED
    BY <2>2 DEF ClapOK
<1>4. ASSUME NEW x, ClapOK(x), x.active
      PROVE  ClapOK(SampleClap(x, c))
  <2>1. PICK s : s = Scheduled(x)
    OBVIOUS
  <2>2. DOMAIN x = ClapFields
    BY <1>4 DEF ClapOK
  <2>3. DOMAIN s = ClapFields /\ s.active
    BY <1>4, <2>1, <2>2 DEF Scheduled, ClapFields
  <2> DEFINE y == [s EXCEPT !.burstAmp = Glide(@, s.burst), !.tailAmp = Glide(@, s.tail),
                       !.burst = Fade(@, QUICK), !.tail = Fade(@, s.coef),
                       !.filters = Filtered(@, Full), !.noise = Flip(@),
                       !.level = Glide(@, c.level)]
  <2>4. DOMAIN y = ClapFields /\ y.active
    BY <2>3 DEF ClapFields
  <2>5. SampleClap(x, c) = IF Ended(y) THEN IdleClap(y) ELSE y
    BY <2>1 DEF SampleClap
  <2> HIDE DEF y
  <2>6. ClapOK(y)
    BY <2>4 DEF ClapOK
  <2>7. QED
    BY <1>2, <2>4, <2>5, <2>6
<1>5. QED
  BY <1>1, <1>2, <1>3, <1>4 DEF ClapOK

LEMMA ClapLeavesNothing ==
  ASSUME NEW c, NEW x, ClapOK(x), ~ x.active, NEW v
  PROVE  Settled(HitClap(x, c, v)) = Settled(HitClap(FreshClap(c), c, v))
<1> DEFINE y == HitClap(x, c, v)
           z == HitClap(FreshClap(c), c, v)
<1>1. /\ DOMAIN x = ClapFields /\ x.burst = 0 /\ x.burstAmp = 0 /\ x.tail = 0
      /\ x.tailAmp = 0 /\ x.filters = 0
  BY DEF ClapOK
<1>2. DOMAIN y = ClapFields /\ DOMAIN z = ClapFields
  BY <1>1 DEF HitClap, FreshClap, ClapFields
<1>3. \A f \in ClapFields \ Drift : y[f] = z[f]
  <2>1. /\ y.active = z.active /\ y.elapsed = z.elapsed /\ y.next = z.next
        /\ y.gain = z.gain /\ y.coef = z.coef /\ y.level = z.level
    BY <1>1 DEF HitClap, FreshClap, ClapFields
  <2>2. /\ y.burst = z.burst /\ y.burstAmp = z.burstAmp /\ y.tail = z.tail
        /\ y.tailAmp = z.tailAmp /\ y.filters = z.filters
    BY <1>1 DEF HitClap, FreshClap, ClapFields
  <2> HIDE DEF y, z
  <2>3. QED
    BY <2>1, <2>2 DEF ClapFields, Drift
<1>4. QED
  <2> HIDE DEF y, z
  <2>1. Settled(y) = Settled(z)
    BY <1>2, <1>3 DEF Settled
  <2>2. QED
    BY <2>1 DEF y, z

(* A hit leaves the amplifiers where they are. *)
LEMMA ClapSeamless ==
  ASSUME NEW c, NEW x, ClapOK(x), NEW v
  PROVE  Heard("clap", HitClap(x, c, v)) = Heard("clap", x)
<1>1. DOMAIN x = ClapFields
  BY DEF ClapOK
<1>2. HitClap(x, c, v).burstAmp = x.burstAmp /\ HitClap(x, c, v).tailAmp = x.tailAmp
  BY <1>1 DEF HitClap, ClapFields
<1>3. QED
  BY <1>2 DEF Heard

-----------------------------------------------------------------------------
(* Cowbell                                                                   *)

LEMMA CowbellKept ==
  ASSUME NEW c
  PROVE  /\ CowbellOK(FreshCowbell(c))
         /\ \A x : CowbellOK(x) => CowbellOK(ResetCowbell(x))
         /\ \A x, v : CowbellOK(x) => CowbellOK(HitCowbell(x, c, v))
         /\ \A x : CowbellOK(x) => CowbellOK(SampleCowbell(x, c))
<1>1. CowbellOK(FreshCowbell(c))
  BY DEF FreshCowbell, CowbellFields, CowbellOK
<1>2. \A x : CowbellOK(x) => CowbellOK(ResetCowbell(x))
  BY DEF ResetCowbell, CowbellOK
<1>3. \A x, v : CowbellOK(x) => CowbellOK(HitCowbell(x, c, v))
  BY DEF HitCowbell, ResetCowbell, CowbellOK
<1>4. ASSUME NEW x, CowbellOK(x)
      PROVE  CowbellOK(SampleCowbell(x, c))
  <2> DEFINE y == [x EXCEPT !.env = Glide(@, x.fast + x.tail), !.fast = Fade(@, QUICK),
                       !.tail = Fade(@, x.coef), !.filter = Filtered(@, Full),
                       !.osc = Flip(@), !.level = Glide(@, c.level)]
  <2>1. CowbellOK(y)
    BY <1>4 DEF CowbellOK
  <2>2. SampleCowbell(x, c) = IF y.fast = 0 /\ y.tail = 0 /\ y.env = 0 THEN ResetCowbell(y) ELSE y
    BY DEF SampleCowbell
  <2> HIDE DEF y
  <2>3. QED
    BY <1>2, <2>1, <2>2
<1>5. QED
  BY <1>1, <1>2, <1>3, <1>4

LEMMA CowbellLeavesNothing ==
  ASSUME NEW c, NEW x, CowbellOK(x), ~ x.active, NEW v
  PROVE  Settled(HitCowbell(x, c, v)) = Settled(HitCowbell(FreshCowbell(c), c, v))
<1> DEFINE Rested(w) == [ResetCowbell(w) EXCEPT !.osc = 0, !.level = c.level]
           y == HitCowbell(x, c, v)
           z == HitCowbell(FreshCowbell(c), c, v)
<1>1. DOMAIN x = CowbellFields
  BY DEF CowbellOK
<1>2. PICK a : a = Rested(x)
  OBVIOUS
<1>3. PICK b : b = Rested(FreshCowbell(c))
  OBVIOUS
<1>4. /\ y = [a EXCEPT !.active = TRUE, !.fast = Most(@, v), !.tail = Most(@, v), !.coef = c.decay]
      /\ z = [b EXCEPT !.active = TRUE, !.fast = Most(@, v), !.tail = Most(@, v), !.coef = c.decay]
  <2>1. ~ FreshCowbell(c).active
    BY DEF FreshCowbell
  <2>2. QED
    BY <1>2, <1>3, <2>1 DEF HitCowbell
<1>5. /\ DOMAIN a = CowbellFields /\ a.fast = 0 /\ a.tail = 0 /\ a.env = 0
      /\ a.filter = 0 /\ a.osc = 0 /\ a.level = c.level
  BY <1>1, <1>2 DEF ResetCowbell, CowbellFields
<1>6. DOMAIN b = CowbellFields /\ DOMAIN FreshCowbell(c) = CowbellFields
  BY <1>3 DEF ResetCowbell, FreshCowbell, CowbellFields
<1>7. /\ b.fast = 0 /\ b.tail = 0 /\ b.env = 0
      /\ b.filter = 0 /\ b.osc = 0 /\ b.level = c.level
  BY <1>3, <1>6 DEF ResetCowbell, CowbellFields
<1>8. DOMAIN y = CowbellFields /\ DOMAIN z = CowbellFields
  <2> HIDE DEF y, z
  <2>1. QED
    BY <1>4, <1>5, <1>6
<1>9. \A f \in CowbellFields : y[f] = z[f]
  <2> HIDE DEF y, z
  <2>1. /\ y.active = z.active /\ y.osc = z.osc /\ y.fast = z.fast /\ y.tail = z.tail
        /\ y.env = z.env /\ y.filter = z.filter /\ y.coef = z.coef /\ y.level = z.level
    BY <1>4, <1>5, <1>6, <1>7 DEF CowbellFields
  <2>2. QED
    BY <2>1 DEF CowbellFields
<1>10. QED
  <2> HIDE DEF y, z
  <2>1. Settled(y) = Settled(z)
    BY <1>8, <1>9 DEF Settled
  <2>2. QED
    BY <2>1 DEF y, z

(* The slew goes on from where it is. *)
LEMMA CowbellSeamless ==
  ASSUME NEW c, NEW x, CowbellOK(x), x.active, NEW v
  PROVE  Heard("cowbell", HitCowbell(x, c, v)) = Heard("cowbell", x)
<1>1. DOMAIN x = CowbellFields
  BY DEF CowbellOK
<1>2. HitCowbell(x, c, v) =
        [x EXCEPT !.active = TRUE, !.fast = Most(@, v), !.tail = Most(@, v), !.coef = c.decay]
  BY DEF HitCowbell
<1>3. HitCowbell(x, c, v).env = x.env
  BY <1>1, <1>2 DEF CowbellFields
<1>4. QED
  BY <1>3 DEF Heard

-----------------------------------------------------------------------------
(* Hats                                                                      *)

LEMMA HatAmplitudes ==
  ASSUME NEW g \in 0 .. Full, NEW e \in 0 .. Full, NEW rate \in Nat
  PROVE  Glide(g, e) \in 0 .. Full /\ Fade(e, rate) \in 0 .. Full
BY VoicesAssumption DEF Glide, Fade

LEMMA HatReset ==
  ASSUME NEW c, NEW x, HatOK(x, c) \/ (DOMAIN x = HatFields /\ x.coef \in Nat)
  PROVE  HatOK(ResetHat(x, c), c) /\ HatOK([ResetHat(x, c) EXCEPT !.oscs = 0], c)
<1> DEFINE y == ResetHat(x, c)
<1>1. DOMAIN x = HatFields /\ x.coef \in Nat
  BY DEF HatOK
<1>2. /\ DOMAIN y = HatFields /\ ~ y.active /\ y.env = 0 /\ y.gain = 0
      /\ y.filters = 0 /\ y.level = c.level /\ y.coef = x.coef
  BY <1>1 DEF ResetHat, HatFields
<1> HIDE DEF y
<1>3. HatOK(y, c)
  BY <1>1, <1>2, VoicesAssumption DEF HatOK
<1>4. HatOK([y EXCEPT !.oscs = 0], c)
  <2> DEFINE z == [y EXCEPT !.oscs = 0]
  <2>1. /\ DOMAIN z = HatFields /\ ~ z.active /\ z.env = 0 /\ z.gain = 0
        /\ z.filters = 0 /\ z.level = c.level /\ z.coef = x.coef
    BY <1>2 DEF HatFields
  <2> HIDE DEF z
  <2>2. HatOK(z, c)
    BY <1>1, <2>1, VoicesAssumption DEF HatOK
  <2>3. QED
    BY <2>2 DEF z
<1>5. QED
  BY <1>3, <1>4 DEF y

\* What a sample makes of the envelope and the gain of a hat.
HatSample(x, z) ==
    \/ ~ z.active
    \/ /\ z.active /\ z.coef = x.coef
       /\ z.env = Fade(x.env, x.coef) /\ z.gain = Glide(x.gain, x.env)

LEMMA HatSampled ==
  ASSUME NEW c, NEW x, HatOK(x, c), x.active
  PROVE  HatOK(SampleHat(x, c), c) /\ HatSample(x, SampleHat(x, c))
<1> DEFINE y == [x EXCEPT !.gain = Glide(@, x.env), !.env = Fade(@, x.coef), !.oscs = Flip(@),
                          !.filters = Filtered(@, Full), !.level = Glide(@, c.level)]
<1>1. /\ DOMAIN x = HatFields
      /\ x.env \in 0 .. Full /\ x.gain \in 0 .. Full /\ x.coef \in Nat
  BY DEF HatOK
<1>2. /\ DOMAIN y = HatFields /\ y.active /\ y.coef = x.coef
      /\ y.env = Fade(x.env, x.coef) /\ y.gain = Glide(x.gain, x.env)
  BY <1>1 DEF HatFields
<1>3. SampleHat(x, c) = IF y.env = 0 /\ y.gain = 0 THEN ResetHat(y, c) ELSE y
  BY DEF SampleHat
<1> HIDE DEF y
<1>4. y.env \in 0 .. Full /\ y.gain \in 0 .. Full
  BY <1>1, <1>2, HatAmplitudes
<1>5. CASE y.env = 0 /\ y.gain = 0
  <2>1. SampleHat(x, c) = ResetHat(y, c)
    BY <1>3, <1>5
  <2>2. HatOK(ResetHat(y, c), c)
    BY <1>1, <1>2, HatReset
  <2>3. ~ ResetHat(y, c).active
    BY <1>2 DEF ResetHat, HatFields
  <2>4. QED
    BY <2>1, <2>2, <2>3 DEF HatSample
<1>6. CASE ~ (y.env = 0 /\ y.gain = 0)
  <2>1. SampleHat(x, c) = y
    BY <1>3, <1>6
  <2>2. y.env > 0 \/ y.gain > 0
    BY <1>4, <1>6
  <2>3. HatOK(y, c)
    BY <1>1, <1>2, <1>4, <2>2 DEF HatOK
  <2>4. QED
    BY <1>2, <2>1, <2>3 DEF HatSample
<1>7. QED
  BY <1>5, <1>6

LEMMA HatHit ==
  ASSUME NEW c, c.decay \in Nat, NEW x, HatOK(x, c), NEW v \in 1 .. Full
  PROVE  /\ HatOK(HitHat(x, c, v), c)
         /\ HitHat(x, c, v).coef = c.decay
         /\ HitHat(x, c, v).gain = x.gain
<1> DEFINE y == HitHat(x, c, v)
<1>1. DOMAIN x = HatFields /\ x.gain \in 0 .. Full
  BY DEF HatOK
<1>2. /\ DOMAIN y = HatFields /\ y.active /\ y.env = v /\ y.coef = c.decay
      /\ y.gain = x.gain
  BY <1>1 DEF HitHat, HatFields
<1> HIDE DEF y
<1>3. HatOK(y, c)
  BY <1>1, <1>2, VoicesAssumption DEF HatOK
<1>4. QED
  BY <1>2, <1>3 DEF y

LEMMA HatChoked ==
  ASSUME NEW c, NEW x, HatOK(x, c)
  PROVE  /\ HatOK(ChokeHat(x), c)
         /\ ChokeHat(x).active = x.active
         /\ ChokeHat(x).gain = x.gain
         /\ x.active => ChokeHat(x).coef = CHOKE
<1> DEFINE y == ChokeHat(x)
<1>1. DOMAIN x = HatFields
  BY DEF HatOK
<1>2. CASE ~ x.active
  BY <1>2 DEF ChokeHat
<1>3. CASE x.active
  <2>1. /\ DOMAIN y = HatFields /\ y.active = x.active /\ y.env = x.env /\ y.gain = x.gain
        /\ y.coef = CHOKE
    BY <1>1, <1>3 DEF ChokeHat, HatFields
  <2> HIDE DEF y
  <2>2. HatOK(y, c)
    BY <1>3, <2>1 DEF HatOK, CHOKE
  <2>3. QED
    BY <2>1, <2>2 DEF y
<1>4. QED
  BY <1>2, <1>3

LEMMA HatFresh ==
  ASSUME NEW c
  PROVE  HatOK(FreshHat(c), c)
<1> DEFINE y == FreshHat(c)
<1>1. /\ DOMAIN y = HatFields /\ ~ y.active /\ y.env = 0 /\ y.gain = 0
      /\ y.filters = 0 /\ y.level = c.level /\ y.coef = 0
  BY DEF FreshHat, HatFields
<1> HIDE DEF y
<1>2. HatOK(y, c)
  BY <1>1, VoicesAssumption DEF HatOK
<1>3. QED
  BY <1>2 DEF y

(* A silent hat takes a new level at once, one that sounds follows it. *)
LEMMA HatApplied ==
  ASSUME NEW c, NEW d, NEW x, HatOK(x, c)
  PROVE  HatOK(Applied("hat", x, d), d)
<1>1. DOMAIN x = HatFields
  BY DEF HatOK
<1>2. CASE x.active
  <2>1. Applied("hat", x, d) = x
    BY <1>2 DEF Applied
  <2>2. QED
    BY <1>2, <2>1 DEF HatOK
<1>3. CASE ~ x.active
  <2> DEFINE y == [x EXCEPT !.level = d.level]
  <2>1. Applied("hat", x, d) = y
    BY <1>3 DEF Applied
  <2>2. /\ DOMAIN y = HatFields /\ y.active = x.active /\ y.env = x.env /\ y.gain = x.gain
        /\ y.coef = x.coef /\ y.filters = x.filters /\ y.level = d.level
    BY <1>1 DEF HatFields
  <2> HIDE DEF y
  <2>3. HatOK(y, d)
    BY <1>3, <2>2 DEF HatOK
  <2>4. QED
    BY <2>1, <2>3
<1>4. QED
  BY <1>2, <1>3

LEMMA HatLeavesNothing ==
  ASSUME NEW c, NEW x, HatOK(x, c), ~ x.active, NEW v
  PROVE  Settled(HitHat(x, c, v)) = Settled(HitHat(FreshHat(c), c, v))
<1> DEFINE y == HitHat(x, c, v)
           z == HitHat(FreshHat(c), c, v)
<1>1. DOMAIN x = HatFields /\ x.gain = 0 /\ x.filters = 0 /\ x.level = c.level
  BY DEF HatOK
<1>2. DOMAIN y = HatFields /\ DOMAIN z = HatFields
  BY <1>1 DEF HitHat, FreshHat, HatFields
<1>3. \A f \in HatFields \ Drift : y[f] = z[f]
  <2>1. /\ y.active = z.active /\ y.env = z.env /\ y.gain = z.gain
        /\ y.filters = z.filters /\ y.coef = z.coef /\ y.level = z.level
    BY <1>1 DEF HitHat, FreshHat, HatFields
  <2> HIDE DEF y, z
  <2>2. QED
    BY <2>1 DEF HatFields, Drift
<1>4. QED
  <2> HIDE DEF y, z
  <2>1. Settled(y) = Settled(z)
    BY <1>2, <1>3 DEF Settled
  <2>2. QED
    BY <2>1 DEF y, z

-----------------------------------------------------------------------------
(* The choke                                                                 *)

\* n samples after the choke: the envelope has lost CHOKE in each, and the gain
\* behind it, once the envelope is gone, at least as much as the samples since.
FadesInTime(x, n) ==
    x.active => /\ x.coef = CHOKE
                /\ x.env > 0 => x.env + CHOKE * n <= Full
                /\ x.env = 0 => x.gain + n <= 2 * Full

LEMMA ChokeBegins ==
  ASSUME NEW c, NEW x, HatOK(x, c)
  PROVE  FadesInTime(ChokeHat(x), 0)
<1>1. HatOK(ChokeHat(x), c) /\ (ChokeHat(x).active => ChokeHat(x).coef = CHOKE)
  BY HatChoked
<1>2. PICK y : y = ChokeHat(x)
  OBVIOUS
<1>3. y.env \in 0 .. Full /\ y.gain \in 0 .. Full /\ CHOKE * 0 = 0 /\ Full \in Nat
  BY <1>1, <1>2, VoicesAssumption DEF HatOK, CHOKE
<1>4. FadesInTime(y, 0)
  BY <1>1, <1>2, <1>3 DEF FadesInTime
<1>5. QED
  BY <1>2, <1>4

LEMMA ChokeGoesOn ==
  ASSUME NEW c, NEW x, HatOK(x, c), x.active, NEW n \in Nat, FadesInTime(x, n),
         NEW z, HatSample(x, z), HatOK(z, c)
  PROVE  FadesInTime(z, n + 1)
<1>1. CASE ~ z.active
  BY <1>1 DEF FadesInTime
<1>2. CASE z.active
  <2>1. PICK e \in 0 .. Full, g \in 0 .. Full : e = x.env /\ g = x.gain
    BY DEF HatOK
  <2>2. z.coef = CHOKE /\ z.env = Fade(e, CHOKE) /\ z.gain = Glide(g, e)
    BY <1>2, <2>1 DEF HatSample, FadesInTime
  <2>3. e > 0 => e + 3 * n <= Full
    BY <2>1 DEF FadesInTime, CHOKE
  <2>4. e = 0 => g + n <= 2 * Full /\ g > 0
    BY <2>1 DEF FadesInTime, HatOK
  <2>5. Full \in Nat /\ Full >= 1
    BY VoicesAssumption
  <2>6. z.env > 0 => z.env + 3 * (n + 1) <= Full
    BY <2>2, <2>3, <2>5 DEF Fade, CHOKE
  <2>7. z.env = 0 => z.gain + (n + 1) <= 2 * Full
    BY <2>2, <2>3, <2>4, <2>5 DEF Fade, Glide, CHOKE
  <2>8. QED
    BY <2>2, <2>6, <2>7 DEF FadesInTime, CHOKE
<1>3. QED
  BY <1>1, <1>2

(* A hat that still sounds was choked no longer ago than it takes. *)
LEMMA ChokeEnds ==
  ASSUME NEW c, NEW x, HatOK(x, c), NEW n \in Nat, FadesInTime(x, n), n > ChokeSamples
  PROVE  ~ x.active
<1>1. SUFFICES ASSUME x.active PROVE FALSE
  OBVIOUS
<1>2. PICK e \in 0 .. Full, g \in 0 .. Full : e = x.env /\ g = x.gain
  BY DEF HatOK
<1>3. e > 0 => e + 3 * n <= Full
  BY <1>1, <1>2 DEF FadesInTime, CHOKE
<1>4. e = 0 => g + n <= 2 * Full
  BY <1>1, <1>2 DEF FadesInTime
<1>5. QED
  BY <1>3, <1>4, VoicesAssumption DEF ChokeSamples

-----------------------------------------------------------------------------
(* Whichever voice it is                                                     *)

LEMMA LevelApplied ==
  ASSUME NEW c, NEW x
  PROVE  /\ KickOK(x) => KickOK([x EXCEPT !.level = c.level])
         /\ TomOK(x) => TomOK([x EXCEPT !.level = c.level])
<1> DEFINE y == [x EXCEPT !.level = c.level]
<1>1. KickOK(x) => KickOK(y)
  BY DEF KickOK
<1>2. ASSUME TomOK(x)
      PROVE  TomOK(y)
  <2>1. DOMAIN y = TomFields /\ y.amp = x.amp /\ y.ramp = x.ramp /\ y.coef = x.coef
    BY <1>2 DEF TomOK, TomFields
  <2> HIDE DEF y
  <2>2. QED
    BY <1>2, <2>1 DEF TomOK
<1>3. QED
  BY <1>1, <1>2

LEMMA VoiceApplied ==
  ASSUME NEW kind \in Kinds, NEW c, NEW d, NEW x, VoiceOK(kind, x, c)
  PROVE  VoiceOK(kind, Applied(kind, x, d), d)
<1>1. CASE kind = "hat"
  BY <1>1, HatApplied DEF VoiceOK
<1>2. CASE kind \in {"kick", "tom"}
  <2>1. Applied(kind, x, d) = x \/ Applied(kind, x, d) = [x EXCEPT !.level = d.level]
    BY DEF Applied
  <2>2. QED
    BY <1>2, <2>1, LevelApplied DEF VoiceOK
<1>3. CASE kind \in {"snare", "rim", "clap", "cowbell"}
  <2>1. Applied(kind, x, d) = x
    BY <1>3 DEF Applied
  <2>2. QED
    BY <1>3, <2>1 DEF VoiceOK
<1>4. QED
  BY <1>1, <1>2, <1>3 DEF Kinds

LEMMA FreshIsOK ==
  ASSUME NEW kind \in Kinds, NEW c, c.decay \in Decays
  PROVE  VoiceOK(kind, Fresh(kind, c), c)
<1>0. c.decay \in Int
  BY DEF Decays
<1>1. CASE kind = "kick"
  <2>1. Fresh(kind, c) = FreshKick(c)
    BY <1>1 DEF Fresh
  <2>2. QED
    BY <1>1, <2>1, KickKept DEF VoiceOK
<1>2. CASE kind = "snare"
  <2>1. Fresh(kind, c) = FreshSnare(c)
    BY <1>2 DEF Fresh
  <2>2. QED
    BY <1>2, <2>1, SnareKept DEF VoiceOK
<1>3. CASE kind = "tom"
  <2>1. Fresh(kind, c) = FreshTom(c)
    BY <1>3 DEF Fresh
  <2>2. QED
    BY <1>3, <2>1, <1>0, TomKept DEF VoiceOK
<1>4. CASE kind = "rim"
  <2>1. Fresh(kind, c) = FreshRim(c)
    BY <1>4 DEF Fresh
  <2>2. QED
    BY <1>4, <2>1, RimKept DEF VoiceOK
<1>5. CASE kind = "clap"
  <2>1. Fresh(kind, c) = FreshClap(c)
    BY <1>5 DEF Fresh
  <2>2. QED
    BY <1>5, <2>1, ClapKept DEF VoiceOK
<1>6. CASE kind = "cowbell"
  <2>1. Fresh(kind, c) = FreshCowbell(c)
    BY <1>6 DEF Fresh
  <2>2. QED
    BY <1>6, <2>1, CowbellKept DEF VoiceOK
<1>7. CASE kind = "hat"
  <2>1. Fresh(kind, c) = FreshHat(c)
    BY <1>7 DEF Fresh
  <2>2. QED
    BY <1>7, <2>1, HatFresh DEF VoiceOK
<1>8. QED
  BY <1>1, <1>2, <1>3, <1>4, <1>5, <1>6, <1>7 DEF Kinds

LEMMA HitIsOK ==
  ASSUME NEW kind \in Kinds, NEW c, c.decay \in Decays, NEW x, VoiceOK(kind, x, c),
         NEW v \in 1 .. Full, NEW y \in Hits(kind, x, c, v)
  PROVE  VoiceOK(kind, y, c)
<1>0. c.decay \in Nat /\ c.decay \in Int /\ v \in Int /\ v # 0
  BY DEF Decays
<1>1. CASE kind = "kick"
  <2>1. y = HitKick(x, c, v)
    BY <1>0, <1>1 DEF Hits
  <2>2. QED
    BY <1>0, <1>1, <2>1, KickKept DEF VoiceOK
<1>2. CASE kind = "snare"
  <2>1. y = HitSnare(x, c, v)
    BY <1>0, <1>2 DEF Hits
  <2>2. QED
    BY <1>0, <1>2, <2>1, SnareKept DEF VoiceOK
<1>3. CASE kind = "tom"
  <2>1. y = HitTom(x, c, v)
    BY <1>0, <1>3 DEF Hits
  <2>2. QED
    BY <1>0, <1>3, <2>1, TomKept DEF VoiceOK
<1>4. CASE kind = "rim"
  <2>1. y \in HitRim(x, c, v)
    BY <1>0, <1>4 DEF Hits
  <2>2. QED
    BY <1>4, <2>1, RimKept DEF VoiceOK
<1>5. CASE kind = "clap"
  <2>1. y = HitClap(x, c, v)
    BY <1>0, <1>5 DEF Hits
  <2>2. QED
    BY <1>0, <1>5, <2>1, ClapKept DEF VoiceOK
<1>6. CASE kind = "cowbell"
  <2>1. y = HitCowbell(x, c, v)
    BY <1>0, <1>6 DEF Hits
  <2>2. QED
    BY <1>0, <1>6, <2>1, CowbellKept DEF VoiceOK
<1>7. CASE kind = "hat"
  <2>1. y = HitHat(x, c, v)
    BY <1>0, <1>7 DEF Hits
  <2>2. QED
    BY <1>0, <1>7, <2>1, HatHit DEF VoiceOK
<1>8. QED
  BY <1>1, <1>2, <1>3, <1>4, <1>5, <1>6, <1>7 DEF Kinds

LEMMA SampleIsOK ==
  ASSUME NEW kind \in Kinds, NEW c, c.decay \in Decays, NEW x, VoiceOK(kind, x, c)
  PROVE  VoiceOK(kind, Sample(kind, x, c), c)
<1>0. SUFFICES ASSUME x.active PROVE VoiceOK(kind, Sample(kind, x, c), c)
  BY DEF Sample
<1>00. c.decay \in Int
  BY DEF Decays
<1>1. CASE kind = "kick"
  <2>1. Sample(kind, x, c) = SampleKick(x, c)
    BY <1>0, <1>1 DEF Sample
  <2>2. QED
    BY <1>0, <1>00, <1>1, <2>1, KickKept DEF VoiceOK
<1>2. CASE kind = "snare"
  <2>1. Sample(kind, x, c) = SampleSnare(x, c)
    BY <1>0, <1>2 DEF Sample
  <2>2. QED
    BY <1>0, <1>00, <1>2, <2>1, SnareKept DEF VoiceOK
<1>3. CASE kind = "tom"
  <2>1. Sample(kind, x, c) = SampleTom(x, c)
    BY <1>0, <1>3 DEF Sample
  <2>2. QED
    BY <1>0, <1>00, <1>3, <2>1, TomKept DEF VoiceOK
<1>4. CASE kind = "rim"
  <2>1. Sample(kind, x, c) = SampleRim(x, c)
    BY <1>0, <1>4 DEF Sample
  <2>2. QED
    BY <1>0, <1>00, <1>4, <2>1, RimKept DEF VoiceOK
<1>5. CASE kind = "clap"
  <2>1. Sample(kind, x, c) = SampleClap(x, c)
    BY <1>0, <1>5 DEF Sample
  <2>2. QED
    BY <1>0, <1>00, <1>5, <2>1, ClapKept DEF VoiceOK
<1>6. CASE kind = "cowbell"
  <2>1. Sample(kind, x, c) = SampleCowbell(x, c)
    BY <1>0, <1>6 DEF Sample
  <2>2. QED
    BY <1>0, <1>00, <1>6, <2>1, CowbellKept DEF VoiceOK
<1>7. CASE kind = "hat"
  <2>1. Sample(kind, x, c) = SampleHat(x, c)
    BY <1>0, <1>7 DEF Sample
  <2>2. QED
    BY <1>0, <1>00, <1>7, <2>1, HatSampled DEF VoiceOK
<1>8. QED
  BY <1>1, <1>2, <1>3, <1>4, <1>5, <1>6, <1>7 DEF Kinds

LEMMA ReratedIsOK ==
  ASSUME NEW kind \in Kinds, NEW c, c.decay \in Decays, NEW x, VoiceOK(kind, x, c)
  PROVE  VoiceOK(kind, Rerated(kind, x, c), c)
<1>0. c.decay \in Int
  BY DEF Decays
<1>1. CASE kind = "kick"
  <2>1. Rerated(kind, x, c) = [ResetKick(x) EXCEPT !.level = c.level]
    BY <1>1 DEF Rerated, RerateKick
  <2>2. QED
    BY <1>0, <1>1, <2>1, KickKept, LevelApplied DEF VoiceOK
<1>2. CASE kind = "snare"
  <2>1. Rerated(kind, x, c) = [IdleSnare(x) EXCEPT !.noise = 0]
    BY <1>2 DEF Rerated, RerateSnare
  <2>2. QED
    BY <1>0, <1>2, <2>1, SnareKept DEF VoiceOK
<1>3. CASE kind = "tom"
  <2>1. Rerated(kind, x, c) = [ResetTom(x, c) EXCEPT !.noise = 0]
    BY <1>3 DEF Rerated, RerateTom
  <2>2. QED
    BY <1>0, <1>3, <2>1, TomKept DEF VoiceOK
<1>4. CASE kind = "rim"
  <2>1. Rerated(kind, x, c) = ResetRim(x)
    BY <1>4 DEF Rerated, RerateRim
  <2>2. QED
    BY <1>0, <1>4, <2>1, RimKept DEF VoiceOK
<1>5. CASE kind = "clap"
  <2>1. Rerated(kind, x, c) = [IdleClap(x) EXCEPT !.noise = 0]
    BY <1>5 DEF Rerated, RerateClap
  <2>2. QED
    BY <1>0, <1>5, <2>1, ClapKept DEF VoiceOK
<1>6. CASE kind = "cowbell"
  <2>1. Rerated(kind, x, c) = ResetCowbell(x)
    BY <1>6 DEF Rerated, RerateCowbell
  <2>2. QED
    BY <1>0, <1>6, <2>1, CowbellKept DEF VoiceOK
<1>7. CASE kind = "hat"
  <2>1. Rerated(kind, x, c) = [ResetHat(x, c) EXCEPT !.oscs = 0]
    BY <1>7 DEF Rerated, RerateHat
  <2>2. QED
    BY <1>0, <1>7, <2>1, HatReset DEF VoiceOK
<1>8. QED
  BY <1>1, <1>2, <1>3, <1>4, <1>5, <1>6, <1>7 DEF Kinds

(* A silent voice sounds like a new one. *)
LEMMA LeavesNothing ==
  ASSUME NEW kind \in Kinds, NEW c, NEW x, VoiceOK(kind, x, c), ~ x.active, NEW v, v # 0
  PROVE  {Settled(y) : y \in Hits(kind, x, c, v)} =
         {Settled(y) : y \in Hits(kind, Fresh(kind, c), c, v)}
<1>1. CASE kind = "kick"
  <2>1. /\ Hits(kind, x, c, v) = {HitKick(x, c, v)}
        /\ Hits(kind, Fresh(kind, c), c, v) = {HitKick(FreshKick(c), c, v)}
    BY <1>1 DEF Hits, Fresh
  <2>2. Settled(HitKick(x, c, v)) = Settled(HitKick(FreshKick(c), c, v))
    BY <1>1, KickLeavesNothing DEF VoiceOK
  <2>3. QED
    BY <2>1, <2>2
<1>2. CASE kind = "snare"
  <2>1. /\ Hits(kind, x, c, v) = {HitSnare(x, c, v)}
        /\ Hits(kind, Fresh(kind, c), c, v) = {HitSnare(FreshSnare(c), c, v)}
    BY <1>2 DEF Hits, Fresh
  <2>2. Settled(HitSnare(x, c, v)) = Settled(HitSnare(FreshSnare(c), c, v))
    BY <1>2, SnareLeavesNothing DEF VoiceOK
  <2>3. QED
    BY <2>1, <2>2
<1>3. CASE kind = "tom"
  <2>1. /\ Hits(kind, x, c, v) = {HitTom(x, c, v)}
        /\ Hits(kind, Fresh(kind, c), c, v) = {HitTom(FreshTom(c), c, v)}
    BY <1>3 DEF Hits, Fresh
  <2>2. Settled(HitTom(x, c, v)) = Settled(HitTom(FreshTom(c), c, v))
    BY <1>3, TomLeavesNothing DEF VoiceOK
  <2>3. QED
    BY <2>1, <2>2
<1>4. CASE kind = "rim"
  <2>1. /\ Hits(kind, x, c, v) = HitRim(x, c, v)
        /\ Hits(kind, Fresh(kind, c), c, v) = HitRim(FreshRim(c), c, v)
    BY <1>4 DEF Hits, Fresh
  <2>2. QED
    BY <1>4, <2>1, RimsLeaveNothing DEF VoiceOK
<1>5. CASE kind = "clap"
  <2>1. /\ Hits(kind, x, c, v) = {HitClap(x, c, v)}
        /\ Hits(kind, Fresh(kind, c), c, v) = {HitClap(FreshClap(c), c, v)}
    BY <1>5 DEF Hits, Fresh
  <2>2. Settled(HitClap(x, c, v)) = Settled(HitClap(FreshClap(c), c, v))
    BY <1>5, ClapLeavesNothing DEF VoiceOK
  <2>3. QED
    BY <2>1, <2>2
<1>6. CASE kind = "cowbell"
  <2>1. /\ Hits(kind, x, c, v) = {HitCowbell(x, c, v)}
        /\ Hits(kind, Fresh(kind, c), c, v) = {HitCowbell(FreshCowbell(c), c, v)}
    BY <1>6 DEF Hits, Fresh
  <2>2. Settled(HitCowbell(x, c, v)) = Settled(HitCowbell(FreshCowbell(c), c, v))
    BY <1>6, CowbellLeavesNothing DEF VoiceOK
  <2>3. QED
    BY <2>1, <2>2
<1>7. CASE kind = "hat"
  <2>1. /\ Hits(kind, x, c, v) = {HitHat(x, c, v)}
        /\ Hits(kind, Fresh(kind, c), c, v) = {HitHat(FreshHat(c), c, v)}
    BY <1>7 DEF Hits, Fresh
  <2>2. Settled(HitHat(x, c, v)) = Settled(HitHat(FreshHat(c), c, v))
    BY <1>7, HatLeavesNothing DEF VoiceOK
  <2>3. QED
    BY <2>1, <2>2
<1>8. QED
  BY <1>1, <1>2, <1>3, <1>4, <1>5, <1>6, <1>7 DEF Kinds

(* A hit on a voice that sounds, except the kick, starts where its wave is. *)
LEMMA HitIsSeamless ==
  ASSUME NEW kind \in Kinds, kind # "kick", NEW c, c.decay \in Decays,
         NEW x, VoiceOK(kind, x, c), x.active, NEW v \in 1 .. Full,
         NEW y \in Hits(kind, x, c, v)
  PROVE  Heard(kind, y) = Heard(kind, x)
<1>0. c.decay \in Nat /\ v \in Int /\ v # 0
  BY DEF Decays
<1>1. CASE kind = "kick"
  BY <1>1
<1>2. CASE kind = "snare"
  <2>1. y = HitSnare(x, c, v)
    BY <1>0, <1>2 DEF Hits
  <2>2. QED
    BY <1>0, <1>2, <2>1, SnareSeamless DEF VoiceOK
<1>3. CASE kind = "tom"
  <2>1. y = HitTom(x, c, v)
    BY <1>0, <1>3 DEF Hits
  <2>2. QED
    BY <1>0, <1>3, <2>1, TomSeamless DEF VoiceOK
<1>4. CASE kind = "rim"
  <2>1. y \in HitRim(x, c, v)
    BY <1>0, <1>4 DEF Hits
  <2>2. QED
    BY <1>4, <2>1, RimSeamless DEF VoiceOK
<1>5. CASE kind = "clap"
  <2>1. y = HitClap(x, c, v)
    BY <1>0, <1>5 DEF Hits
  <2>2. QED
    BY <1>0, <1>5, <2>1, ClapSeamless DEF VoiceOK
<1>6. CASE kind = "cowbell"
  <2>1. y = HitCowbell(x, c, v)
    BY <1>0, <1>6 DEF Hits
  <2>2. QED
    BY <1>0, <1>6, <2>1, CowbellSeamless DEF VoiceOK
<1>7. CASE kind = "hat"
  <2>1. y = HitHat(x, c, v)
    BY <1>0, <1>7 DEF Hits
  <2>2. y.gain = x.gain
    BY <1>0, <1>7, <2>1, HatHit DEF VoiceOK
  <2>3. QED
    BY <1>7, <2>2 DEF Heard
<1>8. QED
  BY <1>1, <1>2, <1>3, <1>4, <1>5, <1>6, <1>7 DEF Kinds

-----------------------------------------------------------------------------
(* The kit                                                                   *)

LEMMA KindOf ==
  ASSUME NEW slot \in Slots
  PROVE  /\ Kind(slot) \in Kinds
         /\ Kind(slot) = "kick" => slot = KICK
         /\ slot \in {CLOSED_HAT, OPEN_HAT} => Kind(slot) = "hat"
<1>1. slot \in {0, 1, 2, 3, 4, 5, 6, 7, 8, 9}
  BY DEF Slots
<1>2. CASE slot = 0
  <2>1. /\ slot = KICK /\ slot # SNARE /\ slot \notin {LOW_TOM, MID_TOM, HIGH_TOM} /\ slot # RIM
        /\ slot # CLAP /\ slot \notin {CLOSED_HAT, OPEN_HAT} /\ slot # COWBELL
    BY <1>2 DEF KICK, SNARE, LOW_TOM, MID_TOM, HIGH_TOM, RIM, CLAP,
                CLOSED_HAT, OPEN_HAT, COWBELL
  <2>2. Kind(slot) = "kick"
    BY <2>1 DEF Kind
  <2>3. QED
    BY <2>1, <2>2 DEF Kinds
<1>3. CASE slot = 1
  <2>1. /\ slot # KICK /\ slot = SNARE /\ slot \notin {LOW_TOM, MID_TOM, HIGH_TOM} /\ slot # RIM
        /\ slot # CLAP /\ slot \notin {CLOSED_HAT, OPEN_HAT} /\ slot # COWBELL
    BY <1>3 DEF KICK, SNARE, LOW_TOM, MID_TOM, HIGH_TOM, RIM, CLAP,
                CLOSED_HAT, OPEN_HAT, COWBELL
  <2>2. Kind(slot) = "snare"
    BY <2>1 DEF Kind
  <2>3. QED
    BY <2>1, <2>2 DEF Kinds
<1>4. CASE slot \in {2, 3, 4}
  <2>1. /\ slot # KICK /\ slot # SNARE /\ slot \in {LOW_TOM, MID_TOM, HIGH_TOM} /\ slot # RIM
        /\ slot # CLAP /\ slot \notin {CLOSED_HAT, OPEN_HAT} /\ slot # COWBELL
    BY <1>4 DEF KICK, SNARE, LOW_TOM, MID_TOM, HIGH_TOM, RIM, CLAP,
                CLOSED_HAT, OPEN_HAT, COWBELL
  <2>2. Kind(slot) = "tom"
    BY <2>1 DEF Kind
  <2>3. QED
    BY <2>1, <2>2 DEF Kinds
<1>5. CASE slot = 5
  <2>1. /\ slot # KICK /\ slot # SNARE /\ slot \notin {LOW_TOM, MID_TOM, HIGH_TOM} /\ slot = RIM
        /\ slot # CLAP /\ slot \notin {CLOSED_HAT, OPEN_HAT} /\ slot # COWBELL
    BY <1>5 DEF KICK, SNARE, LOW_TOM, MID_TOM, HIGH_TOM, RIM, CLAP,
                CLOSED_HAT, OPEN_HAT, COWBELL
  <2>2. Kind(slot) = "rim"
    BY <2>1 DEF Kind
  <2>3. QED
    BY <2>1, <2>2 DEF Kinds
<1>6. CASE slot = 6
  <2>1. /\ slot # KICK /\ slot # SNARE /\ slot \notin {LOW_TOM, MID_TOM, HIGH_TOM} /\ slot # RIM
        /\ slot = CLAP /\ slot \notin {CLOSED_HAT, OPEN_HAT} /\ slot # COWBELL
    BY <1>6 DEF KICK, SNARE, LOW_TOM, MID_TOM, HIGH_TOM, RIM, CLAP,
                CLOSED_HAT, OPEN_HAT, COWBELL
  <2>2. Kind(slot) = "clap"
    BY <2>1 DEF Kind
  <2>3. QED
    BY <2>1, <2>2 DEF Kinds
<1>7. CASE slot \in {7, 8}
  <2>1. /\ slot # KICK /\ slot # SNARE /\ slot \notin {LOW_TOM, MID_TOM, HIGH_TOM} /\ slot # RIM
        /\ slot # CLAP /\ slot \in {CLOSED_HAT, OPEN_HAT} /\ slot # COWBELL
    BY <1>7 DEF KICK, SNARE, LOW_TOM, MID_TOM, HIGH_TOM, RIM, CLAP,
                CLOSED_HAT, OPEN_HAT, COWBELL
  <2>2. Kind(slot) = "hat"
    BY <2>1 DEF Kind
  <2>3. QED
    BY <2>1, <2>2 DEF Kinds
<1>8. CASE slot = 9
  <2>1. /\ slot # KICK /\ slot # SNARE /\ slot \notin {LOW_TOM, MID_TOM, HIGH_TOM} /\ slot # RIM
        /\ slot # CLAP /\ slot \notin {CLOSED_HAT, OPEN_HAT} /\ slot = COWBELL
    BY <1>8 DEF KICK, SNARE, LOW_TOM, MID_TOM, HIGH_TOM, RIM, CLAP,
                CLOSED_HAT, OPEN_HAT, COWBELL
  <2>2. Kind(slot) = "cowbell"
    BY <2>1 DEF Kind
  <2>3. QED
    BY <2>1, <2>2 DEF Kinds
<1>9. QED
  BY <1>1, <1>2, <1>3, <1>4, <1>5, <1>6, <1>7, <1>8

VoicesOK ==
    /\ DOMAIN voices = Slots /\ DOMAIN params = Slots
    /\ \A slot \in Slots : /\ params[slot].decay \in Decays
                           /\ VoiceOK(Kind(slot), voices[slot], params[slot])

\* Since a closed hat was hit and the open one was not, the open one fades away
\* in time; without, it is not choked.
ChokeInv ==
    /\ unchoked \in Nat \cup {Never}
    /\ unchoked # Never => FadesInTime(voices[OPEN_HAT], unchoked)
    /\ voices[OPEN_HAT].active /\ voices[OPEN_HAT].coef = CHOKE => unchoked # Never

KitInv == VoicesOK /\ ChokeInv

LEMMA OpenHatIsHat ==
  ASSUME VoicesOK
  PROVE  OPEN_HAT \in Slots /\ HatOK(voices[OPEN_HAT], params[OPEN_HAT])
<1>1. OPEN_HAT \in Slots
  BY DEF OPEN_HAT, Slots
<1>2. Kind(OPEN_HAT) = "hat"
  BY <1>1, KindOf
<1>3. QED
  BY <1>1, <1>2 DEF VoicesOK, VoiceOK

LEMMA InitKit ==
  ASSUME KitInit
  PROVE  KitInv
<1>1. PICK l : params = [slot \in Slots |-> [decay |-> 1, level |-> l]]
  BY DEF KitInit
<1>2. DOMAIN params = Slots /\ \A slot \in Slots : params[slot].decay \in Decays
  BY <1>1 DEF Decays
<1>3. voices = [slot \in Slots |->
                  Applied(Kind(slot), Fresh(Kind(slot), params[slot]), params[slot])]
  BY DEF KitInit
<1>4. DOMAIN voices = Slots
  BY <1>3
<1>5. ASSUME NEW slot \in Slots
      PROVE  VoiceOK(Kind(slot), voices[slot], params[slot])
  <2>1. Kind(slot) \in Kinds /\ params[slot].decay \in Decays
    BY <1>2, KindOf
  <2>2. VoiceOK(Kind(slot), Fresh(Kind(slot), params[slot]), params[slot])
    BY <2>1, FreshIsOK
  <2>3. voices[slot] = Applied(Kind(slot), Fresh(Kind(slot), params[slot]), params[slot])
    BY <1>3
  <2>4. QED
    BY <2>1, <2>2, <2>3, VoiceApplied
<1>6. VoicesOK
  BY <1>2, <1>4, <1>5 DEF VoicesOK
<1>7. ~ voices[OPEN_HAT].active
  <2>1. OPEN_HAT \in Slots /\ Kind(OPEN_HAT) = "hat"
    BY <1>6, OpenHatIsHat, KindOf
  <2>2. PICK c : c = params[OPEN_HAT]
    OBVIOUS
  <2>3. voices[OPEN_HAT] = Applied("hat", FreshHat(c), c)
    BY <1>3, <2>1, <2>2 DEF Fresh
  <2>4. /\ DOMAIN FreshHat(c) = HatFields /\ ~ FreshHat(c).active
    BY DEF FreshHat, HatFields
  <2>5. ~ Applied("hat", FreshHat(c), c).active
    BY <2>4 DEF Applied, HatFields
  <2>6. QED
    BY <2>3, <2>5
<1>8. unchoked = Never
  BY DEF KitInit
<1>9. QED
  BY <1>6, <1>7, <1>8 DEF KitInv, ChokeInv

(* Every call leaves a voice it may leave. *)
LEMMA ChokedIsOK ==
  ASSUME VoicesOK, NEW slot \in Slots, NEW v, NEW choked, choked = Choked(slot, v)
  PROVE  /\ DOMAIN choked = Slots
         /\ \A s \in Slots : VoiceOK(Kind(s), choked[s], params[s])
         /\ \A s \in Slots : choked[s] = voices[s] \/ (s = OPEN_HAT /\ choked[s] = ChokeHat(voices[s]))
<1>1. DOMAIN voices = Slots /\ OPEN_HAT \in Slots /\ HatOK(voices[OPEN_HAT], params[OPEN_HAT])
  BY OpenHatIsHat DEF VoicesOK
<1>2. choked = voices \/ choked = [voices EXCEPT ![OPEN_HAT] = ChokeHat(@)]
  BY DEF Choked
<1>3. DOMAIN choked = Slots
  BY <1>1, <1>2
<1>4. \A s \in Slots : choked[s] = voices[s] \/ (s = OPEN_HAT /\ choked[s] = ChokeHat(voices[s]))
  BY <1>1, <1>2
<1>5. VoiceOK(Kind(OPEN_HAT), ChokeHat(voices[OPEN_HAT]), params[OPEN_HAT])
  <2>1. Kind(OPEN_HAT) = "hat"
    BY <1>1, KindOf
  <2>2. HatOK(ChokeHat(voices[OPEN_HAT]), params[OPEN_HAT])
    BY <1>1, HatChoked
  <2>3. QED
    BY <2>1, <2>2 DEF VoiceOK
<1>6. \A s \in Slots : VoiceOK(Kind(s), choked[s], params[s])
  BY <1>4, <1>5 DEF VoicesOK
<1>7. QED
  BY <1>3, <1>4, <1>6

LEMMA TriggerKeeps ==
  ASSUME KitInv, NEW slot \in Slots, NEW v \in Velocities, Trigger(slot, v)
  PROVE  KitInv'
<1>0. VoicesOK /\ ChokeInv /\ v \in 0 .. Full
  BY KitAssumption DEF KitInv
<1>1. PICK choked : choked = Choked(slot, v)
  OBVIOUS
<1>2. PICK x \in Hits(Kind(slot), choked[slot], params[slot], v) :
        voices' = [choked EXCEPT ![slot] = x]
  BY <1>1 DEF Trigger
<1>3. /\ DOMAIN choked = Slots
      /\ \A s \in Slots : VoiceOK(Kind(s), choked[s], params[s])
      /\ \A s \in Slots : choked[s] = voices[s] \/ (s = OPEN_HAT /\ choked[s] = ChokeHat(voices[s]))
  BY <1>0, <1>1, ChokedIsOK
<1>4. params' = params
  BY DEF Trigger
<1>5. Kind(slot) \in Kinds /\ params[slot].decay \in Decays
  BY <1>0, KindOf DEF VoicesOK
<1>6. CASE v = 0
  <2>1. choked = voices
    BY <1>1, <1>6 DEF Choked
  <2>2. x = choked[slot]
    BY <1>2, <1>6 DEF Hits
  <2>3. DOMAIN voices' = Slots /\ \A s \in Slots : voices'[s] = voices[s]
    BY <1>2, <1>3, <2>1, <2>2
  <2>4. unchoked' = unchoked
    BY <1>6 DEF Trigger
  <2>5. OPEN_HAT \in Slots
    BY <1>0, OpenHatIsHat
  <2>6. voices'[OPEN_HAT] = voices[OPEN_HAT]
    BY <2>3, <2>5
  <2>7. VoicesOK'
    BY <1>0, <1>4, <2>3 DEF VoicesOK
  <2>8. ChokeInv'
    BY <1>0, <2>4, <2>6 DEF ChokeInv, FadesInTime
  <2>9. QED
    BY <2>7, <2>8 DEF KitInv
<1>7. CASE v # 0
  <2>1. v \in 1 .. Full /\ v > 0
    BY <1>0, <1>7
  <2>2. VoiceOK(Kind(slot), x, params[slot])
    BY <1>2, <1>3, <1>5, <2>1, HitIsOK
  <2>3. /\ DOMAIN voices' = Slots /\ voices'[slot] = x
        /\ \A s \in Slots : s # slot => voices'[s] = choked[s]
    BY <1>2, <1>3
  <2>4. \A s \in Slots : VoiceOK(Kind(s), voices'[s], params[s])
    BY <1>3, <2>2, <2>3
  <2>5. VoicesOK'
    BY <1>0, <1>4, <2>3, <2>4 DEF VoicesOK
  <2>6. OPEN_HAT \in Slots /\ HatOK(voices[OPEN_HAT], params[OPEN_HAT])
    BY <1>0, OpenHatIsHat
  <2>7. CASE slot = CLOSED_HAT
    <3>1. unchoked' = 0
      BY <1>7, <2>7 DEF Trigger
    <3>2. OPEN_HAT # slot
      BY <2>7 DEF OPEN_HAT, CLOSED_HAT
    <3>3. choked = [voices EXCEPT ![OPEN_HAT] = ChokeHat(@)]
      BY <1>1, <2>1, <2>7 DEF Choked
    <3>4. voices'[OPEN_HAT] = ChokeHat(voices[OPEN_HAT])
      BY <1>0, <2>3, <2>6, <3>2, <3>3 DEF VoicesOK
    <3>5. FadesInTime(voices'[OPEN_HAT], 0)
      BY <2>6, <3>4, ChokeBegins
    <3>6. ChokeInv'
      BY <3>1, <3>5 DEF ChokeInv, Never, FadesInTime
    <3>7. QED
      BY <2>5, <3>6 DEF KitInv
  <2>8. CASE slot = OPEN_HAT
    <3>1. unchoked' = Never
      BY <1>7, <2>8 DEF Trigger, OPEN_HAT, CLOSED_HAT
    <3>2. Kind(slot) = "hat"
      BY <2>8, KindOf
    <3>3. x = HitHat(choked[slot], params[slot], v)
      BY <1>2, <1>7, <3>2 DEF Hits
    <3>4. HatOK(choked[slot], params[slot])
      BY <1>3, <3>2 DEF VoiceOK
    <3>5. x.coef = params[slot].decay
      BY <1>5, <2>1, <3>3, <3>4, HatHit DEF Decays
    <3>6. voices'[OPEN_HAT].coef # CHOKE
      BY <1>5, <2>3, <2>8, <3>5 DEF Decays, CHOKE
    <3>7. ChokeInv'
      BY <3>1, <3>6 DEF ChokeInv
    <3>8. QED
      BY <2>5, <3>7 DEF KitInv
  <2>9. CASE slot \notin {CLOSED_HAT, OPEN_HAT}
    <3>1. unchoked' = unchoked
      BY <1>7, <2>9 DEF Trigger
    <3>2. choked = voices
      BY <1>1, <2>9 DEF Choked
    <3>3. voices'[OPEN_HAT] = voices[OPEN_HAT]
      BY <2>3, <2>6, <2>9, <3>2
    <3>4. ChokeInv'
      BY <1>0, <3>1, <3>3 DEF ChokeInv, FadesInTime
    <3>5. QED
      BY <2>5, <3>4 DEF KitInv
  <2>10. QED
    BY <2>7, <2>8, <2>9
<1>8. QED
  BY <1>6, <1>7

LEMMA SetParamKeeps ==
  ASSUME KitInv, NEW slot \in Slots, NEW c \in Controls, SetParam(slot, c)
  PROVE  KitInv'
<1>0. VoicesOK /\ ChokeInv /\ c.decay \in Decays
  BY DEF KitInv, Controls
<1>1. /\ params' = [params EXCEPT ![slot] = c]
      /\ voices' = [voices EXCEPT ![slot] = Applied(Kind(slot), @, c)]
      /\ unchoked' = unchoked
  BY DEF SetParam
<1>2. DOMAIN voices = Slots /\ DOMAIN params = Slots
  BY <1>0 DEF VoicesOK
<1>3. /\ DOMAIN voices' = Slots /\ DOMAIN params' = Slots
      /\ params'[slot] = c /\ voices'[slot] = Applied(Kind(slot), voices[slot], c)
      /\ \A s \in Slots : s # slot => params'[s] = params[s] /\ voices'[s] = voices[s]
  BY <1>1, <1>2
<1>4. VoiceOK(Kind(slot), voices'[slot], c)
  <2>1. Kind(slot) \in Kinds /\ VoiceOK(Kind(slot), voices[slot], params[slot])
    BY <1>0, KindOf DEF VoicesOK
  <2>2. QED
    BY <1>3, <2>1, VoiceApplied
<1>5. VoicesOK'
  <2>1. \A s \in Slots : /\ params'[s].decay \in Decays
                         /\ VoiceOK(Kind(s), voices'[s], params'[s])
    BY <1>0, <1>3, <1>4 DEF VoicesOK
  <2>2. QED
    BY <1>3, <2>1 DEF VoicesOK
<1>6. OPEN_HAT \in Slots /\ HatOK(voices[OPEN_HAT], params[OPEN_HAT])
  BY <1>0, OpenHatIsHat
<1>7. \/ voices'[OPEN_HAT] = voices[OPEN_HAT]
      \/ ~ voices[OPEN_HAT].active /\ voices'[OPEN_HAT] = [voices[OPEN_HAT] EXCEPT !.level = c.level]
  <2>1. \/ voices'[OPEN_HAT] = voices[OPEN_HAT]
        \/ voices'[OPEN_HAT] = Applied(Kind(OPEN_HAT), voices[OPEN_HAT], c)
    BY <1>3, <1>6
  <2>2. QED
    BY <2>1 DEF Applied
<1>8. ChokeInv'
  <2>1. CASE voices'[OPEN_HAT] = voices[OPEN_HAT]
    BY <1>0, <1>1, <2>1 DEF ChokeInv, FadesInTime
  <2>2. CASE /\ ~ voices[OPEN_HAT].active
             /\ voices'[OPEN_HAT] = [voices[OPEN_HAT] EXCEPT !.level = c.level]
    <3>1. ~ voices'[OPEN_HAT].active
      BY <1>6, <2>2 DEF HatOK, HatFields
    <3>2. QED
      BY <1>0, <1>1, <3>1 DEF ChokeInv, FadesInTime
  <2>3. QED
    BY <1>7, <2>1, <2>2
<1>9. QED
  BY <1>5, <1>8 DEF KitInv

LEMMA SetSampleRateKeeps ==
  ASSUME KitInv, SetSampleRate
  PROVE  KitInv'
<1>0. VoicesOK /\ ChokeInv
  BY DEF KitInv
<1>1. /\ voices' = [slot \in Slots |-> Rerated(Kind(slot), voices[slot], params[slot])]
      /\ params' = params /\ unchoked' = unchoked
  BY DEF SetSampleRate
<1>2. ASSUME NEW slot \in Slots
      PROVE  VoiceOK(Kind(slot), voices'[slot], params[slot])
  <2>1. /\ Kind(slot) \in Kinds /\ params[slot].decay \in Decays
        /\ VoiceOK(Kind(slot), voices[slot], params[slot])
    BY <1>0, KindOf DEF VoicesOK
  <2>2. voices'[slot] = Rerated(Kind(slot), voices[slot], params[slot])
    BY <1>1
  <2>3. QED
    BY <2>1, <2>2, ReratedIsOK
<1>3. VoicesOK'
  <2>1. DOMAIN voices' = Slots
    BY <1>1
  <2>2. QED
    BY <1>0, <1>1, <1>2, <2>1 DEF VoicesOK
<1>4. ~ voices'[OPEN_HAT].active
  <2>1. OPEN_HAT \in Slots /\ HatOK(voices[OPEN_HAT], params[OPEN_HAT])
    BY <1>0, OpenHatIsHat
  <2>2. Kind(OPEN_HAT) = "hat"
    BY <2>1, KindOf
  <2>3. voices'[OPEN_HAT] = [ResetHat(voices[OPEN_HAT], params[OPEN_HAT]) EXCEPT !.oscs = 0]
    BY <1>1, <2>1, <2>2 DEF Rerated, RerateHat
  <2>4. QED
    BY <2>1, <2>3 DEF ResetHat, HatOK, HatFields
<1>5. ChokeInv'
  BY <1>0, <1>1, <1>4 DEF ChokeInv, FadesInTime
<1>6. QED
  BY <1>3, <1>5 DEF KitInv

LEMMA ProcessKeeps ==
  ASSUME KitInv, Process
  PROVE  KitInv'
<1>0. VoicesOK /\ ChokeInv
  BY DEF KitInv
<1>1. /\ voices' = [slot \in Slots |-> Sample(Kind(slot), voices[slot], params[slot])]
      /\ params' = params
      /\ unchoked' = IF unchoked \in 0 .. ChokeSamples THEN unchoked + 1 ELSE unchoked
  BY DEF Process
<1>2. ASSUME NEW slot \in Slots
      PROVE  VoiceOK(Kind(slot), voices'[slot], params[slot])
  <2>1. /\ Kind(slot) \in Kinds /\ params[slot].decay \in Decays
        /\ VoiceOK(Kind(slot), voices[slot], params[slot])
    BY <1>0, KindOf DEF VoicesOK
  <2>2. voices'[slot] = Sample(Kind(slot), voices[slot], params[slot])
    BY <1>1
  <2>3. QED
    BY <2>1, <2>2, SampleIsOK
<1>3. VoicesOK'
  <2>1. DOMAIN voices' = Slots
    BY <1>1
  <2>2. QED
    BY <1>0, <1>1, <1>2, <2>1 DEF VoicesOK
<1>4. PICK x, z, c : x = voices[OPEN_HAT] /\ z = voices'[OPEN_HAT] /\ c = params[OPEN_HAT]
  OBVIOUS
<1>5. OPEN_HAT \in Slots /\ Kind(OPEN_HAT) = "hat" /\ HatOK(x, c) /\ z = Sample("hat", x, c)
  BY <1>0, <1>1, <1>4, OpenHatIsHat, KindOf
<1>6. CASE ~ x.active
  <2>1. z = x
    BY <1>5, <1>6 DEF Sample
  <2>2. ChokeInv'
    <3>1. unchoked' \in Nat \cup {Never}
      BY <1>0, <1>1 DEF ChokeInv, Never
    <3>2. QED
      BY <1>4, <1>6, <2>1, <3>1 DEF ChokeInv, FadesInTime
  <2>3. QED
    BY <1>3, <2>2 DEF KitInv
<1>7. CASE x.active
  <2>1. z = SampleHat(x, c)
    BY <1>5, <1>7 DEF Sample
  <2>2. HatOK(z, c) /\ HatSample(x, z)
    BY <1>5, <1>7, <2>1, HatSampled
  <2>3. unchoked \in Nat => unchoked \in 0 .. ChokeSamples
    <3>1. SUFFICES ASSUME unchoked \in Nat, unchoked > ChokeSamples PROVE FALSE
      BY VoicesAssumption DEF ChokeSamples
    <3>2. FadesInTime(x, unchoked)
      BY <1>0, <1>4, <3>1 DEF ChokeInv, Never
    <3>3. QED
      BY <1>5, <1>7, <3>1, <3>2, ChokeEnds
  <2>4. CASE unchoked = Never
    <3>1. unchoked' = Never
      BY <1>1, <2>4 DEF Never
    <3>2. x.coef # CHOKE
      BY <1>0, <1>4, <1>7, <2>4 DEF ChokeInv
    <3>3. z.active => z.coef # CHOKE
      BY <2>2, <3>2 DEF HatSample
    <3>4. ChokeInv'
      BY <1>4, <3>1, <3>3 DEF ChokeInv
    <3>5. QED
      BY <1>3, <3>4 DEF KitInv
  <2>5. CASE unchoked \in Nat
    <3>1. unchoked' = unchoked + 1 /\ unchoked' \in Nat /\ unchoked' # Never
      BY <1>1, <2>3, <2>5 DEF Never
    <3>2. FadesInTime(x, unchoked)
      BY <1>0, <1>4, <2>5 DEF ChokeInv, Never
    <3>3. FadesInTime(z, unchoked + 1)
      BY <1>5, <1>7, <2>2, <2>5, <3>2, ChokeGoesOn
    <3>4. ChokeInv'
      BY <1>4, <3>1, <3>3 DEF ChokeInv
    <3>5. QED
      BY <1>3, <3>4 DEF KitInv
  <2>6. QED
    BY <1>0, <2>4, <2>5 DEF ChokeInv
<1>8. QED
  BY <1>6, <1>7

LEMMA NextKit ==
  ASSUME KitInv, [KitNext]_kitVars
  PROVE  KitInv'
<1>1. ASSUME NEW slot \in Slots, NEW v \in Velocities, Trigger(slot, v)
      PROVE  KitInv'
  BY <1>1, TriggerKeeps
<1>2. ASSUME NEW slot \in Slots, NEW c \in Controls, SetParam(slot, c)
      PROVE  KitInv'
  BY <1>2, SetParamKeeps
<1>3. CASE SetSampleRate
  BY <1>3, SetSampleRateKeeps
<1>4. CASE Process
  BY <1>4, ProcessKeeps
<1>5. CASE UNCHANGED kitVars
  BY <1>5 DEF kitVars, KitInv, VoicesOK, ChokeInv, FadesInTime
<1>6. QED
  BY <1>1, <1>2, <1>3, <1>4, <1>5 DEF KitNext

(* The voices keep what their hits rely on, for every amplitude, velocity    *)
(* and level.                                                                *)
THEOREM KitInvariant == KitSpec => []KitInv
<1>1. KitInit => KitInv
  BY InitKit
<1>2. KitInv /\ [KitNext]_kitVars => KitInv'
  BY NextKit
<1>3. QED
  BY <1>1, <1>2, PTL DEF KitSpec

(* A voice that has fallen silent, been choked or been given a new sample    *)
(* rate keeps nothing its next hit is heard by, and the open hat is silent   *)
(* as soon after a choke as its envelope and gain can be (Kit::trigger,      *)
(* choke, and the idle tests of process).                                    *)
THEOREM KitFallsSilent == KitSpec => []SilenceHolds
<1>1. ASSUME KitInv
      PROVE  SilenceHolds
  <2>0. VoicesOK /\ ChokeInv
    BY <1>1 DEF KitInv
  <2>1. NothingLeftOver
    <3> SUFFICES ASSUME NEW slot \in Slots, ~ voices[slot].active, NEW v \in Velocities \ {0}
                 PROVE  {Settled(y) : y \in Hits(Kind(slot), voices[slot], params[slot], v)} =
                        {Settled(y) : y \in Hits(Kind(slot), Fresh(Kind(slot), params[slot]),
                                                 params[slot], v)}
      BY DEF NothingLeftOver
    <3>1. Kind(slot) \in Kinds /\ VoiceOK(Kind(slot), voices[slot], params[slot])
      BY <2>0, KindOf DEF VoicesOK
    <3>2. QED
      BY <3>1, LeavesNothing
  <2>2. ChokeHolds
    <3>1. HatOK(voices[OPEN_HAT], params[OPEN_HAT])
      BY <2>0, OpenHatIsHat
    <3>2. ASSUME unchoked > ChokeSamples
          PROVE  ~ voices[OPEN_HAT].active
      <4>1. unchoked \in Nat /\ unchoked # Never
        BY <2>0, <3>2, VoicesAssumption DEF ChokeInv, Never, ChokeSamples
      <4>2. FadesInTime(voices[OPEN_HAT], unchoked)
        BY <2>0, <4>1 DEF ChokeInv
      <4>3. QED
        BY <3>1, <3>2, <4>1, <4>2, ChokeEnds
    <3>3. QED
      BY <2>0, <3>2 DEF ChokeHolds, ChokeInv
  <2>3. QED
    BY <2>1, <2>2 DEF SilenceHolds
<1>2. KitInv => SilenceHolds
  BY <1>1
<1>3. QED
  BY <1>2, KitInvariant, PTL

Seamless ==
    calls' # calls => \A slot \in Slots \ {KICK} :
        voices[slot].active /\ voices'[slot].active =>
            Heard(Kind(slot), voices'[slot]) = Heard(Kind(slot), voices[slot])

LEMMA SeamlessStep ==
  ASSUME KitInv, KitNext
  PROVE  Seamless
<1> SUFFICES ASSUME calls' # calls, NEW s \in Slots \ {KICK},
                    voices[s].active, voices'[s].active
             PROVE  Heard(Kind(s), voices'[s]) = Heard(Kind(s), voices[s])
  BY DEF Seamless
<1>0. /\ VoicesOK /\ DOMAIN voices = Slots
      /\ Kind(s) \in Kinds /\ Kind(s) # "kick"
      /\ VoiceOK(Kind(s), voices[s], params[s]) /\ params[s].decay \in Decays
  BY KindOf DEF KitInv, VoicesOK
<1>1. ASSUME NEW slot \in Slots, NEW v \in Velocities, Trigger(slot, v)
      PROVE  Heard(Kind(s), voices'[s]) = Heard(Kind(s), voices[s])
  <2>1. PICK choked : choked = Choked(slot, v)
    OBVIOUS
  <2>2. PICK x \in Hits(Kind(slot), choked[slot], params[slot], v) :
          voices' = [choked EXCEPT ![slot] = x]
    BY <1>1, <2>1 DEF Trigger
  <2>3. /\ DOMAIN choked = Slots
        /\ VoiceOK(Kind(s), choked[s], params[s])
        /\ choked[s] = voices[s] \/ (s = OPEN_HAT /\ choked[s] = ChokeHat(voices[s]))
    BY <1>0, <2>1, ChokedIsOK
  <2>4. choked[s].active /\ Heard(Kind(s), choked[s]) = Heard(Kind(s), voices[s])
    <3>1. CASE choked[s] = voices[s]
      BY <3>1
    <3>2. CASE s = OPEN_HAT /\ choked[s] = ChokeHat(voices[s])
      <4>1. Kind(s) = "hat" /\ HatOK(voices[s], params[s])
        BY <1>0, <3>2, KindOf DEF VoiceOK
      <4>2. choked[s].active /\ choked[s].gain = voices[s].gain
        BY <3>2, <4>1, HatChoked
      <4>3. QED
        BY <4>1, <4>2 DEF Heard
    <3>3. QED
      BY <2>3, <3>1, <3>2
  <2>5. CASE s # slot
    <3>1. voices'[s] = choked[s]
      BY <2>2, <2>3, <2>5
    <3>2. QED
      BY <2>4, <3>1
  <2>6. CASE s = slot
    <3>1. voices'[s] = x
      BY <2>2, <2>3, <2>6
    <3>2. Heard(Kind(s), x) = Heard(Kind(s), choked[s])
      <4>1. CASE v = 0
        BY <2>2, <2>6, <4>1 DEF Hits
      <4>2. CASE v # 0
        <5>1. v \in 1 .. Full
          BY <4>2, KitAssumption
        <5>2. x \in Hits(Kind(s), choked[s], params[s], v)
          BY <2>2, <2>6
        <5>3. QED
          BY <1>0, <2>3, <2>4, <5>1, <5>2, HitIsSeamless
      <4>3. QED
        BY <4>1, <4>2
    <3>3. QED
      BY <2>4, <3>1, <3>2
  <2>7. QED
    BY <2>5, <2>6
<1>2. ASSUME NEW slot \in Slots, NEW c \in Controls, SetParam(slot, c)
      PROVE  Heard(Kind(s), voices'[s]) = Heard(Kind(s), voices[s])
  <2>1. voices' = [voices EXCEPT ![slot] = Applied(Kind(slot), @, c)]
    BY <1>2 DEF SetParam
  <2>2. voices'[s] = voices[s] \/ voices'[s] = Applied(Kind(s), voices[s], c)
    BY <1>0, <2>1
  <2>3. Applied(Kind(s), voices[s], c) = voices[s]
    BY DEF Applied
  <2>4. QED
    BY <2>2, <2>3
<1>3. CASE SetSampleRate
  <2>1. PICK x, c : x = voices[s] /\ c = params[s]
    OBVIOUS
  <2>2. voices'[s] = Rerated(Kind(s), x, c)
    BY <1>3, <2>1 DEF SetSampleRate
  <2>3. VoiceOK(Kind(s), x, c)
    BY <1>0, <2>1
  <2>4. CASE Kind(s) = "snare"
    BY <2>2, <2>3, <2>4 DEF Rerated, RerateSnare, IdleSnare, VoiceOK, SnareOK, SnareFields
  <2>5. CASE Kind(s) = "tom"
    BY <2>2, <2>3, <2>5 DEF Rerated, RerateTom, ResetTom, VoiceOK, TomOK, TomFields
  <2>6. CASE Kind(s) = "rim"
    BY <2>2, <2>3, <2>6 DEF Rerated, RerateRim, ResetRim, VoiceOK, RimOK, RimFields
  <2>7. CASE Kind(s) = "clap"
    BY <2>2, <2>3, <2>7 DEF Rerated, RerateClap, IdleClap, VoiceOK, ClapOK, ClapFields
  <2>8. CASE Kind(s) = "cowbell"
    BY <2>2, <2>3, <2>8 DEF Rerated, RerateCowbell, ResetCowbell, VoiceOK, CowbellOK, CowbellFields
  <2>9. CASE Kind(s) = "hat"
    BY <2>2, <2>3, <2>9 DEF Rerated, RerateHat, ResetHat, VoiceOK, HatOK, HatFields
  <2>10. QED
    BY <1>0, <2>4, <2>5, <2>6, <2>7, <2>8, <2>9 DEF Kinds
<1>4. CASE Process
  BY <1>4 DEF Process
<1>5. QED
  BY <1>1, <1>2, <1>3, <1>4 DEF KitNext

(* A hit on a voice that still sounds, a choke or a control starts where its *)
(* wave is, for every amplitude and velocity: no call makes it jump, but for *)
(* the kick's, which restarts by design (the modules' notes on retriggers).  *)
THEOREM RetriggersAreSeamless == KitSpec => RetriggerIsSeamless
<1>1. KitInv /\ [KitNext]_kitVars => [Seamless]_kitVars
  BY SeamlessStep
<1>2. QED
  BY <1>1, KitInvariant, PTL DEF KitSpec, RetriggerIsSeamless, Seamless
================================================================================
