---------------------------- MODULE EventQueue ----------------------------
(* The single-producer, single-consumer ring between the control thread and  *)
(* the render thread (core/sequencer/src/queue.rs).                          *)
(*                                                                           *)
(* Each end is a small program over two shared indices and the slots.  One   *)
(* action is one access to shared memory: the load of the other end's index, *)
(* the copy of an event into or out of a slot, the store of the own index.   *)
(* An index is read by its owner at no cost, since nobody else writes it.    *)
(* The Release stores and Acquire loads of the code make the order of these  *)
(* accesses the order in which the other thread sees them.                   *)
EXTENDS Integers, FiniteSets

CONSTANTS
    Events,      \* what may be queued
    Capacity,    \* slots of the ring: mask + 1
    Modulus,     \* the indices are usize and wrap here
    Nothing      \* no event: an uninitialised slot, or the result of a failed pop

\* The capacity is a power of two and so is 2^64: it divides the modulus.
ASSUME CapacityAssumption ==
    /\ Capacity \in Nat /\ Capacity >= 2
    /\ Modulus \in Nat
    /\ \E k \in 2 .. Modulus : Modulus = k * Capacity

ASSUME NothingAssumption == Nothing \notin Events

VARIABLES
    slots,       \* the ring
    head,        \* next slot the consumer reads; written only by the consumer
    tail,        \* next slot the producer writes; written only by the producer
    pushPc,      \* where the producer is in push
    pushed,      \* the event it is pushing
    popPc,       \* where the consumer is in pop
    popped,      \* the event it copied out
    accepted,    \* what the last push returned
    delivered,   \* what the last pop returned
    room         \* pushes still covered by the last answer of vacant()

producerVars == <<pushPc, pushed, accepted, room>>
consumerVars == <<popPc, popped, delivered>>
ringVars == <<slots, head, tail, pushPc, pushed, popPc, popped, accepted, delivered, room>>

Indices == 0 .. Modulus - 1
SlotIndices == 0 .. Capacity - 1

\* wrapping_add(1) and wrapping_sub on usize.
WrapInc(i) == IF i + 1 = Modulus THEN 0 ELSE i + 1
WrapSub(i, j) == IF j <= i THEN i - j ELSE i - j + Modulus

\* The slot of an index: index & mask.
Slot(i) == i % Capacity

\* Events published and not yet released.
Used == WrapSub(tail, head)

RingInit ==
    /\ slots = [s \in SlotIndices |-> Nothing]
    /\ head = 0 /\ tail = 0
    /\ pushPc = "idle" /\ pushed = Nothing
    /\ popPc = "idle" /\ popped = Nothing
    /\ accepted = TRUE /\ delivered = Nothing
    /\ room = 0

-----------------------------------------------------------------------------
(* Producer *)

\* Mutants: one slot too many, one too few, and a difference that does not wrap.
FullLate == WrapSub(tail, head) > Capacity
FullEarly == WrapSub(tail, head) >= Capacity - 1
FullUnwrapped == tail - head > Capacity - 1

\* The test push makes on the head it just loaded.
IsFull == WrapSub(tail, head) > Capacity - 1

\* push finds the ring full and hands the event back.
PushRefused ==
    /\ pushPc = "idle"
    /\ IsFull
    /\ accepted' = FALSE
    /\ UNCHANGED <<slots, head, tail, pushPc, pushed, room>>
    /\ UNCHANGED consumerVars

\* push loads head, finds room and starts writing the slot at tail.
PushBegin(e) ==
    /\ pushPc = "idle"
    /\ ~IsFull
    /\ pushPc' = "writing"
    /\ pushed' = e
    /\ UNCHANGED <<slots, head, tail, accepted, room>>
    /\ UNCHANGED consumerVars

\* The slot is written.
PushWrite ==
    /\ pushPc = "writing"
    /\ slots' = [slots EXCEPT ![Slot(tail)] = pushed]
    /\ pushPc' = "publish"
    /\ UNCHANGED <<head, tail, pushed, accepted, room>>
    /\ UNCHANGED consumerVars

\* The Release store of tail hands the slot to the consumer.
PushPublish ==
    /\ pushPc = "publish"
    /\ tail' = WrapInc(tail)
    /\ pushPc' = "idle"
    /\ pushed' = Nothing
    /\ accepted' = TRUE
    /\ room' = IF room > 0 THEN room - 1 ELSE 0
    /\ UNCHANGED <<slots, head>>
    /\ UNCHANGED consumerVars

\* vacant(): the caller may count on this many pushes.
VacantNow == Capacity - WrapSub(tail, head)

Vacant ==
    /\ pushPc = "idle"
    /\ room' = VacantNow
    /\ UNCHANGED <<slots, head, tail, pushPc, pushed, accepted>>
    /\ UNCHANGED consumerVars

-----------------------------------------------------------------------------
(* Consumer *)

\* The test pop makes on the tail it just loaded.
Empty == head = tail

PopEmpty ==
    /\ popPc = "idle"
    /\ Empty
    /\ delivered' = Nothing
    /\ UNCHANGED <<slots, head, tail, popPc, popped>>
    /\ UNCHANGED producerVars

\* pop loads tail, sees an event and starts reading the slot at head.
PopBegin ==
    /\ popPc = "idle"
    /\ ~Empty
    /\ popPc' = "reading"
    /\ UNCHANGED <<slots, head, tail, popped, delivered>>
    /\ UNCHANGED producerVars

\* The event is copied out of its slot.
PopRead ==
    /\ popPc = "reading"
    /\ popped' = slots[Slot(head)]
    /\ popPc' = "release"
    /\ UNCHANGED <<slots, head, tail, delivered>>
    /\ UNCHANGED producerVars

\* The Release store of head gives the slot back to the producer.
PopRelease ==
    /\ popPc = "release"
    /\ head' = WrapInc(head)
    /\ popPc' = "idle"
    /\ popped' = Nothing
    /\ delivered' = popped
    /\ UNCHANGED <<slots, tail>>
    /\ UNCHANGED producerVars

-----------------------------------------------------------------------------
Producer == PushRefused \/ (\E e \in Events : PushBegin(e)) \/ PushWrite \/ PushPublish \/ Vacant
Consumer == PopEmpty \/ PopBegin \/ PopRead \/ PopRelease

RingNext == Producer \/ Consumer

RingSpec == RingInit /\ [][RingNext]_ringVars

-----------------------------------------------------------------------------
(* Properties *)

(* Every variable stays in its range. *)
RingTypeOK ==
    /\ slots \in [SlotIndices -> Events \cup {Nothing}]
    /\ head \in Indices /\ tail \in Indices
    /\ pushPc \in {"idle", "writing", "publish"}
    /\ popPc \in {"idle", "reading", "release"}
    /\ pushed \in Events \cup {Nothing}
    /\ popped \in Events \cup {Nothing}
    /\ accepted \in BOOLEAN
    /\ delivered \in Events \cup {Nothing}
    /\ room \in 0 .. Capacity

(* The slot the producer is copying into is never the slot the consumer is   *)
(* copying out of: the claim the unsafe Sync impl of the ring rests on       *)
(* (queue.rs, "no slot is accessed by both sides at once").                  *)
NoSlotRace ==
    pushPc = "writing" /\ popPc = "reading" => Slot(tail) # Slot(head)

(* A push is never refused while an earlier answer of vacant() still covers  *)
(* it, however the consumer moved in between: the scheduler pushes a whole   *)
(* step unchecked on the strength of one vacant() (scheduler.rs, "Cannot     *)
(* fail: vacancy was checked above").                                        *)
VacancyHolds == [][PushRefused => room = 0]_ringVars

(* The inductive invariant behind the two above: the indices are never more  *)
(* than the capacity apart, a producer past its test still has room, a       *)
(* consumer past its test still has an event, and vacant() promised no more  *)
(* than is free.                                                             *)
RingInv ==
    /\ RingTypeOK
    /\ Used <= Capacity
    /\ pushPc # "idle" => Used < Capacity
    /\ popPc # "idle" => Used > 0
    /\ room <= Capacity - Used

(* The ring is a bounded first-in first-out queue: an abstract push happens  *)
(* at the store of tail and an abstract pop at the store of head.  No event  *)
(* is lost, repeated, reordered or read before it was written, also when the *)
(* indices wrap.                                                             *)
Contents ==
    [i \in 1 .. Used |-> slots[Slot((head + i - 1) % Modulus)]]

Fifo == INSTANCE BoundedFifo WITH queue <- Contents

IsFifo == Fifo!Spec
=============================================================================
