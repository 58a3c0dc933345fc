---------------------------- MODULE BoundedFifo ----------------------------
(* What the event queue promises its two ends, whatever the ring underneath  *)
(* does: a first-in first-out queue of at most Capacity events in which a    *)
(* push is refused only when the queue is full and a pop comes back empty-   *)
(* handed only when it is empty.  EventQueue implements it.                  *)
EXTENDS Naturals, Sequences

CONSTANTS
    Events,      \* what may be queued
    Capacity,    \* how many events fit
    Nothing      \* what a pop of an empty queue returns

VARIABLES
    queue,       \* the events waiting, oldest first
    accepted,    \* whether the last push was accepted
    delivered    \* what the last pop returned

fifoVars == <<queue, accepted, delivered>>

Init ==
    /\ queue = <<>>
    /\ accepted = TRUE
    /\ delivered = Nothing

Push(e) ==
    /\ Len(queue) < Capacity
    /\ queue' = Append(queue, e)
    /\ accepted' = TRUE
    /\ UNCHANGED delivered

Refuse ==
    /\ Len(queue) = Capacity
    /\ accepted' = FALSE
    /\ UNCHANGED <<queue, delivered>>

Pop ==
    /\ queue # <<>>
    /\ delivered' = Head(queue)
    /\ queue' = Tail(queue)
    /\ UNCHANGED accepted

PopEmpty ==
    /\ queue = <<>>
    /\ delivered' = Nothing
    /\ UNCHANGED <<queue, accepted>>

Next == (\E e \in Events : Push(e)) \/ Refuse \/ Pop \/ PopEmpty

Spec == Init /\ [][Next]_fifoVars
=============================================================================
