--------------------------- MODULE TimingRegister ---------------------------
(* What the shared timing promises the control thread: one register holding  *)
(* the last block start the render thread published, replaced and read in    *)
(* one indivisible step.  SharedTiming implements it.                        *)
EXTENDS Naturals

CONSTANTS
    Positions,   \* sample positions
    Ticks        \* host times

VARIABLES
    published,   \* the block start last published
    snapshot     \* what the last read returned

Snapshots == [position : Positions, hostTicks : Ticks]
Zero == [position |-> 0, hostTicks |-> 0]

Init == published = Zero /\ snapshot = Zero

\* The renderer's position never goes back.
Publish ==
    /\ \E p \in Positions, t \in Ticks :
          /\ p >= published.position
          /\ published' = [position |-> p, hostTicks |-> t]
    /\ UNCHANGED snapshot

Read ==
    /\ snapshot' = published
    /\ UNCHANGED published

Next == Publish \/ Read

Spec == Init /\ [][Next]_<<published, snapshot>>
=============================================================================
