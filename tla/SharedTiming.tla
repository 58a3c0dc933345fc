---------------------------- MODULE SharedTiming ----------------------------
(* The sequence lock through which the render thread publishes its position  *)
(* (core/engine/src/timing.rs).                                              *)
(*                                                                           *)
(* One action is one atomic access.  The code orders the two data stores     *)
(* only against the stores of seq around them (a Release fence and a Release *)
(* store), and the two data loads only against the loads of seq (an Acquire  *)
(* load and an Acquire fence), so each pair happens in either order.         *)
EXTENDS Naturals

CONSTANTS
    MaxPosition, \* bound on the render position
    MaxTicks,    \* bound on the host time
    MaxPublish,  \* bound on the number of publications
    SeqModulus   \* seq is a u64 and wraps here

\* A reader would have to sleep through 2^63 blocks for seq to wrap under it.
ASSUME NoWrapAssumption ==
    /\ MaxPosition \in Nat /\ MaxTicks \in Nat
    /\ MaxPublish \in Nat /\ SeqModulus \in Nat
    /\ 2 * MaxPublish < SeqModulus

VARIABLES
    seq,         \* even: stable; odd: a publication is under way
    data,        \* the two published words
    writing,     \* where the render thread is in publish
    newest,      \* what it is publishing
    toStore,     \* the words it has not stored yet
    reading,     \* where the control thread is in read
    s1,          \* the value of seq its attempt began with
    got,         \* the words it has loaded
    toLoad,      \* the words it has not loaded yet
    snapshot,    \* what the last read returned
    published,   \* history: the last publication that completed
    publishes    \* history: how many completed

writerVars == <<writing, newest, toStore>>
readerVars == <<reading, s1, got, toLoad, snapshot>>
lockVars == <<seq, data, writing, newest, toStore, reading, s1, got, toLoad, snapshot, published,
              publishes>>

Positions == 0 .. MaxPosition
Ticks == 0 .. MaxTicks
Words == {"position", "hostTicks"}
Snapshots == [position : Positions, hostTicks : Ticks]
Zero == [position |-> 0, hostTicks |-> 0]

LockInit ==
    /\ seq = 0 /\ data = Zero
    /\ writing = "idle" /\ newest = Zero /\ toStore = {}
    /\ reading = "idle" /\ s1 = 0 /\ got = Zero /\ toLoad = {}
    /\ snapshot = Zero
    /\ published = Zero /\ publishes = 0

-----------------------------------------------------------------------------
(* publish, on the render thread *)

\* seq is made odd before either word is stored.
PublishOpen ==
    /\ writing = "idle"
    /\ publishes < MaxPublish
    /\ \E p \in Positions, t \in Ticks :
          /\ p >= published.position
          /\ newest' = [position |-> p, hostTicks |-> t]
    /\ seq' = (seq + 1) % SeqModulus
    /\ writing' = "open"
    /\ toStore' = Words
    /\ UNCHANGED <<data, published, publishes>>
    /\ UNCHANGED readerVars

PublishStore(w) ==
    /\ writing = "open"
    /\ w \in toStore
    /\ data' = [data EXCEPT ![w] = newest[w]]
    /\ toStore' = toStore \ {w}
    /\ UNCHANGED <<seq, writing, newest, published, publishes>>
    /\ UNCHANGED readerVars

\* seq is made even again once both words are stored.
PublishClose ==
    /\ writing = "open"
    /\ toStore = {}
    /\ seq' = (seq + 1) % SeqModulus
    /\ writing' = "idle"
    /\ published' = newest
    /\ publishes' = publishes + 1
    /\ UNCHANGED <<data, newest, toStore>>
    /\ UNCHANGED readerVars

-----------------------------------------------------------------------------
(* read, on the control thread *)

\* An attempt begins by loading seq; an odd value is tried again.
Stable == seq % 2 = 0

ReadBegin ==
    /\ reading = "idle"
    /\ reading' = "open"
    /\ UNCHANGED <<s1, got, toLoad, snapshot>>
    /\ UNCHANGED <<seq, data, published, publishes>>
    /\ UNCHANGED writerVars

ReadOpen ==
    /\ reading = "open"
    /\ Stable
    /\ reading' = "load"
    /\ s1' = seq
    /\ toLoad' = Words
    /\ UNCHANGED <<got, snapshot, seq, data, published, publishes>>
    /\ UNCHANGED writerVars

ReadLoad(w) ==
    /\ reading = "load"
    /\ w \in toLoad
    /\ got' = [got EXCEPT ![w] = data[w]]
    /\ toLoad' = toLoad \ {w}
    /\ UNCHANGED <<reading, s1, snapshot, seq, data, published, publishes>>
    /\ UNCHANGED writerVars

\* Mutant: seq is not looked at again.
ReadReturnUnchecked ==
    /\ reading = "load"
    /\ toLoad = {}
    /\ snapshot' = got
    /\ reading' = "idle"
    /\ UNCHANGED <<s1, got, toLoad, seq, data, published, publishes>>
    /\ UNCHANGED writerVars

\* seq has not moved: what was loaded is returned.
ReadReturn ==
    /\ reading = "load"
    /\ toLoad = {}
    /\ seq = s1
    /\ snapshot' = got
    /\ reading' = "idle"
    /\ UNCHANGED <<s1, got, toLoad, seq, data, published, publishes>>
    /\ UNCHANGED writerVars

\* seq moved: start over.
ReadRetry ==
    /\ reading = "load"
    /\ toLoad = {}
    /\ seq # s1
    /\ reading' = "open"
    /\ UNCHANGED <<s1, got, toLoad, snapshot, seq, data, published, publishes>>
    /\ UNCHANGED writerVars

-----------------------------------------------------------------------------
Writer == PublishOpen \/ (\E w \in Words : PublishStore(w)) \/ PublishClose
Reader == ReadBegin \/ ReadOpen \/ (\E w \in Words : ReadLoad(w)) \/ ReadReturn \/ ReadRetry

LockNext == Writer \/ Reader

LockSpec == LockInit /\ [][LockNext]_lockVars

-----------------------------------------------------------------------------
(* Properties *)

(* Every variable stays in its range. *)
LockTypeOK ==
    /\ seq \in 0 .. SeqModulus - 1
    /\ data \in Snapshots /\ newest \in Snapshots /\ got \in Snapshots
    /\ snapshot \in Snapshots /\ published \in Snapshots
    /\ writing \in {"idle", "open"}
    /\ toStore \in SUBSET Words /\ toLoad \in SUBSET Words
    /\ reading \in {"idle", "open", "load"}
    /\ s1 \in 0 .. SeqModulus - 1
    /\ publishes \in 0 .. MaxPublish

(* Why the lock works, as an inductive invariant.  seq counts the stores of  *)
(* both threads' protocol: it is odd exactly while a publication is under    *)
(* way, so the words can only differ from the last publication then; and as  *)
(* long as seq is what an attempt began with, the words loaded so far are    *)
(* the words in memory.                                                      *)
Half == IF writing = "open" THEN 1 ELSE 0

LockInv ==
    /\ LockTypeOK
    /\ seq = 2 * publishes + Half
    /\ publishes + Half <= MaxPublish
    /\ writing = "idle" => data = published
    /\ writing = "open" =>
          /\ newest.position >= published.position
          /\ \A w \in Words \ toStore : data[w] = newest[w]
    /\ reading = "load" =>
          /\ s1 % 2 = 0 /\ s1 <= seq
          /\ s1 = seq => \A w \in Words \ toLoad : got[w] = data[w]

(* Reads and publications are those of one atomic register: a snapshot is    *)
(* never torn, never one that was not completed, and never older than the    *)
(* publication in force when read returned.                                  *)
Register == INSTANCE TimingRegister

IsRegister == Register!Spec
=============================================================================
