--------------------------- MODULE FollowerProofs ---------------------------
(* What holds of the follower for every tuning, every bar and every mix of   *)
(* late, wrong and lost reports: its variables keep their types, a lock is   *)
(* fresh, and a follower that tracks snaps only to what enough reports in a  *)
(* row agreed on.                                                            *)
EXTENDS Follower, TLAPS

-----------------------------------------------------------------------------
(* Phases on the circle                                                      *)

(* A multiple of m that is not zero is at least m away from zero. *)
LEMMA MultipleIsFar ==
    ASSUME NEW m \in Nat \ {0}, NEW k \in Int, k # 0
    PROVE  k * m >= m \/ k * m <= -m
<1>1. CASE k >= 1
  <2>1. k - 1 \in Nat /\ (k - 1) * m >= 0
    BY <1>1
  <2>2. k * m = (k - 1) * m + m
    OBVIOUS
  <2>3. QED
    BY <2>1, <2>2
<1>2. CASE k <= -1
  <2>1. -1 - k \in Nat /\ (-1 - k) * m >= 0
    BY <1>2
  <2>2. k * m = -((-1 - k) * m) - m
    OBVIOUS
  <2>3. QED
    BY <2>1, <2>2
<1>3. QED
  BY <1>1, <1>2

(* wrap takes a whole number of circles away and leaves at most half of one. *)
LEMMA WrapIsCongruent ==
    ASSUME NEW m \in Nat \ {0}, NEW x \in Int
    PROVE  /\ Wrap(x, m) \in Int
           /\ 2 * Wrap(x, m) >= -m /\ 2 * Wrap(x, m) < m
           /\ \E k \in Int : x = k * m + Wrap(x, m)
<1>1. x % m \in 0 .. m - 1 /\ x \div m \in Int /\ x = m * (x \div m) + (x % m)
  OBVIOUS
<1>2. PICK q \in Int, r \in 0 .. m - 1 : x % m = r /\ x = m * q + r
  BY <1>1
<1>3. CASE 2 * r >= m
  <2>1. Wrap(x, m) = r - m
    BY <1>2, <1>3 DEF Wrap
  <2>2. x = (q + 1) * m + (r - m) /\ q + 1 \in Int
    BY <1>2
  <2>3. \E k \in Int : x = k * m + (r - m)
    BY <2>2
  <2>4. r - m \in Int /\ 2 * (r - m) >= -m /\ 2 * (r - m) < m
    BY <1>3
  <2>5. QED
    BY <2>1, <2>3, <2>4
<1>4. CASE ~(2 * r >= m)
  <2>1. Wrap(x, m) = r
    BY <1>2, <1>4 DEF Wrap
  <2>2. x = q * m + r
    BY <1>2
  <2>3. \E k \in Int : x = k * m + r
    BY <2>2
  <2>4. r \in Int /\ 2 * r >= -m /\ 2 * r < m
    BY <1>4
  <2>5. QED
    BY <2>1, <2>3, <2>4
<1>5. QED
  BY <1>3, <1>4

(* No place of the same phase is nearer than the one wrap gives. *)
LEMMA WrapIsNearest ==
    ASSUME NEW m \in Nat \ {0}, NEW k \in Int, NEW r \in Int, NEW t \in Int,
           -t <= r, r <= t
    PROVE  Abs(Wrap(k * m + r, m)) <= t
<1> DEFINE x == k * m + r
           w == Wrap(x, m)
<1>1. x \in Int
  OBVIOUS
<1>2. w \in Int /\ 2 * w >= -m /\ 2 * w < m
  BY <1>1, WrapIsCongruent
<1>3. PICK q \in Int : x = q * m + w
  BY <1>1, WrapIsCongruent
<1>4. (k - q) * m = w - r
  <2> HIDE DEF w
  <2>1. k * m + r = q * m + w
    BY <1>3
  <2>2. (k - q) * m = k * m - q * m
    OBVIOUS
  <2>3. QED
    BY <1>2, <2>1, <2>2
<1>5. CASE k = q
  <2> HIDE DEF w
  <2>1. w = r
    BY <1>2, <1>4, <1>5
  <2>2. Abs(w) <= t
    BY <1>2, <2>1 DEF Abs
  <2>3. QED
    BY <2>2 DEF w
<1>6. CASE k # q
  <2>1. k - q # 0 /\ k - q \in Int
    BY <1>6
  <2>2. (k - q) * m >= m \/ (k - q) * m <= -m
    BY <2>1, MultipleIsFar
  <2> HIDE DEF w
  <2>3. Abs(w) <= t
    BY <1>2, <1>4, <2>2 DEF Abs
  <2>4. QED
    BY <2>3 DEF w
<1>7. QED
  BY <1>5, <1>6

(* What sources report counts in whole beats. *)
LEMMA ModulusIsBeats ==
    ASSUME NEW k \in Kinds
    PROVE  Modulus(k) \in Nat \ {0} /\ \E q \in Int : Modulus(k) = q * Beat
<1>1. Beat \in Nat \ {0} /\ Bar \in Nat \ {0} /\ Bar % Beat = 0
  BY FollowerAssumption
<1>2. Bar = Beat * (Bar \div Beat) + (Bar % Beat) /\ Bar \div Beat \in Int
  BY <1>1
<1>3. \E q \in Int : Bar = q * Beat
  BY <1>1, <1>2
<1>4. Beat = 1 * Beat
  BY <1>1
<1>5. CASE k = "bar"
  BY <1>1, <1>3, <1>5 DEF Modulus
<1>6. CASE k # "bar"
  BY <1>1, <1>4, <1>6 DEF Modulus
<1>7. QED
  BY <1>5, <1>6

(* The jump threshold bounds what counts as agreement. *)
LEMMA ThresholdIsBounded ==
    ASSUME NEW m \in Nat \ {0}, precision \in Precisions
    PROVE  Threshold(m) \in Int /\ Threshold(m) <= JumpThreshold[precision]
<1>1. JumpThreshold[precision] \in Nat
  BY FollowerAssumption
<1>2. (9 * m) \div 20 \in Int
  OBVIOUS
<1>3. PICK a \in Int, b \in Int : a = JumpThreshold[precision] /\ b = (9 * m) \div 20
  BY <1>1, <1>2
<1>4. \E x \in {a, b} : \A y \in {a, b} : x <= y
  BY <1>3
<1>5. Min({a, b}) \in {a, b} /\ \A y \in {a, b} : Min({a, b}) <= y
  BY <1>4 DEF Min
<1>6. Threshold(m) = Min({a, b})
  BY <1>3 DEF Threshold
<1>7. QED
  BY <1>3, <1>5, <1>6

(* An outlier that agrees with a candidate is close to the mean it makes. *)
LEMMA CloseToMean ==
    ASSUME NEW m \in Nat \ {0}, NEW q \in Int, m = q * Beat,
           NEW err \in Int, NEW o \in Int, NEW t \in Int,
           Abs(Wrap(err - o, m)) <= t,
           NEW d \in PartsOf(Wrap(err - o, m))
    PROVE  d \in Int /\ Close(err, o + d, t)
<1>0. Beat \in Nat \ {0} /\ err - o \in Int
  BY FollowerAssumption
<1>1. /\ Wrap(err - o, m) \in Int
      /\ \E k \in Int : err - o = k * m + Wrap(err - o, m)
  BY <1>0, WrapIsCongruent
<1>2. PICK w \in Int, k \in Int : w = Wrap(err - o, m) /\ err - o = k * m + w
  BY <1>1
<1>3. d \in Int /\ w - d \in Int /\ -t <= w - d /\ w - d <= t
  BY <1>2 DEF PartsOf, Abs
<1>4. PICK c \in Int : c = k * q
  OBVIOUS
<1>5. k * m = c * Beat
  BY <1>0, <1>4
<1>6. err - (o + d) = c * Beat + (w - d)
  <2>1. PICK a \in Int : a = k * m
    OBVIOUS
  <2>2. err - (o + d) = a + (w - d)
    BY <1>2, <1>3, <2>1
  <2>3. QED
    BY <1>5, <2>1, <2>2
<1>7. Abs(Wrap(c * Beat + (w - d), Beat)) <= t
  BY <1>0, <1>3, WrapIsNearest
<1>8. QED
  BY <1>3, <1>6, <1>7 DEF Close

(* Two outliers that agree with one candidate agree with each other. *)
LEMMA CloseToEachOther ==
    ASSUME NEW m \in Nat \ {0}, NEW q \in Int, m = q * Beat,
           NEW err \in Int, NEW last \in Int, NEW o \in Int, NEW t \in Int,
           Abs(Wrap(err - o, m)) <= t, Close(last, o, t)
    PROVE  Close(err, last, 2 * t)
<1>0. Beat \in Nat \ {0} /\ err - o \in Int /\ last - o \in Int
  BY FollowerAssumption
<1>1. /\ Wrap(err - o, m) \in Int
      /\ \E k \in Int : err - o = k * m + Wrap(err - o, m)
  BY <1>0, WrapIsCongruent
<1>2. /\ Wrap(last - o, Beat) \in Int
      /\ \E k \in Int : last - o = k * Beat + Wrap(last - o, Beat)
  BY <1>0, WrapIsCongruent
<1>3. PICK w \in Int, k \in Int : w = Wrap(err - o, m) /\ err - o = k * m + w
  BY <1>1
<1>4. PICK v \in Int, j \in Int : v = Wrap(last - o, Beat) /\ last - o = j * Beat + v
  BY <1>2
<1>5. -(2 * t) <= w - v /\ w - v <= 2 * t /\ w - v \in Int /\ 2 * t \in Int
  BY <1>3, <1>4 DEF Close, Abs
<1>6. PICK c \in Int : c = k * q
  OBVIOUS
<1>7. k * m = c * Beat
  BY <1>0, <1>6
<1>8. (c - j) * Beat = c * Beat - j * Beat /\ c - j \in Int
  BY <1>0
<1>9. err - last = (c - j) * Beat + (w - v)
  <2>1. PICK a \in Int, b \in Int : a = k * m /\ b = j * Beat
    BY <1>0
  <2>2. err - last = a - b + (w - v)
    BY <1>3, <1>4, <2>1
  <2>3. a - b = (c - j) * Beat
    BY <1>7, <1>8, <2>1
  <2>4. QED
    BY <2>2, <2>3
<1>10. Abs(Wrap((c - j) * Beat + (w - v), Beat)) <= 2 * t
  BY <1>0, <1>5, <1>8, WrapIsNearest
<1>11. QED
  BY <1>9, <1>10 DEF Close

LEMMA CloseToItself ==
    ASSUME NEW x \in Int, NEW t \in Nat
    PROVE  Close(x, x, t)
<1>1. Beat \in Nat \ {0} /\ 0 % Beat = 0
  BY FollowerAssumption
<1>2. Wrap(0, Beat) = 0
  BY <1>1 DEF Wrap
<1>3. x - x = 0
  OBVIOUS
<1>4. QED
  BY <1>2, <1>3 DEF Close, Abs


-----------------------------------------------------------------------------
(* One report                                                                *)

LEMMA MovesOnTheBar ==
    ASSUME NEW x \in Int
    PROVE  x % Bar \in 0 .. Bar - 1
BY FollowerAssumption

(* A snap leaves everything in range. *)
LEMMA SnapTypes ==
    ASSUME AlignmentTypeOK, precision \in Precisions, NEW d \in Int, Snap(d),
           run' \in Seq([err : Int, age : Int]),
           jump' = NoJump \/ jump' \in [count : Nat \ {0}, since : Int, offset : Int]
    PROVE  AlignmentTypeOK'
<1>1. off' \in 0 .. Bar - 1
  BY MovesOnTheBar DEF Snap, AlignmentTypeOK
<1>2. acquired' = 0 /\ 0 < AcquireObs[precision]
  BY FollowerAssumption DEF Snap
<1>3. \E p \in Precisions : acquired' < AcquireObs[p]
  BY <1>2
<1>4. acquired' \in Nat /\ gap' \in Int
  BY <1>2 DEF Snap
<1>5. lock' \in {"acquire", "reacquire", "track"} /\ locked' \in BOOLEAN /\ discontinuity' \in BOOLEAN
  BY DEF Snap
<1>6. QED
  BY <1>1, <1>3, <1>4, <1>5 DEF AlignmentTypeOK

LEMMA EmptyRun ==
    <<>> \in Seq([err : Int, age : Int])
OBVIOUS

(* Moving the estimate leaves it on the bar. *)
LEMMA MoveTypes ==
    ASSUME AlignmentTypeOK, NEW d \in Int, MoveEstimate(d)
    PROVE  off' \in 0 .. Bar - 1 /\ gap' \in Int
BY MovesOnTheBar DEF MoveEstimate, AlignmentTypeOK

LEMMA BeginAcquireKeeps ==
    ASSUME AlignmentTypeOK, precision \in Precisions, NEW outErr \in Int,
           NEW stays \in BOOLEAN, BeginAcquire(outErr, stays)
    PROVE  AlignmentTypeOK' /\ JumpIsRun'
<1>1. outErr - gap \in Int /\ jump' = NoJump /\ run' \in Seq([err : Int, age : Int])
  BY EmptyRun DEF AlignmentTypeOK, BeginAcquire
<1>2. JumpIsRun'
  BY <1>1 DEF JumpIsRun
<1>3. CASE AcquireObs[precision] = 1
  <2>1. Snap(outErr - gap)
    BY <1>3 DEF BeginAcquire
  <2>2. QED
    BY <1>1, <1>2, <2>1, SnapTypes
<1>4. CASE AcquireObs[precision] # 1
  <2>1. acquired' = 1 /\ 1 < AcquireObs[precision]
    BY <1>4, FollowerAssumption DEF BeginAcquire
  <2>2. acquired' \in Nat /\ \E p \in Precisions : acquired' < AcquireObs[p]
    BY <2>1
  <2>3. MoveEstimate(outErr - gap)
    BY <1>4 DEF BeginAcquire
  <2>4. off' \in 0 .. Bar - 1 /\ gap' \in Int
    BY <1>1, <2>3, MoveTypes
  <2>5. lock' \in {"acquire", "reacquire", "track"} /\ locked' \in BOOLEAN /\ discontinuity' \in BOOLEAN
    BY <1>4 DEF BeginAcquire
  <2>6. QED
    BY <1>1, <1>2, <2>2, <2>4, <2>5 DEF AlignmentTypeOK
<1>5. QED
  BY <1>3, <1>4

(* A part of a distance is a distance. *)
LEMMA PartsAreInt ==
    ASSUME NEW x \in Int, NEW d \in PartsOf(x)
    PROVE  d \in Int
BY DEF PartsOf

LEMMA AcquireKeeps ==
    ASSUME AlignmentTypeOK, JumpIsRun, precision \in Precisions, precision' = precision,
           NEW estErr \in Int, Acquire(estErr)
    PROVE  AlignmentTypeOK' /\ JumpIsRun'
<1>1. /\ UNCHANGED <<jump, run>>
      /\ jump' = NoJump \/ jump' \in [count : Nat \ {0}, since : Int, offset : Int]
      /\ run' \in Seq([err : Int, age : Int])
  BY DEF Acquire, AlignmentTypeOK
<1>2. JumpIsRun'
  BY <1>1 DEF JumpIsRun, IsRunOf, AgreeFrom, Close
<1>3. PICK d \in PartsOf(estErr) :
        IF acquired + 1 >= AcquireObs[precision]
        THEN Snap(d)
        ELSE /\ MoveEstimate(d)
             /\ acquired' = acquired + 1
             /\ discontinuity' = FALSE
             /\ UNCHANGED <<lock, locked>>
  BY DEF Acquire
<1>4. d \in Int /\ acquired \in Nat /\ AcquireObs[precision] \in Nat
  BY PartsAreInt, FollowerAssumption DEF AlignmentTypeOK
<1>5. CASE acquired + 1 >= AcquireObs[precision]
  BY <1>1, <1>2, <1>3, <1>4, <1>5, SnapTypes
<1>6. CASE ~(acquired + 1 >= AcquireObs[precision])
  <2>1. off' \in 0 .. Bar - 1 /\ gap' \in Int
    BY <1>3, <1>4, <1>6, MoveTypes
  <2>2. acquired' \in Nat /\ acquired' < AcquireObs[precision]
    BY <1>3, <1>4, <1>6
  <2>3. discontinuity' \in BOOLEAN /\ UNCHANGED <<lock, locked>>
    BY <1>3, <1>6
  <2>4. QED
    BY <1>1, <1>2, <2>1, <2>2, <2>3 DEF AlignmentTypeOK
<1>7. QED
  BY <1>5, <1>6

LEMMA TrackKeeps ==
    ASSUME AlignmentTypeOK, NEW estErr \in Int, Track(estErr)
    PROVE  AlignmentTypeOK' /\ JumpIsRun'
<1>1. PICK d \in PartsOf(estErr) : MoveEstimate(d)
  BY DEF Track
<1>2. d \in Int
  BY PartsAreInt
<1>3. off' \in 0 .. Bar - 1 /\ gap' \in Int
  BY <1>1, <1>2, MoveTypes
<1>4. jump' = NoJump /\ run' \in Seq([err : Int, age : Int])
  BY EmptyRun DEF Track
<1>5. JumpIsRun'
  BY <1>4 DEF JumpIsRun
<1>6. QED
  BY <1>3, <1>4, <1>5 DEF AlignmentTypeOK, Track

LEMMA OutlierOfRun ==
    ASSUME NEW S, NEW s \in Seq(S), NEW i \in 1 .. Len(s)
    PROVE  s[i] \in S
OBVIOUS

LEMMA RunOfFunction ==
    ASSUME NEW S, NEW n \in Nat, NEW g \in [1 .. n -> S]
    PROVE  g \in Seq(S) /\ Len(g) = n
OBVIOUS

LEMMA StepsOfRun ==
    ASSUME NEW n \in Nat, NEW first \in 1 .. n, NEW i \in first .. n - 1
    PROVE  i \in 1 .. n /\ i + 1 \in 1 .. n
OBVIOUS

LEMMA LastOfRun ==
    ASSUME NEW n \in Nat, NEW c \in Nat, c >= 1, n - c + 1 >= 1
    PROVE  n - c + 1 \in 1 .. n
OBVIOUS

LEMMA CandidateFields ==
    ASSUME NEW j \in [count : Nat \ {0}, since : Int, offset : Int]
    PROVE  j.count \in Nat /\ j.count >= 1 /\ j.since \in Int /\ j.offset \in Int
OBVIOUS

LEMMA LongerCandidate ==
    ASSUME NEW j \in [count : Nat \ {0}, since : Int, offset : Int], NEW d \in Int,
           NEW longer, longer = [j EXCEPT !.count = @ + 1, !.offset = @ + d]
    PROVE  /\ longer \in [count : Nat \ {0}, since : Int, offset : Int]
           /\ longer.count = j.count + 1
           /\ longer.since = j.since
           /\ longer.offset = j.offset + d
<1>1. j.count \in Nat /\ j.count >= 1 /\ j.since \in Int /\ j.offset \in Int
  BY CandidateFields
<1>2. longer = [count |-> j.count + 1, since |-> j.since, offset |-> j.offset + d]
  OBVIOUS
<1>3. QED
  BY <1>1, <1>2

(* An outlier makes the candidate it agrees with one longer, or begins one. *)
LEMMA ExtendedIsRun ==
    ASSUME AlignmentTypeOK, JumpIsRun, precision \in Precisions,
           NEW m \in Nat \ {0}, NEW q \in Int, m = q * Beat,
           NEW estErr \in Int, NEW lag \in Int, NEW j \in Extended(estErr, lag, m)
    PROVE  /\ j \in [count : Nat \ {0}, since : Int, offset : Int]
           /\ IsRunOf(j, Append(run, [err |-> estErr, age |-> lag]))
<1> DEFINE t == JumpThreshold[precision]
           longer == Append(run, [err |-> estErr, age |-> lag])
           delta == Wrap(estErr - jump.offset, m)
<1>1. t \in Nat /\ Threshold(m) \in Int /\ Threshold(m) <= t
  BY ThresholdIsBounded, FollowerAssumption
<1>2. /\ run \in Seq([err : Int, age : Int]) /\ Len(run) \in Nat
      /\ Len(longer) = Len(run) + 1
      /\ longer[Len(run) + 1] = [err |-> estErr, age |-> lag]
      /\ \A i \in 1 .. Len(run) : longer[i] = run[i]
  BY DEF AlignmentTypeOK
<1>3. CASE jump # NoJump /\ Abs(delta) <= Threshold(m)
  <2>1. /\ jump \in [count : Nat \ {0}, since : Int, offset : Int]
        /\ IsRunOf(jump, run)
    BY <1>3 DEF AlignmentTypeOK, JumpIsRun
  <2>2. PICK d \in PartsOf(delta) :
          j = [jump EXCEPT !.count = @ + 1, !.offset = @ + d]
    BY <1>3 DEF Extended
  <2>3. delta \in Int
    <3>1. jump.offset \in Int
      BY <2>1, CandidateFields
    <3>2. estErr - jump.offset \in Int
      BY <3>1
    <3>3. QED
      BY <3>2, WrapIsCongruent
  <2>4. Abs(delta) <= t
    BY <1>1, <1>3, <2>3 DEF Abs
  <2>5. d \in Int /\ Close(estErr, jump.offset + d, t)
    <3> HIDE DEF t
    <3>1. jump.offset \in Int
      BY <2>1, CandidateFields
    <3>2. QED
      BY <1>1, <2>2, <2>4, <3>1, CloseToMean
  <2>6. /\ j \in [count : Nat \ {0}, since : Int, offset : Int]
        /\ j.count = jump.count + 1 /\ j.since = jump.since /\ j.offset = jump.offset + d
    BY <2>1, <2>2, <2>5, LongerCandidate
  <2>7. PICK first \in 1 .. Len(run) : first = Len(run) - jump.count + 1
    BY <1>2, <2>1 DEF IsRunOf
  <2>8. Len(longer) - j.count + 1 = first
    <3> HIDE DEF longer
    <3>1. PICK n \in Nat, c \in Nat : n = Len(run) /\ c = jump.count
      BY <1>2, <2>1, CandidateFields
    <3>2. Len(longer) = n + 1 /\ j.count = c + 1 /\ first = n - c + 1
      BY <1>2, <2>6, <2>7, <3>1
    <3>3. QED
      BY <3>2
  <2>9. /\ run[first].age = jump.since
        /\ AgreeFrom(run, first)
        /\ Close(run[Len(run)].err, jump.offset, t)
    BY <2>1, <2>7 DEF IsRunOf
  <2>10. Close(estErr, run[Len(run)].err, 2 * t)
    <3> HIDE DEF t
    <3>1. jump.offset \in Int
      BY <2>1, CandidateFields
    <3>2. run[Len(run)].err \in Int
      <4>1. Len(run) \in 1 .. Len(run)
        BY <1>2, <2>7
      <4>2. run[Len(run)] \in [err : Int, age : Int]
        BY <1>2, <4>1, OutlierOfRun
      <4>3. QED
        BY <4>2
    <3>3. QED
      BY <1>1, <2>4, <2>9, <3>1, <3>2, CloseToEachOther
  <2>11. AgreeFrom(longer, first)
    <3> SUFFICES ASSUME NEW i \in first .. Len(longer) - 1
                 PROVE  Close(longer[i + 1].err, longer[i].err, 2 * t)
      BY DEF AgreeFrom
    <3> HIDE DEF t, longer
    <3>1. CASE i = Len(run)
      <4>1. longer[i + 1].err = estErr /\ longer[i] = run[Len(run)]
        BY <1>2, <2>7, <3>1
      <4>2. QED
        BY <2>10, <4>1
    <3>2. CASE i # Len(run)
      <4>1. i \in 1 .. Len(run) /\ i + 1 \in 1 .. Len(run) /\ i \in first .. Len(run) - 1
        <5>1. PICK n \in Nat : n = Len(run)
          BY <1>2
        <5>2. first \in 1 .. n /\ i \in first .. n - 1
          BY <1>2, <2>7, <3>2, <5>1
        <5>3. i \in 1 .. n /\ i + 1 \in 1 .. n
          BY <5>2, StepsOfRun
        <5>4. QED
          BY <5>1, <5>2, <5>3
      <4>2. Close(run[i + 1].err, run[i].err, 2 * t)
        BY <2>9, <4>1 DEF AgreeFrom, t
      <4>3. longer[i] = run[i] /\ longer[i + 1] = run[i + 1]
        BY <1>2, <4>1
      <4>4. QED
        BY <4>2, <4>3
    <3>3. QED
      BY <3>1, <3>2
  <2>12. longer[first].age = j.since /\ Close(longer[Len(longer)].err, j.offset, t)
    <3> HIDE DEF t, longer
    <3>1. longer[Len(longer)].err = estErr /\ longer[first] = run[first]
      BY <1>2, <2>7
    <3>2. QED
      BY <2>5, <2>6, <2>9, <3>1
  <2>13. QED
    <3> HIDE DEF longer
    <3>1. IsRunOf(j, longer)
      BY <2>7, <2>8, <2>11, <2>12 DEF IsRunOf
    <3>2. QED
      BY <2>6, <3>1 DEF longer
<1>4. CASE ~(jump # NoJump /\ Abs(delta) <= Threshold(m))
  <2>1. j = [count |-> 1, since |-> lag, offset |-> estErr]
    BY <1>4 DEF Extended
  <2>2. j \in [count : Nat \ {0}, since : Int, offset : Int]
    BY <2>1
  <2>3. Close(estErr, estErr, t)
    BY <1>1, CloseToItself
  <2>4. Len(longer) - j.count + 1 = Len(longer)
    BY <1>2, <2>1
  <2>5. AgreeFrom(longer, Len(longer))
    <3> HIDE DEF longer
    <3>1. Len(longer) .. Len(longer) - 1 = {}
      BY <1>2
    <3>2. QED
      BY <3>1 DEF AgreeFrom
  <2>6. QED
    <3> HIDE DEF longer
    <3>1. longer[Len(longer)] = [err |-> estErr, age |-> lag] /\ Len(longer) >= 1
      BY <1>2
    <3>2. IsRunOf(j, longer)
      BY <2>1, <2>3, <2>4, <2>5, <3>1 DEF IsRunOf
    <3>3. QED
      BY <2>2, <3>2 DEF longer
<1>5. QED
  BY <1>3, <1>4

(* A candidate that was held is a run of outliers that is long enough. *)
LEMMA OutlierKeeps ==
    ASSUME AlignmentTypeOK, JumpIsRun, precision \in Precisions, precision' = precision,
           NEW k \in Kinds, NEW estErr \in Int, NEW lag \in Int,
           Outlier(estErr, lag, Modulus(k))
    PROVE  /\ AlignmentTypeOK' /\ JumpIsRun'
           /\ discontinuity' => \E n \in 1 .. Len(run') : Sustained(run', n)
<1>1. PICK m \in Nat \ {0}, q \in Int : m = Modulus(k) /\ m = q * Beat
  BY ModulusIsBeats
<1>2. PICK j \in Extended(estErr, lag, m) :
        IF Held(j, lag)
        THEN Snap(j.offset) /\ jump' = NoJump
        ELSE /\ jump' = j
             /\ locked' = TRUE /\ discontinuity' = FALSE
             /\ UNCHANGED <<lock, acquired, off, gap>>
  BY <1>1 DEF Outlier
<1>3. run' = Append(run, [err |-> estErr, age |-> lag])
  BY DEF Outlier
<1>4. j \in [count : Nat \ {0}, since : Int, offset : Int] /\ IsRunOf(j, run')
  BY <1>1, <1>3, ExtendedIsRun
<1>5. /\ run \in Seq([err : Int, age : Int])
      /\ run' \in Seq([err : Int, age : Int])
      /\ Len(run') \in Nat /\ Len(run') >= 1 /\ run'[Len(run')].age = lag
  <2>1. run \in Seq([err : Int, age : Int]) /\ [err |-> estErr, age |-> lag] \in [err : Int, age : Int]
    BY DEF AlignmentTypeOK
  <2>2. QED
    BY <1>3, <2>1
<1>6. CASE Held(j, lag)
  <2>1. Snap(j.offset) /\ jump' = NoJump
    BY <1>2, <1>6
  <2>2. AlignmentTypeOK' /\ JumpIsRun'
    <3>1. j.offset \in Int
      BY <1>4, CandidateFields
    <3>2. AlignmentTypeOK'
      BY <1>5, <2>1, <3>1, SnapTypes
    <3>3. JumpIsRun'
      BY <2>1 DEF JumpIsRun
    <3>4. QED
      BY <3>2, <3>3
  <2>3. j.count \in 1 .. Len(run')
    <3>1. PICK n \in Nat, c \in Nat : n = Len(run') /\ c = j.count /\ c >= 1 /\ n - c + 1 >= 1
      BY <1>4, <1>5, CandidateFields DEF IsRunOf
    <3>2. QED
      BY <3>1
  <2>4. Sustained(run', j.count)
    BY <1>4, <1>5, <1>6 DEF Sustained, IsRunOf, Held
  <2>5. QED
    BY <2>2, <2>3, <2>4
<1>7. CASE ~Held(j, lag)
  <2>1. /\ jump' = j
        /\ locked' = TRUE /\ discontinuity' = FALSE
        /\ UNCHANGED <<lock, acquired, off, gap>>
    BY <1>2, <1>7
  <2>2. JumpIsRun'
    BY <1>4, <2>1 DEF JumpIsRun, IsRunOf, AgreeFrom, Close
  <2>3. AlignmentTypeOK'
    BY <1>4, <1>5, <2>1 DEF AlignmentTypeOK
  <2>4. QED
    BY <2>1, <2>2, <2>3
<1>8. QED
  BY <1>6, <1>7

(* What every step of a follower that holds the invariant does. *)
Earned ==
    discontinuity' /\ lock = "track" /\ ~resync /\ ~WentBack(age') =>
        \E n \in 1 .. Len(run') : Sustained(run', n)

FollowerTypeOK == AlignmentTypeOK /\ precision \in Precisions /\ resync \in BOOLEAN /\ age \in Int /\ age <= Never

Kept == FollowerTypeOK' /\ LockIsFresh' /\ JumpIsRun' /\ Earned

LEMMA PhaseReportKeeps ==
    ASSUME FollowerTypeOK, JumpIsRun, NEW k \in Kinds, NEW lag \in Lags, NEW e \in Int,
           PhaseReport(lag, Modulus(k), e)
    PROVE  Kept
<1> DEFINE m == Modulus(k)
           estErr == Wrap(off + e, m)
           outErr == Wrap(off + gap + e, m)
           afresh == WentBack(lag) \/ resync \/ (lock = "acquire" /\ acquired = 0)
<1>1. m \in Nat \ {0}
  BY ModulusIsBeats
<1>2. off \in Int /\ gap \in Int /\ off + e \in Int /\ off + gap + e \in Int
  BY FollowerAssumption DEF FollowerTypeOK, AlignmentTypeOK
<1>3. estErr \in Int /\ outErr \in Int
  <2> HIDE DEF m
  <2>1. QED
    BY <1>1, <1>2, WrapIsCongruent
<1>4. lag \in Int /\ lag <= LockTimeout /\ LockTimeout \in Nat /\ MaxAhead \in Nat
  BY FollowerAssumption DEF PhaseReport, Accepted
<1>5. precision' = precision /\ precision \in Precisions /\ age' = lag /\ resync' = FALSE
  BY DEF PhaseReport, FollowerTypeOK
<1>6. resync' \in BOOLEAN /\ age' \in Int /\ age' <= Never /\ LockIsFresh'
  <2>1. age' \in Int /\ age' <= LockTimeout /\ age' <= Never
    BY <1>4, <1>5 DEF Never
  <2>2. QED
    BY <1>5, <2>1 DEF LockIsFresh
<1>7. AlignmentTypeOK /\ locked \in BOOLEAN
  BY DEF FollowerTypeOK, AlignmentTypeOK
<1>8. ASSUME AlignmentTypeOK' /\ JumpIsRun',
             afresh \/ lock # "track" \/ ~discontinuity'
                \/ \E n \in 1 .. Len(run') : Sustained(run', n)
      PROVE  Kept
  <2>1. FollowerTypeOK'
    BY <1>5, <1>6, <1>8 DEF FollowerTypeOK
  <2>2. Earned
    BY <1>5, <1>8 DEF Earned
  <2>3. QED
    BY <1>6, <1>8, <2>1, <2>2 DEF Kept
<1>9. CASE afresh /\ BeginAcquire(outErr, locked /\ ~WentBack(lag))
  <2> HIDE DEF outErr
  <2>1. (locked /\ ~WentBack(lag)) \in BOOLEAN
    OBVIOUS
  <2>2. AlignmentTypeOK' /\ JumpIsRun'
    BY <1>3, <1>5, <1>7, <1>9, <2>1, BeginAcquireKeeps
  <2>3. QED
    BY <1>8, <1>9, <2>2
<1>10. CASE lock = "acquire" /\ Acquire(estErr)
  <2> HIDE DEF estErr
  <2>1. AlignmentTypeOK' /\ JumpIsRun'
    BY <1>3, <1>5, <1>7, <1>10, AcquireKeeps
  <2>2. QED
    BY <1>8, <1>10, <2>1
<1>11. CASE lock = "reacquire" /\ BeginAcquire(outErr, FALSE)
  <2> HIDE DEF outErr
  <2>1. AlignmentTypeOK' /\ JumpIsRun'
    BY <1>3, <1>5, <1>7, <1>11, BeginAcquireKeeps
  <2>2. QED
    BY <1>8, <1>11, <2>1
<1>12. CASE Track(estErr)
  <2> HIDE DEF estErr
  <2>1. AlignmentTypeOK' /\ JumpIsRun'
    BY <1>3, <1>7, <1>12, TrackKeeps
  <2>2. ~discontinuity'
    BY <1>12 DEF Track
  <2>3. QED
    BY <1>8, <2>1, <2>2
<1>13. CASE Outlier(estErr, lag, m)
  <2>1. /\ AlignmentTypeOK' /\ JumpIsRun'
        /\ discontinuity' => \E n \in 1 .. Len(run') : Sustained(run', n)
    <3> HIDE DEF estErr
    <3>1. QED
      BY <1>3, <1>4, <1>5, <1>7, <1>13, OutlierKeeps
  <2>2. QED
    BY <1>8, <2>1
<1>14. \/ afresh /\ BeginAcquire(outErr, locked /\ ~WentBack(lag))
       \/ lock = "acquire" /\ Acquire(estErr)
       \/ lock = "reacquire" /\ BeginAcquire(outErr, FALSE)
       \/ Track(estErr)
       \/ Outlier(estErr, lag, m)
  BY DEF PhaseReport
<1>15. QED
  BY <1>9, <1>10, <1>11, <1>12, <1>13, <1>14

(* Reports and the candidate they make grow old together. *)
LEMMA AgesTogether ==
    ASSUME AlignmentTypeOK, JumpIsRun, precision' = precision, NEW f \in [Int -> Int],
           run' = [i \in DOMAIN run |-> [run[i] EXCEPT !.age = f[@]]],
           jump' = IF jump = NoJump THEN NoJump ELSE [jump EXCEPT !.since = f[@]]
    PROVE  /\ run' \in Seq([err : Int, age : Int])
           /\ jump' = NoJump \/ jump' \in [count : Nat \ {0}, since : Int, offset : Int]
           /\ JumpIsRun'
<1>1. /\ run \in Seq([err : Int, age : Int])
      /\ Len(run) \in Nat /\ DOMAIN run = 1 .. Len(run)
  BY DEF AlignmentTypeOK
<1>2. \A i \in 1 .. Len(run) : run[i] \in [err : Int, age : Int]
  BY <1>1, OutlierOfRun
<1>3. /\ run' \in Seq([err : Int, age : Int])
      /\ Len(run') = Len(run)
      /\ \A i \in 1 .. Len(run) : run'[i].err = run[i].err /\ run'[i].age = f[run[i].age]
  <2>1. \A i \in 1 .. Len(run) : /\ [run[i] EXCEPT !.age = f[@]] \in [err : Int, age : Int]
                               /\ [run[i] EXCEPT !.age = f[@]].err = run[i].err
                               /\ [run[i] EXCEPT !.age = f[@]].age = f[run[i].age]
    BY <1>2
  <2>2. run' = [i \in 1 .. Len(run) |-> [run[i] EXCEPT !.age = f[@]]]
    BY <1>1
  <2>3. run' \in [1 .. Len(run) -> [err : Int, age : Int]]
    BY <2>1, <2>2
  <2>4. PICK n \in Nat : n = Len(run) /\ run' \in [1 .. n -> [err : Int, age : Int]]
    BY <1>1, <2>3
  <2>5. run' \in Seq([err : Int, age : Int]) /\ Len(run') = n
    <3> DEFINE S == [err : Int, age : Int]
    <3>1. run' \in [1 .. n -> S]
      BY <2>4
    <3> HIDE DEF S
    <3>2. run' \in Seq(S) /\ Len(run') = n
      BY <3>1, RunOfFunction
    <3>3. QED
      BY <3>2 DEF S
  <2>6. \A i \in 1 .. Len(run) : run'[i] = [run[i] EXCEPT !.age = f[@]]
    BY <2>2
  <2>7. QED
    BY <2>1, <2>4, <2>5, <2>6
<1>4. CASE jump = NoJump
  BY <1>3, <1>4 DEF JumpIsRun
<1>5. CASE jump # NoJump
  <2>1. jump \in [count : Nat \ {0}, since : Int, offset : Int] /\ IsRunOf(jump, run)
    BY <1>5 DEF AlignmentTypeOK, JumpIsRun
  <2>2. jump' = [jump EXCEPT !.since = f[@]] /\ f[jump.since] \in Int
    BY <1>5, <2>1, CandidateFields
  <2>3. /\ jump' \in [count : Nat \ {0}, since : Int, offset : Int]
        /\ jump'.count = jump.count /\ jump'.offset = jump.offset /\ jump'.since = f[jump.since]
    BY <2>1, <2>2
  <2>4. PICK first \in 1 .. Len(run) : first = Len(run) - jump.count + 1
    <3>1. PICK n \in Nat, c \in Nat : n = Len(run) /\ c = jump.count /\ c >= 1 /\ n - c + 1 >= 1
      BY <1>1, <2>1, CandidateFields DEF IsRunOf
    <3>2. n - c + 1 \in 1 .. n
      BY <3>1, LastOfRun
    <3>3. QED
      BY <3>1, <3>2
  <2>5. /\ run[first].age = jump.since
        /\ AgreeFrom(run, first)
        /\ Close(run[Len(run)].err, jump.offset, JumpThreshold[precision])
    BY <2>1, <2>4 DEF IsRunOf
  <2>6. first = Len(run') - jump'.count + 1 /\ first >= 1
    <3>1. jump'.count = jump.count /\ Len(run') = Len(run) /\ first >= 1
      BY <1>1, <1>3, <2>3, <2>4
    <3>2. QED
      BY <2>4, <3>1
  <2>7. run'[first].age = jump'.since
    BY <1>3, <2>3, <2>4, <2>5
  <2>8. \A i \in first .. Len(run') - 1 :
          Close(run'[i + 1].err, run'[i].err, 2 * JumpThreshold[precision])
    <3> SUFFICES ASSUME NEW i \in first .. Len(run) - 1
                 PROVE  Close(run'[i + 1].err, run'[i].err, 2 * JumpThreshold[precision])
      BY <1>3
    <3>1. PICK n \in Nat : n = Len(run)
      BY <1>1
    <3>2. first \in 1 .. n /\ i \in first .. n - 1
      BY <2>4, <3>1
    <3>3. i \in 1 .. n /\ i + 1 \in 1 .. n
      BY <3>2, StepsOfRun
    <3>4. QED
      BY <1>3, <2>5, <3>1, <3>3 DEF AgreeFrom
  <2>9. Close(run'[Len(run')].err, jump'.offset, JumpThreshold[precision])
    <3>1. Len(run) \in 1 .. Len(run)
      BY <1>1, <2>4
    <3>2. QED
      BY <1>3, <2>3, <2>5, <3>1
  <2>10. QED
    BY <1>3, <2>3, <2>6, <2>7, <2>8, <2>9 DEF JumpIsRun, IsRunOf, AgreeFrom, Close
<1>6. QED
  BY <1>4, <1>5

LEMMA TempoReportKeeps ==
    ASSUME FollowerTypeOK, JumpIsRun, NEW lag \in Lags, TempoReport(lag)
    PROVE  Kept
<1>1. lag \in Int /\ lag <= LockTimeout /\ LockTimeout \in Nat
  BY FollowerAssumption DEF TempoReport, Accepted
<1>2. age' = lag /\ locked' = TRUE /\ discontinuity' = FALSE
  BY DEF TempoReport
<1>3. UNCHANGED <<precision, jump, resync, off, gap, run>>
  BY DEF TempoReport
<1>4. age' \in Int /\ age' <= Never /\ age' <= LockTimeout
  BY <1>1, <1>2 DEF Never
<1>5. acquired' \in Nat /\ \E p \in Precisions : acquired' < AcquireObs[p]
  <2>1. acquired' = 0 \/ acquired' = acquired
    BY DEF TempoReport
  <2>2. precision \in Precisions /\ 0 < AcquireObs[precision]
    BY FollowerAssumption DEF FollowerTypeOK
  <2>3. CASE acquired' = 0
    BY <2>2, <2>3
  <2>4. CASE acquired' = acquired
    BY <2>4 DEF FollowerTypeOK, AlignmentTypeOK
  <2>5. QED
    BY <2>1, <2>3, <2>4
<1>6. lock' \in {"acquire", "reacquire", "track"}
  BY DEF TempoReport, FollowerTypeOK, AlignmentTypeOK
<1>7. FollowerTypeOK'
  BY <1>2, <1>3, <1>4, <1>5, <1>6 DEF FollowerTypeOK, AlignmentTypeOK
<1>8. JumpIsRun'
  BY <1>3 DEF JumpIsRun, IsRunOf, AgreeFrom, Close
<1>9. LockIsFresh' /\ Earned
  BY <1>2, <1>4 DEF LockIsFresh, Earned
<1>10. QED
  BY <1>7, <1>8, <1>9 DEF Kept

(* A tick that takes the lock away forgets the candidate; any other lets it   *)
(* grow old.                                                                  *)
LEMMA TickKeeps ==
    ASSUME FollowerTypeOK, LockIsFresh, JumpIsRun, Tick
    PROVE  Kept
<1> DEFINE f == [x \in Int |-> Aged(x, Oldest)]
<1>1. LockTimeout \in Nat /\ age \in Int /\ age <= Never
  BY FollowerAssumption DEF FollowerTypeOK
<1>2. age' \in Int /\ age' <= Never
  <2>1. age' = IF age = Never THEN Never ELSE Aged(age, Forgotten)
    BY DEF Tick
  <2>2. QED
    BY <1>1, <2>1 DEF Aged, Never, Forgotten
<1>3. f \in [Int -> Int] /\ \A x \in Int : f[x] = Aged(x, Oldest)
  <2>1. \A x \in Int : Aged(x, Oldest) \in Int
    BY DEF Aged
  <2>2. QED
    BY <2>1
<1>4. /\ AlignmentTypeOK /\ UNCHANGED <<precision, acquired, resync, off>>
      /\ discontinuity' = FALSE
  BY DEF Tick, FollowerTypeOK
<1>5. /\ run' = [i \in DOMAIN run |-> [run[i] EXCEPT !.age = f[@]]]
  <2>1. \A i \in DOMAIN run : run[i].age \in Int
    <3>1. run \in Seq([err : Int, age : Int]) /\ DOMAIN run = 1 .. Len(run)
      BY <1>4 DEF AlignmentTypeOK
    <3>2. \A i \in DOMAIN run : run[i] \in [err : Int, age : Int]
      BY <3>1, OutlierOfRun
    <3>3. QED
      BY <3>2
  <2>2. run' = [i \in DOMAIN run |-> [run[i] EXCEPT !.age = Aged(@, Oldest)]]
    BY DEF Tick
  <2> HIDE DEF f
  <2>3. QED
    BY <1>3, <2>1, <2>2
<1>6. gap' \in Int
  BY <1>4 DEF Tick, Slew, AlignmentTypeOK
<1>7. CASE locked /\ age' > LockTimeout
  <2>1. locked' = FALSE /\ jump' = NoJump /\ lock' \in {"acquire", "reacquire", "track"}
    BY <1>4, <1>7 DEF Tick, Lose, AlignmentTypeOK
  <2>2. run' \in Seq([err : Int, age : Int])
    <3> DEFINE S == [err : Int, age : Int]
    <3>1. run \in Seq(S) /\ DOMAIN run = 1 .. Len(run) /\ Len(run) \in Nat
      BY <1>4 DEF AlignmentTypeOK
    <3>2. \A i \in DOMAIN run : run[i] \in S
      BY <3>1, OutlierOfRun
    <3>3. \A i \in DOMAIN run : [run[i] EXCEPT !.age = f[@]] \in S
      <4> HIDE DEF f
      <4>1. QED
        BY <1>3, <3>2
    <3>4. run' \in [1 .. Len(run) -> S]
      BY <1>5, <3>1, <3>3
    <3> HIDE DEF S
    <3>5. run' \in Seq(S)
      BY <3>1, <3>4, RunOfFunction
    <3>6. QED
      BY <3>5 DEF S
  <2>3. FollowerTypeOK'
    BY <1>2, <1>4, <1>6, <2>1, <2>2 DEF FollowerTypeOK, AlignmentTypeOK
  <2>4. LockIsFresh' /\ JumpIsRun' /\ Earned
    BY <1>4, <2>1 DEF LockIsFresh, JumpIsRun, Earned
  <2>5. QED
    BY <2>3, <2>4 DEF Kept
<1>8. CASE ~(locked /\ age' > LockTimeout)
  <2>1. /\ jump' = IF jump = NoJump THEN NoJump ELSE [jump EXCEPT !.since = Aged(@, Oldest)]
        /\ UNCHANGED <<locked, lock>>
    BY <1>8 DEF Tick
  <2>2. jump' = IF jump = NoJump THEN NoJump ELSE [jump EXCEPT !.since = f[@]]
    <3> HIDE DEF f
    <3>1. CASE jump = NoJump
      BY <2>1, <3>1
    <3>2. CASE jump # NoJump
      <4>1. jump.since \in Int
        BY <1>4, <3>2, CandidateFields DEF AlignmentTypeOK
      <4>2. QED
        BY <1>3, <2>1, <3>2, <4>1
    <3>3. QED
      BY <3>1, <3>2
  <2>3. /\ run' \in Seq([err : Int, age : Int])
        /\ jump' = NoJump \/ jump' \in [count : Nat \ {0}, since : Int, offset : Int]
        /\ JumpIsRun'
    <3> HIDE DEF f
    <3>1. QED
      BY <1>3, <1>4, <1>5, <2>2, AgesTogether
  <2>4. FollowerTypeOK'
    BY <1>2, <1>4, <1>6, <2>1, <2>3 DEF FollowerTypeOK, AlignmentTypeOK
  <2>5. LockIsFresh'
    BY <1>1, <1>2, <1>8, <2>1 DEF LockIsFresh
  <2>6. Earned
    BY <1>4 DEF Earned
  <2>7. QED
    BY <2>3, <2>4, <2>5, <2>6 DEF Kept
<1>9. QED
  BY <1>7, <1>8

LEMMA RewindKeeps ==
    ASSUME FollowerTypeOK, LockIsFresh, JumpIsRun, Rewind
    PROVE  Kept
<1>1. PICK r \in Rewinds :
        /\ age' = age - r /\ off' = (off + r) % Bar
        /\ jump' = IF jump = NoJump THEN NoJump ELSE [jump EXCEPT !.since = @ - r]
        /\ run' = [i \in DOMAIN run |-> [run[i] EXCEPT !.age = @ - r]]
  BY DEF Rewind
<1> DEFINE f == [x \in Int |-> x - r]
<1>2. r \in Nat /\ age \in Int /\ age <= Never /\ LockTimeout \in Nat
  BY FollowerAssumption DEF FollowerTypeOK
<1>3. f \in [Int -> Int] /\ \A x \in Int : f[x] = x - r
  BY <1>2
<1>4. /\ AlignmentTypeOK /\ discontinuity' = FALSE
      /\ UNCHANGED <<precision, lock, locked, acquired, resync, gap>>
  BY DEF Rewind, FollowerTypeOK
<1>5. run' = [i \in DOMAIN run |-> [run[i] EXCEPT !.age = f[@]]]
  <2>1. run \in Seq([err : Int, age : Int]) /\ DOMAIN run = 1 .. Len(run)
    BY <1>4 DEF AlignmentTypeOK
  <2>2. \A i \in DOMAIN run : run[i] \in [err : Int, age : Int]
    BY <2>1, OutlierOfRun
  <2>3. \A i \in DOMAIN run : run[i].age \in Int
    BY <2>2
  <2> HIDE DEF f
  <2>4. QED
    BY <1>1, <1>3, <2>3
<1>6. jump' = IF jump = NoJump THEN NoJump ELSE [jump EXCEPT !.since = f[@]]
  <2> HIDE DEF f
  <2>1. CASE jump = NoJump
    BY <1>1, <2>1
  <2>2. CASE jump # NoJump
    <3>1. jump.since \in Int
      BY <1>4, <2>2, CandidateFields DEF AlignmentTypeOK
    <3>2. QED
      BY <1>1, <1>3, <2>2, <3>1
  <2>3. QED
    BY <2>1, <2>2
<1>7. /\ run' \in Seq([err : Int, age : Int])
      /\ jump' = NoJump \/ jump' \in [count : Nat \ {0}, since : Int, offset : Int]
      /\ JumpIsRun'
  <2> HIDE DEF f
  <2>1. QED
    BY <1>3, <1>4, <1>5, <1>6, AgesTogether
<1>8. off' \in 0 .. Bar - 1
  <2>1. off + r \in Int
    BY <1>2, <1>4, FollowerAssumption DEF AlignmentTypeOK
  <2>2. QED
    BY <1>1, <2>1, MovesOnTheBar
<1>9. age' \in Int /\ age' <= Never /\ (age <= LockTimeout => age' <= LockTimeout)
  BY <1>1, <1>2 DEF Never
<1>10. FollowerTypeOK'
  BY <1>4, <1>7, <1>8, <1>9 DEF FollowerTypeOK, AlignmentTypeOK
<1>11. LockIsFresh' /\ Earned
  BY <1>4, <1>9 DEF LockIsFresh, Earned
<1>12. QED
  BY <1>7, <1>10, <1>11 DEF Kept

(* The steps that leave the candidate and its run alone, or forget it. *)
LEMMA OthersKeep ==
    ASSUME FollowerTypeOK, LockIsFresh, JumpIsRun,
           SetPrecision \/ RequestResync \/ SourceJumps \/ GoQuiet \/ ComeBack
    PROVE  Kept
<1>1. /\ UNCHANGED <<locked, acquired, age, gap, run>>
      /\ discontinuity' = FALSE
  BY DEF SetPrecision, RequestResync, SourceJumps, GoQuiet, ComeBack, followerVars
<1>2. lock' \in {"acquire", "reacquire", "track"}
  BY DEF SetPrecision, RequestResync, SourceJumps, GoQuiet, ComeBack, followerVars,
         FollowerTypeOK, AlignmentTypeOK
<1>3. precision' \in Precisions /\ resync' \in BOOLEAN
  BY DEF SetPrecision, RequestResync, SourceJumps, GoQuiet, ComeBack, followerVars,
         FollowerTypeOK
<1>4. off' \in 0 .. Bar - 1
  <2>1. CASE SourceJumps
    <3>1. PICK x \in Shifts : off' = (off + x) % Bar
      BY <2>1 DEF SourceJumps
    <3>2. off + x \in Int
      BY FollowerAssumption DEF FollowerTypeOK, AlignmentTypeOK
    <3>3. QED
      BY <3>1, <3>2, MovesOnTheBar
  <2>2. CASE SetPrecision \/ RequestResync \/ GoQuiet \/ ComeBack
    <3>1. off' = off
      BY <2>2 DEF SetPrecision, RequestResync, GoQuiet, ComeBack, followerVars
    <3>2. QED
      BY <3>1 DEF FollowerTypeOK, AlignmentTypeOK
  <2>3. QED
    BY <2>1, <2>2
<1>5. jump' = NoJump \/ (jump' = jump /\ precision' = precision)
  BY DEF SetPrecision, RequestResync, SourceJumps, GoQuiet, ComeBack, followerVars
<1>6. JumpIsRun'
  BY <1>1, <1>5 DEF JumpIsRun, IsRunOf, AgreeFrom, Close
<1>7. jump' = NoJump \/ jump' \in [count : Nat \ {0}, since : Int, offset : Int]
  BY <1>5 DEF FollowerTypeOK, AlignmentTypeOK
<1>8. FollowerTypeOK'
  BY <1>1, <1>2, <1>3, <1>4, <1>7 DEF FollowerTypeOK, AlignmentTypeOK
<1>9. LockIsFresh' /\ Earned
  BY <1>1 DEF LockIsFresh, Earned
<1>10. QED
  BY <1>6, <1>8, <1>9 DEF Kept

-----------------------------------------------------------------------------
(* The invariant                                                             *)

Inv == TypeOK /\ LockIsFresh /\ JumpIsRun

LEMMA InitInv ==
    ASSUME Init
    PROVE  Inv
<1>1. precision \in Precisions /\ acquired = 0 /\ 0 < AcquireObs[precision]
  BY FollowerAssumption DEF Init
<1>2. acquired \in Nat /\ \E p \in Precisions : acquired < AcquireObs[p]
  BY <1>1
<1>3. run \in Seq([err : Int, age : Int]) /\ jump = NoJump
  BY EmptyRun DEF Init
<1>4. age \in Int /\ age <= Never /\ trouble \in 0 .. MaxTrouble
  BY FollowerAssumption DEF Init, Never
<1>5. TypeOK
  <2>1. lock \in {"acquire", "reacquire", "track"} /\ locked \in BOOLEAN /\ discontinuity \in BOOLEAN
    BY DEF Init
  <2>2. off \in 0 .. Bar - 1 /\ gap \in Int
    BY DEF Init
  <2>3. AlignmentTypeOK
    BY <1>2, <1>3, <2>1, <2>2 DEF AlignmentTypeOK
  <2>4. resync \in BOOLEAN /\ kind \in Kinds /\ quiet \in BOOLEAN
    BY DEF Init
  <2>5. QED
    BY <1>1, <1>4, <2>3, <2>4 DEF TypeOK
<1>6. LockIsFresh /\ JumpIsRun
  BY <1>3 DEF Init, LockIsFresh, JumpIsRun
<1>7. QED
  BY <1>5, <1>6 DEF Inv

LEMMA StepKeeps ==
    ASSUME Inv, Next
    PROVE  Kept
<1>1. FollowerTypeOK /\ LockIsFresh /\ JumpIsRun
  BY DEF Inv, TypeOK, FollowerTypeOK
<1>2. kind \in Kinds
  BY DEF Inv, TypeOK
<1>3. ASSUME NEW lag \in Lags, GoodReport(lag)
      PROVE  Kept
  <2>1. PhaseReport(lag, Modulus(kind), 0)
    BY <1>3 DEF GoodReport
  <2>2. QED
    BY <1>1, <1>2, <2>1, PhaseReportKeeps
<1>4. ASSUME NEW lag \in Lags, TempoOnly(lag)
      PROVE  Kept
  BY <1>1, <1>4, TempoReportKeeps DEF TempoOnly
<1>5. ASSUME NEW lag \in Lags, BadReport(lag)
      PROVE  Kept
  <2>1. PICK k \in Kinds, e \in Errors : PhaseReport(lag, Modulus(k), e)
    BY <1>5 DEF BadReport
  <2>2. e \in Int
    BY FollowerAssumption
  <2>3. QED
    BY <1>1, <2>1, <2>2, PhaseReportKeeps
<1>6. CASE TimePasses
  BY <1>1, <1>6, TickKeeps DEF TimePasses
<1>7. CASE SetPrecision \/ RequestResync \/ SourceJumps \/ GoQuiet \/ ComeBack
  BY <1>1, <1>7, OthersKeep
<1>8. CASE Rewind
  BY <1>1, <1>8, RewindKeeps
<1>9. QED
  BY <1>3, <1>4, <1>5, <1>6, <1>7, <1>8 DEF Next

(* Only an exceptional step counts as trouble, and there are at most MaxTrouble. *)
LEMMA WorldKeeps ==
    ASSUME Inv, Next
    PROVE  kind' \in Kinds /\ quiet' \in BOOLEAN /\ trouble' \in 0 .. MaxTrouble
<1>1. kind \in Kinds /\ quiet \in BOOLEAN /\ trouble \in 0 .. MaxTrouble /\ MaxTrouble \in Nat
  BY FollowerAssumption DEF Inv, TypeOK
<1>2. kind' = kind
  BY DEF Next, GoodReport, TempoOnly, BadReport, TimePasses, ComeBack, GoQuiet,
         SetPrecision, RequestResync, SourceJumps, Rewind, worldVars
<1>3. quiet' \in BOOLEAN
  BY <1>1 DEF Next, GoodReport, TempoOnly, BadReport, TimePasses, ComeBack, GoQuiet,
         SetPrecision, RequestResync, SourceJumps, Rewind, worldVars
<1>4. trouble' = trouble \/ (trouble < MaxTrouble /\ trouble' = trouble + 1)
  BY DEF Next, GoodReport, TempoOnly, BadReport, TimePasses, ComeBack, GoQuiet,
         SetPrecision, RequestResync, SourceJumps, Rewind, worldVars, Trouble
<1>5. trouble' \in 0 .. MaxTrouble
  BY <1>1, <1>4
<1>6. QED
  BY <1>1, <1>2, <1>3, <1>5

LEMMA NextInv ==
    ASSUME Inv, [Next]_vars
    PROVE  Inv'
<1>1. CASE Next
  <2>1. Kept /\ kind' \in Kinds /\ quiet' \in BOOLEAN /\ trouble' \in 0 .. MaxTrouble
    BY <1>1, StepKeeps, WorldKeeps
  <2>2. QED
    BY <2>1 DEF Kept, FollowerTypeOK, Inv, TypeOK
<1>2. CASE UNCHANGED vars
  BY <1>2 DEF vars, followerVars, worldVars, Inv, TypeOK, AlignmentTypeOK, LockIsFresh,
              JumpIsRun, IsRunOf, AgreeFrom, Close
<1>3. QED
  BY <1>1, <1>2

LEMMA Invariance == Spec => []Inv
<1>1. Init => Inv
  BY InitInv
<1>2. Inv /\ [Next]_vars => Inv'
  BY NextInv
<1>3. QED
  BY <1>1, <1>2, PTL DEF Spec

(* The variables keep their types for every tuning and every bar. *)
THEOREM TypeCorrect == Spec => []TypeOK
<1>1. Inv => TypeOK
  BY DEF Inv
<1>2. QED
  BY <1>1, Invariance, PTL

(* A follower never says that it is locked to a source it has not heard from *)
(* for longer than the timeout, whatever the delays of its reports and the   *)
(* steps of its own clock (is_locked).                                       *)
THEOREM LockFresh == Spec => []LockIsFresh
<1>1. Inv => LockIsFresh
  BY DEF Inv
<1>2. QED
  BY <1>1, Invariance, PTL

(* A candidate jump counts reports that came in a row and agreed, however    *)
(* many: its mean has not drifted from the last of them (observe_phase).     *)
THEOREM CandidateIsRun == Spec => []JumpIsRun
<1>1. Inv => JumpIsRun
  BY DEF Inv
<1>2. QED
  BY <1>1, Invariance, PTL

(* A follower that tracks snaps only to what enough reports in a row, over   *)
(* long enough, agreed on (docs/adr/0006: a single late packet never snaps). *)
THEOREM SnapsEarned == Spec => SnapsAreEarned
<1>1. Inv /\ [Next]_vars => [Earned]_vars
  BY StepKeeps DEF Kept
<1>2. [Earned]_vars =>
      [discontinuity' /\ lock = "track" /\ ~resync /\ ~WentBack(age') =>
          \E n \in 1 .. Len(run') : Sustained(run', n)]_vars
  BY DEF Earned
<1>3. QED
  BY <1>1, <1>2, Invariance, PTL DEF Spec, SnapsAreEarned
-----------------------------------------------------------------------------
(* A follower that found its source                                          *)

(* The delays of reports differ by no more than the timeout.  If they did,   *)
(* an early report and a nearly stale one after it would look like a clock   *)
(* of ours that went back, and the follower would begin afresh.              *)
Punctual == \A a, b \in Lags : a - b <= LockTimeout

(* It stays where the source is, it may miss the source but has not forgotten *)
(* it, and it has used a report.                                             *)
Found ==
    /\ lock \in {"track", "reacquire"} /\ ~resync
    /\ gap = 0 /\ off % Modulus(kind) = 0
    /\ \E b \in Lags : b <= age

SettledInv == settled \in BOOLEAN /\ (settled => Found)

LEMMA ThresholdIsNatural ==
    ASSUME NEW m \in Nat \ {0}, precision \in Precisions
    PROVE  Threshold(m) \in Int /\ 0 <= Threshold(m)
<1>1. PICK a \in Nat : a = JumpThreshold[precision]
  BY FollowerAssumption
<1>2. PICK b \in Nat : b = (9 * m) \div 20
  <2>1. (9 * m) \div 20 \in Nat
    OBVIOUS
  <2>2. QED
    BY <2>1
<1>3. \E x \in {a, b} : \A y \in {a, b} : x <= y
  OBVIOUS
<1>4. Min({a, b}) \in {a, b}
  BY <1>3 DEF Min
<1>5. Threshold(m) = Min({a, b})
  BY <1>1, <1>2 DEF Threshold
<1>6. QED
  BY <1>4, <1>5

LEMMA WrapOfCircles ==
    ASSUME NEW m \in Nat \ {0}, NEW x \in Int, x % m = 0
    PROVE  Wrap(x, m) = 0
BY DEF Wrap

LEMMA StaysOnTheBar ==
    ASSUME NEW x \in 0 .. Bar - 1
    PROVE  x % Bar = x
BY FollowerAssumption

(* A good report only says again where the source is. *)
LEMMA GoodReportConfirms ==
    ASSUME Punctual, Inv, Found, NEW lag \in Lags, GoodReport(lag)
    PROVE  Found' /\ ~discontinuity'
<1> DEFINE m == Modulus(kind)
<1>1. /\ precision \in Precisions /\ kind \in Kinds
      /\ off \in 0 .. Bar - 1 /\ off \in Int /\ age \in Int
  BY FollowerAssumption DEF Inv, TypeOK, AlignmentTypeOK
<1>2. m \in Nat \ {0}
  BY <1>1, ModulusIsBeats
<1>3. /\ Accepted(lag) /\ age' = lag /\ resync' = FALSE /\ kind' = kind
  BY DEF GoodReport, PhaseReport, worldVars
<1>4. ~WentBack(lag)
  <2>1. PICK b \in Lags : b <= age
    BY DEF Found
  <2>2. lag \in Int /\ b \in Int /\ lag - b <= LockTimeout /\ LockTimeout \in Nat
    BY FollowerAssumption DEF Punctual
  <2>3. QED
    BY <1>1, <2>1, <2>2 DEF WentBack
<1>5. off + 0 = off /\ off + gap + 0 = off /\ off % m = 0
  BY <1>1 DEF Found
<1>6. Wrap(off + 0, m) = 0 /\ Wrap(off + gap + 0, m) = 0
  BY <1>1, <1>2, <1>5, WrapOfCircles
<1>7. Abs(0) <= Threshold(m) /\ ~(Abs(0) > Threshold(m))
  BY <1>1, <1>2, ThresholdIsNatural DEF Abs
<1>8. Track(0)
  <2>1. PhaseReport(lag, m, 0) /\ ~resync /\ lock \in {"track", "reacquire"}
    BY DEF GoodReport, Found
  <2> HIDE DEF m
  <2>2. QED
    BY <1>4, <1>6, <1>7, <2>1 DEF PhaseReport
<1>9. PICK d \in PartsOf(0) : MoveEstimate(d)
  BY <1>8 DEF Track
<1>10. d = 0
  BY DEF PartsOf
<1>11. off' = off /\ gap' = 0
  <2>1. off' = (off - 0) % Bar /\ gap' = gap + 0
    BY <1>9, <1>10 DEF MoveEstimate
  <2>2. off - 0 = off /\ gap = 0
    BY <1>1 DEF Found
  <2>3. QED
    BY <1>1, <2>1, <2>2, StaysOnTheBar
<1>12. lock' = "track" /\ ~discontinuity'
  BY <1>8 DEF Track
<1>13. \E b \in Lags : b <= age'
  <2>1. lag <= lag
    BY FollowerAssumption
  <2>2. QED
    BY <1>3, <2>1
<1>14. off' % Modulus(kind') = 0
  BY <1>3, <1>5, <1>11
<1>15. QED
  BY <1>3, <1>11, <1>12, <1>13, <1>14 DEF Found

(* What it is found by. *)
LEMMA GoodReportFinds ==
    ASSUME Inv, NEW lag \in Lags, GoodReport(lag), lock' = "track", InPlace'
    PROVE  Found'
<1>1. age' = lag /\ resync' = FALSE
  BY DEF GoodReport, PhaseReport
<1>2. lag <= lag
  BY FollowerAssumption
<1>3. QED
  BY <1>1, <1>2 DEF Found, InPlace

(* A tempo, a tick, a silence and a new tuning leave the place alone. *)
LEMMA OthersLeaveThePlace ==
    ASSUME Punctual, Inv, Found,
           \/ \E lag \in Lags : TempoOnly(lag)
           \/ TimePasses \/ ComeBack \/ GoQuiet \/ SetPrecision
    PROVE  Found' /\ ~discontinuity'
<1>1. age \in Int /\ age <= Never /\ LockTimeout \in Nat
  BY FollowerAssumption DEF Inv, TypeOK
<1>2. PICK b \in Lags : b <= age
  BY DEF Found
<1>3. b \in Int
  BY FollowerAssumption
<1>4. ASSUME NEW lag \in Lags, TempoOnly(lag)
      PROVE  Found' /\ ~discontinuity'
  <2>1. TempoReport(lag) /\ kind' = kind
    BY <1>4 DEF TempoOnly, worldVars
  <2>2. lag \in Int /\ lag - b <= LockTimeout
    BY FollowerAssumption DEF Punctual
  <2>3. ~WentBack(lag)
    BY <1>1, <1>2, <1>3, <2>2 DEF WentBack
  <2>4. lock' \in {"track", "reacquire"} /\ ~discontinuity' /\ age' = lag
    BY <2>1, <2>3 DEF TempoReport, Found
  <2>5. UNCHANGED <<resync, off, gap>>
    BY <2>1 DEF TempoReport
  <2>6. lag <= age'
    BY <2>2, <2>4
  <2>7. QED
    BY <2>1, <2>4, <2>5, <2>6 DEF Found
<1>5. CASE TimePasses
  <2>1. Tick /\ kind' = kind
    BY <1>5 DEF TimePasses, worldVars
  <2>2. UNCHANGED <<resync, off>> /\ ~discontinuity'
    BY <2>1 DEF Tick
  <2>3. gap' = 0
    BY <2>1 DEF Tick, Slew, Found
  <2>4. lock' \in {"track", "reacquire"}
    BY <2>1 DEF Tick, Lose, Found
  <2>5. b <= age'
    <3>1. age' = IF age = Never THEN Never ELSE Aged(age, Forgotten)
      BY <2>1 DEF Tick
    <3>2. QED
      BY <1>1, <1>2, <1>3, <3>1 DEF Aged, Never, Forgotten
  <2>6. QED
    BY <2>1, <2>2, <2>3, <2>4, <2>5 DEF Found
<1>6. CASE ComeBack \/ GoQuiet \/ SetPrecision
  <2>1. UNCHANGED <<resync, off, gap, age, kind>> /\ ~discontinuity'
    BY <1>6 DEF ComeBack, GoQuiet, SetPrecision, followerVars
  <2>2. lock' \in {"track", "reacquire"}
    BY <1>6 DEF ComeBack, GoQuiet, SetPrecision, followerVars, Found
  <2>3. QED
    BY <2>1, <2>2 DEF Found
<1>7. QED
  BY <1>4, <1>5, <1>6

LEMMA SettledStep ==
    ASSUME Punctual, Inv, SettledInv, [Next]_vars
    PROVE  SettledInv' /\ [settled /\ settled' => ~discontinuity']_vars
<1>1. ASSUME NEW lag \in Lags, GoodReport(lag)
      PROVE  SettledInv' /\ (settled /\ settled' => ~discontinuity')
  <2>1. settled' = (settled \/ (lock' = "track" /\ InPlace'))
    BY <1>1 DEF GoodReport
  <2>2. CASE settled
    <3>1. Found
      BY <2>2 DEF SettledInv
    <3>2. Found' /\ ~discontinuity'
      BY <1>1, <3>1, GoodReportConfirms
    <3>3. settled' \in BOOLEAN
      BY <2>1, <2>2
    <3>4. QED
      BY <3>2, <3>3 DEF SettledInv
  <2>3. CASE ~settled
    <3>1. settled' = (lock' = "track" /\ InPlace')
      BY <2>1, <2>3 DEF SettledInv
    <3>2. settled' => Found'
      BY <1>1, <3>1, GoodReportFinds
    <3>3. settled' \in BOOLEAN
      BY <3>1
    <3>4. QED
      BY <2>3, <3>2, <3>3 DEF SettledInv
  <2>4. QED
    BY <2>2, <2>3
<1>2. CASE \/ \E lag \in Lags : TempoOnly(lag)
           \/ TimePasses \/ ComeBack \/ GoQuiet \/ SetPrecision
  <2>1. settled' = settled
    BY <1>2 DEF TempoOnly, TimePasses, ComeBack, GoQuiet, SetPrecision
  <2>2. settled => Found' /\ ~discontinuity'
    BY <1>2, OthersLeaveThePlace DEF SettledInv
  <2>3. QED
    BY <2>1, <2>2 DEF SettledInv
<1>3. CASE \/ \E lag \in Lags : BadReport(lag)
           \/ RequestResync \/ SourceJumps \/ Rewind
  <2>1. settled' = FALSE
    BY <1>3 DEF BadReport, RequestResync, SourceJumps, Rewind
  <2>2. QED
    BY <2>1 DEF SettledInv
<1>4. CASE UNCHANGED vars
  BY <1>4 DEF vars, followerVars, worldVars, SettledInv, Found
<1>5. QED
  BY <1>1, <1>2, <1>3, <1>4 DEF Next

(* A follower that found its source never jumps while nothing goes wrong but *)
(* silences, late and repeated reports and changes of precision: whatever    *)
(* the tuning, it takes up again where it was (docs/adr/0006).               *)
THEOREM NeverNeedless ==
    ASSUME Punctual
    PROVE  Spec => NoNeedlessSnap
<1>1. Init => SettledInv
  BY DEF Init, SettledInv
<1>2. Inv /\ SettledInv /\ [Next]_vars => SettledInv'
  BY SettledStep
<1>3. Inv /\ SettledInv /\ [Next]_vars => [settled /\ settled' => ~discontinuity']_vars
  BY SettledStep
<1>4. QED
  BY <1>1, <1>2, <1>3, Invariance, PTL DEF Spec, NoNeedlessSnap
=============================================================================
