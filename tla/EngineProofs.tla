---------------------------- MODULE EngineProofs ----------------------------
(* Whatever pattern, lookahead, blocks, queue and calls there are: what the  *)
(* clock and the log of queued steps return, that every variable keeps its   *)
(* type, that the events held for the voices stay in order and none that is  *)
(* due is held over, that no trigger is lost at a full queue, that the       *)
(* renderer ends up with the parameter that was sent last, that after a      *)
(* restart the old run is silent, that the log tells what is heard, that     *)
(* steps are scheduled in their order, and that no hit is heard twice.       *)
EXTENDS Engine, FunctionTheorems, FiniteSetTheorems, SequenceTheorems, WellFoundedInduction,
        TLAPS

-----------------------------------------------------------------------------
(* Greatest and least numbers *)

LEMMA LeastOf ==
  ASSUME NEW S \in SUBSET Nat, S # {}
  PROVE  \E m \in S : \A n \in S : m <= n
<1> DEFINE Below == {0 .. m : m \in S}
<1>1. Below \subseteq FiniteSubsetsOf(Nat) /\ Below # {}
  <2>1. ASSUME NEW m \in S
        PROVE  0 .. m \in FiniteSubsetsOf(Nat)
    <3>1. m \in Int /\ 0 \in Int /\ 0 .. m \in SUBSET Nat
      OBVIOUS
    <3>2. IsFiniteSet(0 .. m)
      BY <3>1, FS_Interval
    <3>3. QED
      BY <3>1, <3>2 DEF FiniteSubsetsOf
  <2>2. QED
    BY <2>1
<1>2. PICK x \in Below : \A y \in Below : <<y, x>> \notin StrictSubsetOrdering(Nat)
  <2> HIDE DEF Below
  <2> QED BY <1>1, FS_StrictSubsetOrderingWellFounded, WFMin
<1>3. PICK m \in S : x = 0 .. m
  OBVIOUS
<1>4. ASSUME NEW n \in S, n < m
      PROVE  FALSE
  <2>1. n \in Nat /\ m \in Nat
    OBVIOUS
  <2>2. (0 .. n) \subseteq (0 .. m) /\ m \in 0 .. m /\ m \notin 0 .. n
    BY <1>4, <2>1
  <2>3. (0 .. n) \in SUBSET Nat /\ (0 .. m) \in SUBSET Nat /\ (0 .. n) # (0 .. m)
    BY <2>1, <2>2
  <2>4. <<0 .. n, 0 .. m>> \in StrictSubsetOrdering(Nat)
    BY <2>2, <2>3 DEF StrictSubsetOrdering
  <2>5. (0 .. n) \in Below
    OBVIOUS
  <2>6. QED
    BY <1>2, <1>3, <2>4, <2>5
<1>5. QED
  BY <1>4

LEMMA GreatestOf ==
  ASSUME NEW S \in SUBSET Nat, S # {}, NEW b \in Nat, \A x \in S : x <= b
  PROVE  \E m \in S : \A n \in S : n <= m
<1> DEFINE Above == {u \in Nat : \A x \in S : x <= u}
<1>1. Above \in SUBSET Nat /\ b \in Above
  OBVIOUS
<1>2. PICK u \in Above : \A w \in Above : u <= w
  <2> HIDE DEF Above
  <2> QED BY <1>1, LeastOf
<1>3. u \in Nat /\ \A x \in S : x \in Nat /\ x <= u
  OBVIOUS
<1>4. u \in S
  <2>1. SUFFICES ASSUME u \notin S PROVE FALSE
    OBVIOUS
  <2>2. \A x \in S : x < u
    BY <1>3, <2>1
  <2>3. PICK x \in S : TRUE
    OBVIOUS
  <2>4. u - 1 \in Nat
    BY <1>3, <2>2, <2>3
  <2>5. u - 1 \in Above
    BY <1>3, <2>2, <2>4
  <2>6. QED
    BY <1>2, <1>3, <2>5
<1>5. QED
  BY <1>3, <1>4

\* A finite set of numbers has a greatest: the part of it from a number on is
\* smallest there.
LEMMA FiniteMax ==
  ASSUME NEW S \in SUBSET Nat, IsFiniteSet(S), S # {}
  PROVE  Max(S) \in S
<1> DEFINE From(m) == {n \in S : n >= m}
           Froms == {From(m) : m \in S}
<1>1. Froms \subseteq FiniteSubsetsOf(S) /\ Froms # {}
  <2>1. ASSUME NEW m \in S
        PROVE  From(m) \in FiniteSubsetsOf(S)
    <3>1. From(m) \in SUBSET S
      OBVIOUS
    <3>2. IsFiniteSet(From(m))
      BY <3>1, FS_Subset
    <3>3. QED
      BY <3>1, <3>2 DEF FiniteSubsetsOf
  <2>2. QED
    BY <2>1
<1>2. PICK x \in Froms : \A y \in Froms : <<y, x>> \notin StrictSubsetOrdering(S)
  <2> HIDE DEF Froms
  <2> QED BY <1>1, FS_StrictSubsetOrderingWellFounded, WFMin
<1>3. PICK m \in S : x = From(m)
  OBVIOUS
<1>4. ASSUME NEW n \in S, ~(m >= n)
      PROVE  FALSE
  <2>1. n \in Nat /\ m \in Nat /\ m < n
    BY <1>4
  <2>2. From(n) \subseteq From(m)
    <3>1. \A k \in S : k >= n => k >= m
      BY <2>1
    <3>2. QED
      BY <3>1
  <2>3. m \in From(m) /\ m \notin From(n)
    BY <2>1
  <2>4. From(n) \in SUBSET S /\ From(m) \in SUBSET S /\ From(n) # From(m)
    BY <2>3
  <2>5. <<From(n), From(m)>> \in StrictSubsetOrdering(S)
    BY <2>2, <2>4 DEF StrictSubsetOrdering
  <2>6. From(n) \in Froms
    OBVIOUS
  <2>7. QED
    BY <1>2, <1>3, <2>5, <2>6
<1>5. \E k \in S : \A n \in S : k >= n
  BY <1>4
<1>6. QED
  BY <1>5 DEF Max

LEMMA MaxIs ==
  ASSUME NEW S \in SUBSET Nat, S # {}, NEW b \in Nat, \A x \in S : x <= b
  PROVE  Max(S) \in S /\ \A x \in S : x <= Max(S)
<1>1. \E m \in S : \A n \in S : m >= n
  BY GreatestOf
<1>2. QED
  BY <1>1 DEF Max

LEMMA MinIs ==
  ASSUME NEW S \in SUBSET Nat, S # {}
  PROVE  Min(S) \in S /\ \A x \in S : Min(S) <= x
<1>1. \E m \in S : \A n \in S : m <= n
  BY LeastOf
<1>2. QED
  BY <1>1 DEF Min

\* The greatest of finitely many numbers, which a finite set has.
LEMMA MaxOfTwo ==
  ASSUME NEW a \in Nat, NEW b \in Nat
  PROVE  /\ Max({a, b}) \in Nat /\ Max({a, b}) >= a /\ Max({a, b}) >= b
         /\ Max({a, b}) = a \/ Max({a, b}) = b
         /\ Max({a}) = a
         /\ Min({a, b}) \in Nat /\ Min({a, b}) <= a /\ Min({a, b}) <= b
<1>1. Max({a, b}) \in {a, b} /\ \A x \in {a, b} : x <= Max({a, b})
  <2>1. {a, b} \in SUBSET Nat /\ {a, b} # {} /\ a + b \in Nat /\ \A x \in {a, b} : x <= a + b
    OBVIOUS
  <2>2. QED
    BY <2>1, MaxIs
<1>2. Max({a}) \in {a}
  <2>1. {a} \in SUBSET Nat /\ {a} # {} /\ \A x \in {a} : x <= a
    OBVIOUS
  <2>2. QED
    BY <2>1, MaxIs
<1>3. Min({a, b}) \in {a, b} /\ \A x \in {a, b} : Min({a, b}) <= x
  <2>1. {a, b} \in SUBSET Nat /\ {a, b} # {}
    OBVIOUS
  <2>2. QED
    BY <2>1, MinIs
<1>4. QED
  BY <1>1, <1>2, <1>3

\* How many of 0 .. n there are with a property that 0 has.
LEMMA MostOf ==
  ASSUME NEW n \in Nat, NEW S \in SUBSET (0 .. n), 0 \in S
  PROVE  Max(S) \in S /\ Max(S) \in 0 .. n /\ \A x \in S : x <= Max(S)
<1>1. S \in SUBSET Nat /\ S # {} /\ \A x \in S : x <= n
  OBVIOUS
<1>2. QED
  BY <1>1, MaxIs

-----------------------------------------------------------------------------
(* The clock *)

LEMMA DivIs ==
  ASSUME NEW x \in Int, NEW d \in Nat \ {0}
  PROVE  /\ x \div d \in Int
         /\ (x \div d) * d <= x /\ x < (x \div d) * d + d
<1>1. x = d * (x \div d) + (x % d) /\ x \div d \in Int /\ x % d \in 0 .. d - 1
  OBVIOUS
<1>2. QED
  BY <1>1

LEMMA MoreIsFurther ==
  ASSUME NEW a \in Int, NEW b \in Int, NEW d \in Nat, a <= b
  PROVE  a * d <= b * d
OBVIOUS

\* How much later than a beat of the same length an odd step is.
Late(c, k) == (k % 2) * Swing * (c.len \div 4)

LEMMA LateIsLittle ==
  ASSUME NEW c \in Clock, NEW k \in Nat
  PROVE  Late(c, k) \in Nat /\ 2 * Late(c, k) <= c.len
<1>1. c.len \in Nat /\ c.len > 0
  BY DEF Clock
<1>2. k % 2 \in {0, 1}
  OBVIOUS
<1>3. Swing \in {0, 1, 2}
  BY SwingAssumption
<1>4. c.len \div 4 \in Nat /\ 4 * (c.len \div 4) <= c.len
  BY <1>1
<1>5. QED
  BY <1>1, <1>2, <1>3, <1>4 DEF Late

LEMMA PlaceOfStep ==
  ASSUME NEW c \in Clock, NEW k \in Nat
  PROVE  /\ k * c.len \in Nat
         /\ StepPosition(c, k) = c.anchor + k * c.len + Late(c, k)
         /\ StepPosition(c, k) \in Int
         /\ StepSample(c, k) \in Nat
<1>1. c.anchor \in Int /\ c.len \in Nat
  BY DEF Clock
<1>2. k * c.len \in Nat
  BY <1>1
<1>3. StepPosition(c, k) = c.anchor + k * c.len + Late(c, k)
  BY DEF StepPosition, Late
<1>4. StepPosition(c, k) \in Int
  BY <1>1, <1>2, <1>3, LateIsLittle
<1>5. StepSample(c, k) \in Nat
  BY <1>4 DEF StepSample
<1>6. QED
  BY <1>2, <1>3, <1>4, <1>5

(* first_step_at_or_after needs to look no further than it does, and finds   *)
(* the first step of all at or after a sample, not only the first it looks   *)
(* at: one step back is enough for any swing the code allows (scheduler.rs,  *)
(* first_step_at_or_after).                                                  *)
THEOREM FirstStepIsFirst ==
  ASSUME NEW c \in Clock, NEW sample \in Nat
  PROVE  /\ FirstStepAtOrAfter(c, sample) \in Nat
         /\ StepSample(c, FirstStepAtOrAfter(c, sample)) >= sample
         /\ sample > 0 => \A j \in 0 .. FirstStepAtOrAfter(c, sample) - 1 :
                            StepSample(c, j) < sample
<1> DEFINE behind == (2 * sample - c.anchor) \div c.len
           from == IF behind <= 1 THEN 0 ELSE behind - 1
           At(k) == StepSample(c, k) >= sample
           First(k) == k \in from .. from + 3 /\ At(k) /\ \A j \in from .. k - 1 : StepSample(c, j) < sample
<1>1. c.anchor \in Int /\ c.len \in Nat /\ c.len > 0
  BY DEF Clock
<1>2. /\ behind \in Int
      /\ behind * c.len <= 2 * sample - c.anchor
      /\ 2 * sample - c.anchor < behind * c.len + c.len
  <2>1. 2 * sample - c.anchor \in Int /\ c.len \in Nat \ {0}
    BY <1>1
  <2>2. \A x \in Int : /\ x \div c.len \in Int
                       /\ (x \div c.len) * c.len <= x
                       /\ x < (x \div c.len) * c.len + c.len
    BY <2>1, DivIs
  <2>3. QED
    BY <2>1, <2>2
<1> HIDE DEF behind
<1>3. from \in Nat /\ (behind > 1 => from = behind - 1) /\ from + 2 >= behind + 1
  BY <1>2
<1> HIDE DEF from
<1>4. At(from + 2)
  <2>1. (behind + 1) * c.len <= (from + 2) * c.len
    BY <1>1, <1>2, <1>3, MoreIsFurther
  <2>2. (behind + 1) * c.len = behind * c.len + c.len
    BY <1>1, <1>2
  <2>3. StepPosition(c, from + 2) \in Int /\ StepPosition(c, from + 2) >= 2 * sample
    BY <1>1, <1>2, <1>3, <2>1, <2>2, PlaceOfStep, LateIsLittle
  <2>4. QED
    BY <2>3 DEF StepSample
<1>5. \A k \in from .. from + 3 : StepSample(c, k) \in Nat
  BY <1>3, PlaceOfStep
<1>6. \E k : First(k)
  <2>1. CASE At(from)
    BY <1>3, <2>1
  <2>2. CASE ~At(from) /\ At(from + 1)
    <3>1. from .. (from + 1) - 1 = {from}
      BY <1>3
    <3>2. StepSample(c, from) < sample
      BY <1>3, <1>5, <2>2
    <3>3. First(from + 1)
      BY <1>3, <2>2, <3>1, <3>2
    <3>4. QED
      BY <3>3
  <2>3. CASE ~At(from) /\ ~At(from + 1)
    <3>1. from .. (from + 2) - 1 = {from, from + 1}
      BY <1>3
    <3>2. StepSample(c, from) < sample /\ StepSample(c, from + 1) < sample
      BY <1>3, <1>5, <2>3
    <3>3. First(from + 2)
      BY <1>3, <1>4, <3>1, <3>2
    <3>4. QED
      BY <3>3
  <2>4. QED
    BY <2>1, <2>2, <2>3
<1> DEFINE f == FirstStepAtOrAfter(c, sample)
<1>7. f = CHOOSE k \in from .. from + 3 :
            At(k) /\ \A j \in from .. k - 1 : StepSample(c, j) < sample
  BY DEF FirstStepAtOrAfter, from, behind
<1>8. First(f)
  BY <1>6, <1>7
<1> HIDE DEF f
<1>9. f \in Nat /\ At(f)
  BY <1>3, <1>8
<1>10. ASSUME sample > 0, NEW j \in 0 .. f - 1
       PROVE  StepSample(c, j) < sample
  <2>1. j \in Nat
    BY <1>9
  <2>2. CASE j >= from
    BY <1>3, <1>8, <1>9, <2>1, <2>2
  <2>3. CASE j < from
    <3>1. behind > 1 /\ j + 2 <= behind
      BY <1>2, <1>3, <2>1, <2>3 DEF from
    <3>2. (j + 2) * c.len <= behind * c.len
      BY <1>1, <1>2, <2>1, <3>1, MoreIsFurther
    <3>3. (j + 2) * c.len = j * c.len + 2 * c.len
      BY <1>1, <2>1
    <3>4. /\ StepPosition(c, j) = c.anchor + j * c.len + Late(c, j)
          /\ j * c.len \in Nat /\ Late(c, j) \in Nat /\ 2 * Late(c, j) <= c.len
      BY <2>1, PlaceOfStep, LateIsLittle
    <3>5. StepPosition(c, j) \in Int /\ StepPosition(c, j) < 2 * sample - 1
      BY <1>1, <1>2, <3>2, <3>3, <3>4
    <3>6. QED
      BY <1>10, <3>5 DEF StepSample
  <2>4. QED
    BY <1>3, <1>9, <2>1, <2>2, <2>3
<1>11. QED
  BY <1>9, <1>10 DEF f

LEMMA ClockMoves ==
  ASSUME NEW c \in Clock
  PROVE  /\ \A len \in Nat \ {0}, at \in Nat : SetTempo(c, len, at) \in Clock
         /\ \A d \in Int : Moved(c, d) \in Clock
         /\ \A sample \in Nat : RestartAt(c, sample) \in Clock
         /\ \A place \in Int : HalfStepAfter(c, place) \in Nat
<1>1. c.anchor \in Int /\ c.len \in Nat \ {0}
  BY DEF Clock
<1>2. ASSUME NEW len \in Nat \ {0}, NEW at \in Nat
      PROVE  SetTempo(c, len, at) \in Clock
  <2>1. (2 * at - c.anchor) * len \in Int
    BY <1>1
  <2>2. ((2 * at - c.anchor) * len) \div c.len \in Int
    BY <1>1, <2>1, DivIs
  <2>3. QED
    BY <2>2 DEF SetTempo, Clock
<1>3. ASSUME NEW d \in Int
      PROVE  Moved(c, d) \in Clock
  BY <1>1 DEF Moved, Clock
<1>4. ASSUME NEW sample \in Nat
      PROVE  RestartAt(c, sample) \in Clock
  BY <1>1 DEF RestartAt, Clock
<1>5. ASSUME NEW place \in Int
      PROVE  HalfStepAfter(c, place) \in Nat
  <2>1. c.len \div 2 \in Nat
    BY <1>1
  <2>2. place + c.len \div 2 \in Int
    BY <2>1
  <2>3. QED
    BY <2>2 DEF HalfStepAfter
<1>6. QED
  BY <1>2, <1>3, <1>4, <1>5

-----------------------------------------------------------------------------
(* Some of the elements of a sequence, in their order *)

LEMMA PlacesAre ==
  ASSUME NEW S, NEW s \in Seq(S), NEW K \in SUBSET DOMAIN s
  PROVE  /\ Cardinality(K) \in Nat
         /\ Places(s, K) \in Seq(S) /\ DOMAIN Places(s, K) = 1 .. Cardinality(K)
         /\ \E order \in [1 .. Cardinality(K) -> K] :
              /\ \A n \in 1 .. Cardinality(K) : Places(s, K)[n] = s[order[n]]
              /\ \A m, n \in 1 .. Cardinality(K) : m < n => order[m] < order[n]
              /\ \A i \in K : \E n \in 1 .. Cardinality(K) : order[n] = i
<1> DEFINE N == Cardinality(K)
           UpTo(i) == {j \in K : j <= i}
           rank == [i \in K |-> Cardinality(UpTo(i))]
           order == [n \in 1 .. N |-> CHOOSE i \in K : Cardinality(UpTo(i)) = n]
<1>1. Len(s) \in Nat /\ DOMAIN s = 1 .. Len(s) /\ K \in SUBSET Nat
  OBVIOUS
<1>2. IsFiniteSet(K) /\ N \in Nat
  <2>1. \A x \in K : x <= Len(s)
    BY <1>1
  <2>2. IsFiniteSet(K)
    BY <1>1, <2>1, FS_BoundedSetOfNaturals
  <2>3. QED
    BY <2>2, FS_CardinalityType
<1> HIDE DEF N
<1>3. ASSUME NEW i \in K
      PROVE  IsFiniteSet(UpTo(i)) /\ Cardinality(UpTo(i)) \in 1 .. N
  <2>1. UpTo(i) \in SUBSET K /\ i \in UpTo(i)
    BY <1>1
  <2>2. IsFiniteSet(UpTo(i)) /\ Cardinality(UpTo(i)) <= N
    BY <1>2, <2>1, FS_Subset DEF N
  <2>3. Cardinality(UpTo(i)) \in Nat /\ Cardinality(UpTo(i)) # 0
    BY <2>1, <2>2, FS_CardinalityType, FS_EmptySet
  <2>4. QED
    BY <1>2, <2>2, <2>3
<1>4. ASSUME NEW i \in K, NEW k \in K, i < k
      PROVE  Cardinality(UpTo(i)) < Cardinality(UpTo(k))
  <2>1. UpTo(i) \in SUBSET UpTo(k) /\ k \in UpTo(k) /\ k \notin UpTo(i)
    BY <1>1, <1>4
  <2>2. UpTo(i) # UpTo(k)
    BY <2>1
  <2>3. IsFiniteSet(UpTo(k)) /\ Cardinality(UpTo(k)) \in 1 .. N /\ Cardinality(UpTo(i)) \in 1 .. N
    BY <1>3
  <2> HIDE DEF UpTo
  <2>4. Cardinality(UpTo(i)) <= Cardinality(UpTo(k)) /\ Cardinality(UpTo(i)) # Cardinality(UpTo(k))
    BY <2>1, <2>2, <2>3, FS_Subset
  <2>5. QED
    BY <1>2, <2>3, <2>4
<1> HIDE DEF UpTo
<1>5. rank \in Injection(K, 1 .. N)
  <2>1. rank \in [K -> 1 .. N]
    BY <1>3
  <2>2. \A i, k \in K : i # k => rank[i] # rank[k]
    <3> SUFFICES ASSUME NEW i \in K, NEW k \in K, i # k PROVE rank[i] # rank[k]
      OBVIOUS
    <3>1. rank[i] = Cardinality(UpTo(i)) /\ rank[k] = Cardinality(UpTo(k))
            /\ rank[i] \in 1 .. N /\ rank[k] \in 1 .. N
      BY <2>1
    <3>2. CASE i < k
      BY <1>2, <1>4, <3>1, <3>2
    <3>3. CASE k < i
      BY <1>2, <1>4, <3>1, <3>3
    <3>4. QED
      BY <1>1, <3>2, <3>3
  <2> HIDE DEF rank
  <2>3. QED
    BY <2>1, <2>2, Fun_IsInj
<1>6. \A n \in 1 .. N : \E i \in K : Cardinality(UpTo(i)) = n
  <2>1. IsFiniteSet(1 .. N) /\ Cardinality(1 .. N) = N
    BY <1>2, FS_Interval
  <2>2. rank \in Surjection(K, 1 .. N)
    BY <1>5, <2>1, FS_Injection DEF N
  <2>3. \A n \in 1 .. N : \E i \in K : rank[i] = n
    BY <2>2 DEF Surjection
  <2>4. QED
    BY <2>3
<1>7. \A n \in 1 .. N : order[n] \in K /\ Cardinality(UpTo(order[n])) = n
  BY <1>6
<1>8. order \in [1 .. N -> K]
  BY <1>7
<1>9. \A n \in 1 .. N : Places(s, K)[n] = s[order[n]]
  BY DEF Places, N, UpTo
<1>10. DOMAIN Places(s, K) = 1 .. N
  BY DEF Places, N
<1> HIDE DEF order
<1>11. ASSUME NEW m \in 1 .. N, NEW n \in 1 .. N, m < n
       PROVE  order[m] < order[n]
  <2>1. order[m] \in Nat /\ order[n] \in Nat /\ order[m] \in K /\ order[n] \in K
    BY <1>1, <1>7
  <2>2. CASE order[n] < order[m]
    <3>1. Cardinality(UpTo(order[n])) < Cardinality(UpTo(order[m]))
      BY <1>4, <2>1, <2>2
    <3>2. n < m
      BY <1>7, <3>1
    <3>3. QED
      BY <1>2, <1>11, <3>2
  <2>3. CASE order[n] = order[m]
    <3>1. n = m
      BY <1>7, <2>3
    <3>2. QED
      BY <1>2, <1>11, <3>1
  <2>4. QED
    BY <2>1, <2>2, <2>3
<1>12. ASSUME NEW i \in K
       PROVE  \E n \in 1 .. N : order[n] = i
  <2> DEFINE n == Cardinality(UpTo(i))
  <2>1. n \in 1 .. N
    BY <1>3
  <2>2. order[n] \in K /\ Cardinality(UpTo(order[n])) = n /\ order[n] \in Nat /\ i \in Nat
    BY <1>1, <1>7, <2>1
  <2>3. ~(order[n] < i) /\ ~(i < order[n])
    <3>1. CASE order[n] < i
      <4>1. Cardinality(UpTo(order[n])) < Cardinality(UpTo(i))
        BY <1>4, <2>2, <3>1
      <4>2. QED
        BY <1>2, <2>1, <2>2, <4>1
    <3>2. CASE i < order[n]
      <4>1. Cardinality(UpTo(i)) < Cardinality(UpTo(order[n]))
        BY <1>4, <2>2, <3>2
      <4>2. QED
        BY <1>2, <2>1, <2>2, <4>1
    <3>3. QED
      BY <3>1, <3>2
  <2>4. QED
    BY <2>1, <2>2, <2>3
<1>13. Places(s, K) \in Seq(S)
  <2>1. \A n \in 1 .. N : s[order[n]] \in S
    BY <1>7
  <2>2. \A n \in 1 .. N : Places(s, K)[n] \in S
    BY <1>9, <2>1
  <2>3. Places(s, K) = [n \in 1 .. N |-> Places(s, K)[n]]
    BY <1>10 DEF Places, N
  <2>4. QED
    BY <1>2, <2>2, <2>3
<1>14. QED
  BY <1>2, <1>8, <1>9, <1>10, <1>11, <1>12, <1>13 DEF N

-----------------------------------------------------------------------------
(* The parameter *)

\* Places takes from the places it is given, and from each of them.
LEMMA PlacesFrom ==
  ASSUME NEW S, NEW s \in Seq(S), NEW K \in SUBSET DOMAIN s
  PROVE  /\ \A n \in DOMAIN Places(s, K) : \E k \in K : Places(s, K)[n] = s[k]
         /\ \A k \in K : \E n \in DOMAIN Places(s, K) : Places(s, K)[n] = s[k]
         /\ \A m, n \in DOMAIN Places(s, K) :
              m < n => \E k, l \in K :
                          k < l /\ Places(s, K)[m] = s[k] /\ Places(s, K)[n] = s[l]
<1>1. PICK order \in [1 .. Cardinality(K) -> K] :
        /\ \A n \in 1 .. Cardinality(K) : Places(s, K)[n] = s[order[n]]
        /\ \A m, n \in 1 .. Cardinality(K) : m < n => order[m] < order[n]
        /\ \A i \in K : \E n \in 1 .. Cardinality(K) : order[n] = i
  BY PlacesAre, SMTT(60)
<1>2. DOMAIN Places(s, K) = 1 .. Cardinality(K)
  BY PlacesAre
<1>3. \A n \in 1 .. Cardinality(K) : order[n] \in K
  OBVIOUS
<1> DEFINE N == Cardinality(K)
           all == Places(s, K)
<1> HIDE DEF N, all
<1>4. \A m, n \in 1 .. N :
        m < n => \E k, l \in K : k < l /\ all[m] = s[k] /\ all[n] = s[l]
  BY <1>1, <1>3 DEF N, all
<1>5. QED
  BY <1>1, <1>2, <1>3, <1>4 DEF N, all

LEMMA ParamIs ==
  ASSUME NEW S, NEW s \in Seq(S), NEW v
  PROVE  /\ (\A j \in DOMAIN s : s[j].kind # "param") => ParamAfter(v, s) = v
         /\ \A i \in DOMAIN s :
              s[i].kind = "param" /\ (\A j \in DOMAIN s : s[j].kind = "param" => j <= i)
                => ParamAfter(v, s) = s[i].value
         /\ (\E j \in DOMAIN s : s[j].kind = "param") =>
              \E i \in DOMAIN s : /\ s[i].kind = "param"
                                  /\ \A j \in DOMAIN s : s[j].kind = "param" => j <= i
<1> DEFINE sets == {i \in DOMAIN s : s[i].kind = "param"}
<1>1. sets \in SUBSET Nat /\ Len(s) \in Nat /\ \A x \in sets : x <= Len(s)
  OBVIOUS
<1>2. sets # {} => Max(sets) \in sets /\ \A x \in sets : x <= Max(sets)
  <2> HIDE DEF sets
  <2> QED BY <1>1, MaxIs
<1>3. ParamAfter(v, s) = IF sets = {} THEN v ELSE s[Max(sets)].value
  BY DEF ParamAfter
<1>4. ASSUME NEW i \in sets, \A j \in sets : j <= i
      PROVE  ParamAfter(v, s) = s[i].value
  <2>1. Max(sets) \in sets /\ i <= Max(sets) /\ Max(sets) <= i
    BY <1>2, <1>4
  <2>2. Max(sets) = i
    BY <1>1, <2>1
  <2> HIDE DEF sets
  <2>3. QED
    BY <1>3, <2>2
<1>5. QED
  BY <1>2, <1>3, <1>4

LEMMA Joined ==
  ASSUME NEW S, NEW q \in Seq(S), NEW t \in Seq(S)
  PROVE  /\ \A i \in DOMAIN q : i \in DOMAIN (q \o t) /\ (q \o t)[i] = q[i] /\ i <= Len(q)
         /\ \A i \in DOMAIN t : Len(q) + i \in DOMAIN (q \o t) /\ (q \o t)[Len(q) + i] = t[i]
         /\ \A k \in DOMAIN (q \o t) :
              \/ k \in DOMAIN q /\ (q \o t)[k] = q[k] /\ k <= Len(q)
              \/ /\ k - Len(q) \in DOMAIN t /\ k = Len(q) + (k - Len(q)) /\ k > Len(q)
                 /\ (q \o t)[k] = t[k - Len(q)]
         /\ Len(q) \in Nat /\ DOMAIN t \subseteq Nat \ {0} /\ DOMAIN q \subseteq Nat
         /\ DOMAIN (q \o t) \subseteq Nat
OBVIOUS

LEMMA ParamOfBoth ==
  ASSUME NEW S, NEW q \in Seq(S), NEW t \in Seq(S), NEW v
  PROVE  ParamAfter(v, q \o t) = ParamAfter(ParamAfter(v, q), t)
<1> DEFINE b == q \o t
           u == ParamAfter(v, q)
<1>1. b \in Seq(S)
  OBVIOUS
<1> HIDE DEF b, u
<1>2. CASE \E i \in DOMAIN t : t[i].kind = "param"
  <2>1. PICK i \in DOMAIN t : /\ t[i].kind = "param"
                              /\ \A j \in DOMAIN t : t[j].kind = "param" => j <= i
    BY <1>2, ParamIs
  <2> DEFINE n == Len(q) + i
  <2>2. n \in DOMAIN b /\ b[n] = t[i] /\ i \in Nat /\ Len(q) \in Nat
    BY Joined DEF b
  <2>3. ASSUME NEW k \in DOMAIN b, b[k].kind = "param"
        PROVE  k <= n
    <3>1. CASE k \in DOMAIN q
      BY <2>2, <3>1, Joined
    <3>2. CASE k - Len(q) \in DOMAIN t /\ k = Len(q) + (k - Len(q)) /\ b[k] = t[k - Len(q)]
      <4>1. k - Len(q) <= i
        BY <2>1, <2>3, <3>2
      <4>2. QED
        BY <2>2, <3>2, <4>1, Joined
    <3>3. QED
      BY <3>1, <3>2, Joined DEF b
  <2>4. ParamAfter(v, b) = b[n].value
    BY <1>1, <2>1, <2>2, <2>3, ParamIs
  <2>5. ParamAfter(u, t) = t[i].value
    BY <2>1, ParamIs
  <2>6. QED
    BY <2>2, <2>4, <2>5 DEF b, u
<1>3. CASE \A i \in DOMAIN t : t[i].kind # "param"
  <2>1. ParamAfter(u, t) = u
    BY <1>3, ParamIs
  <2>2. \A k \in DOMAIN b : b[k].kind = "param" => k \in DOMAIN q /\ b[k] = q[k]
    BY <1>3, Joined DEF b
  <2>3. CASE \E i \in DOMAIN q : q[i].kind = "param"
    <3>1. PICK i \in DOMAIN q : /\ q[i].kind = "param"
                                /\ \A j \in DOMAIN q : q[j].kind = "param" => j <= i
      BY <2>3, ParamIs
    <3>2. u = q[i].value
      BY <3>1, ParamIs DEF u
    <3>3. i \in DOMAIN b /\ b[i] = q[i] /\ \A k \in DOMAIN b : b[k].kind = "param" => k <= i
      BY <2>2, <3>1, Joined DEF b
    <3>4. ParamAfter(v, b) = b[i].value
      BY <1>1, <3>1, <3>3, ParamIs
    <3>5. QED
      BY <2>1, <3>2, <3>3, <3>4 DEF b, u
  <2>4. CASE \A i \in DOMAIN q : q[i].kind # "param"
    <3>1. u = v
      BY <2>4, ParamIs DEF u
    <3>2. \A k \in DOMAIN b : b[k].kind # "param"
      BY <2>2, <2>4
    <3>3. ParamAfter(v, b) = v
      BY <1>1, <3>2, ParamIs
    <3>4. QED
      BY <2>1, <3>1, <3>3 DEF b, u
  <2>5. QED
    BY <2>3, <2>4
<1>4. QED
  BY <1>2, <1>3

LEMMA ParamOfOne ==
  ASSUME NEW e, NEW v
  PROVE  ParamAfter(v, <<e>>) = IF e.kind = "param" THEN e.value ELSE v
<1> DEFINE s == <<e>>
<1>1. s \in Seq({e}) /\ DOMAIN s = {1} /\ s[1] = e
  OBVIOUS
<1> HIDE DEF s
<1>2. CASE e.kind = "param"
  <2>1. 1 \in DOMAIN s /\ s[1].kind = "param"
          /\ \A j \in DOMAIN s : s[j].kind = "param" => j <= 1
    BY <1>1, <1>2
  <2>2. ParamAfter(v, s) = s[1].value
    BY <1>1, <2>1, ParamIs
  <2>3. QED
    BY <1>1, <1>2, <2>2 DEF s
<1>3. CASE e.kind # "param"
  <2>1. \A j \in DOMAIN s : s[j].kind # "param"
    BY <1>1, <1>3
  <2>2. ParamAfter(v, s) = v
    BY <1>1, <2>1, ParamIs
  <2>3. QED
    BY <1>3, <2>2 DEF s
<1>4. QED
  BY <1>2, <1>3

LEMMA ParamOfPlaces ==
  ASSUME NEW S, NEW s \in Seq(S), NEW K \in SUBSET DOMAIN s, NEW v,
         \A i \in DOMAIN s : s[i].kind = "param" => i \in K
  PROVE  ParamAfter(v, Places(s, K)) = ParamAfter(v, s)
<1> DEFINE p == Places(s, K)
           N == Cardinality(K)
<1>1. PICK order \in [1 .. N -> K] :
        /\ \A n \in 1 .. N : p[n] = s[order[n]]
        /\ \A m, n \in 1 .. N : m < n => order[m] < order[n]
        /\ \A i \in K : \E n \in 1 .. N : order[n] = i
  BY PlacesAre
<1>2. p \in Seq(S) /\ DOMAIN p = 1 .. N /\ N \in Nat /\ K \subseteq Nat
  BY PlacesAre
<1> HIDE DEF p, N
<1>3. CASE \E i \in DOMAIN s : s[i].kind = "param"
  <2>1. PICK i \in DOMAIN s : /\ s[i].kind = "param"
                              /\ \A j \in DOMAIN s : s[j].kind = "param" => j <= i
    BY <1>3, ParamIs
  <2>2. PICK n \in 1 .. N : order[n] = i
    BY <1>1, <2>1
  <2>3. p[n] = s[i]
    BY <1>1, <2>2
  <2>4. ASSUME NEW m \in DOMAIN p, p[m].kind = "param"
        PROVE  m <= n
    <3>1. m \in 1 .. N /\ p[m] = s[order[m]] /\ order[m] \in K
      BY <1>1, <1>2
    <3>2. order[m] <= i /\ order[m] \in Nat /\ i \in Nat
      BY <1>2, <2>1, <2>4, <3>1
    <3>3. ~(n < m)
      BY <1>1, <2>2, <3>1, <3>2
    <3>4. QED
      BY <1>2, <3>1, <3>3
  <2>5. ParamAfter(v, p) = p[n].value
    <3>1. n \in DOMAIN p /\ p[n].kind = "param"
            /\ \A m \in DOMAIN p : p[m].kind = "param" => m <= n
      BY <1>2, <2>1, <2>3, <2>4
    <3>2. p \in Seq(S)
      BY <1>2
    <3>3. QED
      BY <3>1, <3>2, ParamIs
  <2>6. ParamAfter(v, s) = s[i].value
    BY <2>1, ParamIs
  <2>7. QED
    BY <2>3, <2>5, <2>6 DEF p
<1>4. CASE \A i \in DOMAIN s : s[i].kind # "param"
  <2>1. \A m \in DOMAIN p : p[m].kind # "param"
    BY <1>1, <1>2, <1>4
  <2>2. QED
    BY <1>2, <1>4, <2>1, ParamIs DEF p
<1>5. QED
  BY <1>3, <1>4

-----------------------------------------------------------------------------
(* The events held back *)

\* A sequence cut in two.
LEMMA SplitAt ==
  ASSUME NEW S, NEW s \in Seq(S), NEW n \in 0 .. Len(s)
  PROVE  /\ s = SubSeq(s, 1, n) \o SubSeq(s, n + 1, Len(s))
         /\ SubSeq(s, 1, n) \in Seq(S) /\ DOMAIN SubSeq(s, 1, n) = 1 .. n
         /\ Len(SubSeq(s, 1, n)) = n
         /\ \A i \in 1 .. n : SubSeq(s, 1, n)[i] = s[i]
         /\ SubSeq(s, n + 1, Len(s)) \in Seq(S)
         /\ DOMAIN SubSeq(s, n + 1, Len(s)) = 1 .. Len(s) - n
         /\ Len(SubSeq(s, n + 1, Len(s))) = Len(s) - n
         /\ \A i \in 1 .. Len(s) - n : SubSeq(s, n + 1, Len(s))[i] = s[n + i]
<1> DEFINE N == Len(s)
           a == SubSeq(s, 1, n)
           b == SubSeq(s, n + 1, N)
<1>1. N \in Nat /\ DOMAIN s = 1 .. N /\ n \in Int /\ n + 1 \in Int /\ 0 <= n /\ n <= N
  OBVIOUS
<1>2. \A i \in 1 .. N : s[i] \in S
  BY <1>1
<1>3. SubSeq(s, 1, N) = s
  BY SubSeqFull
<1>4. a \o b = s
  <2>1. 1 \in 1 .. N + 1 /\ n \in 1 - 1 .. N /\ N \in n .. N
    BY <1>1
  <2>2. SubSeq(s, 1, n) \o SubSeq(s, n + 1, N) = SubSeq(s, 1, N)
    BY <2>1, ConcatAdjacentSubSeq
  <2>3. QED
    BY <1>3, <2>2
<1> HIDE DEF N
<1>5. a \in Seq(S) /\ Len(a) = n /\ \A i \in 1 .. n : a[i] = s[i]
  <2>1. \A i \in 1 .. n : s[i] \in S
    BY <1>1, <1>2
  <2>2. /\ a \in Seq(S) /\ Len(a) = IF 1 <= n THEN n - 1 + 1 ELSE 0
        /\ \A i \in 1 .. n - 1 + 1 : a[i] = s[1 + i - 1]
    BY <1>1, <2>1, SubSeqProperties
  <2> HIDE DEF a
  <2>3. QED
    BY <1>1, <2>2
<1>6. b \in Seq(S) /\ Len(b) = N - n /\ \A i \in 1 .. N - n : b[i] = s[n + i]
  <2>1. \A i \in n + 1 .. N : s[i] \in S
    BY <1>1, <1>2
  <2>2. /\ b \in Seq(S) /\ Len(b) = IF n + 1 <= N THEN N - (n + 1) + 1 ELSE 0
        /\ \A i \in 1 .. N - (n + 1) + 1 : b[i] = s[n + 1 + i - 1]
    BY <1>1, <2>1, SubSeqProperties
  <2> HIDE DEF b
  <2>3. \A i \in Int : (n + 1 + i) - 1 = n + i
    BY <1>1
  <2>4. QED
    BY <1>1, <2>2, <2>3
<1> HIDE DEF a, b
<1>7. DOMAIN a = 1 .. n /\ DOMAIN b = 1 .. N - n
  BY <1>5, <1>6
<1>8. QED
  BY <1>4, <1>5, <1>6, <1>7 DEF N, a, b

\* Where an event is inserted: behind all that is not later, before all that is.
LEMMA InsertIs ==
  ASSUME NEW S, NEW held \in Seq(S), NEW e \in S
  PROVE  \E a, b \in Seq(S) :
           /\ held = a \o b
           /\ InsertPending(held, e) = (a \o <<e>>) \o b
           /\ \A i \in DOMAIN b : ~(b[i].sample <= e.sample)
           /\ a # <<>> => a[Len(a)].sample <= e.sample
<1> DEFINE N == Len(held)
<1>1. N \in Nat /\ DOMAIN held = 1 .. N
  OBVIOUS
<1>2. PICK n \in 0 .. N :
        /\ InsertPending(held, e) = (SubSeq(held, 1, (n + 1) - 1) \o <<e>>) \o SubSeq(held, n + 1, N)
        /\ n = 0 \/ held[n].sample <= e.sample
        /\ \A i \in n + 1 .. N : ~(held[i].sample <= e.sample)
  <2> DEFINE early == {i \in 0 .. N : i = 0 \/ held[i].sample <= e.sample}
             n == Max(early)
  <2>1. n \in early /\ n \in 0 .. N /\ \A x \in early : x <= n
    <3>1. early \in SUBSET (0 .. N) /\ 0 \in early
      BY <1>1
    <3> HIDE DEF early, N
    <3>2. QED
      BY <1>1, <3>1, MostOf
  <2>2. InsertPending(held, e)
          = (SubSeq(held, 1, (n + 1) - 1) \o <<e>>) \o SubSeq(held, n + 1, N)
    BY DEF InsertPending, InsertAt
  <2>3. n = 0 \/ held[n].sample <= e.sample
    BY <2>1
  <2>4. \A i \in n + 1 .. N : ~(held[i].sample <= e.sample)
    <3> SUFFICES ASSUME NEW i \in n + 1 .. N, held[i].sample <= e.sample PROVE FALSE
      OBVIOUS
    <3>1. i \in early
      BY <1>1, <2>1
    <3>2. QED
      BY <2>1, <3>1
  <2> HIDE DEF n
  <2>5. QED
    BY <2>1, <2>2, <2>3, <2>4
<1> DEFINE a == SubSeq(held, 1, n)
           b == SubSeq(held, n + 1, N)
<1>3. (n + 1) - 1 = n /\ n \in Nat /\ n <= N
  BY <1>1, <1>2
<1>4. /\ held = a \o b
      /\ a \in Seq(S) /\ Len(a) = n /\ DOMAIN a = 1 .. n /\ \A i \in 1 .. n : a[i] = held[i]
      /\ b \in Seq(S) /\ DOMAIN b = 1 .. N - n
      /\ \A i \in 1 .. N - n : b[i] = held[n + i]
  <2>1. n \in 0 .. Len(held)
    OBVIOUS
  <2>2. held = a \o b
    BY <2>1, SplitAt
  <2>3. a \in Seq(S) /\ Len(a) = n
    BY <2>1, SplitAt
  <2>4. DOMAIN a = 1 .. n /\ \A i \in 1 .. n : a[i] = held[i]
    BY <2>1, SplitAt
  <2>5. b \in Seq(S)
    BY <2>1, SplitAt
  <2>6. DOMAIN b = 1 .. N - n
    BY <2>1, SplitAt
  <2>7. \A i \in 1 .. N - n : b[i] = held[n + i]
    BY <2>1, SplitAt
  <2>8. QED
    BY <2>2, <2>3, <2>4, <2>5, <2>6, <2>7
<1>5. InsertPending(held, e) = (a \o <<e>>) \o b
  BY <1>2, <1>3
<1> HIDE DEF a, b, N
<1>6. \A i \in DOMAIN b : ~(b[i].sample <= e.sample)
  <2> SUFFICES ASSUME NEW i \in 1 .. N - n PROVE ~(b[i].sample <= e.sample)
    BY <1>4
  <2>1. n + i \in n + 1 .. N /\ b[i] = held[n + i]
    BY <1>1, <1>3, <1>4
  <2>2. QED
    BY <1>2, <2>1
<1>7. a # <<>> => a[Len(a)].sample <= e.sample
  <2>1. SUFFICES ASSUME a # <<>> PROVE a[n].sample <= e.sample
    BY <1>4
  <2>2. n # 0
    BY <1>4, <2>1
  <2>3. QED
    BY <1>2, <1>3, <1>4, <2>2
<1>8. QED
  BY <1>4, <1>5, <1>6, <1>7

InOrder(s) == \A i, j \in DOMAIN s : i < j => s[i].sample <= s[j].sample

LEMMA InsertKeepsOrder ==
  ASSUME NEW S, \A x \in S : x.sample \in Nat, NEW held \in Seq(S), NEW e \in S, InOrder(held)
  PROVE  InsertPending(held, e) \in Seq(S) /\ InOrder(InsertPending(held, e))
<1>1. PICK a \in Seq(S), b \in Seq(S) :
        /\ held = a \o b
        /\ InsertPending(held, e) = (a \o <<e>>) \o b
        /\ \A i \in DOMAIN b : ~(b[i].sample <= e.sample)
        /\ a # <<>> => a[Len(a)].sample <= e.sample
  BY InsertIs
<1> DEFINE c == a \o <<e>>
           d == c \o b
<1>2. <<e>> \in Seq(S) /\ DOMAIN <<e>> = {1} /\ <<e>>[1] = e
  OBVIOUS
<1>3. c \in Seq(S) /\ d \in Seq(S)
  BY <1>2, ConcatProperties
<1>4. \A i \in DOMAIN a : a[i].sample <= e.sample
  <2> SUFFICES ASSUME NEW i \in DOMAIN a PROVE a[i].sample <= e.sample
    OBVIOUS
  <2>1. a # <<>> /\ Len(a) \in DOMAIN a /\ i <= Len(a) /\ a[i] \in S /\ a[Len(a)] \in S /\ i \in Nat
    OBVIOUS
  <2>2. i = Len(a) \/ a[i].sample <= a[Len(a)].sample
    <3>1. held[i] = a[i] /\ held[Len(a)] = a[Len(a)] /\ i \in DOMAIN held /\ Len(a) \in DOMAIN held
      BY <1>1, <2>1, Joined
    <3>2. QED
      BY <2>1, <3>1 DEF InOrder
  <2>3. a[Len(a)].sample <= e.sample
    BY <1>1, <2>1
  <2>4. QED
    BY <2>1, <2>2, <2>3
<1>5. \A i \in DOMAIN b : e.sample <= b[i].sample
  BY <1>1
<1>6. \A i \in DOMAIN a, j \in DOMAIN b : a[i].sample <= b[j].sample
  BY <1>4, <1>5
<1>7. \A i, j \in DOMAIN a : i < j => a[i].sample <= a[j].sample
  BY <1>1, Joined DEF InOrder
<1>8. \A i, j \in DOMAIN b : i < j => b[i].sample <= b[j].sample
  <2> SUFFICES ASSUME NEW i \in DOMAIN b, NEW j \in DOMAIN b, i < j
               PROVE  b[i].sample <= b[j].sample
    OBVIOUS
  <2>1. /\ Len(a) + i \in DOMAIN held /\ held[Len(a) + i] = b[i]
        /\ Len(a) + j \in DOMAIN held /\ held[Len(a) + j] = b[j]
    <3>1. \A k \in DOMAIN b : Len(a) + k \in DOMAIN (a \o b) /\ (a \o b)[Len(a) + k] = b[k]
      BY Joined
    <3>2. QED
      BY <1>1, <3>1
  <2>2. Len(a) + i < Len(a) + j
    OBVIOUS
  <2>3. QED
    BY <2>1, <2>2 DEF InOrder
<1>9. /\ \A i, j \in DOMAIN c : i < j => c[i].sample <= c[j].sample
      /\ \A i \in DOMAIN c, j \in DOMAIN b : c[i].sample <= b[j].sample
  <2>1. \A i \in DOMAIN c : (i \in DOMAIN a /\ c[i] = a[i]) \/ (i = Len(a) + 1 /\ c[i] = e)
    BY <1>2
  <2>2. \A i \in DOMAIN a : i <= Len(a) /\ i \in Nat /\ Len(a) \in Nat
    OBVIOUS
  <2> HIDE DEF c
  <2>3. \A i, j \in DOMAIN c : i < j => c[i].sample <= c[j].sample
    <3> SUFFICES ASSUME NEW i \in DOMAIN c, NEW j \in DOMAIN c, i < j
                 PROVE  c[i].sample <= c[j].sample
      OBVIOUS
    <3>1. i \in DOMAIN a /\ c[i] = a[i]
      BY <2>1, <2>2
    <3>2. QED
      BY <1>4, <1>7, <2>1, <3>1
  <2>4. \A i \in DOMAIN c, j \in DOMAIN b : c[i].sample <= b[j].sample
    BY <1>5, <1>6, <2>1
  <2>5. QED
    BY <2>3, <2>4
<1>10. InOrder(d)
  <2> SUFFICES ASSUME NEW i \in DOMAIN d, NEW j \in DOMAIN d, i < j
               PROVE  d[i].sample <= d[j].sample
    BY DEF InOrder
  <2> HIDE DEF c
  <2>1. \A k \in DOMAIN d : \/ k \in DOMAIN c /\ d[k] = c[k] /\ k <= Len(c)
                            \/ k - Len(c) \in DOMAIN b /\ d[k] = b[k - Len(c)] /\ k > Len(c)
    BY <1>3, Joined
  <2>2. Len(c) \in Nat /\ i \in Nat /\ j \in Nat
    BY <1>3
  <2> HIDE DEF d
  <2>3. CASE i \in DOMAIN c /\ d[i] = c[i] /\ j \in DOMAIN c /\ d[j] = c[j]
    BY <1>9, <2>3
  <2>4. CASE i \in DOMAIN c /\ d[i] = c[i] /\ j - Len(c) \in DOMAIN b /\ d[j] = b[j - Len(c)]
    BY <1>9, <2>4
  <2>5. CASE /\ i - Len(c) \in DOMAIN b /\ d[i] = b[i - Len(c)]
             /\ j - Len(c) \in DOMAIN b /\ d[j] = b[j - Len(c)]
    <3>1. i - Len(c) < j - Len(c)
      BY <2>2
    <3>2. b[i - Len(c)].sample <= b[j - Len(c)].sample
      BY <1>8, <2>5, <3>1
    <3>3. QED
      BY <2>5, <3>2
  <2>6. QED
    BY <2>1, <2>2, <2>3, <2>4, <2>5
<1>11. QED
  BY <1>1, <1>3, <1>10

LEMMA PlacesKeepOrder ==
  ASSUME NEW S, NEW s \in Seq(S), NEW K \in SUBSET DOMAIN s, InOrder(s)
  PROVE  InOrder(Places(s, K))
<1> DEFINE N == Cardinality(K)
           p == Places(s, K)
<1>1. PICK order \in [1 .. N -> K] :
        /\ \A n \in 1 .. N : p[n] = s[order[n]]
        /\ \A m, n \in 1 .. N : m < n => order[m] < order[n]
        /\ \A i \in K : \E n \in 1 .. N : order[n] = i
  BY PlacesAre
<1>2. DOMAIN p = 1 .. N
  BY PlacesAre
<1> HIDE DEF p, N
<1>3. \A m, n \in DOMAIN p : m < n => p[m].sample <= p[n].sample
  BY <1>1, <1>2 DEF InOrder
<1>4. QED
  BY <1>3 DEF InOrder, p

\* An event that is set: the parameter it leaves is its own, if those before it
\* are not later; any other leaves the parameter alone.
LEMMA ParamOfInsert ==
  ASSUME NEW S, NEW held \in Seq(S), NEW e \in S, NEW v,
         e.kind = "param" =>
           \A i \in DOMAIN held : held[i].kind = "param" => held[i].sample <= e.sample
  PROVE  ParamAfter(v, InsertPending(held, e)) = ParamAfter(ParamAfter(v, held), <<e>>)
<1>1. PICK a \in Seq(S), b \in Seq(S) :
        /\ held = a \o b
        /\ InsertPending(held, e) = (a \o <<e>>) \o b
        /\ \A i \in DOMAIN b : ~(b[i].sample <= e.sample)
        /\ a # <<>> => a[Len(a)].sample <= e.sample
  BY InsertIs
<1> DEFINE o == <<e>>
           u == ParamAfter(v, a)
<1>2. o \in Seq(S) /\ a \o o \in Seq(S)
  OBVIOUS
<1> HIDE DEF o
<1>3. ParamAfter(v, InsertPending(held, e)) = ParamAfter(ParamAfter(u, o), b)
  <2>1. ParamAfter(v, (a \o o) \o b) = ParamAfter(ParamAfter(v, a \o o), b)
    BY <1>2, ParamOfBoth
  <2>2. ParamAfter(v, a \o o) = ParamAfter(u, o)
    BY <1>2, ParamOfBoth
  <2>3. QED
    BY <1>1, <2>1, <2>2 DEF o
<1>4. ParamAfter(v, held) = ParamAfter(u, b)
  BY <1>1, ParamOfBoth
<1> HIDE DEF u
<1>5. CASE e.kind # "param"
  <2>1. \A x : ParamAfter(x, o) = x
    BY <1>5, ParamOfOne DEF o
  <2>2. QED
    BY <1>3, <1>4, <2>1 DEF o
<1>6. CASE e.kind = "param"
  <2>1. \A x : ParamAfter(x, o) = e.value
    BY <1>6, ParamOfOne DEF o
  <2>2. \A i \in DOMAIN b : b[i].kind # "param"
    <3> SUFFICES ASSUME NEW i \in DOMAIN b, b[i].kind = "param" PROVE FALSE
      OBVIOUS
    <3>1. /\ Len(a) + i \in DOMAIN (a \o b) /\ (a \o b)[Len(a) + i] = b[i]
      BY Joined
    <3>2. held[Len(a) + i].sample <= e.sample
      BY <1>1, <1>6, <3>1
    <3>3. QED
      BY <1>1, <3>1, <3>2
  <2>3. ParamAfter(e.value, b) = e.value
    BY <2>2, ParamIs
  <2>4. QED
    BY <1>3, <2>1, <2>3 DEF o
<1>7. QED
  BY <1>5, <1>6

-----------------------------------------------------------------------------
(* The types of the engine's state *)

Flushes == [kind : {"flush"}, sample : Nat]
Params == [kind : {"param"}, sample : Nat, value : Values]
Triggers ==
    [kind : {"grace", "hit"}, sample : Nat, step : Nat, at : Nat \cup {None},
     run : Nat, epoch : Nat, ahead : BOOLEAN]
Events == Flushes \cup Params \cup Triggers

Scheds ==
    [next : Nat, playing : BOOLEAN, stopAfter : Nat \cup {NoLimit}, stopAt : Nat \cup {NoLimit}]

Entries == [step : Nat, first : Nat, sample : Nat]

Calls ==
    {NoCall} \cup [op : {"start", "resync"}] \cup [op : {"jump"}, shift : Shifts, len : StepLens]

RenderTypes ==
    /\ queue \in Seq(Events) /\ pending \in Seq(Events) /\ heard \in Seq(Triggers)
    /\ pos \in Nat /\ published \in Nat /\ published <= pos
    /\ renderPc \in {"idle", "pull"}

ControlTypes ==
    /\ split \in BOOLEAN /\ capacity \in Nat /\ capacity >= 2 * VoiceCount + FlushReserve
    /\ mode \in {"internal", "follow"} /\ clock \in Clock /\ sched \in Scheds
    /\ log \in Seq(Entries) /\ flushLeft \in Nat \cup {None}
    /\ seen \in Nat /\ block \in Nat
    /\ callPc \in {"idle", "commit", "note", "tick", "push"} /\ call \in Calls /\ now \in Nat
    /\ todo \in Seq(Events)
    /\ run \in Nat /\ floor \in Nat /\ restarts \in Seq(Nat)

EngineTypeOK == RenderTypes /\ ControlTypes

\* The events held back are in order, and between callbacks none is overdue.
HeldInOrder ==
    /\ InOrder(pending)
    /\ renderPc = "idle" => \A i \in DOMAIN pending : pending[i].sample >= pos

HeldInv == RenderTypes /\ ControlTypes /\ HeldInOrder

\* What fired did so in order, never before its sample nor after the position.
FiredInTime ==
    /\ \A i \in DOMAIN heard : heard[i].at \in Nat /\ heard[i].sample <= heard[i].at /\ heard[i].at < pos
    /\ \A i, j \in DOMAIN heard : i < j => heard[i].at <= heard[j].at

\* The calls' events: one flush, or the triggers of one step with their room.
RoomForStep ==
    /\ Len(queue) <= capacity
    /\ \/ todo = <<>>
       \/ Len(todo) = 1 /\ todo[1] \in Flushes
       \/ /\ \A i \in DOMAIN todo : todo[i] \in Triggers
          /\ Len(todo) <= Vacant /\ callPc = "tick"
    /\ todo # <<>> => callPc \in {"push", "tick"}

IsParam(e) == e.kind = "param"

\* Parameters come in order, from the queue and behind those held back.
ParamOrder ==
    /\ \A i, j \in DOMAIN queue :
          i < j /\ IsParam(queue[i]) /\ IsParam(queue[j]) => queue[i].sample <= queue[j].sample
    /\ \A i \in DOMAIN pending, j \in DOMAIN queue :
          IsParam(pending[i]) /\ IsParam(queue[j]) => pending[i].sample <= queue[j].sample
    /\ \A i \in DOMAIN queue : IsParam(queue[i]) => queue[i].sample <= Position
    /\ \A i \in DOMAIN pending : IsParam(pending[i]) => pending[i].sample <= Position

-----------------------------------------------------------------------------
(* The queued-step log *)

LEMMA EntryIs ==
  ASSUME NEW l \in Seq(Entries)
  PROVE  /\ Len(l) \in Nat /\ DOMAIN l = 1 .. Len(l)
         /\ \A i \in 1 .. Len(l) : /\ l[i] \in Entries /\ l[i].step \in Nat
                                    /\ l[i].first \in Nat /\ l[i].sample \in Nat
<1>1. \A q \in Entries : q.step \in Nat /\ q.first \in Nat /\ q.sample \in Nat
  BY DEF Entries
<1>2. Len(l) \in Nat /\ DOMAIN l = 1 .. Len(l) /\ \A i \in 1 .. Len(l) : l[i] \in Entries
  OBVIOUS
<1>3. QED
  BY <1>1, <1>2

\* A flush of the log drops some of the newest entries.
LEMMA NewestIs ==
  ASSUME NEW l \in Seq(Entries), NEW c \in Nat
  PROVE  /\ NewestFrom(l, c) \in 0 .. Len(l)
         /\ \A i \in Len(l) - NewestFrom(l, c) + 1 .. Len(l) : l[i].sample >= c
         /\ FlushLog(l, c) \in Seq(Entries)
         /\ NewestFrom(l, c) # 0 => l[Len(l) - NewestFrom(l, c) + 1] \in Entries
<1> DEFINE N == Len(l)
           newer == {n \in 0 .. N : \A i \in N - n + 1 .. N : l[i].sample >= c}
<1>1. N \in Nat /\ \A i \in 1 .. N : l[i] \in Entries
  BY EntryIs
<1> HIDE DEF N
<1>2. newer \in SUBSET (0 .. N) /\ 0 \in newer
  BY <1>1
<1>3. Max(newer) \in newer /\ Max(newer) \in 0 .. N
  <2> HIDE DEF newer
  <2>1. QED
    BY <1>1, <1>2, MostOf
<1>4. PICK n \in newer : n = NewestFrom(l, c)
  BY <1>3 DEF NewestFrom, N
<1>5. n \in 0 .. N /\ N - n \in 0 .. N /\ \A i \in N - n + 1 .. N : l[i].sample >= c
  BY <1>1, <1>4
<1>6. SubSeq(l, 1, N - n) \in Seq(Entries)
  <2>1. N - n \in 0 .. Len(l)
    BY <1>5 DEF N
  <2>2. QED
    BY <2>1, SplitAt
<1>7. n # 0 => N - n + 1 \in 1 .. N
  BY <1>1, <1>5
<1>8. QED
  BY <1>1, <1>4, <1>5, <1>6, <1>7 DEF FlushLog, N

\* A flush that keeps some entries lies at or after the commit point and behind
\* the hits it keeps.
LEMMA FlushAfterIs ==
  ASSUME NEW l \in Seq(Entries), NEW i \in 0 .. Len(l), NEW c \in Nat
  PROVE  /\ FlushAfter(l, i, c) \in Nat
         /\ FlushAfter(l, i, c) >= c
         /\ \A j \in 1 .. i : l[j].sample < FlushAfter(l, i, c)
<1> DEFINE N == Len(l)
           Ends(k) == {c} \cup {l[j].sample + 1 : j \in 1 .. k}
           Unbounded == {k \in 0 .. N : ~ \E b \in Nat : \A x \in Ends(k) : x <= b}
<1>1. N \in Nat /\ \A j \in 1 .. N : l[j].sample \in Nat
  BY EntryIs
<1>2. i \in 0 .. N
  OBVIOUS
<1> HIDE DEF N
<1>3. Unbounded = {}
  <2> SUFFICES ASSUME Unbounded # {} PROVE FALSE
    OBVIOUS
  <2>1. Unbounded \in SUBSET Nat
    BY <1>1
  <2>2. PICK k \in Unbounded : \A n \in Unbounded : k <= n
    <3> HIDE DEF Unbounded
    <3>1. QED
      BY <2>1, LeastOf
  <2>3. k \in 0 .. N /\ k \in Nat /\ ~ \E b \in Nat : \A x \in Ends(k) : x <= b
    BY <1>1, <2>2
  <2>4. k # 0
    <3>1. SUFFICES ASSUME k = 0 PROVE FALSE
      OBVIOUS
    <3>2. \A x \in Ends(0) : x <= c
      OBVIOUS
    <3>3. QED
      BY <2>3, <3>1, <3>2
  <2>5. k - 1 \in 0 .. N /\ k - 1 \notin Unbounded
    <3>1. k - 1 \in 0 .. N /\ ~(k <= k - 1)
      BY <1>1, <2>3, <2>4
    <3> HIDE DEF Unbounded
    <3>2. QED
      BY <2>2, <3>1
  <2>6. PICK b \in Nat : \A x \in Ends(k - 1) : x <= b
    BY <2>5
  <2>7. l[k].sample \in Nat
    BY <1>1, <2>3, <2>4
  <2>8. \A x \in Ends(k) : x \in Ends(k - 1) \/ x = l[k].sample + 1
    BY <2>3, <2>4
  <2>9. b + l[k].sample + 1 \in Nat /\ \A x \in Ends(k) : x <= b + l[k].sample + 1
    <3>1. \A x \in Ends(k - 1) : x \in Nat
      BY <1>1, <2>3, <2>5
    <3> DEFINE m == l[k].sample
    <3>2. m \in Nat /\ \A x \in Ends(k) : x \in Ends(k - 1) \/ x = m + 1
      BY <2>7, <2>8
    <3> HIDE DEF Ends, m
    <3>3. b + m + 1 \in Nat /\ m + 1 <= b + m + 1
      BY <2>6, <3>2
    <3>4. \A x \in Ends(k - 1) : x <= b + m + 1
      BY <2>6, <3>1, <3>2
    <3>5. QED
      BY <3>2, <3>3, <3>4 DEF m
  <2>10. QED
    BY <2>3, <2>9
<1>4. PICK b \in Nat : \A x \in Ends(i) : x <= b
  BY <1>2, <1>3
<1>5. Ends(i) \in SUBSET Nat /\ Ends(i) # {}
  BY <1>1, <1>2
<1>6. Max(Ends(i)) \in Ends(i) /\ \A x \in Ends(i) : x <= Max(Ends(i))
  <2> HIDE DEF Ends
  <2>1. QED
    BY <1>4, <1>5, MaxIs
<1>7. PICK m \in Nat : m = FlushAfter(l, i, c) /\ \A x \in Ends(i) : x <= m
  BY <1>5, <1>6 DEF FlushAfter
<1>8. c <= m
  BY <1>7
<1>9. ASSUME NEW j \in 1 .. i
      PROVE  l[j].sample < m
  <2>1. l[j].sample + 1 \in Ends(i) /\ l[j].sample \in Nat
    BY <1>1, <1>2
  <2>2. l[j].sample + 1 <= m
    BY <1>7, <2>1
  <2>3. QED
    BY <2>1, <2>2
<1>10. QED
  BY <1>7, <1>8, <1>9

(* A realign takes nothing back that was heard and cuts no step in half: its *)
(* flush lies at or after the commit point, behind every hit that stays and  *)
(* not behind the first event of the first step that goes (control.rs,       *)
(* realign_continuous and QueuedLog::cut).                                   *)
THEOREM CutIs ==
  ASSUME NEW l \in Seq(Entries), NEW c \in Nat
  PROVE  /\ Cut(l, c).flush \in Nat /\ Cut(l, c).flush >= c
         /\ \E n \in 0 .. Len(l) :
              /\ \A i \in 1 .. n : l[i].sample < Cut(l, c).flush
              /\ n < Len(l) => Cut(l, c).flush <= l[n + 1].first
              /\ IF n = 0 THEN Cut(l, c).heard = <<>>
                 ELSE Cut(l, c).heard = <<l[n]>> /\ l[n] \in Entries
              /\ IF n = Len(l) THEN Cut(l, c).dropped = <<>>
                 ELSE Cut(l, c).dropped = <<l[n + 1]>> /\ l[n + 1] \in Entries
<1> DEFINE N == Len(l)
           whole == {n \in 0 .. N : \A i \in 1 .. n : l[i].first < FlushAfter(l, i - 1, c)}
<1>1. N \in Nat /\ \A i \in 1 .. N : l[i] \in Entries /\ l[i].first \in Nat
  BY EntryIs
<1>2. whole \in SUBSET (0 .. N) /\ 0 \in whole
  <2> HIDE DEF N
  <2>1. QED
    BY <1>1
<1>3. Max(whole) \in whole /\ Max(whole) \in 0 .. N /\ \A x \in whole : x <= Max(whole)
  <2> HIDE DEF whole, N
  <2>1. QED
    BY <1>1, <1>2, MostOf
<1>4. PICK n \in 0 .. N : n = HeardWhole(l, c) /\ n \in whole /\ \A x \in whole : x <= n
  BY <1>3 DEF HeardWhole
<1> DEFINE f == FlushAfter(l, n, c)
<1>5. f \in Nat /\ f >= c /\ \A j \in 1 .. n : l[j].sample < f
  BY FlushAfterIs
<1>6. ASSUME n < N
      PROVE  f <= l[n + 1].first
  <2>1. n + 1 \in 0 .. N /\ n + 1 \in 1 .. N /\ (n + 1) - 1 = n
    BY <1>1, <1>6
  <2>2. n + 1 \notin whole
    BY <1>4, <2>1
  <2>3. PICK i \in 1 .. n + 1 : ~(l[i].first < FlushAfter(l, i - 1, c))
    BY <2>1, <2>2
  <2>4. i \notin 1 .. n
    BY <1>4, <2>3
  <2>5. i = n + 1
    BY <2>3, <2>4
  <2>6. ~(l[n + 1].first < f)
    BY <2>1, <2>3, <2>5
  <2>7. l[n + 1].first \in Nat
    BY <1>1, <2>1
  <2> HIDE DEF f
  <2>8. QED
    BY <1>5, <2>6, <2>7
<1>7. /\ Cut(l, c).flush = f
      /\ Cut(l, c).heard = IF n = 0 THEN <<>> ELSE <<l[n]>>
      /\ Cut(l, c).dropped = IF n = N THEN <<>> ELSE <<l[n + 1]>>
  BY <1>4 DEF Cut
<1>8. n # 0 => l[n] \in Entries
  BY <1>1
<1>9. n # N => l[n + 1] \in Entries /\ n < N
  <2>1. n # N => n + 1 \in 1 .. N /\ n < N
    BY <1>1
  <2>2. QED
    BY <1>1, <2>1
<1> HIDE DEF f
<1>10. QED
  BY <1>4, <1>5, <1>6, <1>7, <1>8, <1>9

-----------------------------------------------------------------------------
(* What the control thread computes *)

LEMMA Commits ==
  ASSUME EngineTypeOK
  PROVE  LearnedBlock \in Nat /\ CommitPoint \in Nat /\ Position \in Nat
<1>1. published \in Nat /\ pos \in Nat /\ seen \in Nat /\ block \in Nat /\ now \in Nat
  BY DEF EngineTypeOK, RenderTypes, ControlTypes
<1>2. CommittedBlocks \in Nat /\ Lookahead \in Nat
  BY EngineAssumption
<1>3. LearnedBlock \in Nat
  <2> DEFINE step == published - seen
  <2>1. step > 0 => step \in Nat
    BY <1>1
  <2>2. step > 0 => Min({block, step}) \in Nat
    BY <1>1, <2>1, MaxOfTwo
  <2>3. LearnedBlock = IF step > 0 /\ (seen > 0 \/ block > 0)
                       THEN IF block = 0 THEN step ELSE Min({block, step})
                       ELSE block
    BY DEF LearnedBlock
  <2> HIDE DEF step
  <2>4. QED
    BY <1>1, <2>1, <2>2, <2>3
<1>4. CommitPoint \in Nat
  <2> DEFINE a == CommittedBlocks * LearnedBlock
             b == Lookahead \div 2
             ahead == Min({a, b})
  <2>1. a \in Nat /\ b \in Nat
    BY <1>2, <1>3
  <2>2. CommitPoint = IF now > published THEN now ELSE Max({published + ahead, now})
    BY DEF CommitPoint
  <2> HIDE DEF a, b
  <2>3. ahead \in Nat
    BY <2>1, MaxOfTwo
  <2> HIDE DEF ahead
  <2>4. published + ahead \in Nat
    BY <1>1, <2>3
  <2>5. Max({published + ahead, now}) \in Nat
    BY <1>1, <2>4, MaxOfTwo
  <2>6. QED
    BY <1>1, <2>2, <2>5
<1>5. QED
  BY <1>1, <1>3, <1>4 DEF Position

LEMMA Scheduled ==
  ASSUME NEW s \in Scheds
  PROVE  /\ s.next \in Nat /\ s.stopAfter \in Nat \cup {NoLimit}
         /\ \A step \in Nat : StartAt(s, step) \in Scheds
         /\ \A step, unplayed \in Nat : Seek(s, step, unplayed) \in Scheds
         /\ \A n \in Nat \cup {NoLimit} : SetStopAfter(s, n) \in Scheds
         /\ Stop(s) \in Scheds /\ Advance(s) \in Scheds
<1>1. /\ s.next \in Nat /\ s.playing \in BOOLEAN
      /\ s.stopAfter \in Nat \cup {NoLimit} /\ s.stopAt \in Nat \cup {NoLimit}
  BY DEF Scheds
<1>2. ASSUME NEW step \in Nat
      PROVE  StartAt(s, step) \in Scheds
  <2> DEFINE end == IF s.stopAfter = NoLimit THEN NoLimit ELSE step + s.stopAfter
  <2>1. end \in Nat \cup {NoLimit}
    BY <1>1
  <2>2. StartAt(s, step) = [s EXCEPT !.next = step, !.playing = TRUE, !.stopAt = end]
    BY DEF StartAt
  <2> HIDE DEF end
  <2>3. QED
    BY <1>1, <2>1, <2>2 DEF Scheds
<1>3. ASSUME NEW step \in Nat, NEW unplayed \in Nat
      PROVE  Seek(s, step, unplayed) \in Scheds
  <2>1. s.stopAt # NoLimit => step + Remaining(s, unplayed) \in Nat
    BY <1>1 DEF Remaining, NoLimit
  <2>2. QED
    BY <1>1, <2>1 DEF Seek, Scheds
<1>4. ASSUME NEW n \in Nat \cup {NoLimit}
      PROVE  SetStopAfter(s, n) \in Scheds
  <2> DEFINE end == IF n = NoLimit THEN NoLimit ELSE s.next + n
  <2>1. end \in Nat \cup {NoLimit}
    BY <1>1
  <2>2. SetStopAfter(s, n) = [s EXCEPT !.stopAfter = n, !.stopAt = end]
    BY DEF SetStopAfter
  <2> HIDE DEF end
  <2>3. QED
    BY <1>1, <2>1, <2>2 DEF Scheds
<1>5. Stop(s) \in Scheds
  BY DEF Stop, Scheds
<1>6. Advance(s) \in Scheds
  BY <1>1 DEF Advance, Scheds
<1>7. QED
  BY <1>1, <1>2, <1>3, <1>4, <1>5, <1>6

LEMMA EventsOfStep ==
  ASSUME EngineTypeOK, NEW step \in Nat
  PROVE  /\ Entry(step) \in Entries
         /\ StepEvents(step) \in Seq(Triggers) /\ Len(StepEvents(step)) \in 1 .. 2
<1>1. StepSample(clock, step) \in Nat
  BY PlaceOfStep DEF EngineTypeOK, ControlTypes
<1>2. \A n \in Nat : GraceSample(n) \in Nat
  BY EngineAssumption DEF GraceSample
<1>3. ASSUME NEW kind \in {"grace", "hit"}, NEW n \in Nat
      PROVE  Trigger(kind, n, step) \in Triggers
  <2>1. run \in Nat /\ Len(restarts) \in Nat /\ (n >= floor) \in BOOLEAN
    BY DEF EngineTypeOK, ControlTypes
  <2>2. QED
    BY <2>1 DEF Trigger, Triggers
<1>4. Entry(step) \in Entries
  BY <1>1, <1>2 DEF Entry, Entries
<1> DEFINE s == StepSample(clock, step)
           g == Trigger("grace", GraceSample(s), step)
           h == Trigger("hit", s, step)
<1>5. g \in Triggers /\ h \in Triggers
  BY <1>1, <1>2, <1>3
<1>6. StepEvents(step) = IF IsFlam(step) THEN <<g, h>> ELSE <<h>>
  BY DEF StepEvents
<1> HIDE DEF g, h
<1>7. QED
  BY <1>4, <1>5, <1>6

LEMMA PushedEntry ==
  ASSUME NEW l \in Seq(Entries), NEW q \in Entries
  PROVE  PushEntry(l, q) \in Seq(Entries)
<1> DEFINE all == Append(l, q)
<1>1. all \in Seq(Entries) /\ all # <<>>
  OBVIOUS
<1>2. PushEntry(l, q) = IF Len(all) > QueuedMemory THEN Tail(all) ELSE all
  BY DEF PushEntry
<1> HIDE DEF all
<1>3. Tail(all) \in Seq(Entries)
  BY <1>1
<1>4. QED
  BY <1>1, <1>2, <1>3

-----------------------------------------------------------------------------
(* A flush *)

\* What a call leaves to push: one flush, or nothing but what there was.
Flushing ==
    \/ /\ \E n \in Nat : todo' = <<FlushEvent(n)>>
       /\ flushLeft' = None /\ callPc' = "push"
    \/ UNCHANGED <<todo, flushLeft>> /\ callPc' = "idle"

LEMMA Merged ==
  ASSUME EngineTypeOK, NEW at \in Nat
  PROVE  MergedFlush(at) \in Nat /\ (SendFlush(at) => Flushing)
<1>1. flushLeft # None => flushLeft \in Nat
  BY DEF EngineTypeOK, ControlTypes
<1>2. MergedFlush(at) \in Nat
  <2>1. flushLeft # None => Min({flushLeft, at}) \in Nat
    BY <1>1, MaxOfTwo
  <2>2. QED
    BY <2>1 DEF MergedFlush
<1>3. QED
  BY <1>2 DEF SendFlush, Flushing

LEMMA DropsQueued ==
  ASSUME EngineTypeOK, NEW c \in Nat
  PROVE  /\ DropQueued(c) => Flushing /\ log' \in Seq(Entries)
         /\ Unplayed(c) \in Nat
<1>1. log \in Seq(Entries) /\ sched \in Scheds
  BY DEF EngineTypeOK, ControlTypes
<1>2. DropQueued(c) => Flushing
  <2>1. SendFlush(c) => Flushing
    BY Merged
  <2>2. NoFlush => Flushing
    BY DEF NoFlush, Flushing
  <2>3. QED
    BY <2>1, <2>2 DEF DropQueued
<1>3. DropQueued(c) => log' \in Seq(Entries)
  <2>1. FlushLog(log, c) \in Seq(Entries)
    BY <1>1, NewestIs
  <2>2. QED
    BY <2>1 DEF DropQueued
<1>4. Unplayed(c) \in Nat
  <2> DEFINE n == NewestFrom(log, c)
             q == log[Len(log) - n + 1]
  <2>1. n # 0 => q \in Entries
    BY <1>1, NewestIs
  <2>2. n # 0 => q.step \in Nat
    BY <2>1 DEF Entries
  <2>3. Unplayed(c) = IF n = 0 THEN sched.next ELSE q.step
    BY DEF Unplayed
  <2> HIDE DEF n, q
  <2>4. sched.next \in Nat
    BY <1>1, Scheduled
  <2>5. QED
    BY <2>2, <2>3, <2>4
<1>5. QED
  BY <1>2, <1>3, <1>4

\* What a realign is told was heard: at most one place.
LEMMA HeardAtMostOnce ==
  ASSUME EngineTypeOK, NEW c \in Nat, NEW unplayed \in Nat
  PROVE  /\ LastHeard(Cut(log, c), c, unplayed) = {}
            \/ \E x \in Int : LastHeard(Cut(log, c), c, unplayed) = {x}
         /\ ToSet(Cut(log, c).heard) = {}
            \/ \E q \in Entries : ToSet(Cut(log, c).heard) = {q}
<1> DEFINE cut == Cut(log, c)
           first == Min({unplayed, FirstStepAtOrAfter(clock, c)})
<1>1. log \in Seq(Entries) /\ clock \in Clock
  BY DEF EngineTypeOK, ControlTypes
<1>2. cut.heard = <<>> \/ \E q \in Entries : cut.heard = <<q>>
  BY <1>1, CutIs
<1>3. first \in Nat
  <2>1. FirstStepAtOrAfter(clock, c) \in Nat
    BY <1>1, FirstStepIsFirst
  <2>2. QED
    BY <2>1, MaxOfTwo
<1>4. first > 0 => StepPosition(clock, first - 1) \in Int
  <2> HIDE DEF first
  <2>1. first > 0 => first - 1 \in Nat
    BY <1>3
  <2>2. QED
    BY <1>1, <2>1, PlaceOfStep
<1>5. LastHeard(cut, c, unplayed) =
        IF cut.heard # <<>> THEN {2 * cut.heard[1].sample}
        ELSE IF Len(log) = QueuedMemory /\ first > 0 THEN {StepPosition(clock, first - 1)}
        ELSE {}
  BY DEF LastHeard
<1> HIDE DEF cut, first
<1>6. CASE cut.heard = <<>>
  <2>1. ToSet(cut.heard) = {}
    BY <1>6 DEF ToSet
  <2>2. QED
    BY <1>4, <1>5, <1>6, <2>1 DEF cut
<1>7. CASE \E q \in Entries : cut.heard = <<q>>
  <2>1. PICK q \in Entries : cut.heard = <<q>>
    BY <1>7
  <2>2. ToSet(<<q>>) = {q}
    BY DEF ToSet
  <2>3. 2 * q.sample \in Int
    BY DEF Entries
  <2>4. <<q>> # <<>> /\ <<q>>[1] = q
    OBVIOUS
  <2>5. LastHeard(cut, c, unplayed) = {2 * q.sample}
    BY <1>5, <2>1, <2>4
  <2>6. QED
    BY <2>1, <2>2, <2>3, <2>5 DEF cut
<1>8. QED
  BY <1>2, <1>6, <1>7

\* From where a realign looks for its next step.
LEMMA FromIs ==
  ASSUME NEW c \in Clock, NEW a \in Nat, NEW H, H = {} \/ \E x \in Int : H = {x}
  PROVE  Max({a} \cup {HalfStepAfter(c, h) : h \in H}) \in Nat
<1>1. CASE H = {}
  <2>1. {a} \cup {HalfStepAfter(c, h) : h \in H} = {a}
    BY <1>1
  <2>2. QED
    BY <2>1, MaxOfTwo
<1>2. CASE \E x \in Int : H = {x}
  <2>1. PICK x \in Int : H = {x}
    BY <1>2
  <2>2. {a} \cup {HalfStepAfter(c, h) : h \in H} = {a, HalfStepAfter(c, x)}
    BY <2>1
  <2>3. HalfStepAfter(c, x) \in Nat
    BY ClockMoves
  <2>4. QED
    BY <2>2, <2>3, MaxOfTwo
<1>3. QED
  BY <1>1, <1>2

-----------------------------------------------------------------------------
(* The renderer *)

LEMMA EventIs ==
  ASSUME NEW e \in Events
  PROVE  /\ e.sample \in Nat
         /\ IsTrigger(e) => e \in Triggers
         /\ e.kind = "flush" => e \in Flushes
         /\ e.kind = "param" => e \in Params
<1>1. CASE e \in Flushes
  BY <1>1 DEF Flushes, IsTrigger
<1>2. CASE e \in Params
  BY <1>2 DEF Params, IsTrigger
<1>3. CASE e \in Triggers
  BY <1>3 DEF Triggers, IsTrigger
<1>4. QED
  BY <1>1, <1>2, <1>3 DEF Events

LEMMA TriggerIs ==
  ASSUME NEW e \in Triggers
  PROVE  /\ e \in Events /\ IsTrigger(e) /\ e.kind # "flush" /\ e.kind # "param"
         /\ e.sample \in Nat
         /\ \A n \in Nat : /\ [e EXCEPT !.at = n] \in Triggers
                           /\ [e EXCEPT !.at = n].at = n
                           /\ [e EXCEPT !.at = n].sample = e.sample
                           /\ [e EXCEPT !.at = n].kind = e.kind
                           /\ [e EXCEPT !.at = n].epoch = e.epoch
                           /\ [e EXCEPT !.at = n].step = e.step
BY DEF Triggers, Events, IsTrigger

\* A pull keeps the events held back in order.
LEMMA PulledIs ==
  ASSUME NEW held \in Seq(Events), InOrder(held), NEW e \in Events
  PROVE  /\ InsertPending(held, e) \in Seq(Events) /\ InOrder(InsertPending(held, e))
         /\ FlushPending(held, e.sample) \in Seq(Events)
         /\ InOrder(FlushPending(held, e.sample))
<1> DEFINE kept == {i \in DOMAIN held : ~(IsTrigger(held[i]) /\ held[i].sample >= e.sample)}
<1>1. kept \in SUBSET DOMAIN held /\ FlushPending(held, e.sample) = Places(held, kept)
  BY DEF FlushPending
<1>2. \A x \in Events : x.sample \in Nat
  BY EventIs
<1> HIDE DEF kept
<1>3. InsertPending(held, e) \in Seq(Events) /\ InOrder(InsertPending(held, e))
  BY <1>2, InsertKeepsOrder
<1>4. Places(held, kept) \in Seq(Events)
  BY <1>1, PlacesAre
<1>5. InOrder(Places(held, kept))
  BY <1>1, PlacesKeepOrder
<1>6. QED
  BY <1>1, <1>3, <1>4, <1>5

\* What is due is what begins before the block ends.
LEMMA DueIs ==
  ASSUME EngineTypeOK, InOrder(pending)
  PROVE  /\ DueCount \in 0 .. Len(pending)
         /\ \A i \in 1 .. DueCount : pending[i].sample < pos + Block
         /\ \A i \in DueCount + 1 .. Len(pending) : pending[i].sample >= pos + Block
<1> DEFINE N == Len(pending)
           limit == pos + Block
           begun == {n \in 0 .. N : n = 0 \/ pending[n].sample < limit}
<1>1. pending \in Seq(Events) /\ limit \in Nat
  BY EngineAssumption DEF EngineTypeOK, RenderTypes
<1>2. N \in Nat /\ DOMAIN pending = 1 .. N /\ \A i \in 1 .. N : pending[i].sample \in Nat
  <2>1. N \in Nat /\ DOMAIN pending = 1 .. N /\ \A i \in 1 .. N : pending[i] \in Events
    BY <1>1
  <2>2. QED
    BY <2>1, EventIs
<1> HIDE DEF N, limit
<1>3. begun \in SUBSET (0 .. N) /\ 0 \in begun
  BY <1>2
<1>4. Max(begun) \in begun /\ Max(begun) \in 0 .. N /\ \A x \in begun : x <= Max(begun)
  <2> HIDE DEF begun
  <2>1. QED
    BY <1>2, <1>3, MostOf
<1>5. PICK n \in 0 .. N : n = DueCount /\ n \in begun /\ \A x \in begun : x <= n
  BY <1>4 DEF DueCount, N, limit
<1>6. ASSUME NEW i \in 1 .. n
      PROVE  pending[i].sample < limit
  <2>1. pending[n].sample < limit /\ n \in 1 .. N /\ i \in 1 .. N
    BY <1>2, <1>5
  <2>2. i = n \/ pending[i].sample <= pending[n].sample
    <3>1. i = n \/ i < n
      BY <1>2
    <3>2. QED
      BY <1>2, <2>1, <3>1 DEF InOrder
  <2>3. pending[i].sample \in Nat /\ pending[n].sample \in Nat
    BY <1>2, <2>1
  <2>4. QED
    BY <1>1, <2>1, <2>2, <2>3
<1>7. ASSUME NEW i \in n + 1 .. N
      PROVE  pending[i].sample >= limit
  <2>1. i \in 1 .. N /\ ~(i <= n) /\ i \in 0 .. N
    BY <1>2
  <2>2. i \notin begun
    BY <1>5, <2>1
  <2>3. ~(pending[i].sample < limit)
    BY <2>1, <2>2
  <2>4. pending[i].sample \in Nat
    BY <1>2, <2>1
  <2>5. QED
    BY <1>1, <2>3, <2>4
<1>8. QED
  BY <1>5, <1>6, <1>7 DEF N, limit

\* What fired is the event that was held, but for the sample it fired at.
FiredFrom(h, e) ==
    h.kind = e.kind /\ h.step = e.step /\ h.sample = e.sample /\ h.epoch = e.epoch

\* What is due fires, in order, each on its sample or, if that is past, on the
\* first of the block; the rest stays held.
PlaysAs(due, rest, new) ==
    /\ pending = due \o rest /\ pending' = rest
    /\ heard' = heard \o new
    /\ param' = ParamAfter(param, due)
    /\ InOrder(rest) /\ \A i \in DOMAIN rest : rest[i].sample >= pos + Block
    /\ \A i \in DOMAIN new : /\ new[i].at \in Nat /\ new[i].sample <= new[i].at
                             /\ pos <= new[i].at /\ new[i].at < pos + Block
    /\ \A i, j \in DOMAIN new : i < j => new[i].at <= new[j].at
    /\ \A i \in DOMAIN new : \E k \in DOMAIN due : FiredFrom(new[i], due[k])
    /\ \A k \in DOMAIN due :
          IsTrigger(due[k]) => \E i \in DOMAIN new : FiredFrom(new[i], due[k])
    /\ \A i, j \in DOMAIN new :
          i < j => \E k, l \in DOMAIN due :
                      k < l /\ FiredFrom(new[i], due[k]) /\ FiredFrom(new[j], due[l])

\* So plays a block.
LEMMA Plays ==
  ASSUME EngineTypeOK, InOrder(pending), RenderPlay
  PROVE  \E due, rest \in Seq(Events), new \in Seq(Triggers) : PlaysAs(due, rest, new)
<1> DEFINE N == Len(pending)
           n == DueCount
           due == SubSeq(pending, 1, n)
           rest == SubSeq(pending, n + 1, N)
           triggers == {i \in DOMAIN due : IsTrigger(due[i])}
           fired == Places(due, triggers)
           new == [i \in DOMAIN fired |->
                     [fired[i] EXCEPT !.at = Max({fired[i].sample, pos})]]
<1>1. pending \in Seq(Events) /\ pos \in Nat /\ Block \in Nat /\ Block > 0
  BY EngineAssumption DEF EngineTypeOK, RenderTypes
<1>2. /\ heard' = heard \o new /\ param' = ParamAfter(param, due) /\ pending' = rest
  BY DEF RenderPlay
<1>3. /\ n \in 0 .. Len(pending)
      /\ \A i \in 1 .. n : pending[i].sample < pos + Block
      /\ \A i \in n + 1 .. Len(pending) : pending[i].sample >= pos + Block
  BY DueIs
<1> HIDE DEF n
<1>4. pending = due \o rest
  BY <1>1, <1>3, SplitAt
<1>5. due \in Seq(Events) /\ rest \in Seq(Events)
  BY <1>1, <1>3, SplitAt
<1>6. DOMAIN due = 1 .. n /\ DOMAIN rest = 1 .. N - n
  BY <1>1, <1>3, SplitAt
<1>7. \A i \in 1 .. n : due[i] = pending[i]
  BY <1>1, <1>3, SplitAt
<1>8. \A i \in 1 .. N - n : rest[i] = pending[n + i]
  BY <1>1, <1>3, SplitAt
<1>9. N \in Nat /\ DOMAIN pending = 1 .. N
  BY <1>1
<1> HIDE DEF due, rest, N
<1>10. InOrder(rest) /\ \A i \in DOMAIN rest : rest[i].sample >= pos + Block
  <2>1. \A i \in 1 .. N - n : n + i \in n + 1 .. N /\ n + i \in 1 .. N
    BY <1>3, <1>9 DEF N
  <2>2. \A i \in DOMAIN rest : rest[i].sample >= pos + Block
    BY <1>3, <1>6, <1>8, <2>1 DEF N
  <2>3. \A i, j \in DOMAIN rest : i < j => rest[i].sample <= rest[j].sample
    <3> SUFFICES ASSUME NEW i \in 1 .. N - n, NEW j \in 1 .. N - n, i < j
                 PROVE  rest[i].sample <= rest[j].sample
      BY <1>6
    <3>1. n + i < n + j
      BY <1>3
    <3>2. pending[n + i].sample <= pending[n + j].sample
      BY <1>9, <2>1, <3>1 DEF InOrder
    <3>3. QED
      BY <1>8, <3>2
  <2>4. QED
    BY <2>2, <2>3 DEF InOrder
<1>11. InOrder(due)
  <2>1. \A i \in 1 .. n : i \in 1 .. N
    BY <1>3, <1>9 DEF N
  <2>2. \A i, j \in DOMAIN due : i < j => due[i].sample <= due[j].sample
    BY <1>6, <1>7, <1>9, <2>1 DEF InOrder
  <2>3. QED
    BY <2>2 DEF InOrder
<1>12. \A i \in DOMAIN due : due[i].sample < pos + Block /\ due[i] \in Events
  BY <1>3, <1>5, <1>6, <1>7
<1>13. triggers \in SUBSET DOMAIN due
  OBVIOUS
<1>14. fired \in Seq(Events) /\ InOrder(fired)
  <2> HIDE DEF triggers
  <2>1. fired \in Seq(Events)
    BY <1>5, <1>13, PlacesAre
  <2>2. InOrder(fired)
    BY <1>5, <1>11, <1>13, PlacesKeepOrder
  <2>3. QED
    BY <2>1, <2>2
<1>15. \A i \in DOMAIN fired : \E k \in triggers : fired[i] = due[k]
  <2> HIDE DEF triggers
  <2>1. QED
    BY <1>5, <1>13, PlacesFrom
<1>16. \A k \in triggers : \E i \in DOMAIN fired : fired[i] = due[k]
  <2> HIDE DEF triggers
  <2>1. QED
    BY <1>5, <1>13, PlacesFrom
<1>17. \A i \in DOMAIN fired : /\ fired[i] \in Triggers /\ fired[i].sample \in Nat
                               /\ fired[i].sample < pos + Block
  <2>1. \A k \in triggers : due[k] \in Triggers /\ due[k].sample < pos + Block
    BY <1>12, EventIs
  <2> HIDE DEF triggers, fired
  <2>2. QED
    BY <1>15, <2>1, TriggerIs
<1> HIDE DEF fired
<1> DEFINE At(i) == Max({fired[i].sample, pos})
<1>18. ASSUME NEW i \in DOMAIN fired
       PROVE  /\ At(i) \in Nat /\ At(i) >= fired[i].sample /\ At(i) >= pos
              /\ At(i) = fired[i].sample \/ At(i) = pos
  BY <1>1, <1>17, MaxOfTwo
<1>19. \A i \in DOMAIN fired : /\ new[i] = [fired[i] EXCEPT !.at = At(i)]
                               /\ new[i] \in Triggers /\ new[i].at = At(i)
                               /\ FiredFrom(new[i], fired[i])
  <2> SUFFICES ASSUME NEW i \in DOMAIN fired
               PROVE  /\ new[i] = [fired[i] EXCEPT !.at = At(i)]
                      /\ new[i] \in Triggers /\ new[i].at = At(i)
                      /\ FiredFrom(new[i], fired[i])
    OBVIOUS
  <2>1. new[i] = [fired[i] EXCEPT !.at = At(i)]
    OBVIOUS
  <2>2. At(i) \in Nat /\ fired[i] \in Triggers
    BY <1>17, <1>18
  <2> HIDE DEF At, new
  <2>3. QED
    BY <2>1, <2>2, TriggerIs DEF FiredFrom
<1>20. DOMAIN new = DOMAIN fired /\ new \in Seq(Triggers)
  <2>1. PICK m \in Nat : DOMAIN fired = 1 .. m
    BY <1>14
  <2>2. DOMAIN new = 1 .. m /\ new = [i \in 1 .. m |-> new[i]]
    BY <2>1
  <2>3. \A i \in 1 .. m : new[i] \in Triggers
    BY <1>19, <2>1
  <2> HIDE DEF new
  <2>4. new \in Seq(Triggers)
    BY <2>2, <2>3
  <2>5. QED
    BY <2>1, <2>2, <2>4
<1> HIDE DEF new, At
<1>21. \A i \in DOMAIN new : /\ new[i].at \in Nat /\ new[i].sample <= new[i].at
                             /\ pos <= new[i].at /\ new[i].at < pos + Block
  <2> SUFFICES ASSUME NEW i \in DOMAIN fired
               PROVE  /\ new[i].at \in Nat /\ new[i].sample <= new[i].at
                      /\ pos <= new[i].at /\ new[i].at < pos + Block
    BY <1>20
  <2>1. new[i].at = At(i) /\ new[i].sample = fired[i].sample
    BY <1>19 DEF FiredFrom
  <2>2. /\ At(i) \in Nat /\ At(i) >= fired[i].sample /\ At(i) >= pos
        /\ At(i) = fired[i].sample \/ At(i) = pos
    BY <1>18
  <2>3. fired[i].sample \in Nat /\ fired[i].sample < pos + Block
    BY <1>17
  <2>4. QED
    BY <1>1, <2>1, <2>2, <2>3
<1>22. \A i, j \in DOMAIN new : i < j => new[i].at <= new[j].at
  <2> SUFFICES ASSUME NEW i \in DOMAIN fired, NEW j \in DOMAIN fired, i < j
               PROVE  At(i) <= At(j)
    BY <1>19, <1>20
  <2>1. fired[i].sample <= fired[j].sample
    BY <1>14 DEF InOrder
  <2>2. /\ At(i) = fired[i].sample \/ At(i) = pos
        /\ At(j) >= fired[j].sample /\ At(j) >= pos /\ At(j) \in Nat
    BY <1>18
  <2>3. fired[i].sample \in Nat /\ fired[j].sample \in Nat
    BY <1>17
  <2>4. QED
    BY <1>1, <2>1, <2>2, <2>3
<1>23. \A i \in DOMAIN new : \E k \in DOMAIN due : FiredFrom(new[i], due[k])
  <2>1. \A k \in triggers : k \in DOMAIN due
    OBVIOUS
  <2> HIDE DEF triggers
  <2>2. QED
    BY <1>15, <1>19, <1>20, <2>1
<1>24. \A k \in DOMAIN due :
          IsTrigger(due[k]) => \E i \in DOMAIN new : FiredFrom(new[i], due[k])
  <2>1. \A k \in DOMAIN due : IsTrigger(due[k]) => k \in triggers
    OBVIOUS
  <2> HIDE DEF triggers
  <2>2. \A k \in triggers : \E i \in DOMAIN fired : fired[i] = due[k]
    BY <1>16
  <2>3. QED
    BY <1>19, <1>20, <2>1, <2>2
<1>25. \A i, j \in DOMAIN new :
          i < j => \E k, l \in DOMAIN due :
                      k < l /\ FiredFrom(new[i], due[k]) /\ FiredFrom(new[j], due[l])
  <2>1. \A k \in triggers : k \in DOMAIN due
    OBVIOUS
  <2> HIDE DEF triggers
  <2>2. \A i, j \in DOMAIN fired :
          i < j => \E k, l \in triggers : k < l /\ fired[i] = due[k] /\ fired[j] = due[l]
    BY <1>5, <1>13, PlacesFrom DEF fired
  <2>3. QED
    BY <1>19, <1>20, <2>1, <2>2
<1>26. QED
  BY <1>2, <1>4, <1>5, <1>10, <1>20, <1>21, <1>22, <1>23, <1>24, <1>25 DEF PlaysAs

-----------------------------------------------------------------------------
(* The types of the control thread's state *)

\* What a call pushes is a flush or triggers.
LEMMA PushesFit ==
  ASSUME EngineTypeOK, RoomForStep
  PROVE  /\ \A i \in DOMAIN todo : ~IsParam(todo[i])
         /\ callPc \notin {"push", "tick"} => todo = <<>>
<1>1. \A e \in Flushes : ~IsParam(e)
  BY DEF Flushes, IsParam
<1>2. \A e \in Triggers : ~IsParam(e)
  BY TriggerIs DEF IsParam
<1>3. CASE todo = <<>>
  BY <1>3
<1>4. CASE Len(todo) = 1 /\ todo[1] \in Flushes
  <2>1. DOMAIN todo = {1}
    BY <1>4 DEF EngineTypeOK, ControlTypes
  <2>2. QED
    BY <1>1, <1>4, <2>1 DEF RoomForStep
<1>5. CASE \A i \in DOMAIN todo : todo[i] \in Triggers
  BY <1>2, <1>5 DEF RoomForStep
<1>6. QED
  BY <1>3, <1>4, <1>5 DEF RoomForStep

LEMMA FlushFits ==
  ASSUME EngineTypeOK, RoomForStep, callPc = "commit", Flushing, UNCHANGED <<queue, capacity>>
  PROVE  /\ todo' \in Seq(Events) /\ flushLeft' \in Nat \cup {None}
         /\ callPc' \in {"idle", "push"}
         /\ RoomForStep'
<1>1. todo = <<>>
  BY PushesFit
<1>2. flushLeft \in Nat \cup {None} /\ Len(queue) <= capacity
  BY DEF EngineTypeOK, ControlTypes, RoomForStep
<1>3. CASE (\E n \in Nat : todo' = <<FlushEvent(n)>>) /\ flushLeft' = None /\ callPc' = "push"
  <2>1. PICK n \in Nat : todo' = <<FlushEvent(n)>>
    BY <1>3
  <2>2. FlushEvent(n) \in Flushes /\ FlushEvent(n) \in Events
    BY DEF FlushEvent, Flushes, Events
  <2>3. Len(todo') = 1 /\ todo'[1] \in Flushes /\ todo' \in Seq(Events)
    BY <2>1, <2>2
  <2>4. RoomForStep'
    BY <1>2, <1>3, <2>3 DEF RoomForStep
  <2>5. QED
    BY <1>3, <2>3, <2>4
<1>4. CASE UNCHANGED <<todo, flushLeft>> /\ callPc' = "idle"
  <2>1. todo' = <<>> /\ todo' \in Seq(Events)
    BY <1>1, <1>4
  <2>2. RoomForStep'
    BY <1>2, <1>4, <2>1 DEF RoomForStep
  <2>3. QED
    BY <1>2, <1>4, <2>1, <2>2
<1>5. QED
  BY <1>3, <1>4 DEF Flushing

LEMMA StartInternalTypes ==
  ASSUME EngineTypeOK, RoomForStep, StartInternal, UNCHANGED <<split, capacity>>
  PROVE  ControlTypes' /\ RoomForStep'
<1>1. PICK c \in Nat : c = CommitPoint
  BY Commits
<1>2. /\ DropQueued(c) /\ clock' = RestartAt(clock, c) /\ restarts' = Append(restarts, c)
      /\ floor' = c /\ sched' = StartAt(sched, 0) /\ run' = run + 1 /\ NotePosition
      /\ UNCHANGED <<queue, published, mode, call, now>> /\ callPc = "commit"
  BY <1>1 DEF StartInternal
<1>3. ControlTypes /\ published \in Nat
  BY DEF EngineTypeOK, RenderTypes
<1>4. Flushing /\ log' \in Seq(Entries)
  BY <1>2, DropsQueued
<1>5. /\ todo' \in Seq(Events) /\ flushLeft' \in Nat \cup {None}
      /\ callPc' \in {"idle", "push"} /\ RoomForStep'
  BY <1>2, <1>4, FlushFits
<1>6. clock' \in Clock
  BY <1>2, <1>3, ClockMoves DEF ControlTypes
<1>7. sched' \in Scheds
  BY <1>2, <1>3, Scheduled DEF ControlTypes
<1>8. seen' \in Nat /\ block' \in Nat
  BY <1>2, <1>3, Commits DEF NotePosition
<1>9. run' \in Nat /\ floor' \in Nat /\ restarts' \in Seq(Nat)
  BY <1>2, <1>3 DEF ControlTypes
<1>10. QED
  BY <1>2, <1>3, <1>4, <1>5, <1>6, <1>7, <1>8, <1>9 DEF ControlTypes

LEMMA StartFollowTypes ==
  ASSUME EngineTypeOK, RoomForStep, StartFollow, UNCHANGED <<split, capacity>>
  PROVE  ControlTypes' /\ RoomForStep'
<1>1. PICK c \in Nat : c = CommitPoint
  BY Commits
<1> DEFINE cut == Cut(log, c)
           after == {2 * q.sample : q \in ToSet(cut.heard)}
           from == Max({c} \cup {HalfStepAfter(clock, h) : h \in after})
           first == FirstStepAtOrAfter(clock, from)
<1>2. {HalfStepAfter(clock, 2 * q.sample) : q \in ToSet(cut.heard)}
        = {HalfStepAfter(clock, h) : h \in after}
  OBVIOUS
<1>3. /\ IF cut.dropped # <<>> THEN SendFlush(cut.flush) ELSE NoFlush
      /\ log' = FlushLog(log, cut.flush) /\ sched' = StartAt(sched, first)
      /\ floor' = c /\ run' = run + 1 /\ NotePosition
      /\ UNCHANGED <<queue, published, mode, clock, call, now, restarts>> /\ callPc = "commit"
  BY <1>1, <1>2 DEF StartFollow
<1>4. ControlTypes /\ published \in Nat /\ clock \in Clock /\ log \in Seq(Entries)
        /\ sched \in Scheds
  BY DEF EngineTypeOK, RenderTypes, ControlTypes
<1>5. cut.flush \in Nat
  BY <1>4, CutIs
<1>6. after = {} \/ \E x \in Int : after = {x}
  <2>1. ToSet(cut.heard) = {} \/ \E q \in Entries : ToSet(cut.heard) = {q}
    BY HeardAtMostOnce
  <2>2. \A q \in Entries : 2 * q.sample \in Int
    BY DEF Entries
  <2> HIDE DEF cut
  <2>3. QED
    BY <2>1, <2>2
<1>7. from \in Nat
  <2> HIDE DEF after
  <2>1. QED
    BY <1>4, <1>6, FromIs
<1> HIDE DEF from, cut
<1>8. first \in Nat
  BY <1>4, <1>7, FirstStepIsFirst
<1> HIDE DEF first
<1>9. Flushing
  <2>1. NoFlush => Flushing
    BY DEF NoFlush, Flushing
  <2>2. SendFlush(cut.flush) => Flushing
    BY <1>5, Merged
  <2>3. QED
    BY <1>3, <2>1, <2>2
<1>10. log' \in Seq(Entries)
  BY <1>3, <1>4, <1>5, NewestIs
<1>11. /\ todo' \in Seq(Events) /\ flushLeft' \in Nat \cup {None}
       /\ callPc' \in {"idle", "push"} /\ RoomForStep'
  BY <1>3, <1>9, FlushFits
<1>12. sched' \in Scheds
  BY <1>3, <1>4, <1>8, Scheduled
<1>13. seen' \in Nat /\ block' \in Nat
  BY <1>3, <1>4, Commits DEF NotePosition
<1>14. run' \in Nat /\ floor' \in Nat /\ restarts' \in Seq(Nat) /\ clock' \in Clock
  BY <1>3, <1>4 DEF ControlTypes
<1>15. QED
  BY <1>3, <1>4, <1>10, <1>11, <1>12, <1>13, <1>14 DEF ControlTypes

LEMMA ResyncTypes ==
  ASSUME EngineTypeOK, RoomForStep, Resync, UNCHANGED <<split, capacity>>
  PROVE  ControlTypes' /\ RoomForStep'
<1>1. PICK c \in Nat : c = CommitPoint
  BY Commits
<1>2. /\ clock' = RestartAt(clock, c) /\ NotePosition /\ callPc = "commit"
      /\ UNCHANGED <<queue, published, mode, call, now, run>>
  BY <1>1 DEF Resync
<1>3. \/ /\ DropQueued(c)
         /\ sched' = Seek(sched, FirstStepAtOrAfter(clock', c), Unplayed(c))
         /\ restarts' = Append(restarts, c) /\ floor' = c
      \/ NoFlush /\ UNCHANGED <<log, sched, restarts, floor>>
  BY <1>1 DEF Resync
<1>4. ControlTypes /\ published \in Nat /\ clock \in Clock /\ log \in Seq(Entries)
        /\ sched \in Scheds
  BY DEF EngineTypeOK, RenderTypes, ControlTypes
<1>5. clock' \in Clock
  BY <1>2, <1>4, ClockMoves
<1>6. Flushing /\ log' \in Seq(Entries)
  <2>1. DropQueued(c) => Flushing /\ log' \in Seq(Entries)
    BY DropsQueued
  <2>2. NoFlush => Flushing
    BY DEF NoFlush, Flushing
  <2>3. QED
    BY <1>3, <1>4, <2>1, <2>2
<1>7. /\ todo' \in Seq(Events) /\ flushLeft' \in Nat \cup {None}
      /\ callPc' \in {"idle", "push"} /\ RoomForStep'
  BY <1>2, <1>6, FlushFits
<1>8. sched' \in Scheds
  <2>1. FirstStepAtOrAfter(clock', c) \in Nat
    BY <1>5, FirstStepIsFirst
  <2>2. Unplayed(c) \in Nat
    BY DropsQueued
  <2>3. Seek(sched, FirstStepAtOrAfter(clock', c), Unplayed(c)) \in Scheds
    BY <1>4, <2>1, <2>2, Scheduled
  <2>4. QED
    BY <1>3, <1>4, <2>3
<1>9. seen' \in Nat /\ block' \in Nat
  BY <1>2, <1>4, Commits DEF NotePosition
<1>10. floor' \in Nat /\ restarts' \in Seq(Nat)
  <2>1. floor \in Nat /\ restarts \in Seq(Nat)
    BY <1>4 DEF ControlTypes
  <2>2. Append(restarts, c) \in Seq(Nat)
    BY <2>1
  <2>3. QED
    BY <1>3, <2>1, <2>2
<1>11. QED
  BY <1>2, <1>4, <1>5, <1>6, <1>7, <1>8, <1>9, <1>10 DEF ControlTypes

LEMMA RealignTypes ==
  ASSUME EngineTypeOK, NEW c \in Nat, NEW new \in Clock, RealignContinuous(c, new)
  PROVE  Flushing /\ log' \in Seq(Entries) /\ sched' \in Scheds /\ floor' \in Nat
<1> DEFINE cut == Cut(log, c)
           unplayed == IF cut.dropped = <<>> THEN sched.next ELSE cut.dropped[1].step
           grace == IF c < SnapGrace THEN 0 ELSE c - SnapGrace
           H == LastHeard(cut, c, unplayed)
           from == Max({grace} \cup {HalfStepAfter(new, h) : h \in H})
           first == FirstStepAtOrAfter(new, from)
<1>1. /\ SendFlush(cut.flush) /\ log' = FlushLog(log, cut.flush)
      /\ sched' = Seek(sched, first, unplayed) /\ floor' = c
  BY DEF RealignContinuous
<1>2. clock \in Clock /\ log \in Seq(Entries) /\ sched \in Scheds
  BY DEF EngineTypeOK, ControlTypes
<1>3. cut.flush \in Nat
  BY <1>2, CutIs
<1>4. unplayed \in Nat
  <2>1. cut.dropped = <<>> \/ \E q \in Entries : cut.dropped = <<q>>
    BY <1>2, CutIs
  <2>2. sched.next \in Nat
    BY <1>2, Scheduled
  <2>3. \A q \in Entries : <<q>>[1].step \in Nat
    BY DEF Entries
  <2> HIDE DEF cut
  <2>4. QED
    BY <2>1, <2>2, <2>3
<1>5. grace \in Nat
  BY EngineAssumption
<1> HIDE DEF unplayed, grace
<1>6. H = {} \/ \E x \in Int : H = {x}
  BY <1>4, HeardAtMostOnce
<1> HIDE DEF H
<1>7. from \in Nat
  BY <1>5, <1>6, FromIs
<1> HIDE DEF from
<1>8. first \in Nat
  BY <1>7, FirstStepIsFirst
<1> HIDE DEF first, cut
<1>9. Flushing
  BY <1>1, <1>3, Merged
<1>10. log' \in Seq(Entries)
  BY <1>1, <1>2, <1>3, NewestIs
<1>11. sched' \in Scheds
  BY <1>1, <1>2, <1>4, <1>8, Scheduled
<1>12. QED
  BY <1>1, <1>9, <1>10, <1>11

LEMMA JumpTypes ==
  ASSUME EngineTypeOK, RoomForStep, Jump, UNCHANGED <<split, capacity>>
  PROVE  ControlTypes' /\ RoomForStep'
<1>1. /\ clock' = Moved(SetTempo(clock, call.len, now), call.shift) /\ callPc = "commit"
      /\ UNCHANGED <<queue, published, mode, call, now, run, restarts>>
      /\ call.op = "jump"
  BY DEF Jump
<1>2. \/ RealignContinuous(CommitPoint, clock') /\ NotePosition
      \/ NoFlush /\ UNCHANGED <<log, sched, floor, seen, block>>
  BY DEF Jump
<1>3. ControlTypes /\ published \in Nat /\ clock \in Clock /\ log \in Seq(Entries)
        /\ sched \in Scheds /\ now \in Nat /\ call \in Calls
  BY DEF EngineTypeOK, RenderTypes, ControlTypes
<1>4. call.shift \in Int /\ call.len \in Nat \ {0}
  <2>1. call \in [op : {"jump"}, shift : Shifts, len : StepLens]
    BY <1>1, <1>3 DEF Calls, NoCall
  <2>2. QED
    BY <2>1, EngineAssumption
<1>5. clock' \in Clock
  <2>1. SetTempo(clock, call.len, now) \in Clock
    BY <1>3, <1>4, ClockMoves
  <2>2. QED
    BY <1>1, <1>4, <2>1, ClockMoves
<1>6. Flushing /\ log' \in Seq(Entries) /\ sched' \in Scheds /\ floor' \in Nat
  <2>1. CommitPoint \in Nat
    BY Commits
  <2>2. RealignContinuous(CommitPoint, clock') =>
          Flushing /\ log' \in Seq(Entries) /\ sched' \in Scheds /\ floor' \in Nat
    BY <1>5, <2>1, RealignTypes
  <2>3. NoFlush => Flushing
    BY DEF NoFlush, Flushing
  <2>4. QED
    BY <1>2, <1>3, <2>2, <2>3 DEF ControlTypes
<1>7. /\ todo' \in Seq(Events) /\ flushLeft' \in Nat \cup {None}
      /\ callPc' \in {"idle", "push"} /\ RoomForStep'
  BY <1>1, <1>6, FlushFits
<1>8. seen' \in Nat /\ block' \in Nat
  <2>1. NotePosition => seen' \in Nat /\ block' \in Nat
    BY <1>3, Commits DEF NotePosition
  <2>2. QED
    BY <1>2, <1>3, <2>1 DEF ControlTypes
<1>9. QED
  BY <1>1, <1>3, <1>5, <1>6, <1>7, <1>8 DEF ControlTypes

LEMMA BeginTypes ==
  ASSUME EngineTypeOK, RoomForStep, NEW c \in RealignCalls, BeginCall(c),
         UNCHANGED <<split, capacity>>
  PROVE  ControlTypes' /\ RoomForStep'
<1>1. /\ callPc = "idle" /\ callPc' = "commit" /\ call' = c /\ now' = Position
      /\ UNCHANGED <<queue, controlVars, todo, historyVars>>
  BY DEF BeginCall, MayCall
<1>2. c \in Calls
  BY DEF RealignCalls, Calls
<1>3. now' \in Nat
  BY <1>1, Commits
<1>4. todo = <<>>
  BY <1>1, PushesFit
<1>5. ControlTypes'
  BY <1>1, <1>2, <1>3 DEF EngineTypeOK, ControlTypes, controlVars, historyVars
<1>6. RoomForStep'
  BY <1>1, <1>4 DEF RoomForStep
<1>7. QED
  BY <1>5, <1>6

LEMMA QuietTypes ==
  ASSUME EngineTypeOK, RoomForStep, QuietCall, UNCHANGED <<split, capacity>>
  PROVE  ControlTypes' /\ RoomForStep'
<1>1. UNCHANGED <<queue, log, flushLeft, seen, block, callVars, run, restarts, floor>>
  BY DEF QuietCall
<1>2. ControlTypes /\ clock \in Clock /\ sched \in Scheds /\ mode \in {"internal", "follow"}
  BY DEF EngineTypeOK, ControlTypes
<1>3. mode' \in {"internal", "follow"} /\ clock' \in Clock /\ sched' \in Scheds
  <2>1. CASE StopCall
    BY <1>2, <2>1, Scheduled DEF StopCall
  <2>2. CASE LimitRun
    <3>1. PICK n \in RunLengths \cup {NoLimit} : sched' = SetStopAfter(sched, n)
      BY <2>2 DEF LimitRun
    <3>2. n \in Nat \cup {NoLimit}
      BY EngineAssumption
    <3>3. sched' \in Scheds
      BY <1>2, <3>1, <3>2, Scheduled
    <3>4. QED
      BY <1>2, <2>2, <3>3 DEF LimitRun
  <2>3. CASE ChangeTempo
    <3>1. PICK len \in StepLens : clock' = SetTempo(clock, len, Position)
      BY <2>3 DEF ChangeTempo
    <3>2. len \in Nat \ {0} /\ Position \in Nat
      BY EngineAssumption, Commits
    <3>3. clock' \in Clock
      BY <1>2, <3>1, <3>2, ClockMoves
    <3>4. QED
      BY <1>2, <2>3, <3>3 DEF ChangeTempo
  <2>4. CASE Replan
    <3>1. PICK d \in Slews : clock' = Moved(clock, d)
      BY <2>4 DEF Replan
    <3>2. d \in Int
      BY EngineAssumption
    <3>3. clock' \in Clock
      BY <1>2, <3>1, <3>2, ClockMoves
    <3>4. QED
      BY <1>2, <2>4, <3>3 DEF Replan
  <2>5. CASE SetClockMode
    BY <1>2, <2>5 DEF SetClockMode
  <2>6. QED
    BY <2>1, <2>2, <2>3, <2>4, <2>5 DEF QuietCall
<1>4. ControlTypes'
  BY <1>1, <1>2, <1>3 DEF ControlTypes, callVars
<1>5. RoomForStep'
  BY <1>1 DEF RoomForStep, callVars, Vacant
<1>6. QED
  BY <1>4, <1>5

LEMMA TickTypes ==
  ASSUME EngineTypeOK, RoomForStep, TickBegin \/ TickNote \/ TickEnd,
         UNCHANGED <<split, capacity>>
  PROVE  ControlTypes' /\ RoomForStep'
<1>1. ControlTypes /\ published \in Nat /\ sched \in Scheds /\ Len(queue) <= capacity
  BY DEF EngineTypeOK, RenderTypes, ControlTypes, RoomForStep
<1>2. CASE TickBegin
  <2>1. todo = <<>>
    BY <1>2, PushesFit DEF TickBegin, MayCall
  <2>2. call' \in Calls /\ now' \in Nat
    BY <1>2, Commits DEF TickBegin, Calls
  <2>3. ControlTypes'
    BY <1>1, <1>2, <2>2 DEF ControlTypes, TickBegin, controlVars, historyVars
  <2>4. RoomForStep'
    BY <1>1, <1>2, <2>1 DEF RoomForStep, TickBegin
  <2>5. QED
    BY <2>3, <2>4
<1>3. CASE TickNote
  <2>1. seen' \in Nat /\ block' \in Nat
    BY <1>1, <1>3, Commits DEF TickNote, NotePosition
  <2>2. todo' = <<>> \/ \E n \in Nat : todo' = <<FlushEvent(n)>>
    BY <1>1, <1>3 DEF TickNote, ControlTypes
  <2>3. \A n \in Nat : FlushEvent(n) \in Flushes /\ FlushEvent(n) \in Events
    BY DEF FlushEvent, Flushes, Events
  <2>4. todo' \in Seq(Events) /\ (todo' = <<>> \/ (Len(todo') = 1 /\ todo'[1] \in Flushes))
    <3>1. CASE todo' = <<>>
      <4>1. <<>> \in Seq(Events)
        OBVIOUS
      <4>2. QED
        BY <3>1, <4>1
    <3>2. CASE \E n \in Nat : todo' = <<FlushEvent(n)>>
      <4>1. PICK n \in Nat : todo' = <<FlushEvent(n)>>
        BY <3>2
      <4>2. FlushEvent(n) \in Flushes /\ FlushEvent(n) \in Events
        BY <2>3
      <4>3. QED
        BY <4>1, <4>2
    <3>3. QED
      BY <2>2, <3>1, <3>2
  <2>5. ControlTypes'
    BY <1>1, <1>3, <2>1, <2>4 DEF ControlTypes, TickNote, historyVars
  <2>6. RoomForStep'
    BY <1>1, <1>3, <2>4 DEF RoomForStep, TickNote
  <2>7. QED
    BY <2>5, <2>6
<1>4. CASE TickEnd
  <2>1. sched' \in Scheds
    BY <1>1, <1>4, Scheduled DEF TickEnd
  <2>2. ControlTypes'
    BY <1>1, <1>4, <2>1 DEF ControlTypes, TickEnd, historyVars
  <2>3. RoomForStep'
    BY <1>1, <1>4 DEF RoomForStep, TickEnd
  <2>4. QED
    BY <2>2, <2>3
<1>5. QED
  BY <1>2, <1>3, <1>4

\* A step is scheduled only when all its triggers fit.
LEMMA StepTypes ==
  ASSUME EngineTypeOK, RoomForStep, TickStep, UNCHANGED <<split, capacity>>
  PROVE  ControlTypes' /\ RoomForStep'
<1> DEFINE step == sched.next
<1>1. ControlTypes /\ log \in Seq(Entries) /\ sched \in Scheds /\ Len(queue) <= capacity
        /\ step \in Nat
  BY Scheduled DEF EngineTypeOK, ControlTypes, RoomForStep
<1>2. /\ todo' = StepEvents(step) /\ log' = PushEntry(log, Entry(step)) /\ sched' = Advance(sched)
      /\ UNCHANGED <<queue, mode, clock, flushLeft, seen, block, callPc, call, now, historyVars>>
      /\ callPc = "tick" /\ Vacant >= 2 * VoiceCount + FlushReserve
  BY DEF TickStep, StepDue
<1>3. /\ Entry(step) \in Entries
      /\ StepEvents(step) \in Seq(Triggers) /\ Len(StepEvents(step)) \in 1 .. 2
  BY <1>1, EventsOfStep
<1> HIDE DEF step
<1>4. log' \in Seq(Entries) /\ sched' \in Scheds
  BY <1>1, <1>2, <1>3, PushedEntry, Scheduled
<1>5. /\ todo' \in Seq(Triggers) /\ Len(todo') <= 2
      /\ \A i \in DOMAIN todo' : todo'[i] \in Triggers
  <2>1. PICK t \in Seq(Triggers) : t = StepEvents(step) /\ Len(t) \in 1 .. 2
    BY <1>3
  <2>2. \A i \in DOMAIN t : t[i] \in Triggers
    OBVIOUS
  <2>3. \A n \in 1 .. 2 : n <= 2
    OBVIOUS
  <2>4. QED
    BY <1>2, <2>1, <2>2, <2>3
<1>6. todo' \in Seq(Events)
  <2>1. Triggers \subseteq Events
    BY DEF Events
  <2>2. QED
    BY <1>5, <2>1
<1>7. ControlTypes'
  BY <1>1, <1>2, <1>4, <1>6 DEF ControlTypes, historyVars
<1>8. RoomForStep'
  <2>1. Vacant' = Vacant /\ Vacant \in Int /\ FlushReserve \in Nat
    BY <1>1, <1>2, EngineAssumption DEF Vacant, ControlTypes, EngineTypeOK, RenderTypes
  <2>2. Len(todo') <= Vacant' /\ Len(todo') \in Nat
    BY <1>2, <1>5, <2>1 DEF VoiceCount
  <2>3. Len(queue') <= capacity' /\ callPc' = "tick"
    BY <1>1, <1>2
  <2>4. QED
    BY <1>5, <2>2, <2>3 DEF RoomForStep
<1>9. QED
  BY <1>7, <1>8

LEMMA PushTypes ==
  ASSUME EngineTypeOK, RoomForStep, PushEvent \/ PushFails, UNCHANGED <<split, capacity>>
  PROVE  ControlTypes' /\ RoomForStep' /\ (PushFails => Head(todo).kind = "flush")
<1>1. /\ todo # <<>> /\ todo \in Seq(Events) /\ queue \in Seq(Events) /\ ControlTypes
      /\ capacity \in Nat /\ Len(queue) <= capacity /\ Len(queue) \in Nat
      /\ callPc \in {"push", "tick"}
  BY DEF EngineTypeOK, RenderTypes, ControlTypes, RoomForStep, PushEvent, PushFails
<1>2. /\ todo' = Tail(todo) /\ Tail(todo) \in Seq(Events) /\ Head(todo) \in Events
      /\ Len(todo) \in Nat /\ Len(todo) >= 1 /\ Len(Tail(todo)) = Len(todo) - 1
      /\ Head(todo) = todo[1] /\ 1 \in DOMAIN todo
  BY <1>1 DEF PushEvent, PushFails
<1>3. \/ Len(todo) = 1 /\ Head(todo) \in Flushes
      \/ /\ \A i \in DOMAIN todo : todo[i] \in Triggers
         /\ Len(todo) <= Vacant /\ callPc = "tick"
  BY <1>1, <1>2 DEF RoomForStep
<1>4. PushFails => Len(todo) = 1 /\ Head(todo) \in Flushes /\ Head(todo).kind = "flush"
                     /\ Head(todo).sample \in Nat
  <2>1. PushFails => Vacant = 0
    BY DEF PushFails
  <2>2. PushFails => Len(todo) = 1 /\ Head(todo) \in Flushes
    BY <1>2, <1>3, <2>1
  <2>3. QED
    BY <2>2 DEF Flushes
<1>5. CASE PushFails
  <2>1. todo' = <<>>
    BY <1>2, <1>4, <1>5
  <2>2. flushLeft' \in Nat /\ callPc' = "idle"
    BY <1>4, <1>5 DEF PushFails
  <2>3. ControlTypes'
    BY <1>1, <1>2, <1>5, <2>2 DEF ControlTypes, PushFails, historyVars
  <2>4. RoomForStep'
    BY <1>1, <1>5, <2>1 DEF RoomForStep, PushFails
  <2>5. QED
    BY <1>4, <2>3, <2>4
<1>6. CASE PushEvent
  <2>1. queue' = Append(queue, Head(todo)) /\ Vacant > 0
    BY <1>6 DEF PushEvent
  <2>2. Len(queue') = Len(queue) + 1
    BY <1>1, <2>1
  <2>3. Vacant = capacity - Len(queue) /\ Vacant' = capacity - Len(queue')
    BY DEF Vacant
  <2>4. Len(queue') <= capacity
    BY <1>1, <2>1, <2>2, <2>3
  <2>5. ControlTypes'
    BY <1>1, <1>2, <1>6 DEF ControlTypes, PushEvent, controlVars, historyVars
  <2>6. CASE Len(todo) = 1
    <3>1. todo' = <<>>
      BY <1>2, <2>6
    <3>2. QED
      BY <1>4, <2>4, <2>5, <3>1 DEF RoomForStep, PushFails, PushEvent
  <2>7. CASE (\A i \in DOMAIN todo : todo[i] \in Triggers) /\ Len(todo) <= Vacant /\ callPc = "tick"
    <3>1. \A i \in DOMAIN todo' : todo'[i] \in Triggers
      BY <1>1, <1>2, <2>7
    <3>2. Len(todo') <= Vacant'
      BY <1>1, <1>2, <2>2, <2>3, <2>7
    <3>3. callPc' = "tick"
      BY <1>6, <2>7 DEF PushEvent
    <3>4. QED
      BY <1>4, <2>4, <2>5, <3>1, <3>2, <3>3 DEF RoomForStep
  <2>8. QED
    BY <1>3, <2>6, <2>7
<1>7. QED
  BY <1>5, <1>6

-----------------------------------------------------------------------------
(* The inductive invariant of the two threads *)

EngineInv == EngineTypeOK /\ HeldInOrder /\ FiredInTime /\ RoomForStep

LEMMA SetParamTypes ==
  ASSUME EngineTypeOK, RoomForStep, SetParam, UNCHANGED <<split, capacity>>
  PROVE  ControlTypes' /\ RoomForStep' /\ queue' \in Seq(Events)
<1>1. /\ callPc = "idle" /\ UNCHANGED callVars
      /\ UNCHANGED <<mode, clock, sched, log, flushLeft, seen, block, historyVars>>
  BY DEF SetParam, MayCall
<1>2. todo = <<>>
  BY <1>1, PushesFit
<1>3. /\ queue \in Seq(Events) /\ Len(queue) \in Nat /\ Len(queue) <= capacity
      /\ capacity \in Nat /\ FlushReserve \in Nat
  BY EngineAssumption DEF EngineTypeOK, RenderTypes, ControlTypes, RoomForStep
<1>4. \/ UNCHANGED queue
      \/ /\ Vacant > FlushReserve
         /\ \E v \in Values : queue' = Append(queue, ParamEvent(Position, v))
  BY DEF SetParam
<1>5. \A v \in Values : ParamEvent(Position, v) \in Events
  BY Commits DEF ParamEvent, Params, Events
<1>6. queue' \in Seq(Events) /\ Len(queue') <= capacity
  <2>1. CASE UNCHANGED queue
    BY <1>3, <2>1
  <2>2. CASE /\ Vacant > FlushReserve
             /\ \E v \in Values : queue' = Append(queue, ParamEvent(Position, v))
    <3>1. PICK v \in Values : queue' = Append(queue, ParamEvent(Position, v))
      BY <2>2
    <3>2. ParamEvent(Position, v) \in Events
      BY <1>5
    <3>3. queue' \in Seq(Events) /\ Len(queue') = Len(queue) + 1
      BY <1>3, <3>1, <3>2
    <3>4. QED
      BY <1>3, <2>2, <3>3 DEF Vacant
  <2>3. QED
    BY <1>4, <2>1, <2>2
<1>7. ControlTypes'
  BY <1>1 DEF EngineTypeOK, ControlTypes, callVars, historyVars
<1>8. RoomForStep'
  BY <1>1, <1>2, <1>6 DEF RoomForStep, callVars
<1>9. QED
  BY <1>6, <1>7, <1>8

LEMMA ControlKeeps ==
  ASSUME EngineInv, Control, UNCHANGED <<split, capacity>>
  PROVE  EngineInv'
<1>1. EngineTypeOK /\ RoomForStep /\ HeldInOrder /\ FiredInTime /\ RenderTypes
  BY DEF EngineInv, EngineTypeOK
<1>2. ControlTypes' /\ RoomForStep' /\ queue' \in Seq(Events)
        /\ UNCHANGED <<published, renderVars>>
  <2>1. ASSUME NEW c \in RealignCalls, BeginCall(c)
        PROVE  ControlTypes' /\ RoomForStep' /\ queue' \in Seq(Events)
                 /\ UNCHANGED <<published, renderVars>>
    BY <1>1, <2>1, BeginTypes DEF BeginCall, RenderTypes
  <2>2. CASE StartInternal
    BY <1>1, <2>2, StartInternalTypes DEF StartInternal, RenderTypes
  <2>3. CASE StartFollow
    BY <1>1, <2>3, StartFollowTypes DEF StartFollow, RenderTypes
  <2>4. CASE Resync
    BY <1>1, <2>4, ResyncTypes DEF Resync, RenderTypes
  <2>5. CASE Jump
    BY <1>1, <2>5, JumpTypes DEF Jump, RenderTypes
  <2>6. CASE QuietCall
    BY <1>1, <2>6, QuietTypes DEF QuietCall, RenderTypes
  <2>7. CASE SetParam
    BY <1>1, <2>7, SetParamTypes DEF SetParam
  <2>8. CASE TickBegin
    BY <1>1, <2>8, TickTypes DEF TickBegin, RenderTypes
  <2>9. CASE TickNote
    BY <1>1, <2>9, TickTypes DEF TickNote, RenderTypes
  <2>10. CASE TickStep
    BY <1>1, <2>10, StepTypes DEF TickStep, RenderTypes
  <2>11. CASE TickEnd
    BY <1>1, <2>11, TickTypes DEF TickEnd, RenderTypes
  <2>12. CASE PushEvent
    <3>1. todo \in Seq(Events) /\ todo # <<>> /\ queue \in Seq(Events)
            /\ queue' = Append(queue, Head(todo))
      BY <1>1, <2>12 DEF PushEvent, RenderTypes, EngineTypeOK, ControlTypes
    <3>2. Head(todo) \in Events
      BY <3>1
    <3>3. queue' \in Seq(Events)
      BY <3>1, <3>2
    <3>4. ControlTypes' /\ RoomForStep'
      BY <1>1, <2>12, PushTypes
    <3>5. QED
      BY <2>12, <3>3, <3>4 DEF PushEvent
  <2>13. CASE PushFails
    BY <1>1, <2>13, PushTypes DEF PushFails, RenderTypes
  <2>14. QED
    BY <2>1, <2>2, <2>3, <2>4, <2>5, <2>6, <2>7, <2>8, <2>9, <2>10, <2>11, <2>12, <2>13
       DEF Control
<1>3. RenderTypes'
  BY <1>1, <1>2 DEF RenderTypes, renderVars
<1>4. HeldInOrder'
  BY <1>1, <1>2 DEF HeldInOrder, InOrder, renderVars
<1>5. FiredInTime'
  BY <1>1, <1>2 DEF FiredInTime, renderVars
<1>6. QED
  BY <1>2, <1>3, <1>4, <1>5 DEF EngineInv, EngineTypeOK

\* The renderer takes from the queue, so the step that waits still fits.
LEMMA RoomStays ==
  ASSUME EngineTypeOK, RoomForStep, UNCHANGED <<capacity, todo, callPc>>,
         queue' \in Seq(Events), Len(queue') <= Len(queue)
  PROVE  RoomForStep'
<1>1. Len(queue) \in Nat /\ Len(queue') \in Nat /\ capacity \in Nat /\ Len(todo) \in Nat
  BY DEF EngineTypeOK, RenderTypes, ControlTypes
<1>2. Vacant = capacity - Len(queue) /\ Vacant' = capacity - Len(queue')
  BY DEF Vacant
<1>3. Len(todo) <= Vacant => Len(todo') <= Vacant'
  BY <1>1, <1>2
<1>4. QED
  BY <1>1, <1>3 DEF RoomForStep

LEMMA RenderKeeps ==
  ASSUME EngineInv, Render, UNCHANGED <<split, capacity>>
  PROVE  EngineInv'
<1>1. EngineTypeOK /\ RoomForStep /\ HeldInOrder /\ FiredInTime /\ RenderTypes /\ ControlTypes
  BY DEF EngineInv, EngineTypeOK
<1>2. pos \in Nat /\ Block \in Nat /\ Block > 0
  BY <1>1, EngineAssumption DEF RenderTypes
<1>3. UNCHANGED <<controlVars, callVars, historyVars>>
  BY DEF Render, RenderStart, RenderBlock
<1>4. ControlTypes'
  BY <1>1, <1>3 DEF ControlTypes, controlVars, callVars, historyVars
<1>5. CASE RenderStart
  <2>1. /\ published' = pos /\ renderPc' = "pull"
        /\ UNCHANGED <<queue, pos, pending, param, heard>>
    BY <1>5 DEF RenderStart, RenderPublish
  <2>2. RenderTypes'
    BY <1>1, <2>1 DEF RenderTypes
  <2>3. HeldInOrder'
    BY <1>1, <2>1 DEF HeldInOrder, InOrder
  <2>4. FiredInTime'
    BY <1>1, <2>1 DEF FiredInTime
  <2>5. RoomForStep'
    BY <1>1, <1>3, <2>1 DEF RoomForStep, Vacant, callVars
  <2>6. QED
    BY <1>4, <2>2, <2>3, <2>4, <2>5 DEF EngineInv, EngineTypeOK
<1>6. CASE RenderPull
  <2> DEFINE e == Head(queue)
  <2>1. /\ renderPc = "pull" /\ queue # <<>> /\ queue' = Tail(queue)
        /\ pending' = IF e.kind = "flush" THEN FlushPending(pending, e.sample)
                                         ELSE InsertPending(pending, e)
        /\ UNCHANGED <<published, pos, renderPc, param, heard>>
    BY <1>6 DEF RenderPull, CanPull
  <2>2. e \in Events /\ queue' \in Seq(Events) /\ Len(queue') <= Len(queue)
    BY <1>1, <2>1 DEF RenderTypes
  <2>3. pending \in Seq(Events) /\ InOrder(pending)
    BY <1>1 DEF RenderTypes, HeldInOrder
  <2> HIDE DEF e
  <2>4. pending' \in Seq(Events) /\ InOrder(pending')
    BY <2>1, <2>2, <2>3, PulledIs
  <2>5. RenderTypes'
    BY <1>1, <2>1, <2>2, <2>4 DEF RenderTypes
  <2>6. HeldInOrder'
    BY <2>1, <2>4 DEF HeldInOrder, InOrder
  <2>7. FiredInTime'
    BY <1>1, <2>1 DEF FiredInTime
  <2>8. RoomForStep'
    BY <1>1, <1>3, <2>2, RoomStays DEF callVars
  <2>9. QED
    BY <1>4, <2>5, <2>6, <2>7, <2>8 DEF EngineInv, EngineTypeOK
<1>7. CASE RenderPlay
  <2>1. InOrder(pending)
    BY <1>1 DEF HeldInOrder
  <2>2p. PICK due \in Seq(Events), rest \in Seq(Events), new \in Seq(Triggers) :
        PlaysAs(due, rest, new)
    BY <1>1, <1>7, <2>1, Plays
  <2>2. /\ pending = due \o rest /\ pending' = rest
        /\ heard' = heard \o new
        /\ param' = ParamAfter(param, due)
        /\ InOrder(rest) /\ \A i \in DOMAIN rest : rest[i].sample >= pos + Block
        /\ \A i \in DOMAIN new : /\ new[i].at \in Nat /\ new[i].sample <= new[i].at
                                 /\ pos <= new[i].at /\ new[i].at < pos + Block
        /\ \A i, j \in DOMAIN new : i < j => new[i].at <= new[j].at
    BY <2>2p DEF PlaysAs
  <2>3. /\ pos' = pos + Block /\ renderPc' = "idle" /\ UNCHANGED <<queue, published>>
    BY <1>7 DEF RenderPlay
  <2>4. heard \in Seq(Triggers) /\ heard' \in Seq(Triggers)
    BY <1>1, <2>2 DEF RenderTypes
  <2>5. RenderTypes'
    BY <1>1, <1>2, <2>2, <2>3, <2>4 DEF RenderTypes
  <2>6. HeldInOrder'
    BY <2>2, <2>3 DEF HeldInOrder, InOrder
  <2>7. FiredInTime'
    <3> DEFINE all == heard \o new
    <3>1. heard' = all
      BY <2>2
    <3>2. \A k \in DOMAIN all :
            \/ k \in DOMAIN heard /\ all[k] = heard[k] /\ k <= Len(heard)
            \/ k - Len(heard) \in DOMAIN new /\ all[k] = new[k - Len(heard)] /\ k > Len(heard)
      BY <2>4, Joined
    <3>3. Len(heard) \in Nat /\ DOMAIN all \subseteq Nat
      BY <2>4, Joined
    <3>4. \A i \in DOMAIN heard :
            heard[i].at \in Nat /\ heard[i].sample <= heard[i].at /\ heard[i].at < pos
      BY <1>1 DEF FiredInTime
    <3>5. \A i, j \in DOMAIN heard : i < j => heard[i].at <= heard[j].at
      BY <1>1 DEF FiredInTime
    <3> HIDE DEF all
    <3>6. ASSUME NEW k \in DOMAIN all
          PROVE  all[k].at \in Nat /\ all[k].sample <= all[k].at /\ all[k].at < pos + Block
      <4>1. CASE k \in DOMAIN heard /\ all[k] = heard[k]
        <5>1. heard[k].at \in Nat /\ heard[k].at < pos /\ heard[k].sample <= heard[k].at
          BY <3>4, <4>1
        <5>2. heard[k].at < pos + Block
          BY <1>2, <5>1
        <5>3. QED
          BY <4>1, <5>1, <5>2
      <4>2. CASE k - Len(heard) \in DOMAIN new /\ all[k] = new[k - Len(heard)]
        BY <2>2, <4>2
      <4>3. QED
        BY <3>2, <4>1, <4>2
    <3>7. ASSUME NEW i \in DOMAIN all, NEW j \in DOMAIN all, i < j
          PROVE  all[i].at <= all[j].at
      <4>1. CASE j \in DOMAIN heard /\ all[j] = heard[j] /\ j <= Len(heard)
        <5>1. i \in DOMAIN heard /\ all[i] = heard[i]
          BY <3>2, <3>3, <3>7, <4>1
        <5>2. QED
          BY <3>5, <3>7, <4>1, <5>1
      <4>2. CASE j - Len(heard) \in DOMAIN new /\ all[j] = new[j - Len(heard)] /\ j > Len(heard)
        <5>1. CASE i \in DOMAIN heard /\ all[i] = heard[i]
          <6>1. heard[i].at \in Nat /\ heard[i].at < pos
            BY <3>4, <5>1
          <6>2. pos <= all[j].at /\ all[j].at \in Nat
            BY <2>2, <4>2
          <6>3. QED
            BY <1>2, <5>1, <6>1, <6>2
        <5>2. CASE i - Len(heard) \in DOMAIN new /\ all[i] = new[i - Len(heard)]
          <6>1. i - Len(heard) < j - Len(heard)
            BY <3>3, <3>7
          <6>2. new[i - Len(heard)].at <= new[j - Len(heard)].at
            BY <2>2, <4>2, <5>2, <6>1
          <6>3. QED
            BY <4>2, <5>2, <6>2
        <5>3. QED
          BY <3>2, <5>1, <5>2
      <4>3. QED
        BY <3>2, <4>1, <4>2
    <3>8. QED
      BY <2>3, <3>1, <3>6, <3>7 DEF FiredInTime
  <2>8. RoomForStep'
    BY <1>1, <1>3, <2>3 DEF RoomForStep, Vacant, callVars
  <2>9. QED
    BY <1>4, <2>5, <2>6, <2>7, <2>8 DEF EngineInv, EngineTypeOK
<1>8. QED
  BY <1>5, <1>6, <1>7 DEF Render, RenderBlock

LEMMA InitEngine ==
  ASSUME Init
  PROVE  EngineInv
<1>1. Block \in Nat /\ capacity \in Nat /\ capacity >= 2 * VoiceCount + FlushReserve
        /\ FlushReserve \in Nat /\ split \in BOOLEAN
  BY EngineAssumption DEF Init, VoiceCount
<1>2. /\ queue = <<>> /\ pending = <<>> /\ heard = <<>> /\ renderPc = "idle"
      /\ pos \in Nat /\ published \in Nat /\ published <= pos
  BY <1>1 DEF Init, RenderInit
<1>3. Max(StepLens) \in StepLens
  BY EngineAssumption, FiniteMax
<1>4. clock \in Clock
  <2>1. Max(StepLens) \in Nat \ {0}
    BY <1>3, EngineAssumption
  <2> DEFINE len == Max(StepLens)
  <2>2. clock = [anchor |-> 0, len |-> len]
    BY DEF Init
  <2>3. len \in Nat \ {0}
    BY <2>1
  <2> HIDE DEF len
  <2>4. QED
    BY <2>2, <2>3 DEF Clock
<1>5. sched \in Scheds
  BY DEF Init, Stopped, Scheds
<1>6. <<>> \in Seq(Events) /\ <<>> \in Seq(Triggers) /\ <<>> \in Seq(Entries) /\ <<>> \in Seq(Nat)
        /\ Len(<<>>) = 0 /\ DOMAIN <<>> = {}
  OBVIOUS
<1>7. RenderTypes
  BY <1>2, <1>6 DEF RenderTypes
<1>8. ControlTypes
  BY <1>1, <1>2, <1>4, <1>5, <1>6 DEF Init, ControlTypes, Calls
<1>9. HeldInOrder /\ FiredInTime
  BY <1>2, <1>6 DEF HeldInOrder, FiredInTime, InOrder
<1>10. RoomForStep
  BY <1>1, <1>2, <1>6 DEF Init, RoomForStep, VoiceCount
<1>11. QED
  BY <1>7, <1>8, <1>9, <1>10 DEF EngineInv, EngineTypeOK

LEMMA EngineKeeps == EngineInv /\ [Next]_vars => EngineInv'
<1> SUFFICES ASSUME EngineInv, [Next]_vars
             PROVE  EngineInv'
  OBVIOUS
<1>1. CASE Control /\ UNCHANGED <<split, capacity>>
  BY <1>1, ControlKeeps
<1>2. CASE Render /\ UNCHANGED <<split, capacity>>
  BY <1>2, RenderKeeps
<1>3. CASE UNCHANGED vars
  BY <1>3 DEF EngineInv, EngineTypeOK, RenderTypes, ControlTypes, HeldInOrder, FiredInTime,
              RoomForStep, InOrder, Vacant, vars, renderVars, controlVars, callVars, historyVars
<1>4. QED
  BY <1>1, <1>2, <1>3 DEF Next, Finished

(* Every variable of the two threads keeps its type through every call, tick *)
(* and callback.                                                             *)
THEOREM EngineTypes == Spec => []EngineTypeOK
<1>1. Init => EngineInv
  BY InitEngine
<1>2. EngineInv => EngineTypeOK
  BY DEF EngineInv
<1>3. QED
  BY <1>1, <1>2, EngineKeeps, PTL DEF Spec

(* The events held back for the voices stay in order, whatever order early   *)
(* and late ones are pulled in, and none that has come due is held over to   *)
(* the next block (renderer.rs, insert_pending and render_block).            *)
THEOREM NoneOverdue == Spec => []HeldInOrder
<1>1. Init => EngineInv
  BY InitEngine
<1>2. EngineInv => HeldInOrder
  BY DEF EngineInv
<1>3. QED
  BY <1>1, <1>2, EngineKeeps, PTL DEF Spec

(* Triggers reach the voices in order of time, each on its own sample or     *)
(* late, never early and never ahead of what has been rendered               *)
(* (renderer.rs, render_block).                                              *)
THEOREM FiresInTime == Spec => []FiredInTime
<1>1. Init => EngineInv
  BY InitEngine
<1>2. EngineInv => FiredInTime
  BY DEF EngineInv
<1>3. QED
  BY <1>1, <1>2, EngineKeeps, PTL DEF Spec

(* What does not fit the queue is only ever a flush, which the next tick     *)
(* takes up; a step is scheduled when all its triggers fit, and no call      *)
(* takes their slots before they are pushed (control.rs, tick).              *)
THEOREM NoTriggerLost == Spec => [][PushFails => Head(todo).kind = "flush"]_vars
<1>1. Init => EngineInv
  BY InitEngine
<1>2. EngineInv /\ [Next]_vars => [PushFails => Head(todo).kind = "flush"]_vars
  <2> SUFFICES ASSUME EngineInv, PushFails, Next
               PROVE  Head(todo).kind = "flush"
    OBVIOUS
  <2>1. UNCHANGED <<split, capacity>>
    BY DEF Next
  <2>2. QED
    BY <2>1, PushTypes DEF EngineInv
<1>3. QED
  BY <1>1, <1>2, EngineKeeps, PTL DEF Spec

-----------------------------------------------------------------------------
(* The parameter on its way *)

\* The value the renderer will have once it has pulled what is queued.
Heading == ParamAfter(ParamAfter(param, pending), queue)

ParamInv == ParamOrder /\ Heading = sent

LEMMA InFlightParam ==
  ASSUME EngineTypeOK, RoomForStep
  PROVE  ParamAfter(param, InFlight) = Heading
<1>1. pending \in Seq(Events) /\ queue \in Seq(Events) /\ todo \in Seq(Events)
  BY DEF EngineTypeOK, RenderTypes, ControlTypes
<1> DEFINE both == pending \o queue
<1>2. both \in Seq(Events)
  BY <1>1
<1>3. ParamAfter(param, both) = Heading
  BY <1>1, ParamOfBoth DEF Heading
<1> HIDE DEF both
<1>4. ParamAfter(param, both \o todo) = ParamAfter(ParamAfter(param, both), todo)
  BY <1>1, <1>2, ParamOfBoth
<1>5. ParamAfter(Heading, todo) = Heading
  <2>1. \A i \in DOMAIN todo : todo[i].kind # "param"
    BY PushesFit DEF IsParam
  <2>2. QED
    BY <1>1, <2>1, ParamIs
<1>6. InFlight = both \o todo
  BY DEF InFlight, both
<1>7. QED
  BY <1>3, <1>4, <1>5, <1>6

LEMMA InsertHas ==
  ASSUME NEW S, NEW held \in Seq(S), NEW e \in S
  PROVE  \A k \in DOMAIN InsertPending(held, e) :
           \/ InsertPending(held, e)[k] = e
           \/ \E i \in DOMAIN held : InsertPending(held, e)[k] = held[i]
<1>1. PICK a \in Seq(S), b \in Seq(S) :
        /\ held = a \o b
        /\ InsertPending(held, e) = (a \o <<e>>) \o b
        /\ \A i \in DOMAIN b : ~(b[i].sample <= e.sample)
        /\ a # <<>> => a[Len(a)].sample <= e.sample
  BY InsertIs
<1> DEFINE o == <<e>>
           c == a \o o
           d == c \o b
<1>2. o \in Seq(S) /\ DOMAIN o = {1} /\ o[1] = e
  OBVIOUS
<1> HIDE DEF o
<1>3. c \in Seq(S)
  BY <1>2
<1>4. \A k \in DOMAIN c : c[k] = e \/ \E i \in DOMAIN a : c[k] = a[i]
  BY <1>2, Joined
<1> HIDE DEF c
<1>5. \A k \in DOMAIN d : (\E i \in DOMAIN c : d[k] = c[i]) \/ \E i \in DOMAIN b : d[k] = b[i]
  BY <1>3, Joined
<1>6. /\ \A i \in DOMAIN a : \E j \in DOMAIN held : a[i] = held[j]
      /\ \A i \in DOMAIN b : \E j \in DOMAIN held : b[i] = held[j]
  <2> DEFINE h == a \o b
  <2>1. \A i \in DOMAIN a : i \in DOMAIN h /\ h[i] = a[i]
    BY Joined
  <2>2. \A i \in DOMAIN b : Len(a) + i \in DOMAIN h /\ h[Len(a) + i] = b[i]
    BY Joined
  <2>3. h = held
    BY <1>1
  <2> HIDE DEF h
  <2>4. QED
    BY <2>1, <2>2, <2>3
<1>7. InsertPending(held, e) = d
  BY <1>1 DEF d, c, o
<1> HIDE DEF d
<1>8. ASSUME NEW k \in DOMAIN d
      PROVE  d[k] = e \/ \E j \in DOMAIN held : d[k] = held[j]
  <2>1. CASE \E i \in DOMAIN c : d[k] = c[i]
    BY <1>4, <1>6, <2>1
  <2>2. CASE \E i \in DOMAIN b : d[k] = b[i]
    BY <1>6, <2>2
  <2>3. QED
    BY <1>5, <2>1, <2>2
<1>9. QED
  BY <1>7, <1>8

LEMMA PlacesHave ==
  ASSUME NEW S, NEW s \in Seq(S), NEW K \in SUBSET DOMAIN s
  PROVE  \A k \in DOMAIN Places(s, K) : \E i \in DOMAIN s : Places(s, K)[k] = s[i]
<1>1. PICK order \in [1 .. Cardinality(K) -> K] :
        \A n \in 1 .. Cardinality(K) : Places(s, K)[n] = s[order[n]]
  BY PlacesAre
<1>2. DOMAIN Places(s, K) = 1 .. Cardinality(K)
  BY PlacesAre
<1>3. QED
  BY <1>1, <1>2

LEMMA FirstAndRest ==
  ASSUME NEW S, NEW q \in Seq(S), q # <<>>
  PROVE  /\ q = <<Head(q)>> \o Tail(q) /\ Head(q) \in S /\ Tail(q) \in Seq(S)
         /\ 1 \in DOMAIN q /\ Head(q) = q[1]
         /\ \A i \in DOMAIN Tail(q) : i + 1 \in DOMAIN q /\ Tail(q)[i] = q[i + 1] /\ i \in Nat /\ 1 < i + 1
OBVIOUS

\* An event joins the queue: a parameter as the newest of all.
LEMMA ParamQueued ==
  ASSUME EngineTypeOK, ParamOrder, NEW e \in Events, IsParam(e) => e.sample = Position,
         queue' = Append(queue, e), UNCHANGED <<split, published, pos, pending, param>>
  PROVE  ParamOrder' /\ Heading' = (IF IsParam(e) THEN e.value ELSE Heading)
<1> DEFINE u == ParamAfter(param, pending)
           o == <<e>>
           N == Len(queue)
<1>1. queue \in Seq(Events) /\ pending \in Seq(Events)
  BY DEF EngineTypeOK, RenderTypes
<1>2. /\ queue' = queue \o o /\ o \in Seq(Events) /\ N \in Nat /\ DOMAIN queue = 1 .. N
      /\ DOMAIN queue' = 1 .. N + 1 /\ queue'[N + 1] = e
      /\ \A i \in 1 .. N : queue'[i] = queue[i]
  BY <1>1
<1>3. Heading' = IF IsParam(e) THEN e.value ELSE Heading
  <2>1. Heading' = ParamAfter(u, queue \o o) /\ Heading = ParamAfter(u, queue)
    BY <1>2 DEF Heading
  <2> HIDE DEF u, o
  <2>2. ParamAfter(u, queue \o o) = ParamAfter(ParamAfter(u, queue), o)
    BY <1>1, <1>2, ParamOfBoth
  <2>3. ParamAfter(Heading, o) = IF e.kind = "param" THEN e.value ELSE Heading
    BY ParamOfOne DEF o
  <2>4. QED
    BY <2>1, <2>2, <2>3 DEF IsParam
<1> HIDE DEF N, o
<1>4. Position' = Position /\ Position \in Nat
  BY Commits DEF Position
<1>5. \A i \in 1 .. N : IsParam(queue[i]) => queue[i].sample <= Position
  BY <1>2 DEF ParamOrder
<1>6. \A i \in DOMAIN queue' : IsParam(queue'[i]) => queue'[i].sample <= Position'
  <2>1. \A i \in DOMAIN queue' : i \in 1 .. N \/ i = N + 1
    BY <1>2
  <2>2. QED
    BY <1>2, <1>4, <1>5, <2>1
<1>7. ASSUME NEW i \in DOMAIN queue', NEW j \in DOMAIN queue', i < j,
             IsParam(queue'[i]), IsParam(queue'[j])
      PROVE  queue'[i].sample <= queue'[j].sample
  <2>1. i \in 1 .. N
    BY <1>2, <1>7
  <2>2. CASE j \in 1 .. N
    BY <1>2, <1>7, <2>1, <2>2 DEF ParamOrder
  <2>3. CASE j = N + 1
    BY <1>2, <1>4, <1>5, <1>7, <2>1, <2>3
  <2>4. QED
    BY <1>2, <2>2, <2>3
<1>8. ASSUME NEW i \in DOMAIN pending, NEW j \in DOMAIN queue',
             IsParam(pending[i]), IsParam(queue'[j])
      PROVE  pending[i].sample <= queue'[j].sample
  <2>1. CASE j \in 1 .. N
    BY <1>2, <1>8, <2>1 DEF ParamOrder
  <2>2. CASE j = N + 1
    BY <1>2, <1>8, <2>2 DEF ParamOrder
  <2>3. QED
    BY <1>2, <2>1, <2>2
<1>9. \A i \in DOMAIN pending : IsParam(pending[i]) => pending[i].sample <= Position'
  BY <1>4 DEF ParamOrder
<1>10. QED
  BY <1>3, <1>6, <1>7, <1>8, <1>9 DEF ParamOrder

\* Events leave the front of the held list, or time goes on.
LEMMA ParamOlder ==
  ASSUME EngineTypeOK, ParamOrder, queue' \in Seq(Events), pending' \in Seq(Events),
         Position <= Position', Position' \in Nat,
         NEW k \in {0, 1},
         \A j \in DOMAIN queue' : j \in Nat /\ j + k \in DOMAIN queue /\ queue'[j] = queue[j + k],
         \A i \in DOMAIN pending' :
            \/ \E m \in DOMAIN pending : pending'[i] = pending[m]
            \/ k = 1 /\ 1 \in DOMAIN queue /\ pending'[i] = queue[1]
  PROVE  ParamOrder'
<1>1. Position \in Nat
  BY Commits
<1>2. queue \in Seq(Events) /\ pending \in Seq(Events)
  BY DEF EngineTypeOK, RenderTypes
<1>3. /\ \A i \in DOMAIN queue : queue[i].sample \in Nat
      /\ \A i \in DOMAIN pending : pending[i].sample \in Nat
  <2>1. /\ \A i \in DOMAIN queue : queue[i] \in Events
        /\ \A i \in DOMAIN pending : pending[i] \in Events
    BY <1>2
  <2>2. QED
    BY <2>1, EventIs
<1>4. ASSUME NEW j \in DOMAIN queue', IsParam(queue'[j])
      PROVE  queue'[j].sample <= Position'
  <2>1. j + k \in DOMAIN queue /\ queue'[j] = queue[j + k]
    OBVIOUS
  <2>2. queue[j + k].sample <= Position /\ queue[j + k].sample \in Nat
    BY <1>3, <1>4, <2>1 DEF ParamOrder
  <2>3. QED
    BY <1>1, <2>1, <2>2
<1>5. ASSUME NEW i \in DOMAIN pending', IsParam(pending'[i])
      PROVE  /\ pending'[i].sample <= Position'
             /\ \A j \in DOMAIN queue' :
                   IsParam(queue'[j]) => pending'[i].sample <= queue'[j].sample
  <2>1. CASE \E m \in DOMAIN pending : pending'[i] = pending[m]
    <3>1. PICK m \in DOMAIN pending : pending'[i] = pending[m]
      BY <2>1
    <3>2. pending[m].sample <= Position /\ pending[m].sample \in Nat
      BY <1>3, <1>5, <3>1 DEF ParamOrder
    <3>3. \A j \in DOMAIN queue' : IsParam(queue'[j]) => pending[m].sample <= queue'[j].sample
      BY <1>5, <3>1 DEF ParamOrder
    <3>4. QED
      BY <1>1, <3>1, <3>2, <3>3
  <2>2. CASE k = 1 /\ 1 \in DOMAIN queue /\ pending'[i] = queue[1]
    <3>1. queue[1].sample <= Position /\ queue[1].sample \in Nat
      BY <1>3, <1>5, <2>2 DEF ParamOrder
    <3>2. ASSUME NEW j \in DOMAIN queue', IsParam(queue'[j])
          PROVE  queue[1].sample <= queue'[j].sample
      <4>1. j + 1 \in DOMAIN queue /\ queue'[j] = queue[j + 1] /\ j \in Nat
        BY <2>2
      <4>2. j = 0 \/ 1 < j + 1
        BY <4>1
      <4>3. j # 0
        OBVIOUS
      <4>4. QED
        BY <1>5, <2>2, <3>2, <4>1, <4>2, <4>3 DEF ParamOrder
    <3>3. QED
      BY <1>1, <2>2, <3>1, <3>2
  <2>3. QED
    BY <2>1, <2>2
<1>6. ASSUME NEW i \in DOMAIN queue', NEW j \in DOMAIN queue', i < j,
             IsParam(queue'[i]), IsParam(queue'[j])
      PROVE  queue'[i].sample <= queue'[j].sample
  <2>1. /\ i + k \in DOMAIN queue /\ queue'[i] = queue[i + k]
        /\ j + k \in DOMAIN queue /\ queue'[j] = queue[j + k]
        /\ i \in Nat /\ j \in Nat
    OBVIOUS
  <2>2. i + k < j + k
    BY <1>6, <2>1
  <2>3. QED
    BY <1>6, <2>1, <2>2 DEF ParamOrder
<1>7. QED
  BY <1>4, <1>5, <1>6 DEF ParamOrder

LEMMA ParamKeeps ==
  ASSUME EngineInv, ParamInv, [Next]_vars
  PROVE  ParamInv'
<1>1. EngineTypeOK /\ RoomForStep /\ InOrder(pending) /\ EngineInv'
        /\ ParamOrder /\ Heading = sent
  BY EngineKeeps DEF EngineInv, HeldInOrder, ParamInv
<1>2. queue \in Seq(Events) /\ pending \in Seq(Events) /\ todo \in Seq(Events)
        /\ queue' \in Seq(Events) /\ pending' \in Seq(Events) /\ Position' \in Nat
        /\ pos \in Nat /\ published \in Nat /\ published <= pos /\ Block \in Nat
  BY <1>1, EngineAssumption DEF EngineInv, EngineTypeOK, RenderTypes, ControlTypes, Position
<1>3. ASSUME UNCHANGED <<queue, pending, param, sent, published, pos, split>>
      PROVE  ParamInv'
  BY <1>1, <1>3 DEF ParamInv, ParamOrder, Heading, Position
<1>4. ASSUME Control, UNCHANGED <<split, capacity>>
      PROVE  ParamInv'
  <2>1. UNCHANGED <<published, pos, pending, param>>
    BY <1>4 DEF Control, BeginCall, StartInternal, StartFollow, Resync, Jump, QuietCall, SetParam,
                TickBegin, TickNote, TickStep, TickEnd, PushEvent, PushFails, renderVars
  <2>2. CASE SetParam /\ ~UNCHANGED <<queue, sent>>
    <3>1. PICK v \in Values : queue' = Append(queue, ParamEvent(Position, v)) /\ sent' = v
      BY <2>2 DEF SetParam
    <3> DEFINE e == ParamEvent(Position, v)
    <3>2. e \in Events /\ IsParam(e) /\ e.sample = Position /\ e.value = v
      BY <1>1, Commits DEF ParamEvent, Params, Events, IsParam
    <3> HIDE DEF e
    <3>3. queue' = Append(queue, e)
      BY <3>1 DEF e
    <3>4. ParamOrder' /\ Heading' = v
      BY <1>1, <1>4, <2>1, <3>2, <3>3, ParamQueued
    <3>5. QED
      BY <3>1, <3>4 DEF ParamInv
  <2>3. CASE PushEvent
    <3> DEFINE e == Head(todo)
    <3>1. todo # <<>> /\ queue' = Append(queue, e) /\ UNCHANGED sent
      BY <2>3 DEF PushEvent, controlVars
    <3>2. e \in Events /\ 1 \in DOMAIN todo /\ e = todo[1]
      BY <1>2, <3>1, FirstAndRest
    <3>3. ~IsParam(e)
      BY <1>1, <3>2, PushesFit
    <3> HIDE DEF e
    <3>4. ParamOrder' /\ Heading' = Heading
      BY <1>1, <1>4, <2>1, <3>1, <3>2, <3>3, ParamQueued
    <3>5. QED
      BY <1>1, <3>1, <3>4 DEF ParamInv
  <2>4. ASSUME ~PushEvent, ~(SetParam /\ ~UNCHANGED <<queue, sent>>)
        PROVE  UNCHANGED <<queue, sent>>
    BY <1>4, <2>4 DEF Control, BeginCall, StartInternal, StartFollow, Resync, Jump, QuietCall,
                TickBegin, TickNote, TickStep, TickEnd, PushFails, controlVars
  <2>5. QED
    BY <1>3, <1>4, <2>1, <2>2, <2>3, <2>4
<1>5. ASSUME Render, UNCHANGED <<split, capacity>>
      PROVE  ParamInv'
  <2>1. UNCHANGED sent
    BY <1>5 DEF Render, RenderStart, RenderBlock, controlVars
  <2>2. CASE RenderStart
    <3>1. published' = pos /\ UNCHANGED <<queue, pos, pending, param>>
      BY <2>2 DEF RenderStart, RenderPublish
    <3>2. Position <= Position'
      BY <1>2, <1>5, <3>1 DEF Position
    <3>3. \A j \in DOMAIN queue' : j \in Nat /\ j + 0 \in DOMAIN queue /\ queue'[j] = queue[j + 0]
      BY <1>2, <3>1
    <3>4. \A i \in DOMAIN pending' : \E m \in DOMAIN pending : pending'[i] = pending[m]
      BY <3>1
    <3>5. ParamOrder'
      BY <1>1, <1>2, <3>2, <3>3, <3>4, ParamOlder
    <3>6. Heading' = Heading
      BY <3>1 DEF Heading
    <3>7. QED
      BY <1>1, <2>1, <3>5, <3>6 DEF ParamInv
  <2>3. CASE RenderPull
    <3> DEFINE e == Head(queue)
               u == ParamAfter(param, pending)
               o == <<e>>
               kept == {i \in DOMAIN pending :
                          ~(IsTrigger(pending[i]) /\ pending[i].sample >= e.sample)}
    <3>1. /\ queue # <<>> /\ queue' = Tail(queue)
          /\ pending' = IF e.kind = "flush" THEN FlushPending(pending, e.sample)
                                           ELSE InsertPending(pending, e)
          /\ UNCHANGED <<published, pos, param>>
      BY <2>3 DEF RenderPull, CanPull
    <3>2. /\ queue = o \o Tail(queue) /\ e \in Events /\ Tail(queue) \in Seq(Events)
          /\ 1 \in DOMAIN queue /\ e = queue[1]
          /\ \A i \in DOMAIN Tail(queue) :
                i + 1 \in DOMAIN queue /\ Tail(queue)[i] = queue[i + 1] /\ i \in Nat
      BY <1>2, <3>1, FirstAndRest
    <3>3. FlushPending(pending, e.sample) = Places(pending, kept) /\ kept \in SUBSET DOMAIN pending
      BY DEF FlushPending
    <3>4. o \in Seq(Events)
      BY <3>2
    <3> HIDE DEF e, kept
    <3>5. \A i \in DOMAIN pending : pending[i].kind = "param" => i \in kept
      BY DEF kept, IsTrigger
    <3>6. \A i \in DOMAIN pending' :
             \/ \E m \in DOMAIN pending : pending'[i] = pending[m]
             \/ 1 = 1 /\ 1 \in DOMAIN queue /\ pending'[i] = queue[1]
      <4>1. CASE e.kind = "flush"
        <5>1. pending' = Places(pending, kept)
          BY <3>1, <3>3, <4>1
        <5>2. \A i \in DOMAIN Places(pending, kept) :
                \E m \in DOMAIN pending : Places(pending, kept)[i] = pending[m]
          BY <1>2, <3>3, PlacesHave
        <5>3. QED
          BY <5>1, <5>2
      <4>2. CASE e.kind # "flush"
        <5>1. pending' = InsertPending(pending, e)
          BY <3>1, <4>2
        <5>2. \A i \in DOMAIN InsertPending(pending, e) :
                \/ InsertPending(pending, e)[i] = e
                \/ \E m \in DOMAIN pending : InsertPending(pending, e)[i] = pending[m]
          BY <1>2, <3>2, InsertHas
        <5>3. QED
          BY <3>2, <5>1, <5>2
      <4>3. QED
        BY <4>1, <4>2
    <3>7. Position <= Position'
      BY <1>2, <1>5, <3>1 DEF Position
    <3>8. \A j \in DOMAIN queue' : j \in Nat /\ j + 1 \in DOMAIN queue /\ queue'[j] = queue[j + 1]
      BY <3>1, <3>2
    <3>9. ParamOrder'
      BY <1>1, <1>2, <3>6, <3>7, <3>8, ParamOlder
    <3> HIDE DEF u, o
    <3>10. ParamAfter(param, pending') = ParamAfter(u, o)
      <4>1. CASE e.kind = "flush"
        <5>1. ParamAfter(param, Places(pending, kept)) = u
          BY <1>2, <3>3, <3>5, ParamOfPlaces DEF u
        <5>2. ParamAfter(u, o) = u
          BY <4>1, ParamOfOne DEF o
        <5>3. QED
          BY <3>1, <3>3, <4>1, <5>1, <5>2
      <4>2. CASE e.kind # "flush"
        <5>1. e.kind = "param" =>
                \A i \in DOMAIN pending : pending[i].kind = "param" => pending[i].sample <= e.sample
          BY <1>1, <3>2 DEF ParamOrder, IsParam
        <5>2. ParamAfter(param, InsertPending(pending, e)) = ParamAfter(u, o)
          BY <1>2, <3>2, <5>1, ParamOfInsert DEF u, o
        <5>3. QED
          BY <3>1, <4>2, <5>2
      <4>3. QED
        BY <4>1, <4>2
    <3>11. Heading' = Heading
      <4>1. Heading' = ParamAfter(ParamAfter(param, pending'), Tail(queue))
        BY <3>1 DEF Heading
      <4>2. Heading = ParamAfter(u, o \o Tail(queue))
        BY <3>2 DEF Heading, u
      <4>3. ParamAfter(u, o \o Tail(queue)) = ParamAfter(ParamAfter(u, o), Tail(queue))
        BY <3>2, <3>4, ParamOfBoth
      <4>4. QED
        BY <3>10, <4>1, <4>2, <4>3
    <3>12. QED
      BY <1>1, <2>1, <3>9, <3>11 DEF ParamInv
  <2>4. CASE RenderPlay
    <3>1p. PICK due \in Seq(Events), rest \in Seq(Events), new \in Seq(Triggers) :
        PlaysAs(due, rest, new)
      BY <1>1, <2>4, Plays
    <3>1. /\ pending = due \o rest /\ pending' = rest
          /\ heard' = heard \o new
          /\ param' = ParamAfter(param, due)
          /\ InOrder(rest) /\ \A i \in DOMAIN rest : rest[i].sample >= pos + Block
          /\ \A i \in DOMAIN new : /\ new[i].at \in Nat /\ new[i].sample <= new[i].at
                                   /\ pos <= new[i].at /\ new[i].at < pos + Block
          /\ \A i, j \in DOMAIN new : i < j => new[i].at <= new[j].at
      BY <3>1p DEF PlaysAs
    <3>2. pos' = pos + Block /\ UNCHANGED <<queue, published>>
      BY <2>4 DEF RenderPlay
    <3>3. Position <= Position'
      BY <1>2, <1>5, <3>2 DEF Position
    <3>4. \A i \in DOMAIN pending' : \E m \in DOMAIN pending : pending'[i] = pending[m]
      <4>1. \A i \in DOMAIN rest :
              Len(due) + i \in DOMAIN (due \o rest) /\ (due \o rest)[Len(due) + i] = rest[i]
        BY Joined
      <4>2. QED
        BY <3>1, <4>1
    <3>5. \A j \in DOMAIN queue' : j \in Nat /\ j + 0 \in DOMAIN queue /\ queue'[j] = queue[j + 0]
      BY <1>2, <3>2
    <3>6. ParamOrder'
      BY <1>1, <1>2, <3>3, <3>4, <3>5, ParamOlder
    <3>7. ParamAfter(param, due \o rest) = ParamAfter(ParamAfter(param, due), rest)
      BY ParamOfBoth
    <3>8. Heading' = Heading
      BY <3>1, <3>2, <3>7 DEF Heading
    <3>9. QED
      BY <1>1, <2>1, <3>6, <3>8 DEF ParamInv
  <2>5. QED
    BY <1>5, <2>2, <2>3, <2>4 DEF Render, RenderBlock
<1>6. CASE UNCHANGED vars
  BY <1>3, <1>6 DEF vars, renderVars, controlVars
<1>7. QED
  BY <1>4, <1>5, <1>6 DEF Next, Finished

(* The renderer ends up with the parameter value the control thread last     *)
(* recorded as sent (control.rs, set_voice_param): no late value is merged   *)
(* in front of a newer one, and no flush takes one back.                     *)
THEOREM ParamComes == Spec => []ParamArrives
<1>1. Init => EngineInv /\ ParamInv
  <2> SUFFICES ASSUME Init PROVE ParamInv
    BY InitEngine
  <2>1. queue = <<>> /\ pending = <<>> /\ param = 0 /\ sent = 0
    BY DEF Init, RenderInit
  <2>2. ParamOrder
    BY <2>1 DEF ParamOrder
  <2>3. \A v : ParamAfter(v, <<>>) = v
    BY DEF ParamAfter
  <2>4. QED
    BY <2>1, <2>2, <2>3 DEF ParamInv, Heading
<1>2. (EngineInv /\ ParamInv) /\ [Next]_vars => (EngineInv /\ ParamInv)'
  BY EngineKeeps, ParamKeeps
<1>3. EngineInv /\ ParamInv => ParamArrives
  BY InFlightParam DEF EngineInv, ParamInv, ParamArrives
<1>4. QED
  BY <1>1, <1>2, <1>3, PTL DEF Spec

-----------------------------------------------------------------------------
(* The old run at a restart *)

\* In an ordered log a flush takes back exactly what is at or after it.
LEMMA FlushOfLog ==
  ASSUME NEW l \in Seq(Entries), InOrder(l), NEW c \in Nat
  PROVE  /\ InOrder(FlushLog(l, c))
         /\ NewestFrom(l, c) = 0 /\ l # <<>> => l[Len(l)].sample < c
         /\ \A j \in 1 .. Len(l) :
              l[j].sample < c =>
                 /\ FlushLog(l, c) # <<>>
                 /\ l[j].sample <= FlushLog(l, c)[Len(FlushLog(l, c))].sample
                 /\ j \in 1 .. Len(FlushLog(l, c))
         /\ \A j \in 1 .. Len(FlushLog(l, c)) :
              j \in 1 .. Len(l) /\ FlushLog(l, c)[j] = l[j] /\ l[j].sample < c
<1> DEFINE N == Len(l)
           newer == {n \in 0 .. N : \A i \in N - n + 1 .. N : l[i].sample >= c}
           kept == FlushLog(l, c)
<1>1. N \in Nat /\ DOMAIN l = 1 .. N /\ \A i \in 1 .. N : l[i].sample \in Nat
  BY EntryIs
<1> HIDE DEF N
<1>2. newer \in SUBSET (0 .. N) /\ 0 \in newer
  BY <1>1
<1>3. Max(newer) \in newer /\ \A x \in newer : x <= Max(newer)
  <2> HIDE DEF newer
  <2>1. QED
    BY <1>1, <1>2, MostOf
<1>4. PICK n \in 0 .. N : /\ n = NewestFrom(l, c) /\ \A x \in newer : x <= n
                          /\ \A i \in N - n + 1 .. N : l[i].sample >= c
  BY <1>3 DEF NewestFrom, N
<1> DEFINE m == N - n
<1>5. m \in 0 .. N /\ m \in Nat
  BY <1>1
<1>6. kept = SubSeq(l, 1, m) /\ Len(kept) = m /\ DOMAIN kept = 1 .. m
      /\ \A i \in 1 .. m : kept[i] = l[i]
  <2>1. kept = SubSeq(l, 1, m)
    BY <1>4 DEF FlushLog, N
  <2>2. m \in 0 .. Len(l)
    BY <1>5 DEF N
  <2>3. DOMAIN SubSeq(l, 1, m) = 1 .. m /\ Len(SubSeq(l, 1, m)) = m
        /\ \A i \in 1 .. m : SubSeq(l, 1, m)[i] = l[i]
    <3> HIDE DEF m
    <3>1. QED
      BY <2>2, SplitAt
  <2>4. QED
    BY <2>1, <2>3
<1> HIDE DEF m, kept
<1>7. InOrder(kept)
  <2>1. \A i \in 1 .. m : i \in 1 .. N
    BY <1>1, <1>5
  <2>2. \A i, j \in 1 .. m : i < j => l[i].sample <= l[j].sample
    BY <1>1, <2>1 DEF InOrder
  <2>3. QED
    BY <1>6, <2>2 DEF InOrder
<1>8. m # 0 => l[m].sample < c
  <2> SUFFICES ASSUME m # 0 PROVE l[m].sample < c
    OBVIOUS
  <2>1. n + 1 \in 0 .. N /\ ~(n + 1 <= n) /\ N - (n + 1) + 1 = m /\ m \in 1 .. N
    BY <1>1, <1>5 DEF m
  <2>2. n + 1 \notin newer
    BY <1>4, <2>1
  <2>3. PICK i \in N - (n + 1) + 1 .. N : ~(l[i].sample >= c)
    BY <2>1, <2>2
  <2>4. i = m
    BY <1>1, <1>4, <2>1, <2>3 DEF m
  <2>5. QED
    BY <1>1, <2>1, <2>3, <2>4
<1>9. ASSUME NEW j \in 1 .. N, l[j].sample < c
      PROVE  kept # <<>> /\ l[j].sample <= kept[Len(kept)].sample /\ j \in 1 .. m
  <2>1. j \notin N - n + 1 .. N
    BY <1>1, <1>4, <1>9
  <2>2. j <= m /\ m \in 1 .. m /\ m \in 1 .. N
    BY <1>1, <2>1 DEF m
  <2>3. l[j].sample <= l[m].sample
    BY <1>1, <2>2 DEF InOrder
  <2>4. kept[Len(kept)] = l[m]
    BY <1>6, <2>2
  <2>5. kept # <<>>
    <3>1. Len(kept) # 0 /\ Len(<<>>) = 0
      BY <1>5, <1>6, <2>2
    <3>2. QED
      BY <3>1
  <2>6. j \in 1 .. m
    BY <1>1, <1>5, <2>2
  <2>7. QED
    BY <2>3, <2>4, <2>5, <2>6
<1>10. ASSUME n = 0, l # <<>>
       PROVE  l[Len(l)].sample < c
  <2>1. m = N /\ m # 0
    BY <1>1, <1>10 DEF m, N
  <2>2. QED
    BY <1>8, <2>1 DEF N
<1>11. ASSUME NEW j \in 1 .. m
       PROVE  j \in 1 .. N /\ kept[j] = l[j] /\ l[j].sample < c
  <2>1. j \in 1 .. N /\ m \in 1 .. N /\ (j < m \/ j = m) /\ l[m].sample < c
    BY <1>1, <1>5, <1>8
  <2>2. l[j].sample \in Nat /\ l[m].sample \in Nat
    BY <1>1, <2>1
  <2>3. l[j].sample <= l[m].sample
    <3>1. j < m => l[j].sample <= l[m].sample
      BY <1>1, <2>1 DEF InOrder
    <3>2. QED
      BY <2>1, <2>2, <3>1
  <2>4. l[j].sample < c
    <3>1. \A a, b \in Nat : a <= b /\ b < c => a < c
      OBVIOUS
    <3>2. QED
      BY <2>1, <2>2, <2>3, <3>1
  <2>5. kept[j] = l[j]
    BY <1>6
  <2>6. QED
    BY <2>1, <2>4, <2>5
<1>12. QED
  BY <1>4, <1>6, <1>7, <1>9, <1>10, <1>11 DEF kept, N

\* A flush behind the commit point lies right behind a hit that is kept.
LEMMA FlushAfterOne ==
  ASSUME NEW l \in Seq(Entries), NEW i \in 0 .. Len(l), NEW c \in Nat
  PROVE  FlushAfter(l, i, c) = c \/ \E j \in 1 .. i : FlushAfter(l, i, c) = l[j].sample + 1
<1> DEFINE Ends == {c} \cup {l[j].sample + 1 : j \in 1 .. i}
           f == FlushAfter(l, i, c)
<1>1. f \in Nat /\ f >= c /\ \A j \in 1 .. i : l[j].sample < f
  BY FlushAfterIs
<1>2. \A j \in 1 .. i : l[j].sample \in Nat
  BY EntryIs
<1>3. Ends \in SUBSET Nat /\ Ends # {}
  BY <1>2
<1>4. \A x \in Ends : x <= f
  <2> HIDE DEF f
  <2>1. \A j \in 1 .. i : l[j].sample + 1 <= f
    BY <1>1, <1>2
  <2>2. QED
    BY <1>1, <2>1
<1>5. Max(Ends) \in Ends
  <2> HIDE DEF Ends, f
  <2>1. QED
    BY <1>1, <1>3, <1>4, MaxIs
<1>6. QED
  BY <1>5 DEF FlushAfter

\* A place from the commit point up to the flush is covered by a hit that is
\* kept, and a realign that drops nothing flushes behind the whole log.
LEMMA CutKeeps ==
  ASSUME NEW l \in Seq(Entries), InOrder(l), NEW c \in Nat
  PROVE  /\ \A s \in Nat : c <= s /\ s < Cut(l, c).flush =>
              \E j \in 1 .. Len(l) : s <= l[j].sample /\ l[j].sample < Cut(l, c).flush
         /\ Cut(l, c).dropped = <<>> /\ l # <<>> => l[Len(l)].sample < Cut(l, c).flush
<1> DEFINE N == Len(l)
           whole == {n \in 0 .. N : \A i \in 1 .. n : l[i].first < FlushAfter(l, i - 1, c)}
<1>1. N \in Nat /\ \A i \in 1 .. N : l[i].sample \in Nat
  BY EntryIs
<1>2. whole \in SUBSET (0 .. N) /\ 0 \in whole
  <2> HIDE DEF N
  <2>1. QED
    BY <1>1
<1>3. Max(whole) \in 0 .. N
  <2> HIDE DEF whole, N
  <2>1. QED
    BY <1>1, <1>2, MostOf
<1>4. PICK n \in 0 .. N : n = HeardWhole(l, c)
  BY <1>3 DEF HeardWhole
<1> DEFINE f == FlushAfter(l, n, c)
<1>5. f \in Nat /\ \A j \in 1 .. n : l[j].sample < f
  BY FlushAfterIs
<1>6. f = c \/ \E j \in 1 .. n : f = l[j].sample + 1
  BY FlushAfterOne
<1>7. Cut(l, c).flush = f /\ Cut(l, c).dropped = IF n = N THEN <<>> ELSE <<l[n + 1]>>
  BY <1>4 DEF Cut
<1> HIDE DEF f, N
<1>8. ASSUME NEW s \in Nat, c <= s, s < f
      PROVE  \E j \in 1 .. N : s <= l[j].sample /\ l[j].sample < f
  <2>1. PICK j \in 1 .. n : f = l[j].sample + 1
    BY <1>5, <1>6, <1>8
  <2>2. j \in 1 .. N /\ l[j].sample \in Nat /\ l[j].sample < f
    BY <1>1, <1>5
  <2>3. QED
    BY <1>8, <2>1, <2>2
<1>9. ASSUME Cut(l, c).dropped = <<>>, l # <<>>
      PROVE  l[N].sample < f
  <2>1. n = N
    <3>1. <<l[n + 1]>> # <<>>
      OBVIOUS
    <3>2. QED
      BY <1>7, <1>9, <3>1
  <2>2. N \in 1 .. n
    BY <1>1, <1>9, <2>1 DEF N
  <2>3. QED
    BY <1>5, <2>2
<1>10. QED
  BY <1>7, <1>8, <1>9 DEF N

\* What a commit point keeps clear of the position holds every block that may
\* start before the call that reads it has pushed its flush.
Clear == Min({CommittedBlocks * Block, Lookahead \div 2})
CommitsAhead == Warm /\ MaxLag \in Nat /\ (MaxLag + 1) * Block <= Clear

\* Neither buffer runs full: every flush fits and every pull empties the queue.
Unhindered == flushLeft = None /\ (renderPc = "pull" => Len(pending) < PendingCapacity)

\* No step is scheduled in front of one that is queued.
StepFollows == \A i \in DOMAIN log : log[i].sample <= StepSample(clock, sched.next)

Pace ==
    /\ pos = published + (IF renderPc = "idle" THEN Block ELSE 0)
    /\ block = Block /\ (seen = published \/ seen + Block <= published)
    /\ split \/ callPc = "idle" \/ renderPc = "idle"
    /\ callPc = "commit" => IF split THEN now <= published ELSE now = pos
    /\ lag \in 0 .. MaxLag
    /\ floor <= IF split THEN published + Clear ELSE pos

\* A flush that is still to be pushed lies ahead of every block that starts
\* before it is.
Reach == published + Block + (IF split THEN (MaxLag - lag) * Block ELSE 0)
FlushAhead == \A i \in DOMAIN todo : todo[i].kind = "flush" => Reach <= todo[i].sample

\* An event sounds before every later restart; it is in front of the newest
\* step that was queued, or of the last realign.
Fits(x) == \A e \in x.epoch + 1 .. Len(restarts) : x.sample < restarts[e]
Known(x) == x.sample < floor \/ (log # <<>> /\ x.sample <= log[Len(log)].sample)
TakesBack(e, x) == e.kind = "flush" /\ e.sample <= x.sample
Settled(x) == (Fits(x) /\ Known(x)) \/ \E j \in DOMAIN todo : TakesBack(todo[j], x)
IsHit(e) == e.kind = "hit"

HitsSettled ==
    /\ \A i \in DOMAIN heard : IsHit(heard[i]) => Fits(heard[i])
    /\ \A i \in DOMAIN pending :
          IsHit(pending[i]) =>
             Settled(pending[i]) \/ \E j \in DOMAIN queue : TakesBack(queue[j], pending[i])
    /\ \A i \in DOMAIN queue :
          IsHit(queue[i]) =>
             Settled(queue[i]) \/ \E j \in DOMAIN queue : i < j /\ TakesBack(queue[j], queue[i])
    /\ \A i \in DOMAIN todo : IsHit(todo[i]) => Fits(todo[i]) /\ Known(todo[i])

OldInv == Pace /\ FlushAhead /\ InOrder(log) /\ HitsSettled

LEMMA ClearIs ==
  ASSUME CommitsAhead
  PROVE  /\ Block \in Nat /\ Block > 0 /\ MaxLag \in Nat /\ Clear \in Nat
         /\ MaxLag * Block \in Nat /\ Block + MaxLag * Block <= Clear
         /\ \A k \in Nat : k * Block \in Nat /\ (k + 1) * Block = k * Block + Block
<1>1. Block \in Nat /\ Block > 0 /\ CommittedBlocks \in Nat /\ Lookahead \in Nat
  BY EngineAssumption
<1>2. \A k \in Nat : k * Block \in Nat /\ (k + 1) * Block = k * Block + Block
  BY <1>1
<1>3. Clear \in Nat
  <2>1. CommittedBlocks * Block \in Nat /\ Lookahead \div 2 \in Nat
    BY <1>1
  <2>2. QED
    BY <2>1, MaxOfTwo DEF Clear
<1>4. MaxLag \in Nat /\ (MaxLag + 1) * Block <= Clear
  BY DEF CommitsAhead
<1>5. MaxLag * Block \in Nat /\ (MaxLag + 1) * Block = MaxLag * Block + Block
  BY <1>2, <1>4
<1>6. QED
  BY <1>1, <1>2, <1>3, <1>4, <1>5

\* The learned block stays the block.
LEMMA LearnsBlock ==
  ASSUME EngineInv, CommitsAhead, Pace
  PROVE  LearnedBlock = Block
<1>1. published \in Nat /\ seen \in Nat /\ Block \in Nat /\ Block > 0
  BY ClearIs DEF EngineInv, EngineTypeOK, RenderTypes, ControlTypes
<1>2. block = Block /\ (seen = published \/ seen + Block <= published)
  BY DEF Pace
<1>3. CASE seen = published
  BY <1>1, <1>2, <1>3 DEF LearnedBlock
<1>4. CASE seen + Block <= published
  <2> DEFINE step == published - seen
  <2>1. step \in Nat /\ step > 0 /\ Block <= step
    BY <1>1, <1>4
  <2>2. LearnedBlock = Min({Block, step})
    BY <1>1, <1>2, <2>1 DEF LearnedBlock
  <2> HIDE DEF step
  <2>3. {Block, step} \in SUBSET Nat /\ {Block, step} # {}
    BY <1>1, <2>1
  <2>4. Min({Block, step}) \in {Block, step} /\ Min({Block, step}) <= Block
    BY <2>3, MinIs
  <2>5. QED
    BY <1>1, <2>1, <2>2, <2>4
<1>5. QED
  BY <1>2, <1>3, <1>4

\* Once warm, the commit point clears every block a call may meet, what was
\* heard, and the realign before it.
LEMMA CommitIs ==
  ASSUME EngineInv, CommitsAhead, Pace, callPc = "commit"
  PROVE  /\ CommitPoint = (IF split THEN published + Clear ELSE pos)
         /\ CommitPoint >= published + Block + (IF split THEN MaxLag * Block ELSE 0)
         /\ floor <= CommitPoint
         /\ LearnedBlock = Block
         /\ \A i \in DOMAIN heard : heard[i].sample < CommitPoint
<1>1. /\ published \in Nat /\ pos \in Nat /\ seen \in Nat /\ now \in Nat
      /\ CommittedBlocks \in Nat /\ Lookahead \in Nat
  BY EngineAssumption DEF EngineInv, EngineTypeOK, RenderTypes, ControlTypes
<1>2. /\ Block \in Nat /\ Block > 0 /\ Clear \in Nat /\ MaxLag * Block \in Nat
      /\ Block + MaxLag * Block <= Clear
  BY ClearIs
<1>3. LearnedBlock = Block
  BY LearnsBlock
<1>4. CommitPoint = IF split THEN published + Clear ELSE pos
  <2>1. CASE split
    <3>1. now <= published
      BY <2>1 DEF Pace
    <3>2. CommitPoint = Max({published + Clear, now})
      BY <1>1, <1>3, <3>1 DEF CommitPoint, Clear
    <3>3. published + Clear \in Nat /\ ~(now > published + Clear)
          /\ (now = published + Clear \/ published + Clear > now)
      BY <1>1, <1>2, <3>1
    <3> DEFINE m == published + Clear
    <3>4. m \in Nat /\ now <= m
      BY <3>3, <1>1
    <3> HIDE DEF m
    <3>5. /\ Max({m, now}) \in Nat /\ Max({m, now}) >= m
          /\ Max({m, now}) = m \/ Max({m, now}) = now
      BY <1>1, <3>4, MaxOfTwo
    <3>6. Max({m, now}) = m
      BY <1>1, <3>4, <3>5
    <3>7. QED
      BY <2>1, <3>2, <3>6 DEF m
  <2>2. CASE ~split
    <3>1. now = pos /\ pos = published + Block
      BY <2>2 DEF Pace
    <3>2. now > published
      BY <1>1, <1>2, <3>1
    <3>3. QED
      BY <2>2, <3>1, <3>2 DEF CommitPoint
  <2>3. QED
    BY <2>1, <2>2
<1>5. CommitPoint >= published + Block + (IF split THEN MaxLag * Block ELSE 0)
  <2>1. CASE split
    <3>1. CommitPoint = published + Clear
      BY <1>4, <2>1
    <3>2. \A n \in Nat : Block + n <= Clear => published + Clear >= published + Block + n
      BY <1>1, <1>2
    <3>3. QED
      BY <1>2, <2>1, <3>1, <3>2
  <2>2. CASE ~split
    <3>1. CommitPoint = pos /\ pos = published + Block
      BY <1>4, <2>2 DEF Pace
    <3>2. QED
      BY <1>1, <1>2, <2>2, <3>1
  <2>3. QED
    BY <2>1, <2>2
<1>6. floor <= CommitPoint
  BY <1>4 DEF Pace
<1>7. ASSUME NEW i \in DOMAIN heard
      PROVE  heard[i].sample < CommitPoint
  <2>1. heard[i].at \in Nat /\ heard[i].sample <= heard[i].at /\ heard[i].at < pos
    BY DEF EngineInv, FiredInTime
  <2>2. heard[i].sample \in Nat
    <3>1. heard[i] \in Triggers
      BY DEF EngineInv, EngineTypeOK, RenderTypes
    <3>2. QED
      BY <3>1, TriggerIs
  <2>3. pos <= published + Block
    BY <1>1, <1>2 DEF Pace
  <2>4. CommitPoint \in Nat /\ published + Block <= CommitPoint
    <3>1. CommitPoint \in Nat
      BY Commits DEF EngineInv
    <3>2. \A n \in Nat : CommitPoint >= published + Block + n => published + Block <= CommitPoint
      BY <1>1, <1>2, <3>1
    <3>3. QED
      BY <1>2, <1>5, <3>1, <3>2
  <2>5. QED
    BY <1>1, <1>2, <2>1, <2>2, <2>3, <2>4
<1>8. QED
  BY <1>3, <1>4, <1>5, <1>6, <1>7
\* A call that realigns or restarts leaves every event settled: what it moves
\* the timeline in front of is taken back by the flush it has to push.
Realigned ==
    /\ InOrder(log)'
    /\ todo' = <<>> \/ \E f \in Nat : f >= CommitPoint /\ todo' = <<FlushEvent(f)>>
    /\ \A x \in Triggers : Settled(x) => Settled(x)'

LEMMA FlushIs ==
  ASSUME Unhindered, NEW f \in Nat, SendFlush(f)
  PROVE  todo' = <<FlushEvent(f)>>
BY DEF Unhindered, SendFlush, MergedFlush

LEMMA RestartTakesBack ==
  ASSUME EngineInv, CommitsAhead, OldInv, Unhindered, callPc = "commit",
         DropQueued(CommitPoint), floor' = CommitPoint,
         restarts' = Append(restarts, CommitPoint)
  PROVE  Realigned
<1>1. PICK c \in Nat : c = CommitPoint
  BY Commits DEF EngineInv
<1>2. log \in Seq(Entries) /\ InOrder(log) /\ restarts \in Seq(Nat) /\ floor \in Nat
  BY DEF EngineInv, EngineTypeOK, ControlTypes, OldInv
<1>3. floor <= c
  BY <1>1, CommitIs DEF OldInv
<1>4. todo = <<>>
  BY PushesFit DEF EngineInv
<1>5. log' = FlushLog(log, c) /\ floor' = c /\ restarts' = Append(restarts, c)
  BY <1>1 DEF DropQueued
<1>6. \/ NewestFrom(log, c) # 0 /\ todo' = <<FlushEvent(c)>>
      \/ NewestFrom(log, c) = 0 /\ todo' = <<>>
  <2>1. NewestFrom(log, c) \in Nat
    <3>1. NewestFrom(log, c) \in 0 .. Len(log) /\ Len(log) \in Nat
      BY <1>2, NewestIs, EntryIs
    <3>2. QED
      BY <3>1
  <2>2. CASE NewestFrom(log, c) > 0
    <3>1. SendFlush(c)
      BY <1>1, <2>2 DEF DropQueued
    <3>2. QED
      BY <2>1, <2>2, <3>1, FlushIs
  <2>3. CASE ~(NewestFrom(log, c) > 0)
    <3>1. NoFlush
      BY <1>1, <2>3 DEF DropQueued
    <3>2. QED
      BY <1>4, <2>1, <2>3, <3>1 DEF NoFlush
  <2>4. QED
    BY <2>2, <2>3
<1>7. InOrder(log)'
  BY <1>2, <1>5, FlushOfLog DEF InOrder
<1>8. ASSUME NEW x \in Triggers, Settled(x)
      PROVE  Settled(x)'
  <2>1. x.sample \in Nat
    BY TriggerIs
  <2>2. Fits(x) /\ Known(x)
    <3>1. DOMAIN todo = {}
      BY <1>4
    <3>2. QED
      BY <1>8, <3>1 DEF Settled
  <2>3. CASE x.sample >= c
    <3>1. log # <<>> /\ x.sample <= log[Len(log)].sample
      BY <1>2, <1>3, <2>1, <2>2, <2>3 DEF Known
    <3>2. ~(log[Len(log)].sample < c)
      <4>1. Len(log) \in 1 .. Len(log)
        BY <1>2, <3>1
      <4>2. log[Len(log)].sample \in Nat
        BY <1>2, <4>1, EntryIs
      <4>3. QED
        BY <2>1, <2>3, <3>1, <4>2
    <3>3. NewestFrom(log, c) # 0
      BY <1>2, <3>1, <3>2, FlushOfLog
    <3>4. todo' = <<FlushEvent(c)>>
      BY <1>6, <3>3
    <3>5. 1 \in DOMAIN todo' /\ todo'[1] = FlushEvent(c)
      BY <3>4
    <3>6. TakesBack(FlushEvent(c), x)
      BY <2>1, <2>3 DEF TakesBack, FlushEvent
    <3>7. QED
      BY <3>5, <3>6 DEF Settled, TakesBack
  <2>4. CASE ~(x.sample >= c)
    <3>1. x.sample < c
      BY <2>1, <2>4
    <3>2. Known(x)'
      BY <1>5, <3>1 DEF Known
    <3>3. Fits(x)'
      <4>1. x.epoch \in Nat
        BY DEF Triggers
      <4>2. ASSUME NEW e \in x.epoch + 1 .. Len(restarts')
            PROVE  x.sample < restarts'[e]
        <5>1. Len(restarts) \in Nat /\ Len(restarts') = Len(restarts) + 1
              /\ restarts'[Len(restarts) + 1] = c
              /\ \A i \in 1 .. Len(restarts) : restarts'[i] = restarts[i]
          BY <1>2, <1>5
        <5>2. CASE e = Len(restarts) + 1
          BY <3>1, <5>1, <5>2
        <5>3. CASE e # Len(restarts) + 1
          <6>1. e \in x.epoch + 1 .. Len(restarts) /\ e \in 1 .. Len(restarts)
            BY <4>1, <4>2, <5>1, <5>3
          <6>2. QED
            BY <2>2, <5>1, <6>1 DEF Fits
        <5>4. QED
          BY <5>2, <5>3
      <4>3. QED
        BY <4>2 DEF Fits
    <3>4. QED
      BY <3>2, <3>3 DEF Settled
  <2>5. QED
    BY <2>3, <2>4
<1>9. todo' = <<>> \/ \E f \in Nat : f >= CommitPoint /\ todo' = <<FlushEvent(f)>>
  <2>1. c >= c
    OBVIOUS
  <2>2. QED
    BY <1>1, <1>6, <2>1
<1>10. QED
  BY <1>7, <1>8, <1>9 DEF Realigned

LEMMA RealignTakesBack ==
  ASSUME EngineInv, CommitsAhead, OldInv, Unhindered, callPc = "commit",
         NEW f, f = Cut(log, CommitPoint).flush,
         SendFlush(f) \/ (Cut(log, CommitPoint).dropped = <<>> /\ NoFlush),
         log' = FlushLog(log, f), floor' = CommitPoint, restarts' = restarts
  PROVE  Realigned
<1>1. PICK c \in Nat : c = CommitPoint
  BY Commits DEF EngineInv
<1>2. log \in Seq(Entries) /\ InOrder(log) /\ floor \in Nat
  BY DEF EngineInv, EngineTypeOK, ControlTypes, OldInv
<1>3. floor <= c
  BY <1>1, CommitIs DEF OldInv
<1>4. todo = <<>>
  BY PushesFit DEF EngineInv
<1>5. f \in Nat /\ f >= c
  BY <1>1, <1>2, CutIs
<1>6. \/ todo' = <<FlushEvent(f)>>
      \/ Cut(log, c).dropped = <<>> /\ todo' = <<>>
  BY <1>1, <1>4, <1>5, FlushIs DEF NoFlush
<1>7. InOrder(log)'
  BY <1>2, <1>5, FlushOfLog DEF InOrder
<1>8. ASSUME NEW x \in Triggers, Settled(x)
      PROVE  Settled(x)'
  <2>1. x.sample \in Nat
    BY TriggerIs
  <2>2. Fits(x) /\ Known(x)
    <3>1. DOMAIN todo = {}
      BY <1>4
    <3>2. QED
      BY <1>8, <3>1 DEF Settled
  <2>3. Fits(x)'
    BY <2>2 DEF Fits
  <2>4. CASE x.sample < c
    <3>1. Known(x)'
      BY <1>1, <2>4 DEF Known
    <3>2. QED
      BY <2>3, <3>1 DEF Settled
  <2>5. CASE ~(x.sample < c) /\ x.sample < f
    <3>1. c <= x.sample
      BY <2>1, <2>5
    <3>2. PICK j \in 1 .. Len(log) : x.sample <= log[j].sample /\ log[j].sample < f
      BY <1>1, <1>2, <2>1, <2>5, <3>1, CutKeeps
    <3>3. log' # <<>> /\ log[j].sample <= log'[Len(log')].sample
      BY <1>2, <1>5, <3>2, FlushOfLog
    <3>4. x.sample <= log'[Len(log')].sample
      <4>1. log' \in Seq(Entries) /\ Len(log') \in 1 .. Len(log')
        <5>1. log' \in Seq(Entries)
          BY <1>2, <1>5, NewestIs
        <5>2. QED
          BY <3>3, <5>1
      <4>2. log'[Len(log')].sample \in Nat /\ log[j].sample \in Nat
        BY <1>2, <4>1, EntryIs
      <4>3. QED
        BY <2>1, <3>2, <3>3, <4>2
    <3>5. Known(x)'
      BY <3>3, <3>4 DEF Known
    <3>6. QED
      BY <2>3, <3>5 DEF Settled
  <2>6. CASE ~(x.sample < f)
    <3>1. f <= x.sample /\ ~(x.sample < floor)
      BY <1>2, <1>3, <1>5, <2>1, <2>6
    <3>2. log # <<>> /\ x.sample <= log[Len(log)].sample
      BY <2>2, <3>1 DEF Known
    <3>3. ~(log[Len(log)].sample < f)
      <4>1. Len(log) \in 1 .. Len(log)
        BY <1>2, <3>2
      <4>2. log[Len(log)].sample \in Nat
        BY <1>2, <4>1, EntryIs
      <4>3. QED
        BY <1>5, <2>1, <3>1, <3>2, <4>2
    <3>4. Cut(log, c).dropped # <<>>
      BY <1>1, <1>2, <3>2, <3>3, CutKeeps
    <3>5. 1 \in DOMAIN todo' /\ todo'[1] = FlushEvent(f)
      BY <1>6, <3>4
    <3>6. TakesBack(FlushEvent(f), x)
      BY <3>1 DEF TakesBack, FlushEvent
    <3>7. QED
      BY <3>5, <3>6 DEF Settled, TakesBack
  <2>7. QED
    BY <2>4, <2>5, <2>6
<1>9. QED
  BY <1>1, <1>5, <1>6, <1>7, <1>8 DEF Realigned

LEMMA CommitKeeps ==
  ASSUME EngineInv, CommitsAhead, OldInv, callPc = "commit", Realigned,
         UNCHANGED <<split, queue, published, renderVars>>,
         NotePosition \/ UNCHANGED <<seen, block>>,
         callPc' \in {"idle", "push"}, lag' = 0,
         floor' \in {floor, CommitPoint},
         restarts' \in {restarts, Append(restarts, CommitPoint)}
  PROVE  OldInv'
<1> DEFINE c == CommitPoint
<1>1. /\ c \in Nat /\ c = (IF split THEN published + Clear ELSE pos)
      /\ c >= published + Block + (IF split THEN MaxLag * Block ELSE 0)
      /\ LearnedBlock = Block
      /\ \A i \in DOMAIN heard : heard[i].sample < c
  BY CommitIs, Commits DEF EngineInv, OldInv
<1> HIDE DEF c
<1>2. /\ published \in Nat /\ pos \in Nat /\ restarts \in Seq(Nat)
      /\ heard \in Seq(Triggers) /\ pending \in Seq(Events) /\ queue \in Seq(Events)
  BY DEF EngineInv, EngineTypeOK, RenderTypes, ControlTypes
<1>3. /\ Block \in Nat /\ Block > 0 /\ MaxLag \in Nat /\ MaxLag * Block \in Nat
  BY ClearIs
<1>4. UNCHANGED <<pos, renderPc, pending, heard>>
  BY DEF renderVars
<1>5. Pace'
  <2>1. Pace
    BY DEF OldInv
  <2>2. block' = Block /\ (seen' = published' \/ seen' + Block <= published')
    BY <1>1, <2>1 DEF Pace, NotePosition
  <2>3. lag' \in 0 .. MaxLag
    BY <1>3
  <2>4. floor' <= IF split' THEN published' + Clear ELSE pos'
    <3>1. c <= IF split THEN published + Clear ELSE pos
      BY <1>1
    <3>2. QED
      BY <1>4, <2>1, <3>1 DEF Pace, c
  <2>5. split' \/ callPc' = "idle" \/ renderPc' = "idle"
    BY <1>4, <2>1 DEF Pace
  <2>6. pos' = published' + (IF renderPc' = "idle" THEN Block ELSE 0)
    BY <1>4, <2>1 DEF Pace
  <2>7. QED
    BY <2>2, <2>3, <2>4, <2>5, <2>6 DEF Pace
<1>6. FlushAhead'
  <2>1. Reach' = published + Block + (IF split THEN MaxLag * Block ELSE 0)
    <3>1. MaxLag - lag' = MaxLag
      BY <1>3
    <3>2. QED
      BY <3>1 DEF Reach
  <2>2. ASSUME NEW f \in Nat, f >= c, todo' = <<FlushEvent(f)>>, NEW i \in DOMAIN todo'
        PROVE  Reach' <= todo'[i].sample
    <3>1. todo'[i] = FlushEvent(f)
      BY <2>2
    <3>2. todo'[i].sample = f
      BY <3>1 DEF FlushEvent
    <3>3. Reach' <= c /\ Reach' \in Nat
      <4>1. published + Block + (IF split THEN MaxLag * Block ELSE 0) \in Nat
        BY <1>2, <1>3
      <4>2. QED
        BY <1>1, <2>1, <4>1
    <3>4. QED
      BY <1>1, <2>2, <3>2, <3>3
  <2>3. todo' = <<>> => DOMAIN todo' = {}
    OBVIOUS
  <2>4. todo' = <<>> \/ \E f \in Nat : f >= c /\ todo' = <<FlushEvent(f)>>
    BY DEF Realigned, c
  <2>5. QED
    BY <2>2, <2>3, <2>4 DEF FlushAhead
<1>7. HitsSettled'
  <2>1. \A x \in Triggers : Settled(x) => Settled(x)'
    BY DEF Realigned
  <2>2. \A e \in Events : IsHit(e) => e \in Triggers
    BY EventIs DEF IsHit, IsTrigger
  <2>3. HitsSettled
    BY DEF OldInv
  <2>4. ASSUME NEW i \in DOMAIN heard, IsHit(heard[i])
        PROVE  Fits(heard[i])'
    <3>1. heard[i] \in Triggers /\ Fits(heard[i])
      BY <1>2, <2>3, <2>4 DEF HitsSettled
    <3> DEFINE x == heard[i]
    <3>2. x.epoch \in Nat /\ x.sample < c /\ x' = x
      BY <1>1, <1>4, <3>1 DEF Triggers
    <3>3. \A e \in x.epoch + 1 .. Len(restarts) : x.sample < restarts[e]
      BY <3>1 DEF Fits
    <3> HIDE DEF x
    <3>4. ASSUME NEW e \in x.epoch + 1 .. Len(restarts')
          PROVE  x.sample < restarts'[e]
      <4>1. CASE restarts' = restarts
        BY <3>3, <4>1
      <4>2. CASE restarts' = Append(restarts, c)
        <5>1. Len(restarts) \in Nat /\ Len(restarts') = Len(restarts) + 1
              /\ restarts'[Len(restarts) + 1] = c
              /\ \A k \in 1 .. Len(restarts) : restarts'[k] = restarts[k]
          BY <1>1, <1>2, <4>2
        <5>2. CASE e = Len(restarts) + 1
          BY <3>2, <5>1, <5>2
        <5>3. CASE e # Len(restarts) + 1
          <6>1. e \in x.epoch + 1 .. Len(restarts) /\ e \in 1 .. Len(restarts)
            BY <3>2, <3>4, <5>1, <5>3
          <6>2. QED
            BY <3>3, <5>1, <6>1
        <5>4. QED
          BY <5>2, <5>3
      <4>3. QED
        BY <4>1, <4>2 DEF c
    <3>5. QED
      BY <3>2, <3>4 DEF Fits, x
  <2>5. ASSUME NEW i \in DOMAIN pending, IsHit(pending[i])
        PROVE  Settled(pending[i])' \/ \E j \in DOMAIN queue : TakesBack(queue[j], pending[i])
    <3> DEFINE x == pending[i]
    <3>1. x \in Triggers /\ x' = x
      BY <1>2, <1>4, <2>2, <2>5
    <3>2. Settled(x) \/ \E j \in DOMAIN queue : TakesBack(queue[j], x)
      BY <2>3, <2>5 DEF HitsSettled
    <3>3. QED
      BY <2>1, <3>1, <3>2, <1>4 DEF Settled, Fits, Known, TakesBack
  <2>6. ASSUME NEW i \in DOMAIN queue, IsHit(queue[i])
        PROVE  Settled(queue[i])'
               \/ \E j \in DOMAIN queue : i < j /\ TakesBack(queue[j], queue[i])
    <3> DEFINE x == queue[i]
    <3>1. x \in Triggers /\ x' = x
      BY <1>2, <2>2, <2>6
    <3>2. Settled(x) \/ \E j \in DOMAIN queue : i < j /\ TakesBack(queue[j], x)
      BY <2>3, <2>6 DEF HitsSettled
    <3>3. QED
      BY <2>1, <3>1, <3>2 DEF Settled, Fits, Known, TakesBack
  <2>7. \A i \in DOMAIN todo' : ~IsHit(todo'[i])
    <3>1. \A f \in Nat : todo' = <<FlushEvent(f)>> => \A i \in DOMAIN todo' : ~IsHit(todo'[i])
      BY DEF FlushEvent, IsHit
    <3>2. todo' = <<>> => DOMAIN todo' = {}
      OBVIOUS
    <3>3. QED
      BY <3>1, <3>2 DEF Realigned
  <2>8. QED
    BY <1>4, <2>4, <2>5, <2>6, <2>7 DEF HitsSettled, IsHit, TakesBack
<1>8. QED
  BY <1>5, <1>6, <1>7 DEF OldInv, Realigned

LEMMA CallsKeep ==
  ASSUME EngineInv, CommitsAhead, OldInv, Unhindered, UNCHANGED split,
         StartInternal \/ StartFollow \/ Resync \/ Jump
  PROVE  OldInv'
<1>1. callPc = "commit" /\ lag' = 0 /\ UNCHANGED <<queue, published, renderVars>>
  BY DEF StartInternal, StartFollow, Resync, Jump
<1>2. todo = <<>>
  BY <1>1, PushesFit DEF EngineInv
<1>3. \A f : (SendFlush(f) \/ NoFlush) => callPc' \in {"idle", "push"}
  BY DEF SendFlush, NoFlush
<1>4. CASE StartInternal
  <2>1. /\ DropQueued(CommitPoint) /\ floor' = CommitPoint /\ NotePosition
        /\ restarts' = Append(restarts, CommitPoint)
    BY <1>4 DEF StartInternal
  <2>2. Realigned
    BY <1>1, <2>1, RestartTakesBack
  <2>3. callPc' \in {"idle", "push"}
    BY <1>3, <2>1 DEF DropQueued
  <2>4. QED
    BY <1>1, <2>1, <2>2, <2>3, CommitKeeps
<1>5. CASE StartFollow
  <2> DEFINE cut == Cut(log, CommitPoint)
  <2>1. /\ IF cut.dropped # <<>> THEN SendFlush(cut.flush) ELSE NoFlush
        /\ log' = FlushLog(log, cut.flush)
        /\ floor' = CommitPoint /\ NotePosition /\ restarts' = restarts
    BY <1>5 DEF StartFollow
  <2>2. SendFlush(cut.flush) \/ (cut.dropped = <<>> /\ NoFlush)
    BY <2>1
  <2>3. Realigned
    BY <1>1, <2>1, <2>2, RealignTakesBack
  <2>4. callPc' \in {"idle", "push"}
    BY <1>3, <2>2
  <2>5. QED
    BY <1>1, <2>1, <2>3, <2>4, CommitKeeps
<1>6. CASE Resync
  <2>1. CASE sched.playing
    <3>1. /\ DropQueued(CommitPoint) /\ floor' = CommitPoint /\ NotePosition
          /\ restarts' = Append(restarts, CommitPoint)
      BY <1>6, <2>1 DEF Resync
    <3>2. Realigned
      BY <1>1, <3>1, RestartTakesBack
    <3>3. callPc' \in {"idle", "push"}
      BY <1>3, <3>1 DEF DropQueued
    <3>4. QED
      BY <1>1, <3>1, <3>2, <3>3, CommitKeeps
  <2>2. CASE ~sched.playing
    <3>1. NoFlush /\ UNCHANGED <<log, restarts, floor>> /\ NotePosition
      BY <1>6, <2>2 DEF Resync
    <3>2. callPc' \in {"idle", "push"} /\ todo' = todo
      BY <3>1 DEF NoFlush
    <3>3. Realigned
      BY <1>2, <3>1, <3>2 DEF Realigned, OldInv, InOrder, Settled, Fits, Known
    <3>4. QED
      BY <1>1, <3>1, <3>2, <3>3, CommitKeeps
  <2>3. QED
    BY <2>1, <2>2
<1>7. CASE Jump
  <2>1. restarts' = restarts
    BY <1>7 DEF Jump
  <2>2. CASE sched.playing
    <3> DEFINE cut == Cut(log, CommitPoint)
    <3>1. RealignContinuous(CommitPoint, clock') /\ NotePosition
      BY <1>7, <2>2 DEF Jump
    <3>2. SendFlush(cut.flush) /\ log' = FlushLog(log, cut.flush) /\ floor' = CommitPoint
      BY <3>1 DEF RealignContinuous
    <3>3. Realigned
      BY <1>1, <2>1, <3>2, RealignTakesBack
    <3>4. callPc' \in {"idle", "push"}
      BY <1>3, <3>2
    <3>5. QED
      BY <1>1, <2>1, <3>1, <3>2, <3>3, <3>4, CommitKeeps
  <2>3. CASE ~sched.playing
    <3>1. NoFlush /\ UNCHANGED <<log, floor, seen, block>>
      BY <1>7, <2>3 DEF Jump
    <3>2. callPc' \in {"idle", "push"} /\ todo' = todo
      BY <3>1 DEF NoFlush
    <3>3. Realigned
      BY <1>2, <2>1, <3>1, <3>2 DEF Realigned, OldInv, InOrder, Settled, Fits, Known
    <3>4. QED
      BY <1>1, <2>1, <3>1, <3>2, <3>3, CommitKeeps
  <2>4. QED
    BY <2>2, <2>3
<1>8. QED
  BY <1>4, <1>5, <1>6, <1>7

\* What pushes nothing and realigns nothing.
LEMMA QuietKeeps ==
  ASSUME OldInv, todo = <<>>, Pace',
         UNCHANGED <<queue, renderVars, log, floor, restarts, todo>>
  PROVE  OldInv'
<1>1. DOMAIN todo = {}
  OBVIOUS
<1>2. FlushAhead'
  BY <1>1 DEF FlushAhead
<1>3. HitsSettled'
  <2>1. UNCHANGED <<pending, heard>>
    BY DEF renderVars
  <2>2. QED
    BY <2>1 DEF OldInv, HitsSettled, Settled, Fits, Known, TakesBack, IsHit
<1>4. QED
  BY <1>2, <1>3 DEF OldInv, InOrder

LEMMA BeginsKeep ==
  ASSUME EngineInv, CommitsAhead, OldInv, Unhindered, UNCHANGED split,
         \/ \E c \in RealignCalls : BeginCall(c)
         \/ QuietCall \/ TickBegin \/ TickNote \/ TickEnd
  PROVE  OldInv'
<1>1. /\ published \in Nat /\ pos \in Nat /\ MaxLag \in Nat /\ Pace
  BY ClearIs DEF EngineInv, EngineTypeOK, RenderTypes, OldInv
<1>2. UNCHANGED <<queue, published, pos, renderPc, renderVars, log, floor, restarts>>
  BY DEF BeginCall, QuietCall, TickBegin, TickNote, TickEnd, controlVars, historyVars, renderVars
<1>3. todo = <<>> /\ todo' = <<>>
  <2>1. callPc \in {"idle", "note"} \/ todo = <<>>
    BY DEF BeginCall, QuietCall, MayCall, TickBegin, TickNote, TickEnd
  <2>2. todo = <<>>
    BY <2>1, PushesFit DEF EngineInv
  <2>3. todo' = todo \/ todo' = <<>>
    BY DEF BeginCall, QuietCall, TickBegin, TickNote, TickEnd, callVars, Unhindered
  <2>4. QED
    BY <2>2, <2>3
<1>4. CASE \E c \in RealignCalls : BeginCall(c)
  <2>1. MayCall /\ callPc' = "commit" /\ now' = Position /\ lag' = 0 /\ UNCHANGED <<seen, block>>
    BY <1>4 DEF BeginCall, controlVars
  <2>2. split \/ renderPc = "idle"
    BY <2>1 DEF MayCall
  <2>3. IF split THEN now' <= published ELSE now' = pos
    BY <1>1, <2>1 DEF Position
  <2>4. Pace'
    BY <1>1, <1>2, <2>1, <2>2, <2>3 DEF Pace
  <2>5. QED
    BY <1>2, <1>3, <2>4, QuietKeeps
<1>5. CASE QuietCall
  <2>1. UNCHANGED <<callPc, now, lag, seen, block>>
    BY <1>5 DEF QuietCall, callVars
  <2>2. Pace'
    BY <1>1, <1>2, <2>1 DEF Pace
  <2>3. QED
    BY <1>2, <1>3, <2>2, QuietKeeps
<1>6. CASE TickBegin
  <2>1. MayCall /\ callPc' = "note" /\ lag' = 0 /\ UNCHANGED <<seen, block>>
    BY <1>6 DEF TickBegin, controlVars
  <2>2. split \/ renderPc = "idle"
    BY <2>1 DEF MayCall
  <2>3. Pace'
    BY <1>1, <1>2, <2>1, <2>2 DEF Pace
  <2>4. QED
    BY <1>2, <1>3, <2>3, QuietKeeps
<1>7. CASE TickNote
  <2>1. callPc = "note" /\ callPc' = "tick" /\ lag' = 0 /\ NotePosition
    BY <1>7 DEF TickNote
  <2>2. seen' = published' /\ block' = Block
    BY <1>1, <1>2, <2>1, LearnsBlock DEF NotePosition
  <2>3. Pace'
    BY <1>1, <1>2, <2>1, <2>2 DEF Pace
  <2>4. QED
    BY <1>2, <1>3, <2>3, QuietKeeps
<1>8. CASE TickEnd
  <2>1. callPc' = "idle" /\ UNCHANGED <<lag, seen, block>>
    BY <1>8 DEF TickEnd
  <2>2. Pace'
    BY <1>1, <1>2, <2>1 DEF Pace
  <2>3. QED
    BY <1>2, <1>3, <2>2, QuietKeeps
<1>9. QED
  BY <1>4, <1>5, <1>6, <1>7, <1>8

\* A step that follows those in the log becomes its last.
LEMMA StepLogged ==
  ASSUME NEW l \in Seq(Entries), NEW q \in Entries, InOrder(l),
         \A i \in DOMAIN l : l[i].sample <= q.sample
  PROVE  LET new == PushEntry(l, q) IN
         /\ new # <<>> /\ new[Len(new)] = q /\ InOrder(new)
<1> DEFINE all == Append(l, q)
           new == PushEntry(l, q)
<1>1. QueuedMemory \in Nat \ {0}
  BY EngineAssumption
<1>2. PICK N \in Nat : /\ Len(l) = N /\ DOMAIN l = 1 .. N
                       /\ \A i \in 1 .. N : l[i].sample \in Nat
  BY EntryIs
<1>3. /\ all \in Seq(Entries) /\ Len(all) = N + 1 /\ DOMAIN all = 1 .. N + 1
      /\ all[N + 1] = q /\ \A i \in 1 .. N : all[i] = l[i]
  BY <1>2
<1>4. q.sample \in Nat
  BY DEF Entries
<1>5. new = IF Len(all) > QueuedMemory THEN Tail(all) ELSE all
  BY DEF PushEntry
<1> HIDE DEF all, new
<1>6. \A i, j \in 1 .. N + 1 : i < j => all[i].sample <= all[j].sample
  <2> SUFFICES ASSUME NEW i \in 1 .. N + 1, NEW j \in 1 .. N + 1, i < j
               PROVE  all[i].sample <= all[j].sample
    OBVIOUS
  <2>1. i \in 1 .. N
    BY <1>2
  <2>2. CASE j = N + 1
    BY <1>2, <1>3, <2>1, <2>2
  <2>3. CASE j # N + 1
    <3>1. j \in 1 .. N
      BY <1>2, <2>3
    <3>2. QED
      BY <1>2, <1>3, <2>1, <3>1 DEF InOrder
  <2>4. QED
    BY <2>2, <2>3
<1>7. CASE new = all
  <2>1. all # <<>>
    <3>1. Len(all) # 0 /\ Len(<<>>) = 0
      BY <1>2, <1>3
    <3>2. QED
      BY <3>1
  <2>2. InOrder(new)
    BY <1>3, <1>6, <1>7 DEF InOrder
  <2>3. QED
    BY <1>3, <1>7, <2>1, <2>2 DEF new
<1>8. CASE new = Tail(all) /\ Len(all) > QueuedMemory
  <2>1. N \in 1 .. N
    BY <1>1, <1>2, <1>3, <1>8
  <2>2. /\ Len(new) = N /\ DOMAIN new = 1 .. N
        /\ \A i \in 1 .. N : new[i] = all[i + 1]
    BY <1>2, <1>3, <1>8
  <2>3. new # <<>> /\ new[Len(new)] = q
    <3>1. Len(new) # 0 /\ Len(<<>>) = 0
      BY <2>1, <2>2
    <3>2. QED
      BY <1>3, <2>1, <2>2, <3>1
  <2>4. InOrder(new)
    <3>1. \A i \in 1 .. N : i + 1 \in 1 .. N + 1
      BY <1>2
    <3>2. \A i, j \in 1 .. N : i < j => i + 1 < j + 1
      BY <1>2
    <3>3. \A i, j \in 1 .. N : i < j => new[i].sample <= new[j].sample
      BY <1>6, <2>2, <3>1, <3>2
    <3>4. QED
      BY <2>2, <3>3 DEF InOrder
  <2>5. QED
    BY <2>3, <2>4 DEF new
<1>9. QED
  BY <1>5, <1>7, <1>8

LEMMA StepKeeps ==
  ASSUME EngineInv, CommitsAhead, OldInv, StepFollows, TickStep, UNCHANGED <<split, capacity>>
  PROVE  OldInv'
<1> DEFINE step == sched.next
           s == StepSample(clock, step)
           q == Entry(step)
<1>1. /\ todo = <<>> /\ todo' = StepEvents(step) /\ log' = PushEntry(log, q)
      /\ UNCHANGED <<queue, published, renderVars, seen, block, callPc, now, lag, floor, restarts>>
  BY DEF TickStep, historyVars
<1>2. step \in Nat /\ s \in Nat /\ q \in Entries /\ q.sample = s
  <2>1. sched \in Scheds /\ clock \in Clock
    BY DEF EngineInv, EngineTypeOK, ControlTypes
  <2>2. step \in Nat
    BY <2>1 DEF Scheds
  <2>3. s \in Nat
    BY <2>1, <2>2, PlaceOfStep
  <2>4. q \in Entries
    BY <2>2, EventsOfStep DEF EngineInv
  <2>5. q.sample = s
    BY DEF Entry
  <2>6. QED
    BY <2>2, <2>3, <2>4, <2>5
<1>3. /\ log \in Seq(Entries) /\ InOrder(log) /\ floor \in Nat
      /\ heard \in Seq(Triggers) /\ pending \in Seq(Events) /\ queue \in Seq(Events)
  BY DEF EngineInv, EngineTypeOK, RenderTypes, ControlTypes, OldInv
<1>4. \A i \in DOMAIN log : log[i].sample <= s
  BY DEF StepFollows
<1>5. \A i \in DOMAIN todo' : /\ todo'[i].kind # "flush"
                              /\ IsHit(todo'[i]) => /\ todo'[i].sample = s
                                                    /\ todo'[i].epoch = Len(restarts)
  <2> DEFINE g == Trigger("grace", GraceSample(s), step)
             h == Trigger("hit", s, step)
  <2>1. todo' = <<g, h>> \/ todo' = <<h>>
    BY <1>1 DEF StepEvents
  <2>2. g.kind = "grace" /\ h.kind = "hit" /\ h.sample = s /\ h.epoch = Len(restarts)
    BY DEF Trigger
  <2> HIDE DEF g, h, s, step
  <2>3. \A i \in DOMAIN todo' : todo'[i] = g \/ todo'[i] = h
    BY <2>1
  <2>4. QED
    BY <2>2, <2>3 DEF IsHit
<1> HIDE DEF q
<1>6. log' # <<>> /\ log'[Len(log')] = q /\ InOrder(log')
  <2> HIDE DEF s
  <2>1. \A i \in DOMAIN log : log[i].sample <= q.sample
    BY <1>2, <1>4
  <2>2. QED
    BY <1>1, <1>2, <1>3, <2>1, StepLogged
<1> HIDE DEF step, s
<1>7. ASSUME NEW x \in Triggers, Settled(x)
      PROVE  Settled(x)'
  <2>1. DOMAIN todo = {} /\ x.sample \in Nat
    BY <1>1, TriggerIs
  <2>2. Fits(x) /\ Known(x)
    BY <1>7, <2>1 DEF Settled
  <2>3. Known(x)'
    <3>1. CASE x.sample < floor
      BY <1>1, <3>1 DEF Known
    <3>2. CASE log # <<>> /\ x.sample <= log[Len(log)].sample
      <4>1. Len(log) \in DOMAIN log /\ log[Len(log)].sample \in Nat
        <5>1. Len(log) \in 1 .. Len(log)
          BY <1>3, <3>2
        <5>2. QED
          BY <1>3, <5>1, EntryIs
      <4>2. log[Len(log)].sample <= s
        BY <1>4, <4>1
      <4>3. x.sample <= log'[Len(log')].sample
        BY <1>2, <1>6, <2>1, <3>2, <4>1, <4>2
      <4>4. QED
        BY <1>6, <4>3 DEF Known
    <3>3. QED
      BY <2>2, <3>1, <3>2 DEF Known
  <2>4. QED
    BY <1>1, <2>2, <2>3 DEF Settled, Fits
<1>8. Pace'
  BY <1>1 DEF OldInv, Pace, renderVars
<1>9. FlushAhead'
  BY <1>5 DEF FlushAhead
<1>10. ASSUME NEW i \in DOMAIN todo', IsHit(todo'[i])
       PROVE  (Fits(todo[i]) /\ Known(todo[i]))'
  <2>1. todo'[i].sample = s /\ todo'[i].epoch = Len(restarts)
    BY <1>5, <1>10
  <2>2. Known(todo[i])'
    BY <1>2, <1>6, <2>1 DEF Known
  <2>3. Len(restarts) + 1 .. Len(restarts) = {}
    <3>1. Len(restarts) \in Nat
      BY DEF EngineInv, EngineTypeOK, ControlTypes
    <3>2. QED
      BY <3>1
  <2>4. Fits(todo[i])'
    BY <1>1, <2>1, <2>3 DEF Fits
  <2>5. QED
    BY <2>2, <2>4
<1>11. HitsSettled'
  <2>1. UNCHANGED <<pending, heard>> /\ HitsSettled
    BY <1>1 DEF renderVars, OldInv
  <2>2. \A e \in Events : IsHit(e) => e \in Triggers
    BY EventIs DEF IsHit, IsTrigger
  <2>3. \A i \in DOMAIN heard : IsHit(heard[i]) => Fits(heard[i])'
    BY <1>1, <2>1 DEF HitsSettled, Fits
  <2>4. ASSUME NEW i \in DOMAIN pending, IsHit(pending[i])
        PROVE  Settled(pending[i])' \/ \E j \in DOMAIN queue : TakesBack(queue[j], pending[i])
    <3> DEFINE x == pending[i]
    <3>1. x \in Triggers /\ x' = x
      BY <1>3, <2>1, <2>2, <2>4
    <3>2. Settled(x) \/ \E j \in DOMAIN queue : TakesBack(queue[j], x)
      BY <2>1, <2>4 DEF HitsSettled
    <3>3. QED
      BY <1>7, <3>1, <3>2, <2>1 DEF Settled, Fits, Known, TakesBack
  <2>5. ASSUME NEW i \in DOMAIN queue, IsHit(queue[i])
        PROVE  Settled(queue[i])'
               \/ \E j \in DOMAIN queue : i < j /\ TakesBack(queue[j], queue[i])
    <3> DEFINE x == queue[i]
    <3>1. x \in Triggers /\ x' = x
      BY <1>1, <1>3, <2>2, <2>5
    <3>2. Settled(x) \/ \E j \in DOMAIN queue : i < j /\ TakesBack(queue[j], x)
      BY <2>1, <2>5 DEF HitsSettled
    <3>3. QED
      BY <1>1, <1>7, <3>1, <3>2 DEF Settled, Fits, Known, TakesBack
  <2>6. QED
    BY <1>1, <1>10, <2>1, <2>3, <2>4, <2>5 DEF HitsSettled, IsHit, TakesBack
<1>12. QED
  BY <1>6, <1>8, <1>9, <1>11 DEF OldInv, InOrder

\* An event that joins the queue is settled, or takes back what was not.
LEMMA QueueGrows ==
  ASSUME EngineInv, HitsSettled, NEW e \in Events, queue' = Append(queue, e),
         IsHit(e) => Fits(e) /\ Known(e),
         UNCHANGED <<renderVars, log, floor, restarts>>,
         \A x \in Triggers : Settled(x) => Settled(x)' \/ TakesBack(e, x),
         \A i \in DOMAIN todo' : \E j \in DOMAIN todo : todo'[i] = todo[j]
  PROVE  HitsSettled'
<1>1. /\ pending \in Seq(Events) /\ queue \in Seq(Events) /\ UNCHANGED <<pending, heard>>
  BY DEF EngineInv, EngineTypeOK, RenderTypes, renderVars
<1>2. \A x \in Events : IsHit(x) => x \in Triggers
  BY EventIs DEF IsHit, IsTrigger
<1> DEFINE N == Len(queue)
<1>3. /\ N \in Nat /\ DOMAIN queue = 1 .. N /\ DOMAIN queue' = 1 .. N + 1
      /\ queue'[N + 1] = e /\ \A j \in 1 .. N : queue'[j] = queue[j]
  BY <1>1
<1> HIDE DEF N
<1>4. N + 1 \in DOMAIN queue' /\ \A j \in DOMAIN queue : j \in DOMAIN queue' /\ j < N + 1
  BY <1>3
<1>5. \A i \in DOMAIN heard : IsHit(heard[i]) => Fits(heard[i])'
  BY <1>1 DEF HitsSettled, Fits
<1>6. ASSUME NEW i \in DOMAIN pending, IsHit(pending[i])
      PROVE  Settled(pending[i])' \/ \E j \in DOMAIN queue' : TakesBack(queue'[j], pending[i])
  <2> DEFINE x == pending[i]
  <2>1. x \in Triggers /\ x' = x
    BY <1>1, <1>2, <1>6
  <2>2. Settled(x) \/ \E j \in DOMAIN queue : TakesBack(queue[j], x)
    BY <1>6 DEF HitsSettled
  <2>3. CASE Settled(x)
    <3>1. Settled(x)' \/ TakesBack(e, x)
      BY <2>1, <2>3
    <3>2. Settled(x)' => Settled(pending[i])'
      BY <1>1
    <3>3. QED
      BY <1>3, <1>4, <3>1, <3>2
  <2>4. CASE \E j \in DOMAIN queue : TakesBack(queue[j], x)
    BY <1>3, <1>4, <2>4
  <2>5. QED
    BY <2>2, <2>3, <2>4
<1>7. ASSUME NEW i \in DOMAIN queue', IsHit(queue'[i])
      PROVE  Settled(queue[i])'
             \/ \E j \in DOMAIN queue' : i < j /\ TakesBack(queue'[j], queue'[i])
  <2>1. CASE i = N + 1
    <3>1. Fits(e) /\ Known(e)
      BY <1>3, <1>7, <2>1
    <3>2. Settled(queue[i])'
      BY <1>3, <2>1, <3>1 DEF Settled, Fits, Known
    <3>3. QED
      BY <3>2
  <2>2. CASE i # N + 1
    <3> DEFINE x == queue[i]
    <3>1. i \in DOMAIN queue /\ queue'[i] = x /\ i < N + 1
      BY <1>3, <2>2
    <3>2. x \in Triggers
      BY <1>1, <1>2, <1>7, <3>1
    <3>3. Settled(x) \/ \E j \in DOMAIN queue : i < j /\ TakesBack(queue[j], x)
      BY <1>7, <3>1 DEF HitsSettled
    <3>4. CASE Settled(x)
      <4>1. PICK y \in Triggers : y = x
        BY <3>2
      <4>2. Settled(y)' \/ TakesBack(e, y)
        BY <3>4, <4>1
      <4>3. Settled(y)' => Settled(queue[i])'
        BY <3>1, <4>1
      <4>4. QED
        BY <1>3, <1>4, <3>1, <4>1, <4>2, <4>3
    <3>5. CASE \E j \in DOMAIN queue : i < j /\ TakesBack(queue[j], x)
      BY <1>3, <1>4, <3>1, <3>5
    <3>6. QED
      BY <3>3, <3>4, <3>5
  <2>3. QED
    BY <2>1, <2>2
<1>8. ASSUME NEW i \in DOMAIN todo', IsHit(todo'[i])
      PROVE  (Fits(todo[i]) /\ Known(todo[i]))'
  <2>1. PICK j \in DOMAIN todo : todo'[i] = todo[j]
    OBVIOUS
  <2>2. Fits(todo[j]) /\ Known(todo[j])
    BY <1>8, <2>1 DEF HitsSettled
  <2>3. QED
    BY <2>1, <2>2 DEF Fits, Known
<1>9. QED
  BY <1>1, <1>5, <1>6, <1>7, <1>8 DEF HitsSettled, IsHit, TakesBack

LEMMA PushKeeps ==
  ASSUME EngineInv, CommitsAhead, OldInv, PushEvent, UNCHANGED <<split, capacity>>
  PROVE  OldInv'
<1> DEFINE e == Head(todo)
<1>1. /\ todo # <<>> /\ todo \in Seq(Events) /\ queue' = Append(queue, e) /\ todo' = Tail(todo)
      /\ callPc' \in {callPc, "idle"} /\ callPc \in {"push", "tick"}
      /\ UNCHANGED <<published, renderVars, log, seen, block, floor, restarts, now, lag>>
  BY DEF PushEvent, EngineInv, EngineTypeOK, ControlTypes, RoomForStep, controlVars, historyVars
<1>2. /\ e \in Events /\ 1 \in DOMAIN todo /\ e = todo[1]
      /\ \A i \in DOMAIN todo' : i + 1 \in DOMAIN todo /\ todo'[i] = todo[i + 1]
      /\ \A j \in DOMAIN todo : j # 1 => j - 1 \in DOMAIN todo' /\ todo'[j - 1] = todo[j]
  BY <1>1
<1> HIDE DEF e
<1>3. HitsSettled /\ FlushAhead /\ Pace /\ InOrder(log)
  BY DEF OldInv
<1>4. Pace'
  BY <1>1, <1>3 DEF Pace, renderVars
<1>5. FlushAhead'
  BY <1>1, <1>2, <1>3 DEF FlushAhead, Reach
<1>6. ASSUME NEW x \in Triggers, Settled(x)
      PROVE  Settled(x)' \/ TakesBack(e, x)
  <2>1. CASE Fits(x) /\ Known(x)
    BY <1>1, <2>1 DEF Settled, Fits, Known
  <2>2. CASE \E j \in DOMAIN todo : TakesBack(todo[j], x)
    <3>1. PICK j \in DOMAIN todo : TakesBack(todo[j], x)
      BY <2>2
    <3>2. j = 1 => TakesBack(e, x)
      BY <1>2, <3>1
    <3>3. j # 1 => Settled(x)'
      BY <1>2, <3>1 DEF Settled, TakesBack
    <3>4. QED
      BY <3>2, <3>3
  <2>3. QED
    BY <1>6, <2>1, <2>2 DEF Settled
<1>7. IsHit(e) => Fits(e) /\ Known(e)
  BY <1>2, <1>3 DEF HitsSettled
<1>8. \A i \in DOMAIN todo' : \E j \in DOMAIN todo : todo'[i] = todo[j]
  BY <1>2
<1>9. HitsSettled'
  BY <1>1, <1>2, <1>3, <1>6, <1>7, <1>8, QueueGrows
<1>10. QED
  BY <1>1, <1>3, <1>4, <1>5, <1>9 DEF OldInv, InOrder

LEMMA ParamStays ==
  ASSUME EngineInv, CommitsAhead, OldInv, SetParam, UNCHANGED <<split, capacity>>
  PROVE  OldInv'
<1>1. /\ callPc = "idle" /\ UNCHANGED <<callPc, now, todo, lag, published, renderVars>>
      /\ UNCHANGED <<log, seen, block, floor, restarts>>
  BY DEF SetParam, MayCall, callVars, historyVars
<1>2. Pace'
  BY <1>1 DEF OldInv, Pace, renderVars
<1>3. todo = <<>>
  BY <1>1, PushesFit DEF EngineInv
<1>4. CASE UNCHANGED queue
  BY <1>1, <1>2, <1>3, <1>4, QuietKeeps
<1>5. CASE \E v \in Values : queue' = Append(queue, ParamEvent(Position, v))
  <2>1. PICK v \in Values : queue' = Append(queue, ParamEvent(Position, v))
    BY <1>5
  <2>2. PICK e \in Events : e = ParamEvent(Position, v)
    BY Commits DEF ParamEvent, Params, Events, EngineInv
  <2>3. ~IsHit(e)
    BY <2>2 DEF ParamEvent, IsHit
  <2>4. \A x \in Triggers : Settled(x) => Settled(x)'
    BY <1>1 DEF Settled, Fits, Known
  <2>5. \A i \in DOMAIN todo' : \E j \in DOMAIN todo : todo'[i] = todo[j]
    BY <1>1
  <2>6. HitsSettled'
    BY <1>1, <2>1, <2>2, <2>3, <2>4, <2>5, QueueGrows DEF OldInv
  <2>7. FlushAhead'
    BY <1>1 DEF OldInv, FlushAhead, Reach
  <2>8. QED
    BY <1>1, <1>2, <2>6, <2>7 DEF OldInv, InOrder
<1>6. QED
  BY <1>4, <1>5 DEF SetParam

LEMMA BlockStarts ==
  ASSUME EngineInv, CommitsAhead, OldInv, RenderStart, UNCHANGED <<split, capacity>>
  PROVE  OldInv'
<1>1. /\ renderPc = "idle" /\ published' = pos /\ renderPc' = "pull"
      /\ UNCHANGED <<queue, pos, pending, heard, log, seen, block, floor, restarts>>
      /\ UNCHANGED <<callPc, now, todo>>
      /\ lag' = IF callPc = "idle" THEN 0 ELSE lag + 1
      /\ callPc = "idle" \/ (split /\ lag < MaxLag)
  BY DEF RenderStart, RenderPublish, controlVars, callVars, historyVars
<1>2. /\ published \in Nat /\ pos \in Nat /\ seen \in Nat /\ now \in Nat /\ floor \in Nat
      /\ Block \in Nat /\ Block > 0 /\ MaxLag \in Nat /\ Clear \in Nat
      /\ \A k \in Nat : k * Block \in Nat /\ (k + 1) * Block = k * Block + Block
  BY ClearIs DEF EngineInv, EngineTypeOK, RenderTypes, ControlTypes
<1>3. /\ pos = published + Block /\ block = Block
      /\ seen = published \/ seen + Block <= published
      /\ callPc = "commit" => IF split THEN now <= published ELSE now = pos
      /\ lag \in 0 .. MaxLag
      /\ floor <= IF split THEN published + Clear ELSE pos
  BY <1>1 DEF OldInv, Pace
<1>4. Pace'
  <2>1. seen + Block <= published'
    BY <1>1, <1>2, <1>3
  <2>2. callPc' = "commit" => IF split' THEN now' <= published' ELSE now' = pos'
    BY <1>1, <1>2, <1>3
  <2>3. lag' \in 0 .. MaxLag
    BY <1>1, <1>2, <1>3
  <2>4. floor' <= IF split' THEN published' + Clear ELSE pos'
    BY <1>1, <1>2, <1>3
  <2>5. pos' = published' + (IF renderPc' = "idle" THEN Block ELSE 0)
    BY <1>1, <1>2
  <2>6. split' \/ callPc' = "idle" \/ renderPc' = "idle"
    BY <1>1
  <2>7. QED
    BY <1>1, <1>3, <2>1, <2>2, <2>3, <2>4, <2>5, <2>6 DEF Pace
<1>5. FlushAhead'
  <2>1. CASE callPc = "idle"
    <3>1. todo = <<>>
      BY <2>1, PushesFit DEF EngineInv
    <3>2. DOMAIN todo' = {}
      BY <1>1, <3>1
    <3>3. QED
      BY <3>2 DEF FlushAhead
  <2>2. CASE split /\ lag < MaxLag /\ callPc # "idle"
    <3> DEFINE k == MaxLag - lag'
    <3>1. k \in Nat /\ MaxLag - lag = k + 1
      BY <1>1, <1>2, <1>3, <2>2
    <3> HIDE DEF k
    <3>2. (k + 1) * Block = k * Block + Block /\ k * Block \in Nat
      BY <1>2, <3>1
    <3>3. Reach = published + Block + (k * Block + Block)
      BY <2>2, <3>1, <3>2 DEF Reach
    <3>4. Reach' = published' + Block + k * Block
      BY <2>2 DEF Reach, k
    <3>5. Reach' = Reach
      <4>1. \A n \in Nat : published + Block + (n + Block) = pos + Block + n
        BY <1>2, <1>3
      <4>2. QED
        BY <1>1, <3>2, <3>3, <3>4, <4>1
    <3>6. QED
      BY <1>1, <3>5 DEF OldInv, FlushAhead
  <2>3. QED
    BY <1>1, <2>1, <2>2
<1>6. HitsSettled'
  BY <1>1 DEF OldInv, HitsSettled, Settled, Fits, Known, TakesBack, IsHit
<1>7. QED
  BY <1>1, <1>4, <1>5, <1>6 DEF OldInv, InOrder

\* A flush leaves no trigger at or after it.
LEMMA FlushedAre ==
  ASSUME NEW S, NEW held \in Seq(S), NEW sample
  PROVE  /\ \A k \in DOMAIN FlushPending(held, sample) :
              \E i \in DOMAIN held : /\ FlushPending(held, sample)[k] = held[i]
                                     /\ ~(IsTrigger(held[i]) /\ held[i].sample >= sample)
         /\ \A i \in DOMAIN held :
              ~(IsTrigger(held[i]) /\ held[i].sample >= sample) =>
                 \E k \in DOMAIN FlushPending(held, sample) :
                    FlushPending(held, sample)[k] = held[i]
<1> DEFINE K == {i \in DOMAIN held : ~(IsTrigger(held[i]) /\ held[i].sample >= sample)}
<1>1. K \in SUBSET DOMAIN held
  OBVIOUS
<1>2. FlushPending(held, sample) = Places(held, K)
  BY DEF FlushPending
<1>3. /\ \A n \in DOMAIN Places(held, K) : \E k \in K : Places(held, K)[n] = held[k]
      /\ \A k \in K : \E n \in DOMAIN Places(held, K) : Places(held, K)[n] = held[k]
  <2> HIDE DEF K
  <2>1. QED
    BY <1>1, PlacesFrom
<1>4. /\ \A i \in K : i \in DOMAIN held /\ ~(IsTrigger(held[i]) /\ held[i].sample >= sample)
      /\ \A i \in DOMAIN held : ~(IsTrigger(held[i]) /\ held[i].sample >= sample) => i \in K
  OBVIOUS
<1> HIDE DEF K
<1>5. QED
  BY <1>2, <1>3, <1>4

LEMMA EventPulled ==
  ASSUME EngineInv, OldInv, RenderPull, UNCHANGED <<split, capacity>>,
         UNCHANGED <<controlVars, callVars, lag, historyVars>>
  PROVE  OldInv'
<1> DEFINE e == Head(queue)
<1>1. /\ queue # <<>> /\ queue' = Tail(queue)
      /\ pending' = IF e.kind = "flush" THEN FlushPending(pending, e.sample)
                                        ELSE InsertPending(pending, e)
      /\ UNCHANGED <<published, pos, renderPc, heard, log, seen, block, floor, restarts>>
      /\ UNCHANGED <<callPc, now, todo>>
  BY DEF RenderPull, CanPull, controlVars, callVars, historyVars
<1>2. queue \in Seq(Events) /\ pending \in Seq(Events) /\ OldInv
  BY DEF EngineInv, EngineTypeOK, RenderTypes
<1>3. /\ e \in Events /\ 1 \in DOMAIN queue /\ e = queue[1]
      /\ \A i \in DOMAIN queue' : i + 1 \in DOMAIN queue /\ queue'[i] = queue[i + 1]
      /\ \A j \in DOMAIN queue : j # 1 => j - 1 \in DOMAIN queue' /\ queue'[j - 1] = queue[j]
      /\ DOMAIN queue \subseteq Int /\ DOMAIN queue' \subseteq Int
  BY <1>1, <1>2
<1> HIDE DEF e
<1>4. Pace' /\ FlushAhead' /\ InOrder(log)'
  BY <1>1 DEF OldInv, Pace, FlushAhead, Reach, InOrder
<1>5. HitsSettled
  BY DEF OldInv
<1>6. ASSUME NEW i \in DOMAIN queue', IsHit(queue'[i])
      PROVE  Settled(queue[i])'
             \/ \E j \in DOMAIN queue' : i < j /\ TakesBack(queue'[j], queue'[i])
  <2> DEFINE x == queue[i + 1]
  <2>1. i + 1 \in DOMAIN queue /\ queue'[i] = x /\ i \in Int
    BY <1>3
  <2>2. Settled(x) \/ \E j \in DOMAIN queue : i + 1 < j /\ TakesBack(queue[j], x)
    BY <1>5, <1>6, <2>1 DEF HitsSettled
  <2>3. CASE Settled(x)
    BY <1>1, <2>1, <2>3 DEF Settled, Fits, Known
  <2>4. CASE \E j \in DOMAIN queue : i + 1 < j /\ TakesBack(queue[j], x)
    <3>1. PICK j \in DOMAIN queue : i + 1 < j /\ TakesBack(queue[j], x)
      BY <2>4
    <3>2. j \in Int /\ 1 \in DOMAIN queue /\ 1 < i + 1
      <4>1. \A k \in DOMAIN queue : k >= 1
        BY <1>2
      <4>2. \A k \in DOMAIN queue' : k >= 1
        BY <1>1, <1>2
      <4>3. QED
        BY <1>3, <2>1, <4>2
    <3>3. j # 1 /\ i < j - 1
      BY <2>1, <3>1, <3>2
    <3>4. j - 1 \in DOMAIN queue' /\ queue'[j - 1] = queue[j]
      BY <1>3, <3>3
    <3>5. QED
      BY <2>1, <3>1, <3>3, <3>4
  <2>5. QED
    BY <2>2, <2>3, <2>4
<1>7. ASSUME NEW x, ~TakesBack(e, x),
             Settled(x) \/ \E j \in DOMAIN queue : TakesBack(queue[j], x)
      PROVE  Settled(x)' \/ \E j \in DOMAIN queue' : TakesBack(queue'[j], x)
  <2>1. CASE Settled(x)
    BY <1>1, <2>1 DEF Settled, Fits, Known
  <2>2. CASE \E j \in DOMAIN queue : TakesBack(queue[j], x)
    <3>1. PICK j \in DOMAIN queue : TakesBack(queue[j], x)
      BY <2>2
    <3>2. j # 1
      BY <1>3, <1>7, <3>1
    <3>3. QED
      BY <1>3, <3>1, <3>2
  <2>3. QED
    BY <1>7, <2>1, <2>2
<1>8. ASSUME NEW k \in DOMAIN pending', IsHit(pending'[k])
      PROVE  Settled(pending[k])' \/ \E j \in DOMAIN queue' : TakesBack(queue'[j], pending'[k])
  <2>1. PICK x : x = pending'[k]
    OBVIOUS
  <2>2. IsHit(x) /\ IsTrigger(x)
    BY <1>8, <2>1 DEF IsHit, IsTrigger
  <2>3. \A i \in DOMAIN pending :
           x = pending[i] => Settled(x) \/ \E j \in DOMAIN queue : TakesBack(queue[j], x)
    BY <1>5, <2>2 DEF HitsSettled
  <2>4. ~TakesBack(e, x) /\ (Settled(x) \/ \E j \in DOMAIN queue : TakesBack(queue[j], x))
    <3>1. CASE e.kind = "flush"
      <4>1. PICK i \in DOMAIN pending :
              /\ pending'[k] = pending[i]
              /\ ~(IsTrigger(pending[i]) /\ pending[i].sample >= e.sample)
        BY <1>1, <1>2, <3>1, FlushedAre
      <4>2. x = pending[i] /\ x.sample \in Nat /\ e.sample \in Nat
        BY <1>2, <1>3, <2>1, <4>1, EventIs
      <4>3. ~(x.sample >= e.sample)
        BY <2>2, <4>1, <4>2
      <4>4. ~TakesBack(e, x)
        BY <4>2, <4>3 DEF TakesBack
      <4>5. QED
        BY <2>3, <4>2, <4>4
    <3>2. CASE e.kind # "flush"
      <4>1. ~TakesBack(e, x)
        BY <3>2 DEF TakesBack
      <4>2. pending' = InsertPending(pending, e)
        BY <1>1, <3>2
      <4>3. x = e \/ \E i \in DOMAIN pending : x = pending[i]
        BY <1>2, <1>3, <2>1, <4>2, InsertHas
      <4>4. x = e => Settled(x) \/ \E j \in DOMAIN queue : TakesBack(queue[j], x)
        BY <1>3, <1>5, <2>2 DEF HitsSettled
      <4>5. QED
        BY <2>3, <4>1, <4>3, <4>4
    <3>3. QED
      BY <3>1, <3>2
  <2>5. Settled(x)' \/ \E j \in DOMAIN queue' : TakesBack(queue'[j], x)
    BY <1>7, <2>4
  <2>6. QED
    BY <2>1, <2>5 DEF Settled, Fits, Known, TakesBack
<1>9. /\ \A i \in DOMAIN heard' : IsHit(heard[i])' => Fits(heard[i])'
      /\ \A i \in DOMAIN todo' : IsHit(todo[i])' => (Fits(todo[i]) /\ Known(todo[i]))'
  BY <1>1, <1>5 DEF HitsSettled, Fits, Known, IsHit
<1>10. HitsSettled'
  BY <1>6, <1>8, <1>9 DEF HitsSettled, IsHit, TakesBack
<1>11. QED
  BY <1>4, <1>10 DEF OldInv

LEMMA BlockPlays ==
  ASSUME EngineInv, CommitsAhead, OldInv, Unhindered, RenderPlay, UNCHANGED <<split, capacity>>,
         UNCHANGED <<controlVars, callVars, lag, historyVars>>
  PROVE  OldInv'
<1>1. /\ renderPc = "pull" /\ renderPc' = "idle" /\ pos' = pos + Block
      /\ UNCHANGED <<queue, published, log, seen, block, floor, restarts, callPc, now, todo>>
  BY DEF RenderPlay, controlVars, callVars, historyVars
<1>2. queue = <<>>
  BY <1>1 DEF Unhindered, RenderPlay, CanPull
<1>3. /\ published \in Nat /\ pos \in Nat /\ floor \in Nat /\ Block \in Nat /\ Block > 0
      /\ MaxLag \in Nat /\ todo \in Seq(Events)
      /\ \A k \in Nat : k * Block \in Nat
  BY ClearIs DEF EngineInv, EngineTypeOK, RenderTypes, ControlTypes
<1>4. pos = published /\ (split \/ callPc = "idle") /\ lag \in 0 .. MaxLag
      /\ floor <= (IF split THEN published + Clear ELSE pos) /\ HitsSettled /\ FlushAhead
  BY <1>1, <1>3 DEF OldInv, Pace
<1>5. Pace'
  <2>1. floor' <= IF split' THEN published' + Clear ELSE pos'
    BY <1>1, <1>3, <1>4
  <2>2. pos' = published' + (IF renderPc' = "idle" THEN Block ELSE 0)
    BY <1>1, <1>4
  <2>3. callPc' = "commit" => IF split' THEN now' <= published' ELSE now' = pos'
    BY <1>1, <1>4 DEF OldInv, Pace
  <2>4. QED
    BY <1>1, <2>1, <2>2, <2>3 DEF OldInv, Pace
<1>6. FlushAhead' /\ InOrder(log)'
  BY <1>1 DEF OldInv, FlushAhead, Reach, InOrder
<1>7a. EngineTypeOK /\ InOrder(pending)
  BY DEF EngineInv, HeldInOrder
<1>7p. PICK due \in Seq(Events), rest \in Seq(Events), new \in Seq(Triggers) :
        PlaysAs(due, rest, new)
  BY <1>7a, Plays
<1>7. /\ pending = due \o rest /\ pending' = rest /\ heard' = heard \o new
      /\ \A i \in DOMAIN new : /\ new[i].at \in Nat /\ new[i].sample <= new[i].at
                               /\ new[i].at < pos + Block
      /\ \A i \in DOMAIN new : \E k \in DOMAIN due : FiredFrom(new[i], due[k])
  BY <1>7p DEF PlaysAs
<1>8. /\ \A k \in DOMAIN due : \E i \in DOMAIN pending : pending[i] = due[k]
      /\ \A k \in DOMAIN rest : \E i \in DOMAIN pending : pending[i] = rest[k]
  <2> DEFINE h == due \o rest
  <2>1. \A i \in DOMAIN due : i \in DOMAIN h /\ h[i] = due[i]
    BY Joined
  <2>2. \A i \in DOMAIN rest : Len(due) + i \in DOMAIN h /\ h[Len(due) + i] = rest[i]
    BY Joined
  <2>3. h = pending
    BY <1>7
  <2> HIDE DEF h
  <2>4. QED
    BY <2>1, <2>2, <2>3
<1>9. ASSUME NEW i \in DOMAIN pending, IsHit(pending[i])
      PROVE  Settled(pending[i])
  <2>1. DOMAIN queue = {}
    BY <1>2
  <2>2. QED
    BY <1>4, <1>9, <2>1 DEF HitsSettled
<1>10. \* A flush that is still to be pushed takes back nothing that is due.
       ASSUME NEW i \in DOMAIN new, IsHit(new[i])
       PROVE  Fits(new[i])
  <2>1. PICK k \in DOMAIN due : FiredFrom(new[i], due[k])
    BY <1>7
  <2>2. PICK j \in DOMAIN pending : pending[j] = due[k]
    BY <1>8
  <2>3. IsHit(pending[j])
    BY <1>10, <2>1, <2>2 DEF FiredFrom, IsHit
  <2>4. Settled(pending[j])
    BY <1>9, <2>3
  <2>5. new[i] \in Triggers /\ new[i].sample \in Nat
    <3>1. new[i] \in Triggers
      BY <1>7
    <3>2. QED
      BY <3>1, TriggerIs
  <2>6. new[i].sample < pos + Block
    <3>1. new[i].at \in Nat /\ new[i].sample <= new[i].at /\ new[i].at < pos + Block
      BY <1>7
    <3>2. \A a, b \in Nat : a <= b /\ b < pos + Block => a < pos + Block
      BY <1>3
    <3>3. QED
      BY <2>5, <3>1, <3>2
  <2>7. pending[j].sample = new[i].sample /\ pending[j].epoch = new[i].epoch
    BY <2>1, <2>2 DEF FiredFrom
  <2>8. ASSUME NEW m \in DOMAIN todo
        PROVE  ~TakesBack(todo[m], pending[j])
    <3>1. SUFFICES ASSUME todo[m].kind = "flush", todo[m].sample <= new[i].sample PROVE FALSE
      BY <2>7 DEF TakesBack
    <3>2. Reach <= todo[m].sample
      BY <1>4, <3>1 DEF FlushAhead
    <3>3. todo[m].sample \in Nat
      <4>1. todo[m] \in Events
        BY <1>3
      <4>2. QED
        BY <4>1, EventIs
    <3>4. Reach \in Nat /\ pos + Block <= Reach
      <4> DEFINE k2 == MaxLag - lag
      <4>1. k2 \in Nat
        BY <1>3, <1>4
      <4>2. k2 * Block \in Nat
        BY <1>3, <4>1
      <4>3. Reach = published + Block + (IF split THEN k2 * Block ELSE 0)
        BY DEF Reach
      <4>4. \A n \in Nat : published + Block + n \in Nat /\ pos + Block <= published + Block + n
        BY <1>3, <1>4
      <4> HIDE DEF k2
      <4>5. QED
        BY <4>2, <4>3, <4>4
    <3>5. QED
      BY <1>3, <2>5, <2>6, <3>1, <3>2, <3>3, <3>4
  <2>9. Fits(pending[j])
    BY <2>4, <2>8 DEF Settled
  <2>10. QED
    BY <2>7, <2>9 DEF Fits
<1>11. ASSUME NEW i \in DOMAIN heard', IsHit(heard'[i])
       PROVE  Fits(heard[i])'
  <2>1. heard \in Seq(Triggers) /\ new \in Seq(Triggers)
    BY DEF EngineInv, EngineTypeOK, RenderTypes
  <2>2. (\E k \in DOMAIN heard : heard'[i] = heard[k]) \/ \E k \in DOMAIN new : heard'[i] = new[k]
    BY <1>7, <2>1, Joined
  <2>3. CASE \E k \in DOMAIN heard : heard'[i] = heard[k]
    <3>1. PICK k \in DOMAIN heard : heard'[i] = heard[k]
      BY <2>3
    <3>2. Fits(heard[k])
      BY <1>4, <1>11, <3>1 DEF HitsSettled
    <3>3. QED
      BY <1>1, <3>1, <3>2 DEF Fits
  <2>4. CASE \E k \in DOMAIN new : heard'[i] = new[k]
    <3>1. PICK k \in DOMAIN new : heard'[i] = new[k]
      BY <2>4
    <3>2. Fits(new[k])
      BY <1>10, <1>11, <3>1
    <3>3. QED
      BY <1>1, <3>1, <3>2 DEF Fits
  <2>5. QED
    BY <2>2, <2>3, <2>4
<1>12. ASSUME NEW k \in DOMAIN pending', IsHit(pending'[k])
       PROVE  Settled(pending[k])'
  <2>1. PICK i \in DOMAIN pending : pending[i] = pending'[k]
    BY <1>7, <1>8
  <2>2. Settled(pending[i])
    BY <1>9, <1>12, <2>1
  <2>3. QED
    BY <1>1, <2>1, <2>2 DEF Settled, Fits, Known
<1>13. HitsSettled'
  <2>1. DOMAIN queue' = {}
    BY <1>1, <1>2
  <2>2. \A i \in DOMAIN todo' : IsHit(todo[i])' => (Fits(todo[i]) /\ Known(todo[i]))'
    BY <1>1, <1>4 DEF HitsSettled, Fits, Known, IsHit
  <2>3. QED
    BY <1>11, <1>12, <2>1, <2>2 DEF HitsSettled, IsHit
<1>14. QED
  BY <1>5, <1>6, <1>13 DEF OldInv

LEMMA OldStarts ==
  ASSUME CommitsAhead, Init
  PROVE  OldInv
<1>1. /\ queue = <<>> /\ pending = <<>> /\ heard = <<>> /\ todo = <<>> /\ log = <<>>
      /\ pos = 3 * Block /\ published = 2 * Block /\ seen = published /\ block = Block
      /\ renderPc = "idle" /\ callPc = "idle" /\ lag = 0 /\ floor = 0
  BY DEF Init, RenderInit, CommitsAhead
<1>2. Block \in Nat /\ MaxLag \in Nat /\ Clear \in Nat
  BY ClearIs
<1>3. Pace
  <2>1. pos = published + Block
    BY <1>1, <1>2
  <2>2. floor <= IF split THEN published + Clear ELSE pos
    BY <1>1, <1>2
  <2>3. lag \in 0 .. MaxLag
    BY <1>1, <1>2
  <2>4. QED
    BY <1>1, <2>1, <2>2, <2>3 DEF Pace
<1>4. DOMAIN queue = {} /\ DOMAIN pending = {} /\ DOMAIN heard = {} /\ DOMAIN todo = {}
      /\ DOMAIN log = {}
  BY <1>1
<1>5. QED
  BY <1>3, <1>4 DEF OldInv, FlushAhead, HitsSettled, InOrder

LEMMA OldKeeps ==
  ASSUME EngineInv, CommitsAhead, OldInv, Unhindered, Unhindered', [Next]_vars,
         [TickStep => StepFollows]_vars
  PROVE  OldInv'
<1>1. CASE UNCHANGED vars
  BY <1>1 DEF vars, renderVars, controlVars, callVars, historyVars, OldInv, Pace, FlushAhead,
              Reach, InOrder, HitsSettled, Settled, Fits, Known, TakesBack, IsHit
<1>2. CASE Control /\ UNCHANGED <<split, capacity>>
  <2>1. CASE TickStep
    <3>1. todo # todo'
      <4>1. todo = <<>> /\ todo' = StepEvents(sched.next) /\ sched.next \in Nat
        BY <2>1 DEF TickStep, EngineInv, EngineTypeOK, ControlTypes, Scheds
      <4>2. Len(StepEvents(sched.next)) \in 1 .. 2
        BY <4>1, EventsOfStep DEF EngineInv
      <4>3. QED
        BY <4>1, <4>2
    <3>2. StepFollows
      BY <2>1, <3>1 DEF vars, callVars
    <3>3. QED
      BY <1>2, <2>1, <3>2, StepKeeps
  <2>2. CASE PushFails
    <3>1. Head(todo).kind = "flush" /\ flushLeft' = Head(todo).sample /\ todo # <<>>
      BY <1>2, <2>2, PushTypes DEF PushFails, EngineInv
    <3>2. Head(todo) \in Events
      BY <3>1 DEF EngineInv, EngineTypeOK, ControlTypes
    <3>3. flushLeft' # None
      BY <3>1, <3>2, EventIs DEF None
    <3>4. QED
      BY <3>3 DEF Unhindered
  <2>3. CASE StartInternal \/ StartFollow \/ Resync \/ Jump
    BY <1>2, <2>3, CallsKeep
  <2>4. CASE \/ \E c \in RealignCalls : BeginCall(c)
             \/ QuietCall \/ TickBegin \/ TickNote \/ TickEnd
    BY <1>2, <2>4, BeginsKeep
  <2>5. CASE SetParam
    BY <1>2, <2>5, ParamStays
  <2>6. CASE PushEvent
    BY <1>2, <2>6, PushKeeps
  <2>7. QED
    BY <1>2, <2>1, <2>2, <2>3, <2>4, <2>5, <2>6 DEF Control
<1>3. CASE Render /\ UNCHANGED <<split, capacity>>
  <2>1. CASE RenderStart
    BY <1>3, <2>1, BlockStarts
  <2>2. CASE RenderPull /\ UNCHANGED <<controlVars, callVars, lag, historyVars>>
    BY <1>3, <2>2, EventPulled
  <2>3. CASE RenderPlay /\ UNCHANGED <<controlVars, callVars, lag, historyVars>>
    BY <1>3, <2>3, BlockPlays
  <2>4. QED
    BY <1>3, <2>1, <2>2, <2>3 DEF Render, RenderBlock
<1>4. QED
  BY <1>1, <1>2, <1>3 DEF Next, Finished

(* After a restart nothing of the old run sounds at or after the new         *)
(* downbeat, whatever is held, queued or half pushed when the call comes     *)
(* (control.rs, start: the old run must not "play on top of the new run").   *)
(* It holds once the renderer has run, for every pattern and every block,    *)
(* while neither buffer runs full and no step is scheduled in front of one   *)
(* that is queued; a nudge that breaks the last is the counterexample of the *)
(* run engine_nudge.                                                         *)
THEOREM OldRunIsSilent ==
  ASSUME CommitsAhead
  PROVE  Spec /\ []Unhindered /\ [][TickStep => StepFollows]_vars => []OldRunSilent
<1>1. Init => EngineInv /\ OldInv
  BY InitEngine, OldStarts
<1>2. /\ EngineInv /\ OldInv /\ Unhindered /\ Unhindered' /\ [Next]_vars
      /\ [TickStep => StepFollows]_vars
      => (EngineInv /\ OldInv)'
  BY EngineKeeps, OldKeeps
<1>3. EngineInv /\ OldInv => OldRunSilent
  <2> SUFFICES ASSUME EngineInv, OldInv, NEW h \in Hits
               PROVE  \A e \in h.epoch + 1 .. Len(restarts) : h.sample < restarts[e]
    BY DEF OldRunSilent
  <2>1. PICK i \in DOMAIN heard : h = heard[i] /\ IsHit(heard[i])
    BY DEF Hits, ToSet, IsHit
  <2>2. QED
    BY <2>1 DEF OldInv, HitsSettled, Fits
<1>4. QED
  BY <1>1, <1>2, <1>3, PTL DEF Spec

-----------------------------------------------------------------------------
(* What was and will be heard *)

\* The place of a step: its number and its grid hit.
At(x) == <<x.step, x.sample>>

\* No flush that is still to be pushed takes it back.
LeftAlone(x) == \A j \in DOMAIN todo : ~TakesBack(todo[j], x)

\* Nor does one behind place i of the queue.
Passes(x, i) == LeftAlone(x) /\ \A j \in DOMAIN queue : i < j => ~TakesBack(queue[j], x)

HeardAt(p) == \E i \in DOMAIN heard : IsHit(heard[i]) /\ At(heard[i]) = p
HeldAt(p) ==
    \E i \in DOMAIN pending : IsHit(pending[i]) /\ At(pending[i]) = p /\ Passes(pending[i], 0)
QueuedAt(p) ==
    \E i \in DOMAIN queue : IsHit(queue[i]) /\ At(queue[i]) = p /\ Passes(queue[i], i)
ToPushAt(p) == \E i \in DOMAIN todo : IsHit(todo[i]) /\ At(todo[i]) = p

\* A hit that was heard, or that nothing takes back, is at this place.
SoundsAt(p) == HeardAt(p) \/ HeldAt(p) \/ QueuedAt(p) \/ ToPushAt(p)
LoggedAt(p) == \E i \in DOMAIN log : At(log[i]) = p

HeldNoFlush == \A i \in DOMAIN pending : pending[i].kind # "flush"

\* What is in the log sounds, and what sounds is in the log.
LogSounds == \A p \in Nat \X Nat : LoggedAt(p) => SoundsAt(p)
SoundsLogged == \A p \in Nat \X Nat : SoundsAt(p) => LoggedAt(p)

\* An insertion keeps what was held.
LEMMA InsertHolds ==
  ASSUME NEW S, NEW held \in Seq(S), NEW e \in S
  PROVE  /\ \E k \in DOMAIN InsertPending(held, e) : InsertPending(held, e)[k] = e
         /\ \A i \in DOMAIN held :
              \E k \in DOMAIN InsertPending(held, e) : InsertPending(held, e)[k] = held[i]
<1>1. PICK a \in Seq(S), b \in Seq(S) :
        /\ held = a \o b
        /\ InsertPending(held, e) = (a \o <<e>>) \o b
        /\ \A i \in DOMAIN b : ~(b[i].sample <= e.sample)
        /\ a # <<>> => a[Len(a)].sample <= e.sample
  BY InsertIs
<1> DEFINE o == <<e>>
           c == a \o o
           d == c \o b
           h == a \o b
<1>2. o \in Seq(S) /\ 1 \in DOMAIN o /\ o[1] = e
  OBVIOUS
<1> HIDE DEF o
<1>3. /\ c \in Seq(S)
      /\ \A i \in DOMAIN a : i \in DOMAIN c /\ c[i] = a[i]
      /\ \E i \in DOMAIN c : c[i] = e
  <2>1. c \in Seq(S)
    BY <1>2
  <2>2. \A i \in DOMAIN a : i \in DOMAIN c /\ c[i] = a[i]
    BY <1>2, Joined
  <2>3. \A i \in DOMAIN o : Len(a) + i \in DOMAIN c /\ c[Len(a) + i] = o[i]
    BY <1>2, Joined
  <2>4. QED
    BY <1>2, <2>1, <2>2, <2>3
<1> HIDE DEF c
<1>4. /\ \A i \in DOMAIN c : i \in DOMAIN d /\ d[i] = c[i]
      /\ \A i \in DOMAIN b : Len(c) + i \in DOMAIN d /\ d[Len(c) + i] = b[i]
  BY <1>3, Joined
<1>5. \A k \in DOMAIN h : \/ k \in DOMAIN a /\ h[k] = a[k]
                          \/ k - Len(a) \in DOMAIN b /\ h[k] = b[k - Len(a)]
  BY Joined
<1>6. InsertPending(held, e) = d /\ held = h
  BY <1>1 DEF d, c, o
<1> HIDE DEF d, h
<1>7. ASSUME NEW i \in DOMAIN h
      PROVE  \E k \in DOMAIN d : d[k] = h[i]
  <2>1. CASE i \in DOMAIN a /\ h[i] = a[i]
    BY <1>3, <1>4, <2>1
  <2>2. CASE i - Len(a) \in DOMAIN b /\ h[i] = b[i - Len(a)]
    BY <1>4, <2>2
  <2>3. QED
    BY <1>5, <2>1, <2>2
<1>8. \E k \in DOMAIN d : d[k] = e
  BY <1>3, <1>4
<1>9. QED
  BY <1>6, <1>7, <1>8

\* A flush to push takes back the hits that lie at or after it.
LEMMA FlushTakesBack ==
  ASSUME EngineInv, todo = <<>>, NEW f \in Nat, todo' = <<FlushEvent(f)>>,
         UNCHANGED <<queue, pending, heard>>,
         \A i \in DOMAIN heard : heard[i].sample < f,
         NEW p \in Nat \X Nat
  PROVE  SoundsAt(p)' <=> SoundsAt(p) /\ p[2] < f
<1>1. /\ heard \in Seq(Triggers) /\ pending \in Seq(Events) /\ queue \in Seq(Events)
  BY DEF EngineInv, EngineTypeOK, RenderTypes
<1>2. DOMAIN todo = {} /\ DOMAIN todo' = {1} /\ todo'[1] = FlushEvent(f)
  OBVIOUS
<1>3. \A x \in Events : At(x) = p => x.sample = p[2] /\ p[2] \in Nat
  BY DEF At
<1>4. \A x \in Events : At(x) = p => (LeftAlone(x)' <=> p[2] < f)
  <2> SUFFICES ASSUME NEW x \in Events, At(x) = p
               PROVE  LeftAlone(x)' <=> p[2] < f
    OBVIOUS
  <2>1. LeftAlone(x)' <=> ~TakesBack(FlushEvent(f), x)
    BY <1>2 DEF LeftAlone, TakesBack
  <2>2. TakesBack(FlushEvent(f), x) <=> f <= p[2]
    BY <1>3 DEF TakesBack, FlushEvent
  <2>3. QED
    BY <1>3, <2>1, <2>2
<1>5. \A x : LeftAlone(x)
  BY <1>2 DEF LeftAlone
<1>6. HeardAt(p)' <=> HeardAt(p) /\ p[2] < f
  <2>1. HeardAt(p) => p[2] < f
    BY DEF HeardAt, At
  <2>2. QED
    BY <2>1 DEF HeardAt, At, IsHit
<1>7. HeldAt(p)' <=> HeldAt(p) /\ p[2] < f
  <2>1. \A i \in DOMAIN pending : At(pending[i]) = p => (LeftAlone(pending[i])' <=> p[2] < f)
    <3> SUFFICES ASSUME NEW i \in DOMAIN pending, At(pending[i]) = p
                 PROVE  LeftAlone(pending[i])' <=> p[2] < f
      OBVIOUS
    <3>1. PICK x \in Events : x = pending[i]
      BY <1>1
    <3>2. LeftAlone(x)' <=> p[2] < f
      BY <1>4, <3>1
    <3>3. QED
      BY <3>1, <3>2 DEF LeftAlone, TakesBack
  <2>2. QED
    BY <1>5, <2>1 DEF HeldAt, Passes, At, IsHit, TakesBack
<1>8. QueuedAt(p)' <=> QueuedAt(p) /\ p[2] < f
  <2>1. \A i \in DOMAIN queue : At(queue[i]) = p => (LeftAlone(queue[i])' <=> p[2] < f)
    <3> SUFFICES ASSUME NEW i \in DOMAIN queue, At(queue[i]) = p
                 PROVE  LeftAlone(queue[i])' <=> p[2] < f
      OBVIOUS
    <3>1. PICK x \in Events : x = queue[i]
      BY <1>1
    <3>2. LeftAlone(x)' <=> p[2] < f
      BY <1>4, <3>1
    <3>3. QED
      BY <3>1, <3>2 DEF LeftAlone, TakesBack
  <2>2. QED
    BY <1>5, <2>1 DEF QueuedAt, Passes, At, IsHit, TakesBack
<1>9. ~ToPushAt(p) /\ ~ToPushAt(p)'
  BY <1>2 DEF ToPushAt, IsHit, FlushEvent
<1>10. QED
  BY <1>6, <1>7, <1>8, <1>9 DEF SoundsAt

\* A push moves the end of the call's events to the end of the queue.
LEMMA PushSounds ==
  ASSUME EngineInv, PushEvent, NEW p
  PROVE  SoundsAt(p)' <=> SoundsAt(p)
<1>0. PICK e : e = Head(todo)
  OBVIOUS
<1>1. /\ todo # <<>> /\ queue' = Append(queue, e) /\ todo' = Tail(todo)
      /\ UNCHANGED <<pending, heard>>
      /\ todo \in Seq(Events) /\ queue \in Seq(Events) /\ pending \in Seq(Events)
  BY <1>0 DEF PushEvent, renderVars, EngineInv, EngineTypeOK, RenderTypes, ControlTypes
<1>2. PICK N \in Nat :
      /\ DOMAIN queue = 1 .. N /\ DOMAIN queue' = 1 .. N + 1
      /\ queue'[N + 1] = e /\ \A j \in 1 .. N : queue'[j] = queue[j]
  BY <1>1
<1>3. /\ 1 \in DOMAIN todo /\ todo[1] = e
      /\ \A i \in DOMAIN todo' : i + 1 \in DOMAIN todo /\ todo'[i] = todo[i + 1]
      /\ \A j \in DOMAIN todo : j # 1 => j - 1 \in DOMAIN todo' /\ todo'[j - 1] = todo[j]
  BY <1>0, <1>1
<1>4. \A x : \A i \in 0 .. N : Passes(x, i)' <=> Passes(x, i)
  <2> SUFFICES ASSUME NEW x, NEW i \in 0 .. N
               PROVE  Passes(x, i)' <=> Passes(x, i)
    OBVIOUS
  <2>1. LeftAlone(x) <=> LeftAlone(x)' /\ ~TakesBack(e, x)
    BY <1>3 DEF LeftAlone, TakesBack
  <2>2. (\A j \in DOMAIN queue' : i < j => ~TakesBack(queue'[j], x))
        <=> (\A j \in DOMAIN queue : i < j => ~TakesBack(queue[j], x)) /\ ~TakesBack(e, x)
    <3>1. N + 1 \in DOMAIN queue' /\ i < N + 1
      BY <1>2
    <3>2. \A j \in DOMAIN queue' : j \in DOMAIN queue \/ j = N + 1
      BY <1>2
    <3>3. \A j \in DOMAIN queue : j \in DOMAIN queue' /\ queue'[j] = queue[j]
      BY <1>2
    <3>4. QED
      BY <1>2, <3>1, <3>2, <3>3
  <2>3. QED
    BY <2>1, <2>2 DEF Passes, LeftAlone, TakesBack
<1>5. HeardAt(p)' <=> HeardAt(p)
  BY <1>1 DEF HeardAt, IsHit, At
<1>6. HeldAt(p)' <=> HeldAt(p)
  <2>1. ASSUME NEW i \in DOMAIN pending
        PROVE  Passes(pending[i], 0)' <=> Passes(pending[i], 0)
    <3>1. PICK x : x = pending[i]
      OBVIOUS
    <3>2. Passes(x, 0)' <=> Passes(x, 0)
      BY <1>2, <1>4
    <3>3. QED
      BY <1>1, <3>1, <3>2 DEF Passes, LeftAlone, TakesBack
  <2>2. QED
    BY <1>1, <2>1 DEF HeldAt, IsHit, At
<1>7. QueuedAt(p)' <=> QueuedAt(p) \/ (IsHit(e) /\ At(e) = p)
  <2>1. ASSUME NEW i \in DOMAIN queue
        PROVE  Passes(queue[i], i)' <=> Passes(queue[i], i)
    <3>1. PICK x : x = queue[i]
      OBVIOUS
    <3>2. Passes(x, i)' <=> Passes(x, i)
      BY <1>2, <1>4
    <3>3. queue'[i] = x
      BY <1>2, <3>1
    <3>4. QED
      BY <3>1, <3>2, <3>3 DEF Passes, LeftAlone, TakesBack
  <2>2. IsHit(e) => Passes(queue[N + 1], N + 1)'
    <3>1. ASSUME IsHit(e)
          PROVE  \A j \in DOMAIN todo' : todo'[j].kind # "flush"
      <4>1. e.kind # "flush"
        BY <3>1 DEF IsHit
      <4>2. ~(Len(todo) = 1 /\ todo[1] \in Flushes)
        BY <1>3, <4>1 DEF Flushes
      <4>3. \A i \in DOMAIN todo : todo[i] \in Triggers
        BY <1>1, <4>2 DEF EngineInv, RoomForStep
      <4>4. QED
        BY <1>3, <4>3, TriggerIs
    <3>2. \A j \in DOMAIN queue' : ~(N + 1 < j)
      BY <1>2
    <3>3. QED
      BY <3>1, <3>2 DEF Passes, LeftAlone, TakesBack
  <2>3. /\ \A j \in DOMAIN queue' : j \in DOMAIN queue \/ j = N + 1
        /\ \A j \in DOMAIN queue : j \in DOMAIN queue' /\ queue'[j] = queue[j]
        /\ N + 1 \in DOMAIN queue'
    BY <1>2
  <2>4. QED
    BY <1>2, <2>1, <2>2, <2>3 DEF QueuedAt, IsHit, At
<1>8. ToPushAt(p) <=> ToPushAt(p)' \/ (IsHit(e) /\ At(e) = p)
  BY <1>3 DEF ToPushAt, IsHit, At
<1>9. QED
  BY <1>5, <1>6, <1>7, <1>8 DEF SoundsAt

LEMMA ParamSounds ==
  ASSUME EngineInv, NEW e, ~IsHit(e), e.kind # "flush", queue' = Append(queue, e),
         UNCHANGED <<pending, heard, todo>>, NEW p
  PROVE  SoundsAt(p)' <=> SoundsAt(p)
<1>1. queue \in Seq(Events)
  BY DEF EngineInv, EngineTypeOK, RenderTypes
<1>2. PICK N \in Nat : /\ DOMAIN queue = 1 .. N /\ DOMAIN queue' = 1 .. N + 1
                       /\ queue'[N + 1] = e /\ \A j \in 1 .. N : queue'[j] = queue[j]
  BY <1>1
<1>3. /\ \A j \in DOMAIN queue' : j \in DOMAIN queue \/ j = N + 1
      /\ \A j \in DOMAIN queue : j \in DOMAIN queue' /\ queue'[j] = queue[j]
      /\ N + 1 \in DOMAIN queue'
  BY <1>2
<1>4. \A x, i : Passes(x, i)' <=> Passes(x, i)
  BY <1>2, <1>3 DEF Passes, LeftAlone, TakesBack
<1>5. HeardAt(p)' <=> HeardAt(p)
  BY DEF HeardAt, IsHit, At
<1>6. HeldAt(p)' <=> HeldAt(p)
  <2>1. ASSUME NEW i \in DOMAIN pending
        PROVE  Passes(pending[i], 0)' <=> Passes(pending[i], 0)
    <3>1. PICK x : x = pending[i]
      OBVIOUS
    <3>2. Passes(x, 0)' <=> Passes(x, 0)
      BY <1>4
    <3>3. QED
      BY <3>1, <3>2 DEF Passes, LeftAlone, TakesBack
  <2>2. QED
    BY <2>1 DEF HeldAt, IsHit, At
<1>7. QueuedAt(p)' <=> QueuedAt(p)
  <2>1. ASSUME NEW i \in DOMAIN queue
        PROVE  Passes(queue[i], i)' <=> Passes(queue[i], i)
    <3>1. PICK x : x = queue[i]
      OBVIOUS
    <3>2. Passes(x, i)' <=> Passes(x, i)
      BY <1>4
    <3>3. queue'[i] = x
      BY <1>3, <3>1
    <3>4. QED
      BY <3>1, <3>2, <3>3 DEF Passes, LeftAlone, TakesBack
  <2>2. QED
    BY <1>2, <1>3, <2>1 DEF QueuedAt, IsHit, At
<1>8. ToPushAt(p)' <=> ToPushAt(p)
  BY DEF ToPushAt, IsHit, At
<1>9. QED
  BY <1>5, <1>6, <1>7, <1>8 DEF SoundsAt

\* A step that is scheduled is one more to be heard.
LEMMA StepSounds ==
  ASSUME EngineInv, TickStep, NEW p
  PROVE  SoundsAt(p)' <=> SoundsAt(p) \/ p = <<sched.next, StepSample(clock, sched.next)>>
<1>1. PICK step, s : step = sched.next /\ s = StepSample(clock, sched.next)
  OBVIOUS
<1>2. todo = <<>> /\ todo' = StepEvents(step) /\ UNCHANGED <<queue, pending, heard>>
  BY <1>1 DEF TickStep, renderVars
<1>3. PICK g, h : /\ g.kind = "grace" /\ h.kind = "hit" /\ At(h) = <<step, s>>
                  /\ todo' = <<g, h>> \/ todo' = <<h>>
  <2> DEFINE g == Trigger("grace", GraceSample(s), step)
             h == Trigger("hit", s, step)
  <2>1. todo' = <<g, h>> \/ todo' = <<h>>
    BY <1>1, <1>2 DEF StepEvents
  <2>2. g.kind = "grace" /\ h.kind = "hit" /\ At(h) = <<step, s>>
    BY DEF Trigger, At
  <2>3. QED
    BY <2>1, <2>2
<1>4. /\ \A i \in DOMAIN todo' : todo'[i] = g \/ todo'[i] = h
      /\ \E i \in DOMAIN todo' : todo'[i] = h
      /\ DOMAIN todo = {}
  <2>1. DOMAIN todo = {}
    BY <1>2
  <2>2. CASE todo' = <<g, h>>
    <3>1. 2 \in DOMAIN todo' /\ todo'[2] = h
      BY <2>2
    <3>2. QED
      BY <2>1, <2>2, <3>1
  <2>3. CASE todo' = <<h>>
    BY <2>1, <2>3
  <2>4. QED
    BY <1>3, <2>2, <2>3
<1>5. \A x : LeftAlone(x) /\ LeftAlone(x)'
  BY <1>3, <1>4 DEF LeftAlone, TakesBack
<1>6. \A x, i : Passes(x, i)' <=> Passes(x, i)
  BY <1>2, <1>5 DEF Passes, LeftAlone, TakesBack
<1>7. HeardAt(p)' <=> HeardAt(p)
  BY <1>2 DEF HeardAt, IsHit, At
<1>8. HeldAt(p)' <=> HeldAt(p)
  <2>1. ASSUME NEW i \in DOMAIN pending
        PROVE  Passes(pending[i], 0)' <=> Passes(pending[i], 0)
    <3>1. PICK x : x = pending[i]
      OBVIOUS
    <3>2. Passes(x, 0)' <=> Passes(x, 0)
      BY <1>6
    <3>3. QED
      BY <1>2, <3>1, <3>2 DEF Passes, LeftAlone, TakesBack
  <2>2. QED
    BY <1>2, <2>1 DEF HeldAt, IsHit, At
<1>9. QueuedAt(p)' <=> QueuedAt(p)
  <2>1. ASSUME NEW i \in DOMAIN queue
        PROVE  Passes(queue[i], i)' <=> Passes(queue[i], i)
    <3>1. PICK x : x = queue[i]
      OBVIOUS
    <3>2. Passes(x, i)' <=> Passes(x, i)
      BY <1>6
    <3>3. QED
      BY <1>2, <3>1, <3>2 DEF Passes, LeftAlone, TakesBack
  <2>2. QED
    BY <1>2, <2>1 DEF QueuedAt, IsHit, At
<1>10. ~ToPushAt(p) /\ (ToPushAt(p)' <=> p = <<step, s>>)
  BY <1>3, <1>4 DEF ToPushAt, IsHit, At
<1>11. QED
  BY <1>1, <1>7, <1>8, <1>9, <1>10 DEF SoundsAt

\* A pull moves the head of the queue to what is held; the hits a flush drops
\* were not going to sound.
LEMMA PullSounds ==
  ASSUME EngineInv, HeldNoFlush, RenderPull, UNCHANGED todo, NEW p
  PROVE  HeldNoFlush' /\ (SoundsAt(p)' <=> SoundsAt(p))
<1>0. PICK e : e = Head(queue)
  OBVIOUS
<1>1. /\ queue # <<>> /\ queue' = Tail(queue) /\ UNCHANGED heard
      /\ pending' = IF e.kind = "flush" THEN FlushPending(pending, e.sample)
                                        ELSE InsertPending(pending, e)
      /\ queue \in Seq(Events) /\ pending \in Seq(Events)
  BY <1>0 DEF RenderPull, CanPull, EngineInv, EngineTypeOK, RenderTypes
<1>2. PICK N \in Nat : DOMAIN queue = 1 .. N /\ DOMAIN queue' = 1 .. N - 1
  BY <1>1
<1>3. /\ e \in Events /\ 1 \in DOMAIN queue /\ queue[1] = e
      /\ \A i \in DOMAIN queue' : i + 1 \in DOMAIN queue /\ queue'[i] = queue[i + 1]
      /\ \A j \in DOMAIN queue : j # 1 => j - 1 \in DOMAIN queue' /\ queue'[j - 1] = queue[j]
  BY <1>0, <1>1
<1>4. \A x : \A i \in Nat : Passes(x, i)' <=> Passes(x, i + 1)
  <2> SUFFICES ASSUME NEW x, NEW i \in Nat
               PROVE  Passes(x, i)' <=> Passes(x, i + 1)
    OBVIOUS
  <2>1. ASSUME NEW j \in DOMAIN queue', i < j
        PROVE  j + 1 \in DOMAIN queue /\ i + 1 < j + 1 /\ queue'[j] = queue[j + 1]
    BY <1>2, <1>3, <2>1
  <2>2. ASSUME NEW j \in DOMAIN queue, i + 1 < j
        PROVE  j - 1 \in DOMAIN queue' /\ i < j - 1 /\ queue'[j - 1] = queue[j]
    BY <1>2, <1>3, <2>2
  <2>3. LeftAlone(x)' <=> LeftAlone(x)
    BY DEF LeftAlone, TakesBack
  <2>4. QED
    BY <2>1, <2>2, <2>3 DEF Passes, LeftAlone, TakesBack
<1>5. \A x : Passes(x, 0) <=> Passes(x, 1) /\ ~TakesBack(e, x)
  <2>1. \A j \in DOMAIN queue : 0 < j /\ (j = 1 \/ 1 < j)
    BY <1>2
  <2>2. 0 < 1 /\ \A j \in DOMAIN queue : 1 < j => 0 < j
    BY <1>2
  <2>3. QED
    BY <1>3, <2>1, <2>2 DEF Passes
<1>6. HeardAt(p)' <=> HeardAt(p)
  BY <1>1 DEF HeardAt, IsHit, At
<1>7. ToPushAt(p)' <=> ToPushAt(p)
  BY DEF ToPushAt, IsHit, At
<1> DEFINE Comes(x, i) == IsHit(x) /\ At(x) = p /\ Passes(x, i)
<1>8. QueuedAt(p) <=> Comes(e, 1) \/ QueuedAt(p)'
  <2>1. ASSUME NEW i \in DOMAIN queue'
        PROVE  (IsHit(queue[i]) /\ At(queue[i]) = p /\ Passes(queue[i], i))' <=> Comes(queue[i + 1], i + 1)
    <3>1. PICK x : x = queue'[i]
      OBVIOUS
    <3>2. Passes(x, i)' <=> Passes(x, i + 1)
      BY <1>2, <1>4
    <3>3. x = queue[i + 1]
      BY <1>3, <3>1
    <3>4. QED
      BY <3>1, <3>2, <3>3 DEF Passes, LeftAlone, TakesBack, IsHit, At
  <2>2. \A j \in DOMAIN queue : j = 1 \/ (j - 1 \in DOMAIN queue' /\ j = (j - 1) + 1)
    BY <1>2, <1>3
  <2>3. QueuedAt(p) <=> \E j \in DOMAIN queue : Comes(queue[j], j)
    BY DEF QueuedAt
  <2>4. QueuedAt(p)' <=> \E i \in DOMAIN queue' : Comes(queue[i + 1], i + 1)
    BY <2>1 DEF QueuedAt
  <2> HIDE DEF Comes
  <2>5. QED
    BY <1>3, <2>2, <2>3, <2>4
<1>9. ASSUME NEW k \in DOMAIN pending', NEW x, x = pending'[k]
      PROVE  (IsHit(pending[k]) /\ At(pending[k]) = p /\ Passes(pending[k], 0))' <=> Comes(x, 1)
  <2>1. Passes(x, 0)' <=> Passes(x, 1)
    BY <1>4
  <2>2. QED
    BY <1>9, <2>1 DEF Passes, LeftAlone, TakesBack, IsHit, At
<1>10. HeldAt(p)' <=> \E k \in DOMAIN pending' : Comes(pending'[k], 1)
  BY <1>9 DEF HeldAt
<1>11. HeldAt(p) <=> \E i \in DOMAIN pending : Comes(pending[i], 1) /\ ~TakesBack(e, pending[i])
  BY <1>5 DEF HeldAt
<1>12. \A x \in Events : IsHit(x) => IsTrigger(x) /\ x.sample \in Nat
  BY EventIs DEF IsHit, IsTrigger
<1> HIDE DEF Comes
<1>13. \A x, i : Comes(x, i) => IsHit(x)
  BY DEF Comes
<1>14. CASE e.kind = "flush"
  <2>1. ~Comes(e, 1)
    BY <1>13, <1>14 DEF IsHit
  <2>2. e.sample \in Nat
    BY <1>3, EventIs
  <2>3. ASSUME NEW x \in Events, IsHit(x)
        PROVE  TakesBack(e, x) <=> (IsTrigger(x) /\ x.sample >= e.sample)
    BY <1>12, <1>14, <2>2, <2>3 DEF TakesBack
  <2>4. pending' = FlushPending(pending, e.sample)
    BY <1>1, <1>14
  <2>5. /\ \A k \in DOMAIN pending' :
             \E i \in DOMAIN pending : /\ pending'[k] = pending[i]
                                       /\ ~(IsTrigger(pending[i]) /\ pending[i].sample >= e.sample)
        /\ \A i \in DOMAIN pending :
             ~(IsTrigger(pending[i]) /\ pending[i].sample >= e.sample) =>
                \E k \in DOMAIN pending' : pending'[k] = pending[i]
    BY <1>1, <2>4, FlushedAre
  <2>6. \A i \in DOMAIN pending : pending[i] \in Events
    BY <1>1
  <2>7. HeldAt(p)' <=> HeldAt(p)
    BY <1>10, <1>11, <1>13, <2>3, <2>5, <2>6
  <2>8. HeldNoFlush'
    BY <2>5 DEF HeldNoFlush
  <2>9. QED
    BY <1>6, <1>7, <1>8, <2>1, <2>7, <2>8 DEF SoundsAt
<1>15. CASE e.kind # "flush"
  <2>1. \A x : ~TakesBack(e, x)
    BY <1>15 DEF TakesBack
  <2>2. pending' = InsertPending(pending, e)
    BY <1>1, <1>15
  <2>3. \A k \in DOMAIN pending' :
          pending'[k] = e \/ \E i \in DOMAIN pending : pending'[k] = pending[i]
    BY <1>1, <1>3, <2>2, InsertHas
  <2>4. /\ \E k \in DOMAIN pending' : pending'[k] = e
        /\ \A i \in DOMAIN pending : \E k \in DOMAIN pending' : pending'[k] = pending[i]
    BY <1>1, <1>3, <2>2, InsertHolds
  <2>5. HeldAt(p)' <=> HeldAt(p) \/ Comes(e, 1)
    BY <1>10, <1>11, <2>1, <2>3, <2>4
  <2>6. HeldNoFlush'
    BY <1>15, <2>3 DEF HeldNoFlush
  <2>7. QED
    BY <1>6, <1>7, <1>8, <2>5, <2>6 DEF SoundsAt
<1>16. QED
  BY <1>14, <1>15

\* A block plays what is due; nothing that waits takes any of it back.
LEMMA PlaySounds ==
  ASSUME EngineInv, CommitsAhead, OldInv, Unhindered, HeldNoFlush, RenderPlay,
         UNCHANGED <<split, capacity>>,
         UNCHANGED <<controlVars, callVars, lag, historyVars>>, NEW p
  PROVE  HeldNoFlush' /\ (SoundsAt(p)' <=> SoundsAt(p))
<1>1. renderPc = "pull" /\ UNCHANGED <<queue, todo>>
  BY DEF RenderPlay, controlVars, callVars, historyVars
<1>2. queue = <<>> /\ DOMAIN queue = {} /\ DOMAIN queue' = {}
  BY <1>1 DEF Unhindered, RenderPlay, CanPull
<1>3. /\ published \in Nat /\ pos \in Nat /\ Block \in Nat /\ MaxLag \in Nat
      /\ todo \in Seq(Events) /\ heard \in Seq(Triggers) /\ pending \in Seq(Events)
      /\ \A k \in Nat : k * Block \in Nat
  BY ClearIs DEF EngineInv, EngineTypeOK, RenderTypes, ControlTypes
<1>4. pos = published /\ lag \in 0 .. MaxLag /\ FlushAhead
  BY <1>1, <1>3 DEF OldInv, Pace
<1>5a. EngineTypeOK /\ InOrder(pending)
  BY DEF EngineInv, HeldInOrder
<1>5p. PICK due \in Seq(Events), rest \in Seq(Events), new \in Seq(Triggers) :
        PlaysAs(due, rest, new)
  BY <1>5a, Plays
<1>5. /\ pending = due \o rest /\ pending' = rest /\ heard' = heard \o new
      /\ \A i \in DOMAIN new : /\ new[i].at \in Nat /\ new[i].sample <= new[i].at
                               /\ new[i].at < pos + Block
      /\ \A i \in DOMAIN new : \E k \in DOMAIN due : FiredFrom(new[i], due[k])
      /\ \A k \in DOMAIN due :
            IsTrigger(due[k]) => \E i \in DOMAIN new : FiredFrom(new[i], due[k])
  BY <1>5p DEF PlaysAs
<1>6. \A x : LeftAlone(x)' <=> LeftAlone(x)
  BY <1>1 DEF LeftAlone, TakesBack
<1>7. \A x : (Passes(x, 0) <=> LeftAlone(x)) /\ (Passes(x, 0)' <=> LeftAlone(x))
  BY <1>2, <1>6 DEF Passes
<1>8. /\ \A k \in DOMAIN due : \E i \in DOMAIN pending : pending[i] = due[k]
      /\ \A k \in DOMAIN rest : \E i \in DOMAIN pending : pending[i] = rest[k]
      /\ \A i \in DOMAIN pending : \/ \E k \in DOMAIN due : pending[i] = due[k]
                                   \/ \E k \in DOMAIN rest : pending[i] = rest[k]
  <2> DEFINE h == due \o rest
  <2>1. \A i \in DOMAIN due : i \in DOMAIN h /\ h[i] = due[i]
    BY Joined
  <2>2. \A i \in DOMAIN rest : Len(due) + i \in DOMAIN h /\ h[Len(due) + i] = rest[i]
    BY Joined
  <2>3. \A k \in DOMAIN h : \/ k \in DOMAIN due /\ h[k] = due[k]
                            \/ k - Len(due) \in DOMAIN rest /\ h[k] = rest[k - Len(due)]
    BY Joined
  <2>4. h = pending
    BY <1>5
  <2> HIDE DEF h
  <2>5. QED
    BY <2>1, <2>2, <2>3, <2>4
<1>9. /\ \A k \in DOMAIN heard' : \/ \E i \in DOMAIN heard : heard'[k] = heard[i]
                                  \/ \E i \in DOMAIN new : heard'[k] = new[i]
      /\ \A i \in DOMAIN heard : \E k \in DOMAIN heard' : heard'[k] = heard[i]
      /\ \A i \in DOMAIN new : \E k \in DOMAIN heard' : heard'[k] = new[i]
  <2> DEFINE h == heard \o new
  <2>1. \A i \in DOMAIN heard : i \in DOMAIN h /\ h[i] = heard[i]
    BY <1>3, Joined
  <2>2. \A i \in DOMAIN new : Len(heard) + i \in DOMAIN h /\ h[Len(heard) + i] = new[i]
    BY <1>3, Joined
  <2>3. \A k \in DOMAIN h : \/ k \in DOMAIN heard /\ h[k] = heard[k]
                            \/ k - Len(heard) \in DOMAIN new /\ h[k] = new[k - Len(heard)]
    BY <1>3, Joined
  <2>4. h = heard'
    BY <1>5
  <2> HIDE DEF h
  <2>5. QED
    BY <2>1, <2>2, <2>3, <2>4
<1>10. HeldNoFlush'
  <2>1. ASSUME NEW k \in DOMAIN pending'
        PROVE  pending'[k].kind # "flush"
    <3>1. PICK i \in DOMAIN pending : pending[i] = pending'[k]
      BY <1>5, <1>8
    <3>2. QED
      BY <3>1 DEF HeldNoFlush
  <2>2. QED
    BY <2>1 DEF HeldNoFlush
<1> DEFINE Is(x) == IsHit(x) /\ At(x) = p
           Plays1 == \E i \in DOMAIN new : Is(new[i])
<1>11. ASSUME NEW k \in DOMAIN due, IsHit(due[k])
       PROVE  /\ LeftAlone(due[k])
              /\ \E i \in DOMAIN new : IsHit(new[i]) /\ At(new[i]) = At(due[k])
  <2>1. PICK i \in DOMAIN new : FiredFrom(new[i], due[k])
    BY <1>5, <1>11 DEF IsHit, IsTrigger
  <2>2. IsHit(new[i]) /\ At(new[i]) = At(due[k]) /\ new[i].sample = due[k].sample
    BY <1>11, <2>1 DEF FiredFrom, IsHit, At
  <2>3. new[i].sample \in Nat
    <3>1. new[i] \in Triggers
      BY <1>5
    <3>2. QED
      BY <3>1, TriggerIs
  <2>4. new[i].sample < pos + Block
    <3>1. new[i].at \in Nat /\ new[i].sample <= new[i].at /\ new[i].at < pos + Block
      BY <1>5
    <3>2. \A a, b \in Nat : a <= b /\ b < pos + Block => a < pos + Block
      BY <1>3
    <3>3. QED
      BY <2>3, <3>1, <3>2
  <2>5. ASSUME NEW m \in DOMAIN todo
        PROVE  ~TakesBack(todo[m], due[k])
    <3>1. SUFFICES ASSUME todo[m].kind = "flush", todo[m].sample <= new[i].sample PROVE FALSE
      BY <2>2 DEF TakesBack
    <3>2. Reach <= todo[m].sample
      BY <1>4, <3>1 DEF FlushAhead
    <3>3. todo[m].sample \in Nat
      <4>1. todo[m] \in Events
        BY <1>3
      <4>2. QED
        BY <4>1, EventIs
    <3>4. Reach \in Nat /\ pos + Block <= Reach
      <4> DEFINE k2 == MaxLag - lag
      <4>1. k2 \in Nat
        BY <1>3, <1>4
      <4>2. k2 * Block \in Nat
        BY <1>3, <4>1
      <4>3. Reach = published + Block + (IF split THEN k2 * Block ELSE 0)
        BY DEF Reach
      <4>4. \A n \in Nat : published + Block + n \in Nat /\ pos + Block <= published + Block + n
        BY <1>3, <1>4
      <4> HIDE DEF k2
      <4>5. QED
        BY <4>2, <4>3, <4>4, <1>3
    <3>5. QED
      BY <1>3, <2>3, <2>4, <3>1, <3>2, <3>3, <3>4
  <2>6. QED
    BY <2>2, <2>5 DEF LeftAlone
<1>12. ASSUME NEW i \in DOMAIN new, IsHit(new[i])
       PROVE  \E k \in DOMAIN due : IsHit(due[k]) /\ At(due[k]) = At(new[i])
  <2>1. PICK k \in DOMAIN due : FiredFrom(new[i], due[k])
    BY <1>5
  <2>2. QED
    BY <1>12, <2>1 DEF FiredFrom, IsHit, At
<1>13. HeardAt(p)' <=> HeardAt(p) \/ Plays1
  <2>1. HeardAt(p)' <=> \E k \in DOMAIN heard' : Is(heard'[k])
    BY DEF HeardAt, At, IsHit
  <2>2. HeardAt(p) <=> \E k \in DOMAIN heard : Is(heard[k])
    BY DEF HeardAt
  <2> HIDE DEF Is
  <2>3. QED
    BY <1>9, <2>1, <2>2
<1> DEFINE Waits(x) == Is(x) /\ LeftAlone(x)
<1>14. HeldAt(p) <=> \E i \in DOMAIN pending : Waits(pending[i])
  BY <1>7 DEF HeldAt
<1>15. HeldAt(p)' <=> \E k \in DOMAIN rest : Waits(rest[k])
  <2>1. HeldAt(p)' <=> \E k \in DOMAIN pending' : Is(pending'[k]) /\ Passes(pending[k], 0)'
    BY DEF HeldAt, At, IsHit
  <2>2. \A k \in DOMAIN pending' : Passes(pending[k], 0)' <=> LeftAlone(pending'[k])
    <3> SUFFICES ASSUME NEW k \in DOMAIN pending'
                 PROVE  Passes(pending[k], 0)' <=> LeftAlone(pending'[k])
      OBVIOUS
    <3>1. PICK x : x = pending'[k]
      OBVIOUS
    <3>2. Passes(x, 0)' <=> LeftAlone(x)
      BY <1>7
    <3>3. QED
      BY <3>1, <3>2 DEF Passes, LeftAlone, TakesBack
  <2>3. pending' = rest
    BY <1>5
  <2> HIDE DEF Is
  <2>4. QED
    BY <2>1, <2>2, <2>3
<1>16. Plays1 <=> \E k \in DOMAIN due : Waits(due[k])
  BY <1>11, <1>12
<1>17. QueuedAt(p)' <=> QueuedAt(p)
  BY <1>2 DEF QueuedAt
<1>18. ToPushAt(p)' <=> ToPushAt(p)
  BY <1>1 DEF ToPushAt, At, IsHit
<1> HIDE DEF Waits, Plays1
<1>19. (\E i \in DOMAIN pending : Waits(pending[i]))
       <=> (\E k \in DOMAIN due : Waits(due[k])) \/ (\E k \in DOMAIN rest : Waits(rest[k]))
  BY <1>8
<1>20. QED
  BY <1>10, <1>13, <1>14, <1>15, <1>16, <1>17, <1>18, <1>19 DEF SoundsAt

\* The flush that goes out and the log that goes with it name the same hits.
LEMMA LogFlushed ==
  ASSUME log \in Seq(Entries), InOrder(log), NEW f \in Nat, log' = FlushLog(log, f),
         NEW p \in Nat \X Nat
  PROVE  LoggedAt(p)' <=> LoggedAt(p) /\ p[2] < f
<1>1. /\ \A j \in 1 .. Len(log) : log[j].sample < f => j \in 1 .. Len(log')
      /\ \A j \in 1 .. Len(log') :
           j \in 1 .. Len(log) /\ log'[j] = log[j] /\ log[j].sample < f
  BY FlushOfLog
<1>2. DOMAIN log = 1 .. Len(log) /\ DOMAIN log' = 1 .. Len(log')
  <2>1. log' \in Seq(Entries)
    <3>1. NewestFrom(log, f) \in 0 .. Len(log)
      BY NewestIs
    <3>2. PICK n \in 0 .. Len(log) : n = Len(log) - NewestFrom(log, f)
      BY <3>1
    <3>3. log' = SubSeq(log, 1, n)
      BY <3>2 DEF FlushLog
    <3>4. QED
      BY <3>3
  <2>2. QED
    BY <2>1
<1>3. \A j : At(log[j]) = p => log[j].sample = p[2]
  BY DEF At
<1>4. LoggedAt(p)' <=> \E j \in DOMAIN log' : At(log'[j]) = p
  BY DEF LoggedAt, At
<1>5. QED
  BY <1>1, <1>2, <1>3, <1>4 DEF LoggedAt

\* A call takes back in the log what its flush takes back from what sounds.
LEMMA CallSounds ==
  ASSUME EngineInv, CommitsAhead, OldInv, Unhindered, callPc = "commit", todo = <<>>,
         UNCHANGED <<queue, renderVars>>,
         NEW f \in Nat, CommitPoint <= f, log' = FlushLog(log, f),
         \/ SendFlush(f)
         \/ NoFlush /\ (log # <<>> => log[Len(log)].sample < f),
         NEW p \in Nat \X Nat
  PROVE  \/ /\ SoundsAt(p)' <=> SoundsAt(p) /\ p[2] < f
            /\ LoggedAt(p)' <=> LoggedAt(p) /\ p[2] < f
         \/ /\ SoundsAt(p)' <=> SoundsAt(p)
            /\ LoggedAt(p)' <=> LoggedAt(p)
<1>1. log \in Seq(Entries) /\ InOrder(log) /\ heard \in Seq(Triggers)
  BY DEF EngineInv, EngineTypeOK, RenderTypes, ControlTypes, OldInv
<1>2. UNCHANGED <<pending, heard>>
  BY DEF renderVars
<1>3. LoggedAt(p)' <=> LoggedAt(p) /\ p[2] < f
  BY <1>1, LogFlushed
<1>4. CASE SendFlush(f)
  <2>1. todo' = <<FlushEvent(f)>>
    BY <1>4, FlushIs
  <2>2. \A i \in DOMAIN heard : heard[i].sample < f
    <3> SUFFICES ASSUME NEW i \in DOMAIN heard
                 PROVE  heard[i].sample < f
      OBVIOUS
    <3>1. heard[i].sample < CommitPoint /\ CommitPoint \in Nat
      BY CommitIs, Commits DEF EngineInv, OldInv
    <3>2. heard[i].sample \in Nat
      <4>1. heard[i] \in Triggers
        BY <1>1
      <4>2. QED
        BY <4>1, TriggerIs
    <3>3. QED
      BY <3>1, <3>2
  <2>3. SoundsAt(p)' <=> SoundsAt(p) /\ p[2] < f
    BY <1>2, <2>1, <2>2, FlushTakesBack
  <2>4. QED
    BY <1>3, <2>3
<1>5. CASE NoFlush /\ (log # <<>> => log[Len(log)].sample < f)
  <2>1. UNCHANGED todo
    BY <1>5 DEF NoFlush
  <2>2. SoundsAt(p)' <=> SoundsAt(p)
    BY <1>2, <2>1 DEF SoundsAt, HeardAt, HeldAt, QueuedAt, ToPushAt, Passes, LeftAlone,
                      TakesBack, At, IsHit
  <2>3. ASSUME LoggedAt(p)
        PROVE  p[2] < f
    <3>1. PICK j \in DOMAIN log : At(log[j]) = p
      BY <2>3 DEF LoggedAt
    <3>2. log[j].sample = p[2]
      BY <3>1 DEF At
    <3>3. log # <<>> /\ Len(log) \in DOMAIN log /\ j <= Len(log) /\ j \in Nat
      BY <1>1
    <3>4. log[j] \in Entries /\ log[Len(log)] \in Entries
      BY <1>1, <3>3
    <3>5. log[j].sample \in Nat /\ log[Len(log)].sample \in Nat
      <4>1. \A x \in Entries : x.sample \in Nat
        BY DEF Entries
      <4>2. QED
        BY <3>4, <4>1
    <3>6. log[j].sample <= log[Len(log)].sample
      <4>1. CASE j = Len(log)
        BY <3>5, <4>1
      <4>2. CASE j < Len(log)
        BY <1>1, <3>3, <4>2 DEF InOrder
      <4>3. QED
        BY <1>1, <3>3, <4>1, <4>2
    <3>7. log[Len(log)].sample < f
      BY <1>5, <3>3
    <3>8. \A a, b \in Nat : a <= b /\ b < f => a < f
      OBVIOUS
    <3>9. QED
      BY <3>2, <3>5, <3>6, <3>7, <3>8
  <2>4. QED
    BY <1>3, <2>2, <2>3
<1>6. QED
  BY <1>4, <1>5

\* A step goes into the log; at most the oldest entry is forgotten for it.
LEMMA EntryLogged ==
  ASSUME log \in Seq(Entries), NEW q \in Entries, log' = PushEntry(log, q), NEW p
  PROVE  /\ LoggedAt(p)' => LoggedAt(p) \/ At(q) = p
         /\ At(q) = p => LoggedAt(p)'
         /\ Len(log) < QueuedMemory /\ LoggedAt(p) => LoggedAt(p)'
<1> DEFINE all == Append(log, q)
<1>1. QueuedMemory \in Nat \ {0}
  BY EngineAssumption
<1>2. PICK N \in Nat :
        /\ Len(log) = N /\ DOMAIN log = 1 .. N
        /\ all \in Seq(Entries) /\ Len(all) = N + 1 /\ DOMAIN all = 1 .. N + 1
        /\ all[N + 1] = q /\ \A i \in 1 .. N : all[i] = log[i]
  OBVIOUS
<1>3. log' = IF Len(all) > QueuedMemory THEN Tail(all) ELSE all
  BY DEF PushEntry
<1>4. LoggedAt(p)' <=> \E i \in DOMAIN log' : At(log'[i]) = p
  BY DEF LoggedAt, At
<1> HIDE DEF all
<1>5. \A i \in DOMAIN all : (i \in DOMAIN log /\ all[i] = log[i]) \/ all[i] = q
  BY <1>2
<1>6. CASE log' = all
  BY <1>2, <1>4, <1>5, <1>6 DEF LoggedAt
<1>7. CASE log' = Tail(all) /\ Len(all) > QueuedMemory
  <2>1. N \in 1 .. N /\ ~(N < QueuedMemory)
    BY <1>1, <1>2, <1>7
  <2>2. /\ DOMAIN log' = 1 .. N
        /\ \A i \in 1 .. N : i + 1 \in DOMAIN all /\ log'[i] = all[i + 1]
    BY <1>2, <1>7
  <2>3. log'[N] = q
    BY <1>2, <2>1, <2>2
  <2>4. \A i \in DOMAIN log' : (\E j \in DOMAIN log : log'[i] = log[j]) \/ log'[i] = q
    BY <1>5, <2>2
  <2>5. QED
    BY <1>2, <1>4, <2>1, <2>2, <2>3, <2>4 DEF LoggedAt
<1>8. QED
  BY <1>3, <1>6, <1>7

\* What holds the queue and both ends of it leaves what sounds as it is.
LEMMA StillSounds ==
  ASSUME UNCHANGED <<queue, pending, heard, todo>>, NEW p
  PROVE  SoundsAt(p)' <=> SoundsAt(p)
BY DEF SoundsAt, HeardAt, HeldAt, QueuedAt, ToPushAt, Passes, LeftAlone, TakesBack, At, IsHit

\* The calls that realign the timeline.
LEMMA RealignSounds ==
  ASSUME EngineInv, CommitsAhead, OldInv, Unhindered,
         StartInternal \/ StartFollow \/ Resync \/ Jump, NEW p \in Nat \X Nat
  PROVE  \/ \E f \in Nat : /\ SoundsAt(p)' <=> SoundsAt(p) /\ p[2] < f
                           /\ LoggedAt(p)' <=> LoggedAt(p) /\ p[2] < f
         \/ /\ SoundsAt(p)' <=> SoundsAt(p)
            /\ LoggedAt(p)' <=> LoggedAt(p)
<1>1. callPc = "commit" /\ UNCHANGED <<queue, renderVars>>
  BY DEF StartInternal, StartFollow, Resync, Jump
<1>2. todo = <<>>
  BY <1>1, PushesFit DEF EngineInv
<1>3. PICK c \in Nat : c = CommitPoint
  BY Commits DEF EngineInv
<1>4. log \in Seq(Entries) /\ InOrder(log)
  BY DEF EngineInv, EngineTypeOK, ControlTypes, OldInv
<1>5. CASE DropQueued(CommitPoint)
  <2>1. /\ log' = FlushLog(log, c)
        /\ SendFlush(c) \/ (NoFlush /\ NewestFrom(log, c) = 0)
    <3>1. NewestFrom(log, c) \in 0 .. Len(log)
      BY <1>4, NewestIs
    <3>2. NewestFrom(log, c) > 0 \/ NewestFrom(log, c) = 0
      BY <1>4, <3>1
    <3>3. QED
      BY <1>3, <1>5, <3>2 DEF DropQueued
  <2>2. NewestFrom(log, c) = 0 /\ log # <<>> => log[Len(log)].sample < c
    BY <1>4, FlushOfLog
  <2>3. CommitPoint <= c
    BY <1>3
  <2>4. QED
    BY <1>1, <1>2, <2>1, <2>2, <2>3, CallSounds
<1>6. CASE \/ SendFlush(Cut(log, CommitPoint).flush) /\ log' = FlushLog(log, Cut(log, CommitPoint).flush)
           \/ /\ Cut(log, CommitPoint).dropped = <<>> /\ NoFlush
              /\ log' = FlushLog(log, Cut(log, CommitPoint).flush)
  <2>1. PICK f \in Nat : f = Cut(log, c).flush /\ c <= f
    BY <1>4, CutIs
  <2>2. /\ log' = FlushLog(log, f)
        /\ SendFlush(f) \/ (NoFlush /\ Cut(log, c).dropped = <<>>)
    BY <1>3, <1>6, <2>1
  <2>3. Cut(log, c).dropped = <<>> /\ log # <<>> => log[Len(log)].sample < f
    BY <1>4, <2>1, CutKeeps
  <2>4. CommitPoint <= f
    BY <1>3, <2>1
  <2>5. QED
    BY <1>1, <1>2, <2>2, <2>3, <2>4, CallSounds
<1>7. CASE NoFlush /\ UNCHANGED log
  <2>1. UNCHANGED <<queue, pending, heard, todo>>
    BY <1>1, <1>7 DEF NoFlush, renderVars
  <2>2. LoggedAt(p)' <=> LoggedAt(p)
    BY <1>7 DEF LoggedAt, At
  <2>3. QED
    BY <2>1, <2>2, StillSounds
<1>8. CASE StartInternal
  BY <1>5, <1>8 DEF StartInternal
<1>9. CASE StartFollow
  <2>1. /\ log' = FlushLog(log, Cut(log, CommitPoint).flush)
        /\ IF Cut(log, CommitPoint).dropped # <<>> THEN SendFlush(Cut(log, CommitPoint).flush)
                                                   ELSE NoFlush
    BY <1>9 DEF StartFollow
  <2>2. QED
    BY <1>6, <2>1
<1>10. CASE Resync
  <2>1. DropQueued(CommitPoint) \/ (NoFlush /\ UNCHANGED log)
    BY <1>10 DEF Resync
  <2>2. QED
    BY <1>5, <1>7, <2>1
<1>11. CASE Jump
  <2>1. RealignContinuous(CommitPoint, clock') \/ (NoFlush /\ UNCHANGED log)
    BY <1>11 DEF Jump
  <2>2. CASE RealignContinuous(CommitPoint, clock')
    <3>1. /\ log' = FlushLog(log, Cut(log, CommitPoint).flush)
          /\ SendFlush(Cut(log, CommitPoint).flush)
      BY <2>2 DEF RealignContinuous
    <3>2. QED
      BY <1>6, <3>1
  <2>3. QED
    BY <1>7, <2>1, <2>2
<1>12. QED
  BY <1>8, <1>9, <1>10, <1>11

\* Every step keeps the log and what sounds together.
LEMMA FaithKeeps ==
  ASSUME EngineInv, CommitsAhead, OldInv, HeldNoFlush, Unhindered, Unhindered', [Next]_vars,
         NEW p \in Nat \X Nat
  PROVE  /\ HeldNoFlush'
         /\ (LoggedAt(p) => SoundsAt(p)) => (LoggedAt(p)' => SoundsAt(p)')
         /\ [TickStep => Len(log) < QueuedMemory]_vars =>
               ((SoundsAt(p) => LoggedAt(p)) => (SoundsAt(p)' => LoggedAt(p)'))
<1>1. UNCHANGED pending => HeldNoFlush'
  BY DEF HeldNoFlush
<1>2. UNCHANGED log => (LoggedAt(p)' <=> LoggedAt(p))
  BY DEF LoggedAt, At
<1>3. CASE UNCHANGED <<queue, pending, heard, todo, log>>
  <2>1. SoundsAt(p)' <=> SoundsAt(p)
    BY <1>3, StillSounds
  <2>2. QED
    BY <1>1, <1>2, <1>3, <2>1
<1>4. CASE UNCHANGED vars
  BY <1>3, <1>4 DEF vars, renderVars, controlVars, callVars
<1>5. CASE Control /\ UNCHANGED <<split, capacity>>
  <2>1. CASE TickStep
    <3>1. PICK step, s, q : step = sched.next /\ s = StepSample(clock, step) /\ q = Entry(step)
      OBVIOUS
    <3>2. /\ log' = PushEntry(log, q) /\ UNCHANGED pending
      BY <2>1, <3>1 DEF TickStep, renderVars
    <3>3. q \in Entries /\ At(q) = <<step, s>>
      <4>1. step \in Nat
        BY <3>1 DEF EngineInv, EngineTypeOK, ControlTypes, Scheds
      <4>2. Entry(step) \in Entries
        BY <4>1, EventsOfStep DEF EngineInv
      <4>3. q.step = step /\ q.sample = s
        BY <3>1 DEF Entry
      <4>4. QED
        BY <3>1, <4>2, <4>3 DEF At
    <3>4. log \in Seq(Entries)
      BY DEF EngineInv, EngineTypeOK, ControlTypes
    <3>5. SoundsAt(p)' <=> SoundsAt(p) \/ p = <<step, s>>
      BY <2>1, <3>1, StepSounds
    <3>6. /\ LoggedAt(p)' => LoggedAt(p) \/ At(q) = p
          /\ At(q) = p => LoggedAt(p)'
          /\ Len(log) < QueuedMemory /\ LoggedAt(p) => LoggedAt(p)'
      BY <3>2, <3>3, <3>4, EntryLogged
    <3>7. vars # vars'
      <4>1. todo = <<>> /\ todo' = StepEvents(sched.next) /\ sched.next \in Nat
        BY <2>1 DEF TickStep, EngineInv, EngineTypeOK, ControlTypes, Scheds
      <4>2. Len(StepEvents(sched.next)) \in 1 .. 2
        BY <4>1, EventsOfStep DEF EngineInv
      <4>3. StepEvents(sched.next) # <<>>
        <5>1. Len(<<>>) \notin 1 .. 2
          OBVIOUS
        <5>2. QED
          BY <4>2, <5>1
      <4>4. todo # todo'
        BY <4>1, <4>3
      <4>5. QED
        BY <4>4 DEF vars, callVars
    <3>8. QED
      BY <1>1, <2>1, <3>2, <3>3, <3>5, <3>6, <3>7
  <2>2. CASE PushFails
    <3>1. Head(todo).kind = "flush" /\ flushLeft' = Head(todo).sample /\ todo # <<>>
      BY <1>5, <2>2, PushTypes DEF PushFails, EngineInv
    <3>2. Head(todo) \in Events
      BY <3>1 DEF EngineInv, EngineTypeOK, ControlTypes
    <3>3. flushLeft' # None
      BY <3>1, <3>2, EventIs DEF None
    <3>4. QED
      BY <3>3 DEF Unhindered
  <2>3. CASE StartInternal \/ StartFollow \/ Resync \/ Jump
    <3>1. UNCHANGED pending
      BY <2>3 DEF StartInternal, StartFollow, Resync, Jump, renderVars
    <3>2. \/ \E f \in Nat : /\ SoundsAt(p)' <=> SoundsAt(p) /\ p[2] < f
                            /\ LoggedAt(p)' <=> LoggedAt(p) /\ p[2] < f
          \/ /\ SoundsAt(p)' <=> SoundsAt(p)
             /\ LoggedAt(p)' <=> LoggedAt(p)
      BY <2>3, RealignSounds
    <3>3. QED
      BY <1>1, <3>1, <3>2
  <2>4. CASE \/ \E c \in RealignCalls : BeginCall(c)
             \/ QuietCall \/ TickBegin \/ TickNote \/ TickEnd
    <3>1. UNCHANGED <<queue, pending, heard, log>>
      BY <2>4 DEF BeginCall, QuietCall, TickBegin, TickNote, TickEnd, controlVars, renderVars
    <3>2. callPc \in {"idle", "note"} \/ todo = <<>>
      BY <2>4 DEF BeginCall, QuietCall, MayCall, TickBegin, TickNote, TickEnd
    <3>3. todo = <<>>
      BY <3>2, PushesFit DEF EngineInv
    <3>4. todo' = todo \/ todo' = <<>>
      BY <2>4 DEF BeginCall, QuietCall, TickBegin, TickNote, TickEnd, callVars, Unhindered
    <3>5. QED
      BY <1>3, <3>1, <3>3, <3>4
  <2>5. CASE SetParam
    <3>1. UNCHANGED <<pending, heard, todo, log>>
      BY <2>5 DEF SetParam, callVars, renderVars
    <3>2. CASE UNCHANGED queue
      BY <1>3, <3>1, <3>2
    <3>3. CASE \E v \in Values : queue' = Append(queue, ParamEvent(Position, v))
      <4>1. PICK v \in Values : queue' = Append(queue, ParamEvent(Position, v))
        BY <3>3
      <4>2. PICK e : e = ParamEvent(Position, v)
        OBVIOUS
      <4>3. ~IsHit(e) /\ e.kind # "flush"
        BY <4>2 DEF ParamEvent, IsHit
      <4>4. SoundsAt(p)' <=> SoundsAt(p)
        BY <3>1, <4>1, <4>2, <4>3, ParamSounds
      <4>5. QED
        BY <1>1, <1>2, <3>1, <4>4
    <3>4. QED
      BY <2>5, <3>2, <3>3 DEF SetParam
  <2>6. CASE PushEvent
    <3>1. UNCHANGED <<pending, log>>
      BY <2>6 DEF PushEvent, controlVars, renderVars
    <3>2. SoundsAt(p)' <=> SoundsAt(p)
      BY <2>6, PushSounds
    <3>3. QED
      BY <1>1, <1>2, <3>1, <3>2
  <2>7. QED
    BY <1>5, <2>1, <2>2, <2>3, <2>4, <2>5, <2>6 DEF Control
<1>6. CASE Render /\ UNCHANGED <<split, capacity>>
  <2>1. CASE RenderStart
    <3>1. UNCHANGED <<queue, pending, heard, todo, log>>
      BY <2>1 DEF RenderStart, RenderPublish, controlVars, callVars
    <3>2. QED
      BY <1>3, <3>1
  <2>2. CASE RenderPull /\ UNCHANGED <<controlVars, callVars, lag, historyVars>>
    <3>1. UNCHANGED <<todo, log>>
      BY <2>2 DEF callVars, controlVars
    <3>2. HeldNoFlush' /\ (SoundsAt(p)' <=> SoundsAt(p))
      BY <2>2, <3>1, PullSounds
    <3>3. QED
      BY <1>2, <3>1, <3>2
  <2>3. CASE RenderPlay /\ UNCHANGED <<controlVars, callVars, lag, historyVars>>
    <3>1. UNCHANGED log
      BY <2>3 DEF controlVars
    <3>2. HeldNoFlush' /\ (SoundsAt(p)' <=> SoundsAt(p))
      BY <1>6, <2>3, PlaySounds
    <3>3. QED
      BY <1>2, <3>1, <3>2
  <2>4. QED
    BY <1>6, <2>1, <2>2, <2>3 DEF Render, RenderBlock
<1>7. QED
  BY <1>4, <1>5, <1>6 DEF Next, Finished

\* The hits that were heard or that nothing takes back any more.
HeardOrComing ==
    Hits \cup {InFlight[i] : i \in {j \in DOMAIN InFlight :
                                      InFlight[j].kind = "hit" /\ Survives(j)}}

\* Between calls, what is in the log was heard or is on its way.
LogIsKept ==
    callPc = "idle" /\ flushLeft = None =>
        \A q \in ToSet(log) : \E h \in HeardOrComing : q.step = h.step /\ q.sample = h.sample

\* Between calls nothing is left to push: what sounds was heard or is in flight.
LEMMA SoundsIs ==
  ASSUME EngineInv, HeldNoFlush, callPc = "idle", NEW p
  PROVE  SoundsAt(p) <=> \E h \in HeardOrComing : At(h) = p
<1>1. todo = <<>> /\ DOMAIN todo = {}
  <2>1. todo = <<>>
    BY PushesFit DEF EngineInv
  <2>2. QED
    BY <2>1
<1>2. pending \in Seq(Events) /\ queue \in Seq(Events)
  BY DEF EngineInv, EngineTypeOK, RenderTypes
<1>3. PICK P \in Nat, N \in Nat :
        /\ DOMAIN pending = 1 .. P /\ DOMAIN queue = 1 .. N
        /\ DOMAIN InFlight = 1 .. P + N /\ Len(InFlight) = P + N
        /\ \A i \in 1 .. P : InFlight[i] = pending[i]
        /\ \A i \in 1 .. N : InFlight[P + i] = queue[i]
  <2>1. InFlight = pending \o queue
    <3>1. pending \o queue \in Seq(Events)
      BY <1>2
    <3>2. \A s \in Seq(Events) : s \o <<>> = s
      OBVIOUS
    <3>3. QED
      BY <1>1, <3>1, <3>2 DEF InFlight
  <2>2. PICK q : q = pending \o queue
    OBVIOUS
  <2>3. PICK P \in Nat, N \in Nat :
          /\ P = Len(pending) /\ DOMAIN pending = 1 .. P
          /\ N = Len(queue) /\ DOMAIN queue = 1 .. N
    BY <1>2
  <2>4. /\ DOMAIN q = 1 .. P + N /\ Len(q) = P + N
        /\ \A i \in 1 .. P : q[i] = pending[i]
        /\ \A i \in 1 .. N : q[P + i] = queue[i]
    BY <1>2, <2>2, <2>3
  <2>5. QED
    BY <2>1, <2>2, <2>3, <2>4
<1>4. \A x : LeftAlone(x)
  BY <1>1 DEF LeftAlone
<1>5. \A i \in 1 .. P + N :
        Survives(i) <=> \A j \in i + 1 .. P + N : ~TakesBack(InFlight[j], InFlight[i])
  BY <1>3 DEF Survives, TakesBack
<1>6. ASSUME NEW i \in 1 .. P
      PROVE  Survives(i) <=> Passes(pending[i], 0)
  <2>1. \A j \in 1 .. P : ~TakesBack(InFlight[j], InFlight[i])
    BY <1>3 DEF HeldNoFlush, TakesBack
  <2>2. \A j \in i + 1 .. P + N : j \in 1 .. P \/ (j - P \in 1 .. N /\ j = P + (j - P))
    BY <1>3
  <2>3. \A m \in 1 .. N : P + m \in i + 1 .. P + N /\ 0 < m
    BY <1>3
  <2>4. Passes(pending[i], 0) <=> \A m \in 1 .. N : ~TakesBack(queue[m], pending[i])
    BY <1>3, <1>4, <2>3 DEF Passes
  <2>5. i \in 1 .. P + N
    BY <1>3
  <2>6. \A m \in 1 .. N : TakesBack(InFlight[P + m], InFlight[i]) <=> TakesBack(queue[m], pending[i])
    BY <1>3, <1>6
  <2>7. QED
    BY <1>5, <2>1, <2>2, <2>3, <2>4, <2>5, <2>6
<1>7. ASSUME NEW i \in 1 .. N
      PROVE  Survives(P + i) <=> Passes(queue[i], i)
  <2>1. \A j \in P + i + 1 .. P + N : j - P \in 1 .. N /\ i < j - P /\ j = P + (j - P)
    BY <1>3
  <2>2. \A m \in 1 .. N : i < m => P + m \in P + i + 1 .. P + N
    BY <1>3
  <2>3. Passes(queue[i], i) <=> \A m \in 1 .. N : i < m => ~TakesBack(queue[m], queue[i])
    BY <1>3, <1>4 DEF Passes
  <2>4. P + i \in 1 .. P + N
    BY <1>3
  <2>5. Survives(P + i) <=> \A j \in P + i + 1 .. P + N : ~TakesBack(InFlight[j], queue[i])
    BY <1>3, <1>5, <1>7, <2>4
  <2>6. \A m \in 1 .. N : InFlight[P + m] = queue[m]
    BY <1>3
  <2>7. QED
    BY <2>1, <2>2, <2>3, <2>5, <2>6
<1>8. HeardAt(p) <=> \E h \in Hits : At(h) = p
  BY DEF HeardAt, Hits, ToSet, IsHit
<1> DEFINE Comes(i) == InFlight[i].kind = "hit" /\ At(InFlight[i]) = p /\ Survives(i)
<1>9. HeldAt(p) <=> \E i \in 1 .. P : Comes(i)
  BY <1>3, <1>6 DEF HeldAt, IsHit
<1>10. QueuedAt(p) <=> \E i \in 1 .. N : Comes(P + i)
  BY <1>3, <1>7 DEF QueuedAt, IsHit
<1>11. ~ToPushAt(p)
  BY <1>1 DEF ToPushAt
<1> HIDE DEF Comes
<1>12. (\E i \in 1 .. P + N : Comes(i))
       <=> (\E i \in 1 .. P : Comes(i)) \/ (\E i \in 1 .. N : Comes(P + i))
  <2>1. \A i \in 1 .. P + N : i \in 1 .. P \/ (i - P \in 1 .. N /\ i = P + (i - P))
    BY <1>3
  <2>2. (\A i \in 1 .. P : i \in 1 .. P + N) /\ \A i \in 1 .. N : P + i \in 1 .. P + N
    BY <1>3
  <2>3. QED
    BY <2>1, <2>2
<1>13. (\E h \in HeardOrComing : At(h) = p)
       <=> (\E h \in Hits : At(h) = p) \/ \E i \in 1 .. P + N : Comes(i)
  BY <1>3 DEF HeardOrComing, Comes
<1>14. QED
  BY <1>8, <1>9, <1>10, <1>11, <1>12, <1>13 DEF SoundsAt

\* Nothing is logged and nothing sounds yet.
LEMMA FaithStarts ==
  ASSUME Init
  PROVE  HeldNoFlush /\ LogSounds /\ SoundsLogged
<1>1. queue = <<>> /\ pending = <<>> /\ heard = <<>> /\ todo = <<>> /\ log = <<>>
  BY DEF Init, RenderInit
<1>2. DOMAIN queue = {} /\ DOMAIN pending = {} /\ DOMAIN heard = {} /\ DOMAIN todo = {}
      /\ DOMAIN log = {}
  BY <1>1
<1>3. QED
  BY <1>2 DEF HeldNoFlush, LogSounds, SoundsLogged, LoggedAt, SoundsAt, HeardAt, HeldAt,
              QueuedAt, ToPushAt

\* The places of the log, and of what was heard or is coming, are pairs of numbers.
LEMMA LogPlaces ==
  ASSUME EngineInv
  PROVE  \A i \in DOMAIN log : At(log[i]) \in Nat \X Nat
<1>1. log \in Seq(Entries)
  BY DEF EngineInv, EngineTypeOK, ControlTypes
<1>2. \A q \in Entries : At(q) \in Nat \X Nat
  BY DEF Entries, At
<1>3. QED
  BY <1>1, <1>2

LEMMA ComingPlaces ==
  ASSUME EngineInv
  PROVE  \A h \in HeardOrComing : At(h) \in Nat \X Nat
<1>1. /\ heard \in Seq(Triggers) /\ pending \in Seq(Events) /\ queue \in Seq(Events)
      /\ todo \in Seq(Events)
  BY DEF EngineInv, EngineTypeOK, RenderTypes, ControlTypes
<1>2. \A x \in Triggers : At(x) \in Nat \X Nat
  BY DEF Triggers, At
<1>3. InFlight \in Seq(Events)
  BY <1>1 DEF InFlight
<1>4. \A x \in Events : x.kind = "hit" => x \in Triggers
  BY EventIs DEF IsTrigger
<1>5. \A h \in Hits : h \in Triggers
  BY <1>1 DEF Hits, ToSet
<1>6. QED
  BY <1>2, <1>3, <1>4, <1>5 DEF HeardOrComing

(* Between calls, every step in the log is one whose hit was heard or that   *)
(* nothing in flight takes back: no step the control thread counts as heard  *)
(* was lost (control.rs, realign_continuous: "What was heard comes from      *)
(* QueuedLog").  It holds for every pattern, block and call, once the        *)
(* renderer has run, under the hypotheses of OldRunIsSilent.                 *)
THEOREM LogKeepsFaith ==
  ASSUME CommitsAhead
  PROVE  Spec /\ []Unhindered /\ [][TickStep => StepFollows]_vars => []LogIsKept
<1> DEFINE Faith == EngineInv /\ OldInv /\ HeldNoFlush /\ LogSounds
<1>1. Init => Faith
  BY InitEngine, OldStarts, FaithStarts
<1>2. Faith /\ Unhindered /\ Unhindered' /\ [Next]_vars /\ [TickStep => StepFollows]_vars
      => Faith'
  <2> SUFFICES ASSUME EngineInv, OldInv, HeldNoFlush, LogSounds, Unhindered, Unhindered',
                      [Next]_vars, [TickStep => StepFollows]_vars
               PROVE  Faith'
    OBVIOUS
  <2>1. EngineInv' /\ OldInv'
    BY EngineKeeps, OldKeeps
  <2>2. ASSUME NEW p \in Nat \X Nat
        PROVE  HeldNoFlush' /\ (LoggedAt(p)' => SoundsAt(p)')
    BY <2>2, FaithKeeps DEF LogSounds
  <2>3. HeldNoFlush'
    <3>1. <<0, 0>> \in Nat \X Nat
      OBVIOUS
    <3>2. QED
      BY <2>2, <3>1
  <2>4. QED
    BY <2>1, <2>2, <2>3 DEF LogSounds
<1>3. Faith => LogIsKept
  <2> SUFFICES ASSUME EngineInv, HeldNoFlush, LogSounds, callPc = "idle", NEW q \in ToSet(log)
               PROVE  \E h \in HeardOrComing : q.step = h.step /\ q.sample = h.sample
    BY DEF LogIsKept
  <2>1. PICK i \in DOMAIN log : q = log[i]
    BY DEF ToSet
  <2>2. At(q) \in Nat \X Nat /\ LoggedAt(At(q))
    BY <2>1, LogPlaces DEF LoggedAt
  <2>3. PICK p \in Nat \X Nat : p = At(q)
    BY <2>2
  <2>4. SoundsAt(p)
    BY <2>2, <2>3 DEF LogSounds
  <2>5. \E h \in HeardOrComing : At(h) = p
    BY <2>4, SoundsIs
  <2>6. QED
    BY <2>3, <2>5 DEF At
<1>4. QED
  BY <1>1, <1>2, <1>3, PTL DEF Spec

\* The log is never full when a step goes into it.
LogHolds == StepFollows /\ Len(log) < QueuedMemory

(* The control thread knows what is heard: while the log forgets nothing,    *)
(* the steps in it are exactly those whose hit was heard or will be          *)
(* (control.rs, realign_continuous: "What was heard comes from QueuedLog";   *)
(* commit_point: what is queued before it is "as good as heard").  It needs, *)
(* besides what OldRunIsSilent needs, that no step is scheduled into a full  *)
(* log.                                                                      *)
THEOREM LogIsTold ==
  ASSUME CommitsAhead
  PROVE  Spec /\ []Unhindered /\ [][TickStep => LogHolds]_vars => []LogIsHeard
<1> DEFINE Faith == EngineInv /\ OldInv /\ HeldNoFlush /\ LogSounds /\ SoundsLogged
<1>1. Init => Faith
  BY InitEngine, OldStarts, FaithStarts
<1>2. Faith /\ Unhindered /\ Unhindered' /\ [Next]_vars /\ [TickStep => LogHolds]_vars => Faith'
  <2> SUFFICES ASSUME EngineInv, OldInv, HeldNoFlush, LogSounds, SoundsLogged, Unhindered,
                      Unhindered', [Next]_vars, [TickStep => LogHolds]_vars
               PROVE  Faith'
    OBVIOUS
  <2>1. [TickStep => StepFollows]_vars /\ [TickStep => Len(log) < QueuedMemory]_vars
    BY DEF LogHolds
  <2>2. EngineInv' /\ OldInv'
    BY <2>1, EngineKeeps, OldKeeps
  <2>3. ASSUME NEW p \in Nat \X Nat
        PROVE  HeldNoFlush' /\ (LoggedAt(p)' => SoundsAt(p)') /\ (SoundsAt(p)' => LoggedAt(p)')
    BY <2>1, <2>3, FaithKeeps DEF LogSounds, SoundsLogged
  <2>4. HeldNoFlush'
    <3>1. <<0, 0>> \in Nat \X Nat
      OBVIOUS
    <3>2. QED
      BY <2>3, <3>1
  <2>5. QED
    BY <2>2, <2>3, <2>4 DEF LogSounds, SoundsLogged
<1>3. Faith => LogIsHeard
  <2> SUFFICES ASSUME EngineInv, HeldNoFlush, LogSounds, SoundsLogged, callPc = "idle"
               PROVE  LogIsHeard
    BY DEF LogIsHeard
  <2>1. \A p \in Nat \X Nat : LoggedAt(p) <=> \E h \in HeardOrComing : At(h) = p
    BY SoundsIs DEF LogSounds, SoundsLogged
  <2>2. ASSUME NEW q \in ToSet(log)
        PROVE  \E h \in HeardOrComing : q.step = h.step /\ q.sample = h.sample
    <3>1. PICK i \in DOMAIN log : q = log[i]
      BY <2>2 DEF ToSet
    <3>2. PICK p \in Nat \X Nat : p = At(q) /\ LoggedAt(p)
      BY <3>1, LogPlaces DEF LoggedAt
    <3>3. \E h \in HeardOrComing : At(h) = p
      BY <2>1, <3>2
    <3>4. QED
      BY <3>2, <3>3 DEF At
  <2>3. ASSUME NEW h \in HeardOrComing
        PROVE  \E q \in ToSet(log) : q.step = h.step /\ q.sample = h.sample
    <3>1. PICK p \in Nat \X Nat : p = At(h)
      BY <2>3, ComingPlaces
    <3>2. PICK i \in DOMAIN log : At(log[i]) = p
      BY <2>1, <2>3, <3>1 DEF LoggedAt
    <3>3. QED
      BY <3>1, <3>2 DEF At, ToSet
  <2>4. QED
    BY <2>2, <2>3 DEF LogIsHeard, HeardOrComing
<1>4. QED
  BY <1>1, <1>2, <1>3, PTL DEF Spec

-----------------------------------------------------------------------------
(* Steps are scheduled in their order                                        *)

GraceFirst == \A i \in DOMAIN log : log[i].first <= log[i].sample

\* While a pattern plays, its next step does not lie in front of one that is logged.
NextFollows ==
    sched.playing => \A i \in DOMAIN log : log[i].sample <= StepSample(clock, sched.next)

FollowInv == InOrder(log) /\ GraceFirst /\ NextFollows

\* The next step lies half a step (a quarter of what its length is counted in)
\* behind what is logged.
HalfStepClear ==
    \A i \in DOMAIN log : log[i].sample + clock.len \div 4 <= StepSample(clock, sched.next)

\* No tempo change and no nudge while a pattern plays.
Unmoved == sched.playing => UNCHANGED clock

\* Steps come one after the other, and no closer than a quarter of their length.
LEMMA StepsAscend ==
  ASSUME NEW c \in Clock, NEW k \in Nat
  PROVE  /\ StepSample(c, k) <= StepSample(c, k + 1)
         /\ StepSample(c, k) > 0 => StepSample(c, k) + c.len \div 4 <= StepSample(c, k + 1)
<1>1. c.anchor \in Int /\ c.len \in Nat /\ c.len > 0
  BY DEF Clock
<1>2. PICK l0 \in Nat : l0 = Late(c, k) /\ 2 * l0 <= c.len
  BY LateIsLittle
<1>3. PICK l1 \in Nat : l1 = Late(c, k + 1)
  <2>1. k + 1 \in Nat
    OBVIOUS
  <2>2. QED
    BY <2>1, LateIsLittle
<1>4. PICK x \in Int : x = StepPosition(c, k) /\ x = c.anchor + k * c.len + l0
  BY <1>2, PlaceOfStep
<1>5. PICK y \in Int : y = StepPosition(c, k + 1) /\ y = c.anchor + (k + 1) * c.len + l1
  <2>1. k + 1 \in Nat
    OBVIOUS
  <2>2. QED
    BY <1>3, <2>1, PlaceOfStep
<1>6. (k + 1) * c.len = k * c.len + c.len /\ k * c.len \in Nat
  BY <1>1
<1>7. y = x - l0 + c.len + l1
  BY <1>1, <1>4, <1>5, <1>6
<1>8. PICK d \in Nat : y = x + d /\ 2 * d >= c.len
  <2>1. y - x \in Nat /\ 2 * (y - x) >= c.len
    BY <1>1, <1>2, <1>3, <1>7
  <2>2. QED
    BY <2>1
<1>9. /\ StepSample(c, k) = IF x <= 0 THEN 0 ELSE (x + 1) \div 2
      /\ StepSample(c, k + 1) = IF y <= 0 THEN 0 ELSE (y + 1) \div 2
  BY <1>4, <1>5 DEF StepSample
<1>10. \A u, v \in Nat : (u + 1) \div 2 <= (u + v + 1) \div 2
                         /\ (u + 1) \div 2 + v \div 2 <= (u + v + 1) \div 2
  OBVIOUS
<1>11. c.len \div 4 <= d \div 2 /\ c.len \div 4 \in Nat /\ d \div 2 \in Nat
  <2>1. \A u, v \in Nat : 2 * v >= u => u \div 4 <= v \div 2
    OBVIOUS
  <2>2. QED
    BY <1>1, <1>8, <2>1
<1>12. CASE x <= 0
  BY <1>8, <1>9, <1>12
<1>13. CASE x > 0
  <2>1. x \in Nat /\ y > 0
    BY <1>8, <1>13
  <2>2. /\ StepSample(c, k) = (x + 1) \div 2
        /\ StepSample(c, k + 1) = (x + d + 1) \div 2
    BY <1>8, <1>9, <1>13, <2>1
  <2>3. (x + 1) \div 2 \in Nat /\ (x + d + 1) \div 2 \in Nat
    BY <1>8, <2>1
  <2>4. QED
    BY <1>8, <1>10, <1>11, <2>1, <2>2, <2>3
<1>14. QED
  BY <1>4, <1>12, <1>13

\* Half a step after a hit is half a step after it.
LEMMA FromPasses ==
  ASSUME NEW c \in Clock, NEW a \in Nat, NEW q \in Entries, NEW H, H = {2 * q.sample}
  PROVE  LET from == Max({a} \cup {HalfStepAfter(c, h) : h \in H})
         IN  from \in Nat /\ a <= from /\ q.sample + c.len \div 4 <= from
<1>1. c.len \in Nat /\ c.len > 0 /\ q.sample \in Nat
  BY DEF Clock, Entries
<1>2. PICK x \in Nat : x = HalfStepAfter(c, 2 * q.sample)
  BY <1>1, ClockMoves
<1>3. q.sample + c.len \div 4 <= x
  <2>1. \A s, l \in Nat : s + l \div 4 <= (2 * s + l \div 2 + 1) \div 2
    OBVIOUS
  <2>2. 2 * q.sample + c.len \div 2 \in Nat
    BY <1>1
  <2>3. x = IF 2 * q.sample + c.len \div 2 <= 0 THEN 0
            ELSE (2 * q.sample + c.len \div 2 + 1) \div 2
    BY <1>2 DEF HalfStepAfter
  <2>4. \A s, l \in Nat : 2 * s + l \div 2 <= 0 => s + l \div 4 = 0
    OBVIOUS
  <2>5. QED
    BY <1>1, <2>1, <2>2, <2>3, <2>4
<1>4. {a} \cup {HalfStepAfter(c, h) : h \in H} = {a, x}
  BY <1>2
<1>5. Max({a, x}) \in Nat /\ Max({a, x}) >= a /\ Max({a, x}) >= x
  BY MaxOfTwo
<1>6. QED
  <2>1. q.sample + c.len \div 4 \in Nat
    BY <1>1
  <2>2. \A u, v, w \in Nat : u <= v /\ w >= v => u <= w
    OBVIOUS
  <2>3. QED
    BY <1>2, <1>3, <1>4, <1>5, <2>1, <2>2

\* What a realign leaves in the log is no later than the step it counts as heard last.
LEMMA KeptIsHeard ==
  ASSUME EngineTypeOK, InOrder(log), GraceFirst, NEW c \in Nat,
         NEW f, f = Cut(log, c).flush, NEW i \in 1 .. Len(FlushLog(log, f))
  PROVE  \E q \in Entries : Cut(log, c).heard = <<q>> /\ FlushLog(log, f)[i].sample <= q.sample
<1>1. log \in Seq(Entries) /\ DOMAIN log = 1 .. Len(log) /\ Len(log) \in Nat
  BY DEF EngineTypeOK, ControlTypes
<1>2. f \in Nat
  BY <1>1, CutIs
<1>3. i \in 1 .. Len(log) /\ FlushLog(log, f)[i] = log[i] /\ log[i].sample < f
  BY <1>1, <1>2, FlushOfLog
<1>4. PICK n \in 0 .. Len(log) :
        /\ n < Len(log) => f <= log[n + 1].first
        /\ IF n = 0 THEN Cut(log, c).heard = <<>>
           ELSE Cut(log, c).heard = <<log[n]>> /\ log[n] \in Entries
  BY <1>1, CutIs
<1>5. \A j \in 1 .. Len(log) : log[j].first \in Nat /\ log[j].sample \in Nat
  BY <1>1, EntryIs
<1>6. i <= n
  <2> SUFFICES ASSUME n < i PROVE FALSE
    BY <1>1, <1>3, <1>4
  <2>1. n + 1 \in 1 .. Len(log) /\ n < Len(log) /\ (n + 1 = i \/ n + 1 < i)
    BY <1>1, <1>3, <1>4
  <2>2. log[n + 1].first <= log[n + 1].sample
    BY <1>1, <2>1 DEF GraceFirst
  <2>3. log[n + 1].sample <= log[i].sample
    <3>1. \A j, k \in 1 .. Len(log) : j < k => log[j].sample <= log[k].sample
      BY <1>1 DEF InOrder
    <3>2. CASE n + 1 = i
      BY <1>3, <1>5, <3>2
    <3>3. CASE n + 1 < i
      BY <1>3, <2>1, <3>1, <3>3
    <3>4. QED
      BY <2>1, <3>2, <3>3
  <2>4. f <= log[n + 1].first
    BY <1>4, <2>1
  <2>5. QED
    BY <1>2, <1>3, <1>5, <2>1, <2>2, <2>3, <2>4
<1>7. n # 0 /\ n \in 1 .. Len(log)
  BY <1>1, <1>3, <1>4, <1>6
<1>8. log[i].sample <= log[n].sample
  <2>1. i = n \/ i < n
    BY <1>3, <1>6, <1>7
  <2>2. QED
    BY <1>1, <1>3, <1>5, <1>7, <2>1 DEF InOrder
<1>9. QED
  BY <1>3, <1>4, <1>7, <1>8

\* What is left of the log is some of it.
LEMMA FlushedLog ==
  ASSUME EngineTypeOK, InOrder(log), GraceFirst, NEW f \in Nat, log' = FlushLog(log, f)
  PROVE  /\ InOrder(log)' /\ GraceFirst'
         /\ \A i \in DOMAIN log' : i \in 1 .. Len(log') /\ log'[i].sample < f
<1>1. log \in Seq(Entries) /\ DOMAIN log = 1 .. Len(log)
  BY DEF EngineTypeOK, ControlTypes
<1>2. InOrder(FlushLog(log, f)) /\ FlushLog(log, f) \in Seq(Entries)
  BY <1>1, FlushOfLog, NewestIs
<1>3. DOMAIN log' = 1 .. Len(log')
  BY <1>2
<1>4. \A i \in 1 .. Len(log') : i \in 1 .. Len(log) /\ log'[i] = log[i] /\ log[i].sample < f
  BY <1>1, FlushOfLog
<1>5. InOrder(log)'
  BY <1>2 DEF InOrder
<1>6. GraceFirst'
  BY <1>1, <1>3, <1>4 DEF GraceFirst
<1>7. QED
  BY <1>3, <1>4, <1>5, <1>6

\* What is pushed is at the end, and the rest was there.
LEMMA PushedFrom ==
  ASSUME NEW l \in Seq(Entries), NEW q \in Entries
  PROVE  \A i \in DOMAIN PushEntry(l, q) :
            (\E j \in DOMAIN l : PushEntry(l, q)[i] = l[j]) \/ PushEntry(l, q)[i] = q
<1> DEFINE all == Append(l, q)
           new == PushEntry(l, q)
<1>1. PICK N \in Nat : /\ Len(l) = N /\ DOMAIN l = 1 .. N
                       /\ all \in Seq(Entries) /\ Len(all) = N + 1 /\ DOMAIN all = 1 .. N + 1
                       /\ all[N + 1] = q /\ \A i \in 1 .. N : all[i] = l[i]
  OBVIOUS
<1>2. new = all \/ new = Tail(all)
  BY DEF PushEntry
<1> HIDE DEF all, new
<1>3. \A i \in DOMAIN all : (\E j \in DOMAIN l : all[i] = l[j]) \/ all[i] = q
  BY <1>1
<1>4. new = Tail(all) => \A i \in DOMAIN new : i + 1 \in DOMAIN all /\ new[i] = all[i + 1]
  BY <1>1
<1>5. QED
  BY <1>2, <1>3, <1>4 DEF new

\* A step goes to the end of the log.
LEMMA StepFollowed ==
  ASSUME EngineInv, FollowInv, TickStep
  PROVE  FollowInv' /\ (StepSample(clock, sched.next) > 0 => HalfStepClear')
<1> DEFINE q == Entry(sched.next)
<1>1. /\ log' = PushEntry(log, q) /\ sched' = Advance(sched) /\ UNCHANGED clock /\ sched.playing
  BY DEF TickStep, StepDue
<1>2. /\ log \in Seq(Entries) /\ clock \in Clock /\ sched \in Scheds /\ sched.next \in Nat
  BY DEF EngineInv, EngineTypeOK, ControlTypes, Scheds
<1>3. PICK s \in Nat : s = StepSample(clock, sched.next)
  BY <1>2, PlaceOfStep
<1>4. q \in Entries /\ q.sample = s /\ q.first <= s
  <2>1. q \in Entries
    BY <1>2, EventsOfStep DEF EngineInv
  <2>2. GraceSample(s) <= s
    <3>1. FlamSamples \in Nat
      BY EngineAssumption
    <3>2. QED
      BY <1>3, <3>1 DEF GraceSample
  <2>3. QED
    BY <1>3, <2>1, <2>2 DEF Entry
<1> HIDE DEF q
<1>5. \A i \in DOMAIN log : log[i].sample <= q.sample
  BY <1>1, <1>3, <1>4 DEF FollowInv, NextFollows
<1>6. InOrder(log)'
  <2>1. InOrder(PushEntry(log, q))
    BY <1>2, <1>4, <1>5, StepLogged DEF FollowInv
  <2>2. QED
    BY <1>1, <2>1 DEF InOrder
<1>7. \A i \in DOMAIN log' : (\E j \in DOMAIN log : log'[i] = log[j]) \/ log'[i] = q
  BY <1>1, <1>2, <1>4, PushedFrom
<1>8. GraceFirst'
  BY <1>4, <1>7 DEF FollowInv, GraceFirst
<1>9. NextFollows'
  <2>1. StepSample(clock', sched'.next) = StepSample(clock, sched.next + 1)
    BY <1>1, <1>2 DEF Advance, Scheds
  <2>2. StepSample(clock, sched.next + 1) \in Nat /\ s <= StepSample(clock, sched.next + 1)
    <3>1. sched.next + 1 \in Nat
      BY <1>2
    <3>2. StepSample(clock, sched.next + 1) \in Nat
      BY <1>2, <3>1, PlaceOfStep
    <3>3. QED
      BY <1>2, <1>3, <3>2, StepsAscend
  <2>3. \A i \in DOMAIN log' : log'[i].sample \in Nat /\ log'[i].sample <= s
    <3>1. \A j \in DOMAIN log : log[j].sample \in Nat
      BY <1>2, EntryIs
    <3>2. QED
      BY <1>3, <1>4, <1>5, <1>7, <3>1
  <2>4. QED
    <3>1. \A a, b \in Nat : a <= s /\ s <= b => a <= b
      BY <1>3
    <3>2. QED
      BY <2>1, <2>2, <2>3, <3>1 DEF NextFollows
<1>10. StepSample(clock, sched.next) > 0 => HalfStepClear'
  <2>1. StepSample(clock', sched'.next) = StepSample(clock, sched.next + 1)
    BY <1>1, <1>2 DEF Advance, Scheds
  <2>2. clock.len \div 4 \in Nat
    BY <1>2 DEF Clock
  <2>3. PICK n \in Nat : n = StepSample(clock, sched.next + 1)
    <3>1. sched.next + 1 \in Nat
      BY <1>2
    <3>2. QED
      BY <1>2, <3>1, PlaceOfStep
  <2>4. s > 0 => s + clock.len \div 4 <= n
    BY <1>2, <1>3, <2>3, StepsAscend
  <2>5. \A i \in DOMAIN log' : log'[i].sample \in Nat /\ log'[i].sample <= s
    <3>1. \A j \in DOMAIN log : log[j].sample \in Nat
      BY <1>2, EntryIs
    <3>2. QED
      BY <1>3, <1>4, <1>5, <1>7, <3>1
  <2>6. PICK d \in Nat : d = clock.len \div 4
    BY <2>2
  <2>7. \A x \in Nat : x <= s /\ s + d <= n => x + d <= n
    BY <1>3, <2>3, <2>6
  <2>8. QED
    BY <1>1, <1>3, <2>1, <2>3, <2>4, <2>5, <2>6, <2>7 DEF HalfStepClear
<1>11. QED
  BY <1>6, <1>8, <1>9, <1>10 DEF FollowInv

\* A restart puts its first step on the commit point, behind all that is left of the log.
LEMMA RestartFollowed ==
  ASSUME EngineInv, FollowInv, NEW c \in Nat, log' = FlushLog(log, c), clock' \in Clock,
         StepSample(clock', sched'.next) \in Nat, c <= StepSample(clock', sched'.next)
  PROVE  FollowInv'
<1>1. InOrder(log)' /\ GraceFirst' /\ \A i \in DOMAIN log' : log'[i].sample < c
  BY FlushedLog DEF EngineInv, FollowInv
<1>2. \A i \in DOMAIN log' : log'[i].sample \in Nat
  <2>1. log' \in Seq(Entries)
    BY NewestIs DEF EngineInv, EngineTypeOK, ControlTypes
  <2>2. QED
    BY <2>1, EntryIs
<1>3. NextFollows'
  <2>1. \A a, b \in Nat : a < c /\ c <= b => a <= b
    OBVIOUS
  <2>2. QED
    BY <1>1, <1>2, <2>1 DEF NextFollows
<1>4. QED
  BY <1>1, <1>3 DEF FollowInv

\* A realign puts its next step half a step behind what is left of the log.
LEMMA RealignFollowed ==
  ASSUME EngineInv, FollowInv, NEW c \in Nat, NEW f, f = Cut(log, c).flush,
         log' = FlushLog(log, f), clock' \in Clock, NEW a \in Nat, NEW H,
         Cut(log, c).heard = <<>> \/ H = {2 * Cut(log, c).heard[1].sample},
         NEW from \in Nat, from = Max({a} \cup {HalfStepAfter(clock', h) : h \in H}),
         sched'.next = FirstStepAtOrAfter(clock', from)
  PROVE  /\ FollowInv'
         /\ from <= StepSample(clock', sched'.next)
         /\ \A i \in DOMAIN log' :
               log'[i].sample + clock'.len \div 4 <= StepSample(clock', sched'.next)
<1>1. log \in Seq(Entries)
  BY DEF EngineInv, EngineTypeOK, ControlTypes
<1>2. f \in Nat
  BY <1>1, CutIs
<1>3. InOrder(log)' /\ GraceFirst' /\ \A i \in DOMAIN log' : i \in 1 .. Len(log')
  BY <1>2, FlushedLog DEF EngineInv, FollowInv
<1>4. PICK s \in Nat : s = StepSample(clock', sched'.next) /\ from <= s
  <2>1. \A k \in Nat : StepSample(clock', k) \in Nat
    BY PlaceOfStep
  <2>2. /\ FirstStepAtOrAfter(clock', from) \in Nat
        /\ StepSample(clock', FirstStepAtOrAfter(clock', from)) >= from
    BY FirstStepIsFirst
  <2>3. StepSample(clock', sched'.next) \in Nat
    BY <2>1, <2>2
  <2>4. from <= StepSample(clock', sched'.next)
    BY <2>2, <2>3
  <2>5. QED
    BY <2>3, <2>4
<1>5. PICK d \in Nat : d = clock'.len \div 4
  BY DEF Clock
<1>6. ASSUME NEW i \in DOMAIN log'
      PROVE  log'[i].sample \in Nat /\ log'[i].sample + d <= s
  <2>1. i \in 1 .. Len(FlushLog(log, f))
    BY <1>3
  <2>2. PICK q \in Entries : Cut(log, c).heard = <<q>> /\ FlushLog(log, f)[i].sample <= q.sample
    BY <2>1, KeptIsHeard DEF EngineInv, FollowInv
  <2>3. H = {2 * q.sample}
    BY <2>2
  <2>4. q.sample + d <= from
    BY <1>5, <2>3, FromPasses
  <2>5. log'[i].sample \in Nat /\ log'[i].sample <= q.sample /\ q.sample \in Nat
    <3>1. log' \in Seq(Entries)
      BY <1>1, <1>2, NewestIs
    <3>2. log'[i] \in Entries
      BY <3>1
    <3>3. QED
      BY <2>2, <3>2 DEF Entries
  <2>6. \A u, v, w \in Nat : u <= v /\ v + d <= w /\ w <= s => u + d <= s
    BY <1>4, <1>5
  <2>7. QED
    BY <1>4, <2>4, <2>5, <2>6
<1>7. NextFollows'
  <2>1. \A u \in Nat : u + d <= s => u <= s
    BY <1>4, <1>5
  <2>2. QED
    BY <1>4, <1>6, <2>1 DEF NextFollows
<1>8. QED
  BY <1>3, <1>4, <1>5, <1>6, <1>7 DEF FollowInv

\* The first step of a restart is on its sample.
LEMMA DownbeatIs ==
  ASSUME NEW c \in Clock, NEW sample \in Nat
  PROVE  RestartAt(c, sample) \in Clock /\ StepSample(RestartAt(c, sample), 0) = sample
<1>1. c.anchor \in Int /\ c.len \in Nat /\ RestartAt(c, sample) \in Clock
  BY ClockMoves DEF Clock
<1>2. RestartAt(c, sample).anchor = 2 * sample /\ RestartAt(c, sample).len = c.len
  BY DEF RestartAt, Clock
<1>3. StepPosition(RestartAt(c, sample), 0) = 2 * sample
  <2>1. Late(RestartAt(c, sample), 0) = 0
    <3>1. c.len \div 4 \in Nat /\ Swing \in Nat
      BY <1>1, SwingAssumption
    <3>2. 0 % 2 = 0 /\ 0 * Swing * (c.len \div 4) = 0
      BY <3>1
    <3>3. QED
      BY <1>2, <3>2 DEF Late
  <2>2. 0 * c.len = 0
    BY <1>1
  <2>3. StepPosition(RestartAt(c, sample), 0)
        = RestartAt(c, sample).anchor + 0 * RestartAt(c, sample).len + Late(RestartAt(c, sample), 0)
    BY <1>1, PlaceOfStep
  <2>4. QED
    BY <1>2, <2>1, <2>2, <2>3
<1>4. QED
  BY <1>1, <1>3 DEF StepSample

LEMMA CallsFollow ==
  ASSUME EngineInv, FollowInv, StartInternal \/ StartFollow \/ Resync \/ Jump
  PROVE  /\ FollowInv'
         /\ \/ restarts' = Append(restarts, CommitPoint)
            \/ sched'.playing => HalfStepClear'
<1>1. PICK c \in Nat : c = CommitPoint
  BY Commits DEF EngineInv
<1>2. clock \in Clock /\ sched \in Scheds /\ log \in Seq(Entries) /\ now \in Nat /\ call \in Calls
  BY DEF EngineInv, EngineTypeOK, ControlTypes
<1>3. Cut(log, c).heard = <<>> \/ \E q \in Entries : Cut(log, c).heard = <<q>>
  BY <1>2, CutIs
<1>4. Cut(log, c).heard = <<>>
      \/ {2 * q.sample : q \in ToSet(Cut(log, c).heard)} = {2 * Cut(log, c).heard[1].sample}
  <2>1. ASSUME NEW q \in Entries, Cut(log, c).heard = <<q>>
        PROVE  {2 * e.sample : e \in ToSet(Cut(log, c).heard)} = {2 * Cut(log, c).heard[1].sample}
    <3>1. ToSet(<<q>>) = {q} /\ <<q>>[1] = q
      BY DEF ToSet
    <3>2. QED
      BY <2>1, <3>1
  <2>2. QED
    BY <1>3, <2>1
<1>5. CASE UNCHANGED log /\ ~sched.playing /\ UNCHANGED sched
  BY <1>5 DEF FollowInv, InOrder, GraceFirst, NextFollows
<1>5a. StartInternal \/ (Resync /\ sched.playing) => restarts' = Append(restarts, CommitPoint)
  BY DEF StartInternal, Resync
<1>6. CASE StartInternal
  <2>1. /\ log' = FlushLog(log, c) /\ clock' = RestartAt(clock, c) /\ sched' = StartAt(sched, 0)
    BY <1>1, <1>6 DEF StartInternal, DropQueued
  <2>2. sched'.next = 0
    BY <1>2, <2>1 DEF StartAt, Scheds
  <2>3. clock' \in Clock /\ StepSample(clock', sched'.next) = c
    BY <1>2, <2>1, <2>2, DownbeatIs
  <2>4. QED
    BY <1>5a, <1>6, <2>1, <2>3, RestartFollowed
<1>7. CASE Resync
  <2>1. CASE sched.playing
    <3>1. /\ log' = FlushLog(log, c) /\ clock' = RestartAt(clock, c)
          /\ sched' = Seek(sched, FirstStepAtOrAfter(clock', c), Unplayed(c))
      BY <1>1, <1>7, <2>1 DEF Resync, DropQueued
    <3>2. clock' \in Clock
      BY <1>2, <3>1, DownbeatIs
    <3>3. sched'.next = FirstStepAtOrAfter(clock', c)
      BY <1>2, <3>1 DEF Seek, Scheds
    <3>4. /\ FirstStepAtOrAfter(clock', c) \in Nat
          /\ StepSample(clock', FirstStepAtOrAfter(clock', c)) >= c
      BY <3>2, FirstStepIsFirst
    <3>5. StepSample(clock', sched'.next) \in Nat
      BY <3>2, <3>3, <3>4, PlaceOfStep
    <3>6. c <= StepSample(clock', sched'.next)
      BY <3>3, <3>4, <3>5
    <3>7. QED
      BY <1>5a, <1>7, <2>1, <3>1, <3>2, <3>5, <3>6, RestartFollowed
  <2>2. CASE ~sched.playing
    BY <1>5, <1>7, <2>2 DEF Resync
  <2>3. QED
    BY <2>1, <2>2
<1>8. CASE StartFollow
  <2> DEFINE H == {2 * q.sample : q \in ToSet(Cut(log, c).heard)}
             from == Max({c} \cup {HalfStepAfter(clock, h) : h \in H})
  <2>1. {HalfStepAfter(clock, 2 * q.sample) : q \in ToSet(Cut(log, c).heard)}
        = {HalfStepAfter(clock, h) : h \in H}
    OBVIOUS
  <2>2. /\ log' = FlushLog(log, Cut(log, c).flush) /\ UNCHANGED clock
        /\ sched' = StartAt(sched, FirstStepAtOrAfter(clock, from))
    BY <1>1, <1>8, <2>1 DEF StartFollow
  <2>3. H = {} \/ \E x \in Int : H = {x}
    <3>1. \A q \in Entries : 2 * q.sample \in Int
      BY DEF Entries
    <3>2. ToSet(<<>>) = {}
      BY DEF ToSet
    <3>3. ASSUME NEW q \in Entries, Cut(log, c).heard = <<q>>
          PROVE  \E x \in Int : H = {x}
      <4>1. ToSet(<<q>>) = {q}
        BY DEF ToSet
      <4>2. QED
        BY <3>1, <3>3, <4>1
    <3>4. QED
      BY <1>3, <3>2, <3>3
  <2>4. Cut(log, c).heard = <<>> \/ H = {2 * Cut(log, c).heard[1].sample}
    BY <1>4
  <2>5. from = Max({c} \cup {HalfStepAfter(clock', h) : h \in H})
    BY <2>2
  <2> HIDE DEF H
  <2>6. from \in Nat
    BY <1>2, <2>3, FromIs
  <2> HIDE DEF from
  <2>7. sched'.next = FirstStepAtOrAfter(clock', from)
    BY <1>2, <2>2 DEF StartAt, Scheds
  <2>8. QED
    BY <1>2, <2>2, <2>4, <2>5, <2>6, <2>7, RealignFollowed DEF HalfStepClear
<1>9. CASE Jump
  <2>1. CASE sched.playing
    <3> DEFINE unplayed == IF Cut(log, c).dropped = <<>> THEN sched.next
                           ELSE Cut(log, c).dropped[1].step
               grace == IF c < SnapGrace THEN 0 ELSE c - SnapGrace
               H == LastHeard(Cut(log, c), c, unplayed)
               from == Max({grace} \cup {HalfStepAfter(clock', h) : h \in H})
    <3>1. /\ log' = FlushLog(log, Cut(log, c).flush)
          /\ sched' = Seek(sched, FirstStepAtOrAfter(clock', from), unplayed)
      BY <1>1, <1>9, <2>1 DEF Jump, RealignContinuous
    <3>2. clock' \in Clock
      <4>1. call \in [op : {"jump"}, shift : Shifts, len : StepLens]
        BY <1>2, <1>9 DEF Jump, Calls, NoCall
      <4>2. call.shift \in Int /\ call.len \in Nat \ {0}
        BY <4>1, EngineAssumption
      <4>3. SetTempo(clock, call.len, now) \in Clock
        BY <1>2, <4>2, ClockMoves
      <4>4. QED
        BY <1>9, <4>2, <4>3, ClockMoves DEF Jump
    <3>3. unplayed \in Nat
      <4>1. Cut(log, c).dropped = <<>> \/ \E q \in Entries : Cut(log, c).dropped = <<q>>
        BY <1>2, CutIs
      <4>2. \A q \in Entries : <<q>>[1].step \in Nat
        BY DEF Entries
      <4>3. sched.next \in Nat
        BY <1>2 DEF Scheds
      <4>4. QED
        BY <4>1, <4>2, <4>3
    <3>4. grace \in Nat
      <4>1. SnapGrace \in Nat
        BY EngineAssumption
      <4>2. QED
        BY <4>1
    <3> HIDE DEF unplayed, grace
    <3>5. H = {} \/ \E x \in Int : H = {x}
      BY <3>3, HeardAtMostOnce DEF EngineInv
    <3>6. Cut(log, c).heard = <<>> \/ H = {2 * Cut(log, c).heard[1].sample}
      BY DEF LastHeard
    <3> HIDE DEF H
    <3>7. from \in Nat
      BY <3>2, <3>4, <3>5, FromIs
    <3> HIDE DEF from
    <3>8. sched'.next = FirstStepAtOrAfter(clock', from)
      BY <1>2, <3>1 DEF Seek, Scheds
    <3>9. QED
      BY <3>1, <3>2, <3>4, <3>6, <3>7, <3>8, RealignFollowed DEF from, HalfStepClear
  <2>2. CASE ~sched.playing
    BY <1>5, <1>9, <2>2 DEF Jump
  <2>3. QED
    BY <2>1, <2>2
<1>10. QED
  BY <1>6, <1>7, <1>8, <1>9

LEMMA FollowStarts ==
  ASSUME Init
  PROVE  FollowInv
<1>1. log = <<>> /\ DOMAIN <<>> = {} /\ ~sched.playing
  BY DEF Init, Stopped
<1>2. QED
  BY <1>1 DEF FollowInv, InOrder, GraceFirst, NextFollows

LEMMA FollowKeeps ==
  ASSUME EngineInv, FollowInv, [Next]_vars, [QuietCall => Unmoved]_vars
  PROVE  FollowInv'
<1>1. CASE UNCHANGED <<log, clock, sched>>
  BY <1>1 DEF FollowInv, InOrder, GraceFirst, NextFollows
<1>2. CASE UNCHANGED vars
  BY <1>1, <1>2 DEF vars, controlVars
<1>3. CASE Control
  <2>1. CASE StartInternal \/ StartFollow \/ Resync \/ Jump
    BY <2>1, CallsFollow
  <2>2. CASE TickStep
    BY <2>2, StepFollowed
  <2>3. CASE QuietCall
    <3>1. UNCHANGED log
      BY <2>3 DEF QuietCall
    <3>2. Unmoved
      <4>1. CASE UNCHANGED vars
        BY <4>1 DEF vars, controlVars, Unmoved
      <4>2. QED
        BY <2>3, <4>1
    <3>3. sched'.playing => sched.playing /\ sched'.next = sched.next
      <4>1. sched \in Scheds
        BY DEF EngineInv, EngineTypeOK, ControlTypes
      <4>2. CASE StopCall
        BY <4>1, <4>2 DEF StopCall, Stop, Scheds
      <4>3. CASE LimitRun
        BY <4>1, <4>3 DEF LimitRun, SetStopAfter, Scheds
      <4>4. CASE ChangeTempo \/ Replan \/ SetClockMode
        BY <4>4 DEF ChangeTempo, Replan, SetClockMode
      <4>5. QED
        BY <2>3, <4>2, <4>3, <4>4 DEF QuietCall
    <3>4. QED
      BY <3>1, <3>2, <3>3 DEF FollowInv, InOrder, GraceFirst, NextFollows, Unmoved
  <2>4. CASE TickEnd
    <3>1. UNCHANGED <<log, clock>> /\ (UNCHANGED sched \/ sched' = Stop(sched))
      BY <2>4 DEF TickEnd
    <3>2. sched' = Stop(sched) => ~sched'.playing
      <4>1. sched \in Scheds
        BY DEF EngineInv, EngineTypeOK, ControlTypes
      <4>2. QED
        BY <4>1 DEF Stop, Scheds
    <3>3. QED
      BY <3>1, <3>2 DEF FollowInv, InOrder, GraceFirst, NextFollows
  <2>5. CASE \/ \E c \in RealignCalls : BeginCall(c)
             \/ SetParam \/ TickBegin \/ TickNote \/ PushEvent \/ PushFails
    <3>1. UNCHANGED <<log, clock, sched>>
      BY <2>5 DEF BeginCall, SetParam, TickBegin, TickNote, PushEvent, PushFails, controlVars
    <3>2. QED
      BY <1>1, <3>1
  <2>6. QED
    BY <1>3, <2>1, <2>2, <2>3, <2>4, <2>5 DEF Control
<1>4. CASE Render
  BY <1>1, <1>4 DEF Render, RenderStart, RenderBlock, controlVars
<1>5. QED
  BY <1>2, <1>3, <1>4 DEF Next, Finished

(* Steps are scheduled in the order in which they are to sound: while no     *)
(* tempo change and no nudge moves the timeline under a pattern that plays,  *)
(* no step is put in front of one that is queued, through every restart,     *)
(* resync, jump and start while following (control.rs, realign_continuous    *)
(* and drop_queued_from; ADR-0011: "no sooner than half a step after the     *)
(* last step heard").                                                        *)
THEOREM StepsFollow == Spec /\ [][QuietCall => Unmoved]_vars => [][TickStep => StepFollows]_vars
<1>1. Init => EngineInv /\ FollowInv
  BY InitEngine, FollowStarts
<1>2. EngineInv /\ FollowInv /\ [Next]_vars /\ [QuietCall => Unmoved]_vars
      => (EngineInv /\ FollowInv)'
  BY EngineKeeps, FollowKeeps
<1>3. EngineInv /\ FollowInv => [TickStep => StepFollows]_vars
  BY DEF FollowInv, NextFollows, StepFollows, TickStep, StepDue
<1>4. QED
  BY <1>1, <1>2, <1>3, PTL DEF Spec

-----------------------------------------------------------------------------
(* No hit is heard twice                                                     *)

\* A hit by its sample and the continuation it is of; the places it may be at
\* when it was heard or nothing takes it back.
Beat(x) == <<x.sample, x.epoch>>
HeardHit(b, i) == i \in DOMAIN heard /\ IsHit(heard[i]) /\ Beat(heard[i]) = b
HeldHit(b, i) ==
    i \in DOMAIN pending /\ IsHit(pending[i]) /\ Beat(pending[i]) = b /\ Passes(pending[i], 0)
QueuedHit(b, i) ==
    i \in DOMAIN queue /\ IsHit(queue[i]) /\ Beat(queue[i]) = b /\ Passes(queue[i], i)
ToPushHit(b, i) == i \in DOMAIN todo /\ IsHit(todo[i]) /\ Beat(todo[i]) = b

WasHeard(b) == \E i \in Nat : HeardHit(b, i)
IsHeld(b) == \E i \in Nat : HeldHit(b, i)
IsQueued(b) == \E i \in Nat : QueuedHit(b, i)
IsToPush(b) == \E i \in Nat : ToPushHit(b, i)
Sounds(b) == WasHeard(b) \/ IsHeld(b) \/ IsQueued(b) \/ IsToPush(b)

\* Of two hits that sound, a is the one that is in front.
Ahead(a, b) ==
    \/ \E i, j \in Nat : i < j /\ HeardHit(a, i) /\ HeardHit(b, j)
    \/ \E i, j \in Nat : i < j /\ HeldHit(a, i) /\ HeldHit(b, j)
    \/ \E i, j \in Nat : i < j /\ QueuedHit(a, i) /\ QueuedHit(b, j)
    \/ \E i, j \in Nat : i < j /\ ToPushHit(a, i) /\ ToPushHit(b, j)
    \/ WasHeard(a) /\ (IsHeld(b) \/ IsQueued(b) \/ IsToPush(b))
    \/ IsHeld(a) /\ (IsQueued(b) \/ IsToPush(b))
    \/ IsQueued(a) /\ IsToPush(b)

\* Of the same continuation, b comes half a step after a.
Spaced(a, b) == a[2] = b[2] => a[1] + HalfStep <= b[1]

\* An insertion puts an event at one place and moves up what is behind it.
InsertedAs(held, e, new, n, N) ==
    /\ n <= N /\ DOMAIN held = 1 .. N /\ DOMAIN new = 1 .. N + 1
    /\ new[n + 1] = e
    /\ \A k \in 1 .. n : new[k] = held[k]
    /\ \A k \in n + 2 .. N + 1 : new[k] = held[k - 1]

LEMMA InsertPlaces ==
  ASSUME NEW S, NEW held \in Seq(S), NEW e \in S
  PROVE  \E n \in Nat, N \in Nat : InsertedAs(held, e, InsertPending(held, e), n, N)
<1>1. PICK a \in Seq(S), b \in Seq(S) :
        /\ held = a \o b
        /\ InsertPending(held, e) = (a \o <<e>>) \o b
        /\ \A i \in DOMAIN b : ~(b[i].sample <= e.sample)
        /\ a # <<>> => a[Len(a)].sample <= e.sample
  BY InsertIs
<1> DEFINE c == a \o <<e>>
           d == c \o b
           h == a \o b
<1>2. PICK n \in Nat, m \in Nat :
        /\ DOMAIN a = 1 .. n /\ Len(a) = n /\ DOMAIN b = 1 .. m /\ Len(b) = m
  OBVIOUS
<1>3. /\ c \in Seq(S) /\ Len(c) = n + 1
      /\ c[n + 1] = e /\ \A k \in 1 .. n : c[k] = a[k]
  BY <1>2
<1> HIDE DEF c
<1>4. /\ DOMAIN d = 1 .. n + 1 + m
      /\ \A k \in 1 .. n + 1 : d[k] = c[k]
      /\ \A k \in 1 .. m : d[n + 1 + k] = b[k]
  <2>1. c \in Seq(S)
    BY <1>3
  <2>1a. d \in Seq(S)
    BY <2>1
  <2>1b. Len(d) = Len(c) + Len(b)
    BY <2>1
  <2>2. /\ \A k \in 1 .. Len(c) : d[k] = c[k]
        /\ \A k \in 1 .. Len(b) : d[Len(c) + k] = b[k]
    BY <1>3
  <2>3. DOMAIN d = 1 .. Len(d)
    BY <2>1a
  <2> HIDE DEF d
  <2>4. QED
    BY <1>2, <1>3, <2>1b, <2>2, <2>3
<1>5. /\ DOMAIN h = 1 .. n + m
      /\ \A k \in 1 .. n : h[k] = a[k]
      /\ \A k \in 1 .. m : h[n + k] = b[k]
  BY <1>2
<1>6. held = h /\ InsertPending(held, e) = d
  BY <1>1 DEF c
<1> HIDE DEF h, d
<1>7. d[n + 1] = e /\ \A k \in 1 .. n : d[k] = h[k]
  <2>1. n + 1 \in 1 .. n + 1 /\ \A k \in 1 .. n : k \in 1 .. n + 1
    BY <1>2
  <2>2. QED
    BY <1>3, <1>4, <1>5, <2>1
<1>8. ASSUME NEW k \in n + 2 .. n + m + 1
      PROVE  d[k] = h[k - 1]
  <2>1. PICK j \in 1 .. m : k = n + 1 + j
    <3>1. k - (n + 1) \in 1 .. m /\ k = n + 1 + (k - (n + 1))
      BY <1>2
    <3>2. QED
      BY <3>1
  <2>2. k - 1 = n + j
    BY <1>2, <2>1
  <2>3. QED
    BY <1>4, <1>5, <2>1, <2>2
<1>9. n + m \in Nat /\ n <= n + m /\ n + 1 + m = n + m + 1
  BY <1>2
<1>10. n + m + 1 = (n + m) + 1
  BY <1>2
<1>11. InsertedAs(h, e, d, n, n + m)
  BY <1>4, <1>5, <1>7, <1>8, <1>9, <1>10 DEF InsertedAs
<1>12. QED
  BY <1>6, <1>9, <1>11

\* What does not touch the places of hits leaves their order.
LEMMA StillAhead ==
  ASSUME NEW a, NEW b,
         \A c, i : HeardHit(c, i)' => HeardHit(c, i),
         \A c, i : HeldHit(c, i)' => HeldHit(c, i),
         \A c, i : QueuedHit(c, i)' => QueuedHit(c, i),
         \A c, i : ToPushHit(c, i)' => ToPushHit(c, i)
  PROVE  (Ahead(a, b)' => Ahead(a, b)) /\ \A c : Sounds(c)' => Sounds(c)
BY DEF Ahead, WasHeard, IsHeld, IsQueued, IsToPush, Sounds

\* What is heard and what is to push, when nothing touches either.
LEMMA EndsStay ==
  ASSUME NEW c, NEW i
  PROVE  /\ UNCHANGED heard => (HeardHit(c, i)' <=> HeardHit(c, i))
         /\ UNCHANGED todo => (ToPushHit(c, i)' <=> ToPushHit(c, i))
BY DEF HeardHit, ToPushHit, IsHit, Beat

\* The same for what is held and queued, when a flush behind it stays one.
LEMMA MiddleStays ==
  ASSUME NEW c, NEW i
  PROVE  /\ UNCHANGED pending /\ (\A x : Passes(x, 0)' => Passes(x, 0))
              => (HeldHit(c, i)' => HeldHit(c, i))
         /\ UNCHANGED queue /\ (\A x : Passes(x, i)' => Passes(x, i))
              => (QueuedHit(c, i)' => QueuedHit(c, i))
<1>1. ASSUME UNCHANGED pending, \A x : Passes(x, 0)' => Passes(x, 0), HeldHit(c, i)'
      PROVE  HeldHit(c, i)
  <2>1. PICK x : x = pending[i]
    OBVIOUS
  <2>2. Passes(x, 0)' => Passes(x, 0)
    BY <1>1
  <2>3. QED
    BY <1>1, <2>1, <2>2 DEF HeldHit, Passes, LeftAlone, TakesBack, IsHit, Beat
<1>2. ASSUME UNCHANGED queue, \A x : Passes(x, i)' => Passes(x, i), QueuedHit(c, i)'
      PROVE  QueuedHit(c, i)
  <2>1. PICK x : x = queue[i]
    OBVIOUS
  <2>2. Passes(x, i)' => Passes(x, i)
    BY <1>2
  <2>3. QED
    BY <1>2, <2>1, <2>2 DEF QueuedHit, Passes, LeftAlone, TakesBack, IsHit, Beat
<1>3. QED
  BY <1>1, <1>2

\* A realign or restart only adds a flush to push.
LEMMA FlushBehind ==
  ASSUME todo = <<>>, NEW f, todo' = <<>> \/ todo' = <<FlushEvent(f)>>,
         UNCHANGED <<queue, pending, heard>>, NEW a, NEW b
  PROVE  /\ \A c, i : ToPushHit(c, i)' => ToPushHit(c, i)
         /\ \A x, i : Passes(x, i)' => Passes(x, i)
         /\ Ahead(a, b)' => Ahead(a, b)
         /\ \A c : Sounds(c)' => Sounds(c)
<1>1. \A i \in DOMAIN todo' : todo'[i].kind = "flush"
  BY DEF FlushEvent
<1>2. DOMAIN todo = {}
  OBVIOUS
<1>3. \A c, i : ToPushHit(c, i)' => ToPushHit(c, i)
  BY <1>1 DEF ToPushHit, IsHit
<1>4. \A x, i : Passes(x, i)' => Passes(x, i)
  BY <1>2 DEF Passes, LeftAlone, TakesBack
<1>5. (Ahead(a, b)' => Ahead(a, b)) /\ \A c : Sounds(c)' => Sounds(c)
  <2>1. \A c, i : HeardHit(c, i)' => HeardHit(c, i)
    BY EndsStay
  <2>2. \A c, i : HeldHit(c, i)' => HeldHit(c, i)
    BY <1>4, MiddleStays
  <2>3. \A c, i : QueuedHit(c, i)' => QueuedHit(c, i)
    BY <1>4, MiddleStays
  <2>4. QED
    BY <1>3, <2>1, <2>2, <2>3, StillAhead
<1>6. QED
  BY <1>3, <1>4, <1>5

\* A push moves a hit from the front of the call's events to the end of the queue.
LEMMA PushAhead ==
  ASSUME EngineInv, PushEvent, NEW a, NEW b
  PROVE  (Ahead(a, b)' => Ahead(a, b)) /\ \A c : Sounds(c)' => Sounds(c)
<1>0. PICK e : e = Head(todo)
  OBVIOUS
<1>1. /\ todo # <<>> /\ queue' = Append(queue, e) /\ todo' = Tail(todo)
      /\ UNCHANGED <<pending, heard>>
      /\ todo \in Seq(Events) /\ queue \in Seq(Events)
  BY <1>0 DEF PushEvent, renderVars, EngineInv, EngineTypeOK, RenderTypes, ControlTypes
<1>2. PICK N \in Nat :
      /\ DOMAIN queue = 1 .. N /\ DOMAIN queue' = 1 .. N + 1
      /\ queue'[N + 1] = e /\ \A j \in 1 .. N : queue'[j] = queue[j]
  BY <1>1
<1>3. /\ 1 \in DOMAIN todo /\ todo[1] = e
      /\ \A i \in DOMAIN todo' : i + 1 \in DOMAIN todo /\ todo'[i] = todo[i + 1] /\ i \in Nat
      /\ \A j \in DOMAIN todo : j # 1 => j - 1 \in DOMAIN todo' /\ todo'[j - 1] = todo[j]
  BY <1>0, <1>1
<1>4. \A x : \A i \in 0 .. N : Passes(x, i)' => Passes(x, i)
  <2> SUFFICES ASSUME NEW x, NEW i \in 0 .. N, Passes(x, i)'
               PROVE  Passes(x, i)
    OBVIOUS
  <2>1. N + 1 \in DOMAIN queue' /\ i < N + 1
    BY <1>2
  <2>2. ~TakesBack(e, x)
    BY <1>2, <2>1 DEF Passes
  <2>3. LeftAlone(x)
    BY <1>3, <2>2 DEF Passes, LeftAlone, TakesBack
  <2>4. \A j \in DOMAIN queue : j \in DOMAIN queue' /\ queue'[j] = queue[j]
    BY <1>2
  <2>5. \A j \in DOMAIN queue : i < j => ~TakesBack(queue[j], x)
    BY <2>4 DEF Passes, TakesBack
  <2>6. QED
    BY <2>3, <2>5 DEF Passes
<1>5. \A c, i : HeardHit(c, i)' => HeardHit(c, i)
  BY <1>1, EndsStay
<1>6. \A c, i : HeldHit(c, i)' => HeldHit(c, i)
  <2>1. \A x : Passes(x, 0)' => Passes(x, 0)
    BY <1>2, <1>4
  <2>2. QED
    BY <1>1, <2>1, MiddleStays
<1>7. \A c, i : QueuedHit(c, i)' =>
        (QueuedHit(c, i) /\ i < N + 1) \/ (i = N + 1 /\ ToPushHit(c, 1))
  <2> SUFFICES ASSUME NEW c, NEW i, QueuedHit(c, i)'
               PROVE  (QueuedHit(c, i) /\ i < N + 1) \/ (i = N + 1 /\ ToPushHit(c, 1))
    OBVIOUS
  <2>1. PICK x : x = queue'[i]
    OBVIOUS
  <2>2. i \in DOMAIN queue' /\ IsHit(x) /\ Beat(x) = c /\ Passes(x, i)'
    BY <2>1 DEF QueuedHit, IsHit, Beat, Passes, LeftAlone, TakesBack
  <2>3. CASE i = N + 1
    BY <1>2, <1>3, <2>1, <2>2, <2>3 DEF ToPushHit
  <2>4. CASE i \in 1 .. N
    <3>1. x = queue[i] /\ i \in DOMAIN queue /\ i < N + 1 /\ i \in 0 .. N
      BY <1>2, <2>1, <2>4
    <3>2. Passes(x, i)
      BY <1>4, <2>2, <3>1
    <3>3. QED
      BY <2>2, <3>1, <3>2 DEF QueuedHit
  <2>5. QED
    BY <1>2, <2>2, <2>3, <2>4
<1>8. \A c, i : ToPushHit(c, i)' => ToPushHit(c, i + 1) /\ i \in Nat /\ 1 < i + 1
  <2>1. \A i \in DOMAIN todo' : 1 < i + 1
    BY <1>1
  <2>2. QED
    BY <1>3, <2>1 DEF ToPushHit, IsHit, Beat
<1>9. \A c : /\ WasHeard(c)' => WasHeard(c)
             /\ IsHeld(c)' => IsHeld(c)
             /\ IsQueued(c)' => IsQueued(c) \/ IsToPush(c)
             /\ IsToPush(c)' => IsToPush(c)
  <2>1. 1 \in Nat /\ \A i \in Nat : i + 1 \in Nat
    OBVIOUS
  <2>2. QED
    BY <1>5, <1>6, <1>7, <1>8, <2>1 DEF WasHeard, IsHeld, IsQueued, IsToPush
<1>10. ASSUME Ahead(a, b)'
       PROVE  Ahead(a, b)
  <2>1. CASE \E i, j \in Nat : i < j /\ HeardHit(a, i)' /\ HeardHit(b, j)'
    BY <1>5, <2>1 DEF Ahead
  <2>2. CASE \E i, j \in Nat : i < j /\ HeldHit(a, i)' /\ HeldHit(b, j)'
    BY <1>6, <2>2 DEF Ahead
  <2>3. CASE \E i, j \in Nat : i < j /\ QueuedHit(a, i)' /\ QueuedHit(b, j)'
    <3>1. PICK i \in Nat, j \in Nat : i < j /\ QueuedHit(a, i)' /\ QueuedHit(b, j)'
      BY <2>3
    <3>2. j <= N + 1 /\ i < N + 1
      BY <1>2, <1>7, <3>1
    <3>3. QueuedHit(a, i)
      BY <1>7, <3>1, <3>2
    <3>4. QueuedHit(b, j) \/ ToPushHit(b, 1)
      BY <1>7, <3>1
    <3>5. QED
      BY <3>1, <3>3, <3>4 DEF Ahead, IsQueued, IsToPush
  <2>4. CASE \E i, j \in Nat : i < j /\ ToPushHit(a, i)' /\ ToPushHit(b, j)'
    <3>1. PICK i \in Nat, j \in Nat : i < j /\ ToPushHit(a, i)' /\ ToPushHit(b, j)'
      BY <2>4
    <3>2. i + 1 \in Nat /\ j + 1 \in Nat /\ i + 1 < j + 1
      BY <3>1
    <3>3. ToPushHit(a, i + 1) /\ ToPushHit(b, j + 1)
      BY <1>8, <3>1
    <3>4. QED
      BY <3>2, <3>3 DEF Ahead
  <2>5. CASE WasHeard(a)' /\ (IsHeld(b)' \/ IsQueued(b)' \/ IsToPush(b)')
    BY <1>9, <2>5 DEF Ahead
  <2>6. CASE IsHeld(a)' /\ (IsQueued(b)' \/ IsToPush(b)')
    BY <1>9, <2>6 DEF Ahead
  <2>7. CASE IsQueued(a)' /\ IsToPush(b)'
    <3>1. IsToPush(b) /\ (IsQueued(a) \/ \E i \in Nat : QueuedHit(a, i)' /\ ToPushHit(a, 1))
      BY <1>7, <1>9, <2>7 DEF IsQueued
    <3>2. PICK j \in Nat : ToPushHit(b, j + 1) /\ 1 < j + 1
      BY <1>8, <2>7 DEF IsToPush
    <3>3. j + 1 \in Nat /\ 1 \in Nat
      OBVIOUS
    <3>4. QED
      BY <3>1, <3>2, <3>3 DEF Ahead
  <2>8. QED
    BY <1>10, <2>1, <2>2, <2>3, <2>4, <2>5, <2>6, <2>7 DEF Ahead
<1>11. QED
  BY <1>9, <1>10 DEF Sounds

\* A parameter at the end of the queue is no hit and takes none back.
LEMMA ParamAhead ==
  ASSUME EngineInv, NEW e, ~IsHit(e), queue' = Append(queue, e),
         UNCHANGED <<pending, heard, todo>>, NEW a, NEW b
  PROVE  (Ahead(a, b)' => Ahead(a, b)) /\ \A c : Sounds(c)' => Sounds(c)
<1>1. queue \in Seq(Events)
  BY DEF EngineInv, EngineTypeOK, RenderTypes
<1>2. PICK N \in Nat : /\ DOMAIN queue = 1 .. N /\ DOMAIN queue' = 1 .. N + 1
                       /\ queue'[N + 1] = e /\ \A j \in 1 .. N : queue'[j] = queue[j]
  BY <1>1
<1>3. \A j \in DOMAIN queue : j \in DOMAIN queue' /\ queue'[j] = queue[j]
  BY <1>2
<1>4. \A x, i : Passes(x, i)' => Passes(x, i)
  BY <1>3 DEF Passes, LeftAlone, TakesBack
<1>5. \A c, i : QueuedHit(c, i)' => QueuedHit(c, i)
  <2> SUFFICES ASSUME NEW c, NEW i, QueuedHit(c, i)'
               PROVE  QueuedHit(c, i)
    OBVIOUS
  <2>1. PICK x : x = queue'[i]
    OBVIOUS
  <2>2. i \in DOMAIN queue' /\ IsHit(x) /\ Beat(x) = c /\ Passes(x, i)'
    BY <2>1 DEF QueuedHit, IsHit, Beat, Passes, LeftAlone, TakesBack
  <2>3. i \in DOMAIN queue /\ x = queue[i]
    BY <1>2, <2>1, <2>2
  <2>4. QED
    BY <1>4, <2>2, <2>3 DEF QueuedHit
<1>6. \A c, i : HeardHit(c, i)' => HeardHit(c, i)
  BY EndsStay
<1>7. \A c, i : ToPushHit(c, i)' => ToPushHit(c, i)
  BY EndsStay
<1>8. \A c, i : HeldHit(c, i)' => HeldHit(c, i)
  BY <1>4, MiddleStays
<1>9. QED
  BY <1>5, <1>6, <1>7, <1>8, StillAhead

\* A step that is scheduled comes behind all that sound.
LEMMA StepAhead ==
  ASSUME EngineInv, TickStep, NEW a, NEW b
  PROVE  /\ Ahead(a, b)' =>
              \/ Ahead(a, b)
              \/ Sounds(a) /\ b = <<StepSample(clock, sched.next), Len(restarts)>>
         /\ \A c : Sounds(c)' =>
              Sounds(c) \/ c = <<StepSample(clock, sched.next), Len(restarts)>>
<1>1. PICK step, s : step = sched.next /\ s = StepSample(clock, sched.next)
  OBVIOUS
<1>2. todo = <<>> /\ todo' = StepEvents(step) /\ UNCHANGED <<queue, pending, heard>>
  BY <1>1 DEF TickStep, renderVars
<1>3. PICK g, h : /\ g.kind = "grace" /\ h.kind = "hit" /\ Beat(h) = <<s, Len(restarts)>>
                  /\ todo' = <<g, h>> \/ todo' = <<h>>
  <2> DEFINE g == Trigger("grace", GraceSample(s), step)
             h == Trigger("hit", s, step)
  <2>1. todo' = <<g, h>> \/ todo' = <<h>>
    BY <1>1, <1>2 DEF StepEvents
  <2>2. g.kind = "grace" /\ h.kind = "hit" /\ Beat(h) = <<s, Len(restarts)>>
    BY DEF Trigger, Beat
  <2>3. QED
    BY <2>1, <2>2
<1>4. /\ \A i \in DOMAIN todo' : todo'[i] = g \/ todo'[i] = h
      /\ \A i, j \in DOMAIN todo' : i < j => todo'[i] = g
      /\ DOMAIN todo = {}
  <2>1. DOMAIN todo = {}
    BY <1>2
  <2>2. CASE todo' = <<g, h>>
    <3>1. DOMAIN todo' = 1 .. 2 /\ todo'[1] = g /\ todo'[2] = h
      BY <2>2
    <3>2. QED
      BY <2>1, <3>1
  <2>3. CASE todo' = <<h>>
    <3>1. DOMAIN todo' = 1 .. 1 /\ todo'[1] = h
      BY <2>3
    <3>2. QED
      BY <2>1, <3>1
  <2>4. QED
    BY <1>3, <2>2, <2>3
<1>5. \A x, i : Passes(x, i)' => Passes(x, i)
  BY <1>2, <1>4 DEF Passes, LeftAlone, TakesBack
<1>6. \A c, i : HeardHit(c, i)' => HeardHit(c, i)
  BY <1>2, EndsStay
<1>7. \A c, i : HeldHit(c, i)' => HeldHit(c, i)
  BY <1>2, <1>5, MiddleStays
<1>8. \A c, i : QueuedHit(c, i)' => QueuedHit(c, i)
  BY <1>2, <1>5, MiddleStays
<1>9. \A c, i : ToPushHit(c, i)' => todo'[i] = h /\ i \in DOMAIN todo' /\ c = <<s, Len(restarts)>>
  BY <1>3, <1>4 DEF ToPushHit, IsHit, Beat
<1>10. ~\E i, j \in Nat : i < j /\ ToPushHit(a, i)' /\ ToPushHit(b, j)'
  BY <1>3, <1>4, <1>9
<1>11. \A c : /\ WasHeard(c)' => WasHeard(c)
              /\ IsHeld(c)' => IsHeld(c)
              /\ IsQueued(c)' => IsQueued(c)
              /\ IsToPush(c)' => c = <<s, Len(restarts)>>
  BY <1>6, <1>7, <1>8, <1>9 DEF WasHeard, IsHeld, IsQueued, IsToPush
<1>12. QED
  BY <1>1, <1>6, <1>7, <1>8, <1>10, <1>11 DEF Ahead, Sounds

LEMMA HalfStepIs == HalfStep \in Nat
<1>1. StepLens # {} /\ IsFiniteSet(StepLens) /\ StepLens \subseteq Nat
  BY EngineAssumption
<1>2. Min(StepLens) \in Nat /\ \A n \in StepLens : Min(StepLens) <= n
  BY <1>1, MinIs
<1>3. QED
  BY <1>2 DEF HalfStep

\* A pull moves the first of the queue to its place among what is held: not in
\* front of a hit it came behind.
LEMMA PullAhead ==
  ASSUME EngineInv, HeldInOrder', RenderPull, UNCHANGED todo,
         NEW a \in Nat \X Nat, NEW b \in Nat \X Nat,
         Ahead(a, b) => Spaced(a, b), Ahead(b, a) => Spaced(b, a)
  PROVE  (Ahead(a, b)' => Spaced(a, b)) /\ \A c : Sounds(c)' => Sounds(c)
<1>0. PICK e : e = Head(queue)
  OBVIOUS
<1>1. /\ queue # <<>> /\ queue' = Tail(queue) /\ UNCHANGED heard
      /\ pending' = IF e.kind = "flush" THEN FlushPending(pending, e.sample)
                                        ELSE InsertPending(pending, e)
      /\ queue \in Seq(Events) /\ pending \in Seq(Events)
  BY <1>0 DEF RenderPull, CanPull, EngineInv, EngineTypeOK, RenderTypes
<1>2. PICK Q \in Nat : DOMAIN queue = 1 .. Q /\ DOMAIN queue' = 1 .. Q - 1
  BY <1>1
<1>3. /\ e \in Events /\ 1 \in DOMAIN queue /\ queue[1] = e
      /\ \A i \in DOMAIN queue' : i + 1 \in DOMAIN queue /\ queue'[i] = queue[i + 1] /\ i \in Nat
      /\ \A j \in DOMAIN queue : j # 1 => j - 1 \in DOMAIN queue' /\ queue'[j - 1] = queue[j]
  BY <1>0, <1>1
<1>4. \A x : \A i \in Nat : Passes(x, i)' => Passes(x, i + 1)
  <2> SUFFICES ASSUME NEW x, NEW i \in Nat, Passes(x, i)'
               PROVE  Passes(x, i + 1)
    OBVIOUS
  <2>1. ASSUME NEW j \in DOMAIN queue, i + 1 < j
        PROVE  j - 1 \in DOMAIN queue' /\ i < j - 1 /\ queue'[j - 1] = queue[j]
    BY <1>2, <1>3, <2>1
  <2>2. LeftAlone(x)
    BY DEF Passes, LeftAlone, TakesBack
  <2>3. QED
    BY <2>1, <2>2 DEF Passes, TakesBack
<1>5. \A x : Passes(x, 1) /\ ~TakesBack(e, x) => Passes(x, 0)
  <2>1. \A j \in DOMAIN queue : j = 1 \/ 1 < j
    BY <1>2
  <2>2. QED
    BY <1>3, <2>1 DEF Passes
<1>6. \A c, i : HeardHit(c, i)' => HeardHit(c, i)
  BY <1>1, EndsStay
<1>7. \A c, i : ToPushHit(c, i)' => ToPushHit(c, i)
  BY EndsStay
<1>8. \A c, i : QueuedHit(c, i)' => QueuedHit(c, i + 1) /\ i + 1 \in Nat /\ 1 < i + 1
  <2> SUFFICES ASSUME NEW c, NEW i, QueuedHit(c, i)'
               PROVE  QueuedHit(c, i + 1) /\ i + 1 \in Nat /\ 1 < i + 1
    OBVIOUS
  <2>1. PICK x : x = queue'[i]
    OBVIOUS
  <2>2. i \in DOMAIN queue' /\ IsHit(x) /\ Beat(x) = c /\ Passes(x, i)'
    BY <2>1 DEF QueuedHit, IsHit, Beat, Passes, LeftAlone, TakesBack
  <2>3. i \in Nat /\ i + 1 \in DOMAIN queue /\ x = queue[i + 1] /\ 1 < i + 1
    BY <1>2, <1>3, <2>1, <2>2
  <2>4. Passes(x, i + 1)
    BY <1>4, <2>2, <2>3
  <2>5. QED
    BY <2>2, <2>3, <2>4 DEF QueuedHit
<1>9. \A c : /\ WasHeard(c)' => WasHeard(c)
             /\ IsQueued(c)' => IsQueued(c)
             /\ IsToPush(c)' => IsToPush(c)
  BY <1>6, <1>7, <1>8 DEF WasHeard, IsQueued, IsToPush
<1>10. ASSUME NEW c, NEW k, HeldHit(c, k)', NEW i, i \in DOMAIN pending, pending'[k] = pending[i],
              ~TakesBack(e, pending[i])
       PROVE  HeldHit(c, i)
  <2>1. PICK x : x = pending'[k]
    OBVIOUS
  <2>2. IsHit(x) /\ Beat(x) = c /\ Passes(x, 0)'
    BY <1>10, <2>1 DEF HeldHit, IsHit, Beat, Passes, LeftAlone, TakesBack
  <2>3. Passes(x, 1)
    BY <1>4, <2>2
  <2>4. Passes(x, 0)
    BY <1>5, <1>10, <2>1, <2>3
  <2>5. QED
    BY <1>10, <2>1, <2>2, <2>4 DEF HeldHit
<1>11. ASSUME NEW c, NEW k, HeldHit(c, k)', pending'[k] = e
       PROVE  QueuedHit(c, 1)
  <2>1. IsHit(e) /\ Beat(e) = c /\ Passes(e, 0)'
    BY <1>11 DEF HeldHit, IsHit, Beat, Passes, LeftAlone, TakesBack
  <2>2. Passes(e, 1)
    BY <1>4, <2>1
  <2>3. QED
    BY <1>3, <2>1, <2>2 DEF QueuedHit
<1>12. \A c, k : HeldHit(c, k)' => k \in DOMAIN pending' /\ pending'[k].sample = c[1] /\ IsHit(pending'[k])
  BY DEF HeldHit, Beat, IsHit
<1>13. /\ \A c : IsHeld(c)' => IsHeld(c) \/ QueuedHit(c, 1)
       /\ \A i, j \in Nat : i < j /\ HeldHit(a, i)' /\ HeldHit(b, j)' =>
             \/ Ahead(a, b)
             \/ Ahead(b, a) /\ a[1] <= b[1]
  <2>1. CASE e.kind = "flush"
    <3>1. \A x \in Events : IsHit(x) => x.sample \in Nat
      BY EventIs
    <3>2. e.sample \in Nat
      BY <1>3, EventIs
    <3>3. pending' = FlushPending(pending, e.sample)
      BY <1>1, <2>1
    <3> DEFINE K == {i \in DOMAIN pending : ~(IsTrigger(pending[i]) /\ pending[i].sample >= e.sample)}
    <3>4. K \in SUBSET DOMAIN pending /\ pending' = Places(pending, K)
      BY <3>3 DEF FlushPending
    <3>5. \A i \in K : IsHit(pending[i]) => ~TakesBack(e, pending[i])
      <4>1. \A i \in DOMAIN pending : pending[i] \in Events
        BY <1>1
      <4>2. QED
        BY <3>1, <3>2, <4>1 DEF IsHit, IsTrigger, TakesBack
    <3> HIDE DEF K
    <3>6. /\ \A k \in DOMAIN pending' : \E i \in K : pending'[k] = pending[i]
          /\ \A k, l \in DOMAIN pending' :
               k < l => \E i, j \in K : i < j /\ pending'[k] = pending[i] /\ pending'[l] = pending[j]
      <4> DEFINE all == Places(pending, K)
      <4>1. \A k \in DOMAIN all : \E i \in K : all[k] = pending[i]
        BY <1>1, <3>4, PlacesFrom
      <4>2. \A k, l \in DOMAIN all :
              k < l => \E i, j \in K : i < j /\ all[k] = pending[i] /\ all[l] = pending[j]
        BY <1>1, <3>4, PlacesFrom
      <4> HIDE DEF all
      <4>3. pending' = all
        BY <3>4 DEF all
      <4>4. QED
        BY <4>1, <4>2, <4>3
    <3>7. \A i \in K : i \in DOMAIN pending /\ i \in Nat
      BY <1>1, <3>4
    <3>8. ASSUME NEW c, NEW k, HeldHit(c, k)', NEW i \in K, pending'[k] = pending[i]
          PROVE  HeldHit(c, i)
      BY <1>10, <1>12, <3>5, <3>7, <3>8
    <3>9. \A c : IsHeld(c)' => IsHeld(c)
      BY <1>12, <3>6, <3>7, <3>8 DEF IsHeld
    <3>10. ASSUME NEW k \in Nat, NEW l \in Nat, k < l, HeldHit(a, k)', HeldHit(b, l)'
           PROVE  Ahead(a, b)
      <4>1. PICK i \in K, j \in K : i < j /\ pending'[k] = pending[i] /\ pending'[l] = pending[j]
        BY <1>12, <3>6, <3>10
      <4>2. HeldHit(a, i) /\ HeldHit(b, j)
        BY <3>8, <3>10, <4>1
      <4>3. QED
        BY <3>7, <4>1, <4>2 DEF Ahead
    <3>11. QED
      BY <3>9, <3>10
  <2>2. CASE e.kind # "flush"
    <3>1. \A x : ~TakesBack(e, x)
      BY <2>2 DEF TakesBack
    <3>2. pending' = InsertPending(pending, e)
      BY <1>1, <2>2
    <3>3p. PICK n \in Nat, N \in Nat : InsertedAs(pending, e, InsertPending(pending, e), n, N)
      BY <1>1, <1>3, InsertPlaces
    <3>3. /\ n <= N /\ DOMAIN pending = 1 .. N /\ DOMAIN pending' = 1 .. N + 1
          /\ pending'[n + 1] = e
          /\ \A k \in 1 .. n : pending'[k] = pending[k]
          /\ \A k \in n + 2 .. N + 1 : pending'[k] = pending[k - 1]
      BY <3>2, <3>3p DEF InsertedAs
    <3>4. \A k \in DOMAIN pending' : k \in 1 .. n \/ k = n + 1 \/ k \in n + 2 .. N + 1
      BY <3>3
    <3>5. ASSUME NEW c, NEW k, HeldHit(c, k)', k \in 1 .. n
          PROVE  HeldHit(c, k)
      <4>1. k \in DOMAIN pending /\ pending'[k] = pending[k]
        BY <3>3, <3>5
      <4>2. QED
        BY <1>10, <3>1, <3>5, <4>1
    <3>6. ASSUME NEW c, NEW k, HeldHit(c, k)', k \in n + 2 .. N + 1
          PROVE  HeldHit(c, k - 1)
      <4>1. k - 1 \in DOMAIN pending /\ pending'[k] = pending[k - 1]
        BY <3>3, <3>6
      <4>2. QED
        BY <1>10, <3>1, <3>6, <4>1
    <3>7. ASSUME NEW c, NEW k, HeldHit(c, k)', k = n + 1
          PROVE  QueuedHit(c, 1)
      BY <1>11, <3>3, <3>7
    <3>8. \A k \in 1 .. n : k \in Nat
      BY <3>3
    <3>9. \A k \in n + 2 .. N + 1 : k - 1 \in Nat
      BY <3>3
    <3>10. \A c : IsHeld(c)' => IsHeld(c) \/ QueuedHit(c, 1)
      BY <1>12, <3>4, <3>5, <3>6, <3>7, <3>8, <3>9 DEF IsHeld
    <3>11. ASSUME NEW k \in Nat, NEW l \in Nat, k < l, HeldHit(a, k)', HeldHit(b, l)'
           PROVE  \/ Ahead(a, b)
                  \/ Ahead(b, a) /\ a[1] <= b[1]
      <4>1. k \in DOMAIN pending' /\ l \in DOMAIN pending'
        BY <1>12, <3>11
      <4>2. a[1] <= b[1]
        BY <1>12, <3>11, <4>1 DEF HeldInOrder, InOrder
      <4>3. CASE k \in 1 .. n /\ l \in 1 .. n
        BY <3>5, <3>11, <4>3 DEF Ahead
      <4>4. CASE k \in 1 .. n /\ l = n + 1
        <5>1. IsHeld(a) /\ IsQueued(b)
          BY <3>5, <3>7, <3>11, <4>4 DEF IsHeld, IsQueued
        <5>2. QED
          BY <5>1 DEF Ahead
      <4>5. CASE k \in 1 .. n /\ l \in n + 2 .. N + 1
        <5>1. HeldHit(a, k) /\ HeldHit(b, l - 1)
          BY <3>5, <3>6, <3>11, <4>5
        <5>2. l - 1 \in Nat /\ k < l - 1
          BY <3>3, <4>5
        <5>3. QED
          BY <5>1, <5>2 DEF Ahead
      <4>6. CASE k = n + 1 /\ l \in n + 2 .. N + 1
        <5>1. QueuedHit(a, 1) /\ HeldHit(b, l - 1)
          BY <3>6, <3>7, <3>11, <4>6
        <5>2. IsQueued(a) /\ IsHeld(b)
          BY <3>9, <4>6, <5>1 DEF IsHeld, IsQueued
        <5>3. QED
          BY <4>2, <5>2 DEF Ahead
      <4>7. CASE k \in n + 2 .. N + 1 /\ l \in n + 2 .. N + 1
        <5>1. HeldHit(a, k - 1) /\ HeldHit(b, l - 1)
          BY <3>6, <3>11, <4>7
        <5>2. k - 1 \in Nat /\ l - 1 \in Nat /\ k - 1 < l - 1
          BY <3>3, <3>11, <4>7
        <5>3. QED
          BY <5>1, <5>2 DEF Ahead
      <4>8. ~(k = n + 1 /\ l \in 1 .. n + 1) /\ ~(k \in n + 2 .. N + 1 /\ l \in 1 .. n + 1)
        BY <3>3, <3>11
      <4>9. l \in 1 .. n => l \in 1 .. n + 1
        BY <3>3
      <4>10. n + 1 \in 1 .. n + 1
        BY <3>3
      <4>11. QED
        BY <3>4, <4>1, <4>3, <4>4, <4>5, <4>6, <4>7, <4>8, <4>9, <4>10
    <3>12. QED
      BY <3>10, <3>11
  <2>3. QED
    BY <2>1, <2>2
<1>14. HalfStep \in Nat
  BY HalfStepIs
<1>15. Ahead(b, a) /\ a[1] <= b[1] => Spaced(a, b)
  BY <1>14 DEF Spaced
<1>16. ASSUME Ahead(a, b)'
       PROVE  Ahead(a, b) \/ (Ahead(b, a) /\ a[1] <= b[1])
  <2>1. CASE \E i, j \in Nat : i < j /\ HeardHit(a, i)' /\ HeardHit(b, j)'
    BY <1>6, <2>1 DEF Ahead
  <2>2. CASE \E i, j \in Nat : i < j /\ HeldHit(a, i)' /\ HeldHit(b, j)'
    BY <1>13, <2>2
  <2>3. CASE \E i, j \in Nat : i < j /\ QueuedHit(a, i)' /\ QueuedHit(b, j)'
    <3>1. PICK i \in Nat, j \in Nat : i < j /\ QueuedHit(a, i)' /\ QueuedHit(b, j)'
      BY <2>3
    <3>2. i + 1 \in Nat /\ j + 1 \in Nat /\ i + 1 < j + 1
      BY <3>1
    <3>3. QED
      BY <1>8, <3>1, <3>2 DEF Ahead
  <2>4. CASE \E i, j \in Nat : i < j /\ ToPushHit(a, i)' /\ ToPushHit(b, j)'
    BY <1>7, <2>4 DEF Ahead
  <2>5. \A c : IsHeld(c)' => IsHeld(c) \/ IsQueued(c)
    BY <1>13 DEF IsQueued
  <2>6. CASE WasHeard(a)' /\ (IsHeld(b)' \/ IsQueued(b)' \/ IsToPush(b)')
    BY <1>9, <2>5, <2>6 DEF Ahead
  <2>7. CASE IsHeld(a)' /\ IsQueued(b)'
    <3>1. PICK j \in Nat : QueuedHit(b, j + 1) /\ j + 1 \in Nat /\ 1 < j + 1
      BY <1>8, <2>7 DEF IsQueued
    <3>2. QED
      BY <1>9, <1>13, <2>7, <3>1 DEF Ahead
  <2>8. CASE IsHeld(a)' /\ IsToPush(b)'
    BY <1>9, <2>5, <2>8 DEF Ahead
  <2>9. CASE IsQueued(a)' /\ IsToPush(b)'
    BY <1>9, <2>9 DEF Ahead
  <2>10. QED
    BY <1>16, <2>1, <2>2, <2>3, <2>4, <2>6, <2>7, <2>8, <2>9 DEF Ahead
<1>17. \A c : Sounds(c)' => Sounds(c)
  <2>1. \A c : IsHeld(c)' => IsHeld(c) \/ IsQueued(c)
    BY <1>13 DEF IsQueued
  <2>2. QED
    BY <1>9, <2>1 DEF Sounds
<1>18. QED
  BY <1>15, <1>16, <1>17

\* What is due in a block is not taken back by what a call has still to push.
LEMMA DueAlone ==
  ASSUME EngineInv, CommitsAhead, OldInv, RenderPlay,
         NEW x, x.sample \in Nat, x.sample < pos + Block
  PROVE  LeftAlone(x)
<1>1. renderPc = "pull"
  BY DEF RenderPlay
<1>2. /\ published \in Nat /\ pos \in Nat /\ Block \in Nat /\ MaxLag \in Nat
      /\ todo \in Seq(Events) /\ \A k \in Nat : k * Block \in Nat
  BY ClearIs DEF EngineInv, EngineTypeOK, RenderTypes, ControlTypes
<1>3. pos = published /\ lag \in 0 .. MaxLag /\ FlushAhead
  BY <1>1, <1>2 DEF OldInv, Pace
<1>4. Reach \in Nat /\ pos + Block <= Reach
  <2> DEFINE left == MaxLag - lag
  <2>1. left \in Nat
    BY <1>2, <1>3
  <2>2. left * Block \in Nat
    BY <1>2, <2>1
  <2>3. Reach = published + Block + (IF split THEN left * Block ELSE 0)
    BY DEF Reach
  <2>4. \A n \in Nat : published + Block + n \in Nat /\ pos + Block <= published + Block + n
    BY <1>2, <1>3
  <2> HIDE DEF left
  <2>5. QED
    BY <1>2, <2>2, <2>3, <2>4
<1>5. ASSUME NEW m \in DOMAIN todo, todo[m].kind = "flush", todo[m].sample <= x.sample
      PROVE  FALSE
  <2>1. Reach <= todo[m].sample
    BY <1>3, <1>5 DEF FlushAhead
  <2>2. todo[m].sample \in Nat
    <3>1. todo[m] \in Events
      BY <1>2
    <3>2. QED
      BY <3>1, EventIs
  <2>3. QED
    BY <1>2, <1>4, <1>5, <2>1, <2>2
<1>6. QED
  BY <1>5 DEF LeftAlone, TakesBack

\* A block moves the hits that are due, in their order, to the end of what was heard.
LEMMA PlayAhead ==
  ASSUME EngineInv, CommitsAhead, OldInv, Unhindered, RenderPlay, UNCHANGED todo, NEW a, NEW b
  PROVE  (Ahead(a, b)' => Ahead(a, b)) /\ \A c : Sounds(c)' => Sounds(c)
<1>1. renderPc = "pull" /\ UNCHANGED <<queue, todo>>
  BY DEF RenderPlay
<1>2. queue = <<>> /\ DOMAIN queue = {} /\ DOMAIN queue' = {}
  BY <1>1 DEF Unhindered, RenderPlay, CanPull
<1>3. EngineTypeOK /\ InOrder(pending) /\ pos \in Nat /\ Block \in Nat /\ heard \in Seq(Triggers)
  BY ClearIs DEF EngineInv, HeldInOrder, EngineTypeOK, RenderTypes
<1>4. PICK due \in Seq(Events), rest \in Seq(Events), new \in Seq(Triggers) :
        PlaysAs(due, rest, new)
  BY <1>3, Plays
<1>5. /\ pending = due \o rest /\ pending' = rest /\ heard' = heard \o new
      /\ \A i \in DOMAIN new : /\ new[i].at \in Nat /\ new[i].sample <= new[i].at
                               /\ new[i].at < pos + Block
      /\ \A i \in DOMAIN new : \E k \in DOMAIN due : FiredFrom(new[i], due[k])
      /\ \A i, j \in DOMAIN new :
            i < j => \E k, l \in DOMAIN due :
                        k < l /\ FiredFrom(new[i], due[k]) /\ FiredFrom(new[j], due[l])
  BY <1>4 DEF PlaysAs
<1>6. PICK D \in Nat, R \in Nat, H \in Nat, N \in Nat :
        /\ DOMAIN due = 1 .. D /\ DOMAIN rest = 1 .. R
        /\ DOMAIN heard = 1 .. H /\ DOMAIN new = 1 .. N
        /\ Len(due) = D /\ Len(heard) = H
  BY <1>3
<1>7. /\ \A k \in 1 .. D : k \in DOMAIN pending /\ pending[k] = due[k]
      /\ \A k \in 1 .. R : D + k \in DOMAIN pending /\ pending[D + k] = rest[k]
  <2> DEFINE h == due \o rest
  <2>1. \A k \in DOMAIN due : k \in DOMAIN h /\ h[k] = due[k]
    BY Joined
  <2>2. \A k \in DOMAIN rest : Len(due) + k \in DOMAIN h /\ h[Len(due) + k] = rest[k]
    BY Joined
  <2>3. h = pending
    BY <1>5
  <2> HIDE DEF h
  <2>4. QED
    BY <1>6, <2>1, <2>2, <2>3
<1>8. \A k \in DOMAIN heard' : \/ k \in DOMAIN heard /\ heard'[k] = heard[k] /\ k <= H
                               \/ k - H \in DOMAIN new /\ heard'[k] = new[k - H] /\ k > H
  <2> DEFINE h == heard \o new
  <2>1. \A k \in DOMAIN h : \/ k \in DOMAIN heard /\ h[k] = heard[k] /\ k <= Len(heard)
                            \/ k - Len(heard) \in DOMAIN new /\ h[k] = new[k - Len(heard)] /\ k > Len(heard)
    BY <1>3, Joined
  <2>2. h = heard'
    BY <1>5
  <2> HIDE DEF h
  <2>3. QED
    BY <1>6, <2>1, <2>2
<1>9. ASSUME NEW c, NEW i \in DOMAIN new, IsHit(new[i]), Beat(new[i]) = c,
             NEW k \in DOMAIN due, FiredFrom(new[i], due[k])
      PROVE  HeldHit(c, k)
  <2>1. IsHit(due[k]) /\ Beat(due[k]) = c /\ due[k].sample = new[i].sample
    BY <1>9 DEF FiredFrom, IsHit, Beat
  <2>2. new[i].sample \in Nat
    <3>1. new[i] \in Triggers
      BY <1>9
    <3>2. QED
      BY <3>1, TriggerIs
  <2>3. due[k].sample \in Nat /\ due[k].sample < pos + Block
    <3>1. new[i].at \in Nat /\ new[i].sample <= new[i].at /\ new[i].at < pos + Block
      BY <1>5
    <3>2. \A m, n \in Nat : m <= n /\ n < pos + Block => m < pos + Block
      BY <1>3
    <3>3. QED
      BY <2>1, <2>2, <3>1, <3>2
  <2>4. LeftAlone(due[k])
    BY <2>3, DueAlone
  <2>5. Passes(due[k], 0)
    BY <1>2, <2>4 DEF Passes
  <2>6. QED
    BY <1>6, <1>7, <2>1, <2>5 DEF HeldHit
<1>10. \A c, i : HeldHit(c, i)' => HeldHit(c, D + i) /\ D + i \in Nat /\ i \in 1 .. R
  <2> SUFFICES ASSUME NEW c, NEW i, HeldHit(c, i)'
               PROVE  HeldHit(c, D + i) /\ D + i \in Nat /\ i \in 1 .. R
    OBVIOUS
  <2>1. PICK x : x = pending'[i]
    OBVIOUS
  <2>2. i \in DOMAIN pending' /\ IsHit(x) /\ Beat(x) = c /\ Passes(x, 0)'
    BY <2>1 DEF HeldHit, IsHit, Beat, Passes, LeftAlone, TakesBack
  <2>3. Passes(x, 0)
    BY <1>1, <2>2 DEF Passes, LeftAlone, TakesBack
  <2>4. i \in 1 .. R /\ x = rest[i]
    BY <1>5, <1>6, <2>1, <2>2
  <2>5. D + i \in DOMAIN pending /\ x = pending[D + i] /\ D + i \in Nat
    BY <1>6, <1>7, <2>4
  <2>6. QED
    BY <2>2, <2>3, <2>4, <2>5 DEF HeldHit
<1>11. \A c, i : ~QueuedHit(c, i)'
  BY <1>2 DEF QueuedHit
<1>12. \A c, i : ToPushHit(c, i)' => ToPushHit(c, i)
  BY <1>1, EndsStay
<1>13. \A c, i : HeardHit(c, i)' =>
         \/ HeardHit(c, i) /\ i <= H
         \/ i - H \in DOMAIN new /\ IsHit(new[i - H]) /\ Beat(new[i - H]) = c /\ i > H
  BY <1>8 DEF HeardHit, IsHit, Beat
<1>14. \A c : IsHeld(c)' => IsHeld(c)
  BY <1>10 DEF IsHeld
<1>15. ASSUME NEW c, WasHeard(c)'
       PROVE  WasHeard(c) \/ \E k \in 1 .. D : HeldHit(c, k)
  <2>1. PICK i \in Nat : HeardHit(c, i)'
    BY <1>15 DEF WasHeard
  <2>2. CASE HeardHit(c, i)
    BY <2>1, <2>2 DEF WasHeard
  <2>3. CASE i - H \in DOMAIN new /\ IsHit(new[i - H]) /\ Beat(new[i - H]) = c
    <3>1. PICK k \in DOMAIN due : FiredFrom(new[i - H], due[k])
      BY <1>5, <2>3
    <3>2. QED
      BY <1>6, <1>9, <2>3, <3>1
  <2>4. QED
    BY <1>13, <2>1, <2>2, <2>3
<1>16. \A k \in 1 .. D : k \in Nat
  BY <1>6
<1>17. \A c : WasHeard(c)' => WasHeard(c) \/ IsHeld(c)
  BY <1>15, <1>16 DEF IsHeld
<1>18. \A c : ~IsQueued(c)' /\ (IsToPush(c)' => IsToPush(c))
  BY <1>11, <1>12 DEF IsQueued, IsToPush
<1>19. ASSUME Ahead(a, b)'
       PROVE  Ahead(a, b)
  <2>1. CASE \E i, j \in Nat : i < j /\ HeardHit(a, i)' /\ HeardHit(b, j)'
    <3>1. PICK i \in Nat, j \in Nat : i < j /\ HeardHit(a, i)' /\ HeardHit(b, j)'
      BY <2>1
    <3>2. CASE i <= H /\ j <= H
      <4>1. HeardHit(a, i) /\ HeardHit(b, j)
        BY <1>6, <1>13, <3>1, <3>2
      <4>2. QED
        BY <3>1, <4>1 DEF Ahead
    <3>3. CASE i <= H /\ j > H
      <4>1. HeardHit(a, i) /\ j - H \in DOMAIN new /\ IsHit(new[j - H]) /\ Beat(new[j - H]) = b
        BY <1>6, <1>13, <3>1, <3>3
      <4>2. PICK k \in DOMAIN due : FiredFrom(new[j - H], due[k])
        BY <1>5, <4>1
      <4>3. HeldHit(b, k)
        BY <1>9, <4>1, <4>2
      <4>4. WasHeard(a) /\ IsHeld(b)
        BY <1>6, <1>16, <4>1, <4>3 DEF WasHeard, IsHeld
      <4>5. QED
        BY <4>4 DEF Ahead
    <3>4. CASE i > H /\ j > H
      <4>1. /\ i - H \in DOMAIN new /\ IsHit(new[i - H]) /\ Beat(new[i - H]) = a
            /\ j - H \in DOMAIN new /\ IsHit(new[j - H]) /\ Beat(new[j - H]) = b
        BY <1>6, <1>13, <3>1, <3>4
      <4>2. i - H < j - H
        BY <1>6, <3>1
      <4>3. PICK k \in DOMAIN due, l \in DOMAIN due :
              k < l /\ FiredFrom(new[i - H], due[k]) /\ FiredFrom(new[j - H], due[l])
        BY <1>5, <4>1, <4>2
      <4>4. HeldHit(a, k) /\ HeldHit(b, l)
        BY <1>9, <4>1, <4>3
      <4>5. QED
        BY <1>6, <1>16, <4>3, <4>4 DEF Ahead
    <3>5. QED
      BY <1>6, <3>1, <3>2, <3>3, <3>4
  <2>2. CASE \E i, j \in Nat : i < j /\ HeldHit(a, i)' /\ HeldHit(b, j)'
    <3>1. PICK i \in Nat, j \in Nat : i < j /\ HeldHit(a, i)' /\ HeldHit(b, j)'
      BY <2>2
    <3>2. HeldHit(a, D + i) /\ HeldHit(b, D + j)
      BY <1>10, <3>1
    <3>3. D + i \in Nat /\ D + j \in Nat /\ D + i < D + j
      BY <1>6, <3>1
    <3>4. QED
      BY <3>2, <3>3 DEF Ahead
  <2>3. CASE \E i, j \in Nat : i < j /\ ToPushHit(a, i)' /\ ToPushHit(b, j)'
    BY <1>12, <2>3 DEF Ahead
  <2>4. CASE WasHeard(a)' /\ IsHeld(b)'
    <3>1. CASE WasHeard(a)
      BY <1>14, <2>4, <3>1 DEF Ahead
    <3>2. CASE \E k \in 1 .. D : HeldHit(a, k)
      <4>1. PICK k \in 1 .. D : HeldHit(a, k)
        BY <3>2
      <4>2. PICK j \in Nat : HeldHit(b, j)'
        BY <2>4 DEF IsHeld
      <4>3. HeldHit(b, D + j) /\ D + j \in Nat /\ k < D + j /\ k \in Nat
        BY <1>6, <1>10, <4>2
      <4>4. QED
        BY <4>1, <4>3 DEF Ahead
    <3>3. QED
      BY <1>15, <2>4, <3>1, <3>2
  <2>5. CASE (WasHeard(a)' \/ IsHeld(a)') /\ IsToPush(b)'
    BY <1>14, <1>17, <1>18, <2>5 DEF Ahead
  <2>6. QED
    BY <1>11, <1>18, <1>19, <2>1, <2>2, <2>3, <2>4, <2>5 DEF Ahead
<1>20. QED
  BY <1>14, <1>17, <1>18, <1>19 DEF Sounds

-----------------------------------------------------------------------------
\* The log has room for a step, or the oldest it keeps then is of a block that
\* has started.
LogReaches ==
    Len(log) < QueuedMemory \/ (Len(log) > 1 /\ log[2].sample < published + Block)

\* What the log has forgotten is in front of all it keeps, and the oldest of
\* these no flush reaches.
Forgotten(s) == log # <<>> /\ s <= log[1].sample /\ log[1].sample < published + Block

SoundsRemembered == \A p \in Nat \X Nat : SoundsAt(p) => LoggedAt(p) \/ Forgotten(p[2])

\* No realign and no restart takes the oldest step from the log once it was heard.
LEMMA OldestStays ==
  ASSUME EngineInv, CommitsAhead, OldInv, StartInternal \/ StartFollow \/ Resync \/ Jump,
         NEW s, Forgotten(s)
  PROVE  Forgotten(s)'
<1>1. callPc = "commit" /\ UNCHANGED published
  BY DEF StartInternal, StartFollow, Resync, Jump
<1>2. PICK c \in Nat : c = CommitPoint
  BY Commits DEF EngineInv
<1>3. log \in Seq(Entries) /\ published \in Nat /\ Block \in Nat
  BY ClearIs DEF EngineInv, EngineTypeOK, ControlTypes, RenderTypes
<1>4. published + Block <= c
  <2>0. Pace
    BY DEF OldInv
  <2>1. c >= published + Block + (IF split THEN MaxLag * Block ELSE 0)
    BY <1>1, <1>2, <2>0, CommitIs
  <2>2. MaxLag * Block \in Nat
    BY ClearIs
  <2>3. \A n \in Nat : c >= published + Block + n => published + Block <= c
    BY <1>2, <1>3
  <2>4. QED
    BY <1>2, <1>3, <2>1, <2>2, <2>3
<1>5. PICK N \in Nat : N = Len(log) /\ DOMAIN log = 1 .. N
  BY <1>3
<1>6. 1 \in DOMAIN log /\ log[1].sample \in Nat /\ 1 <= N
  <2>1. 1 \in DOMAIN log /\ 1 <= N
    BY <1>3, <1>5 DEF Forgotten
  <2>2. QED
    BY <1>3, <2>1, EntryIs
<1>7. ASSUME NEW f \in Nat, c <= f, log' = FlushLog(log, f)
      PROVE  log' # <<>> /\ log'[1] = log[1]
  <2>1. PICK n \in 0 .. N : /\ n = NewestFrom(log, f)
                            /\ \A i \in N - n + 1 .. N : log[i].sample >= f
    BY <1>3, <1>5, NewestIs
  <2>2. log[1].sample < f
    BY <1>3, <1>4, <1>6, <1>7 DEF Forgotten
  <2>3. n # N
    BY <1>5, <1>6, <2>1, <2>2
  <2>4. N - n \in 1 .. N
    BY <1>5, <2>1, <2>3
  <2>5. log' = SubSeq(log, 1, N - n)
    BY <1>5, <1>7, <2>1 DEF FlushLog
  <2>6. PICK m \in 1 .. N : m = N - n
    BY <2>4
  <2>7. log' \in Seq(Entries) /\ Len(log') = m /\ log'[1] = log[1]
    BY <1>3, <1>5, <2>5, <2>6
  <2>8. Len(<<>>) = 0 /\ m # 0
    BY <1>5, <2>6
  <2>9. QED
    BY <2>7, <2>8
<1>8. UNCHANGED log \/ (log' # <<>> /\ log'[1] = log[1])
  <2>1. PICK f \in Nat : f = Cut(log, c).flush /\ c <= f
    BY <1>3, CutIs
  <2>2. CASE StartInternal
    <3>1. log' = FlushLog(log, c)
      BY <1>2, <2>2 DEF StartInternal, DropQueued
    <3>2. c <= c
      BY <1>2
    <3>3. QED
      BY <1>7, <3>1, <3>2
  <2>3. CASE StartFollow
    <3>1. log' = FlushLog(log, f)
      BY <1>2, <2>1, <2>3 DEF StartFollow
    <3>2. QED
      BY <1>7, <2>1, <3>1
  <2>4. CASE Resync
    <3>1. UNCHANGED log \/ log' = FlushLog(log, c)
      BY <1>2, <2>4 DEF Resync, DropQueued
    <3>2. c <= c
      BY <1>2
    <3>3. QED
      BY <1>7, <3>1, <3>2
  <2>5. CASE Jump
    <3>1. UNCHANGED log \/ log' = FlushLog(log, f)
      BY <1>2, <2>1, <2>5 DEF Jump, RealignContinuous
    <3>2. QED
      BY <1>7, <2>1, <3>1
  <2>6. QED
    BY <2>2, <2>3, <2>4, <2>5
<1>9. QED
  BY <1>1, <1>8 DEF Forgotten

\* A step that goes into the log leaves what was forgotten in front of it.
LEMMA StepRemembered ==
  ASSUME EngineInv, OldInv, TickStep, LogReaches, NEW p \in Nat \X Nat,
         LoggedAt(p) \/ Forgotten(p[2])
  PROVE  LoggedAt(p)' \/ Forgotten(p[2])'
<1>1. PICK q \in Entries : log' = PushEntry(log, q)
  <2>1. sched.next \in Nat
    BY DEF EngineInv, EngineTypeOK, ControlTypes, Scheds
  <2>2. Entry(sched.next) \in Entries
    BY <2>1, EventsOfStep DEF EngineInv
  <2>3. QED
    BY <2>2 DEF TickStep
<1>2. /\ log \in Seq(Entries) /\ InOrder(log) /\ UNCHANGED published
      /\ published \in Nat /\ QueuedMemory \in Nat \ {0}
  BY EngineAssumption DEF EngineInv, EngineTypeOK, ControlTypes, RenderTypes, OldInv, TickStep
<1> DEFINE all == Append(log, q)
<1>2a. PICK N \in Nat : Len(log) = N /\ DOMAIN log = 1 .. N
  BY <1>2
<1>2b. all \in Seq(Entries)
  BY <1>2
<1>2c. Len(all) = N + 1
  BY <1>2, <1>2a
<1>2d. \A i \in 1 .. N : all[i] = log[i]
  BY <1>2, <1>2a
<1>3. /\ Len(log) = N /\ DOMAIN log = 1 .. N
      /\ all \in Seq(Entries) /\ Len(all) = N + 1 /\ DOMAIN all = 1 .. N + 1
      /\ \A i \in 1 .. N : all[i] = log[i]
  BY <1>2a, <1>2b, <1>2c, <1>2d
<1>4. log' = IF N + 1 > QueuedMemory THEN Tail(all) ELSE all
  BY <1>1, <1>3 DEF PushEntry
<1> HIDE DEF all
<1>5. \A i \in DOMAIN log : log[i].sample \in Nat
  BY <1>2, EntryIs
<1>6. CASE N < QueuedMemory
  <2>1. log' = all
    BY <1>2, <1>3, <1>4, <1>6
  <2>2. LoggedAt(p) => LoggedAt(p)'
    BY <1>1, <1>2, <1>3, <1>6, EntryLogged
  <2>3. Forgotten(p[2]) => log' # <<>> /\ log'[1] = log[1]
    <3>1. ASSUME log # <<>>
          PROVE  N # 0 /\ 1 \in 1 .. N
      BY <1>2, <1>3, <3>1
    <3>2. log' # <<>>
      <4>1. Len(<<>>) = 0 /\ Len(log') # 0
        BY <1>3, <2>1
      <4>2. QED
        BY <4>1
    <3>3. QED
      BY <1>3, <2>1, <3>1, <3>2 DEF Forgotten
  <2>4. QED
    BY <1>2, <2>2, <2>3 DEF Forgotten
<1>7. CASE ~(N < QueuedMemory)
  <2>1. N > 1 /\ log[2].sample < published + Block
    BY <1>3, <1>7 DEF LogReaches
  <2>2. log' = Tail(all)
    BY <1>2, <1>3, <1>4, <1>7
  <2>3. /\ DOMAIN log' = 1 .. N /\ log'[1] = all[2]
        /\ \A i \in 1 .. N : i + 1 \in DOMAIN all /\ log'[i] = all[i + 1]
    BY <1>3, <2>1, <2>2
  <2>4. 2 \in DOMAIN log /\ 1 \in DOMAIN log /\ log'[1] = log[2]
    BY <1>3, <2>1, <2>3
  <2>5. log' # <<>>
    <3>1. DOMAIN <<>> = {} /\ 1 \in DOMAIN log'
      BY <2>1, <2>3
    <3>2. QED
      BY <3>1
  <2>6. log[1].sample <= log[2].sample
    BY <1>2, <2>4 DEF InOrder
  <2>7. \A s \in Nat : s <= log[1].sample => Forgotten(s)'
    <3>1. \A s \in Nat : s <= log[1].sample => s <= log'[1].sample
      BY <1>5, <2>4, <2>6
    <3>2. log'[1].sample < published' + Block
      BY <1>2, <2>1, <2>4
    <3>3. QED
      BY <2>5, <3>1, <3>2 DEF Forgotten
  <2>8. CASE Forgotten(p[2])
    BY <2>7, <2>8 DEF Forgotten
  <2>9. CASE LoggedAt(p)
    <3>1. PICK i \in DOMAIN log : At(log[i]) = p
      BY <2>9 DEF LoggedAt
    <3>2. CASE i = 1
      <4>1. p[2] = log[1].sample /\ p[2] <= log[1].sample
        BY <1>5, <2>4, <3>1, <3>2 DEF At
      <4>2. QED
        BY <2>7, <4>1
    <3>3. CASE i # 1
      <4>1. i - 1 \in 1 .. N /\ (i - 1) + 1 = i /\ all[i] = log[i]
        BY <1>3, <3>1, <3>3
      <4>2. log'[i - 1] = log[i] /\ i - 1 \in DOMAIN log'
        BY <2>3, <4>1
      <4>3. QED
        BY <3>1, <4>2 DEF LoggedAt, At
    <3>4. QED
      BY <3>2, <3>3
  <2>10. QED
    BY <2>8, <2>9
<1>8. QED
  BY <1>6, <1>7

\* What sounds is somewhere a hit of its sample sounds.
LEMMA SoundsSomewhere ==
  ASSUME EngineInv, NEW c, Sounds(c)
  PROVE  c \in Nat \X Nat /\ \E p \in Nat \X Nat : SoundsAt(p) /\ p[2] = c[1]
<1>1. /\ heard \in Seq(Triggers) /\ pending \in Seq(Events) /\ queue \in Seq(Events)
      /\ todo \in Seq(Events)
  BY DEF EngineInv, EngineTypeOK, RenderTypes, ControlTypes
<1>2. \A x \in Triggers : Beat(x) \in Nat \X Nat /\ At(x) \in Nat \X Nat /\ At(x)[2] = Beat(x)[1]
  BY DEF Triggers, Beat, At
<1>3. \A x \in Events : IsHit(x) => x \in Triggers
  BY EventIs DEF IsTrigger, IsHit
<1>4. /\ \A i \in DOMAIN heard : heard[i] \in Triggers
      /\ \A i \in DOMAIN pending : pending[i] \in Events
      /\ \A i \in DOMAIN queue : queue[i] \in Events
      /\ \A i \in DOMAIN todo : todo[i] \in Events
  BY <1>1
<1>5. ASSUME NEW x \in Triggers, Beat(x) = c, SoundsAt(At(x))
      PROVE  c \in Nat \X Nat /\ \E p \in Nat \X Nat : SoundsAt(p) /\ p[2] = c[1]
  BY <1>2, <1>5
<1>6. CASE \E i \in Nat : HeardHit(c, i)
  <2>1. PICK i : HeardHit(c, i)
    BY <1>6
  <2>2. heard[i] \in Triggers /\ Beat(heard[i]) = c /\ SoundsAt(At(heard[i]))
    BY <1>4, <2>1 DEF HeardHit, SoundsAt, HeardAt
  <2>3. QED
    BY <1>5, <2>2
<1>7. CASE \E i \in Nat : HeldHit(c, i)
  <2>1. PICK i : HeldHit(c, i)
    BY <1>7
  <2>2. pending[i] \in Triggers /\ Beat(pending[i]) = c /\ SoundsAt(At(pending[i]))
    BY <1>3, <1>4, <2>1 DEF HeldHit, SoundsAt, HeldAt
  <2>3. QED
    BY <1>5, <2>2
<1>8. CASE \E i \in Nat : QueuedHit(c, i)
  <2>1. PICK i : QueuedHit(c, i)
    BY <1>8
  <2>2. queue[i] \in Triggers /\ Beat(queue[i]) = c /\ SoundsAt(At(queue[i]))
    BY <1>3, <1>4, <2>1 DEF QueuedHit, SoundsAt, QueuedAt
  <2>3. QED
    BY <1>5, <2>2
<1>9. CASE \E i \in Nat : ToPushHit(c, i)
  <2>1. PICK i : ToPushHit(c, i)
    BY <1>9
  <2>2. todo[i] \in Triggers /\ Beat(todo[i]) = c /\ SoundsAt(At(todo[i]))
    BY <1>3, <1>4, <2>1 DEF ToPushHit, SoundsAt, ToPushAt
  <2>3. QED
    BY <1>5, <2>2
<1>10. QED
  BY <1>6, <1>7, <1>8, <1>9 DEF Sounds, WasHeard, IsHeld, IsQueued, IsToPush

\* Half of the shortest step is at most half of the one that is played.
LEMMA HalfStepLeast ==
  ASSUME clock.len \in StepLens
  PROVE  HalfStep <= clock.len \div 4 /\ clock.len \div 4 \in Nat
<1>1. StepLens # {} /\ StepLens \subseteq Nat
  BY EngineAssumption
<1>2. Min(StepLens) \in Nat /\ Min(StepLens) <= clock.len /\ clock.len \in Nat
  BY <1>1, MinIs
<1>3. \A m, n \in Nat : m <= n => m \div 4 <= n \div 4 /\ n \div 4 \in Nat
  OBVIOUS
<1>4. QED
  BY <1>2, <1>3 DEF HalfStep

-----------------------------------------------------------------------------
Apart == \A a, b \in Nat \X Nat : Ahead(a, b) => Spaced(a, b)

\* Nothing sounds of a continuation to come.
EpochsPast == \A c \in Nat \X Nat : Sounds(c) => c[2] <= Len(restarts)

\* The next step is half a step behind the log, or nothing of its continuation
\* sounds yet.
NoneOfThis == \A c \in Nat \X Nat : Sounds(c) => c[2] < Len(restarts)
NextClear == sched.playing => HalfStepClear \/ NoneOfThis

ApartInv == Apart /\ EpochsPast /\ NextClear /\ SoundsRemembered /\ clock.len \in StepLens

LEMMA ApartStarts ==
  ASSUME Init
  PROVE  ApartInv
<1>1. /\ queue = <<>> /\ pending = <<>> /\ heard = <<>> /\ todo = <<>> /\ log = <<>>
      /\ ~sched.playing
  BY DEF Init, RenderInit, Stopped
<1>2. DOMAIN queue = {} /\ DOMAIN pending = {} /\ DOMAIN heard = {} /\ DOMAIN todo = {}
  BY <1>1
<1>3. \A c : ~WasHeard(c) /\ ~IsHeld(c) /\ ~IsQueued(c) /\ ~IsToPush(c)
  BY <1>2 DEF WasHeard, IsHeld, IsQueued, IsToPush, HeardHit, HeldHit, QueuedHit, ToPushHit
<1>4. \A a, b : ~Ahead(a, b)
  BY <1>2, <1>3 DEF Ahead, HeardHit, HeldHit, QueuedHit, ToPushHit
<1>5. \A p : ~SoundsAt(p)
  BY <1>2 DEF SoundsAt, HeardAt, HeldAt, QueuedAt, ToPushAt
<1>6. clock.len \in StepLens
  <2>1. Max(StepLens) \in StepLens
    BY EngineAssumption, FiniteMax
  <2>2. QED
    BY <2>1 DEF Init
<1>7. QED
  BY <1>1, <1>3, <1>4, <1>5, <1>6
     DEF ApartInv, Apart, EpochsPast, NextClear, SoundsRemembered, Sounds

\* What schedules nothing and takes nothing back.
LEMMA ApartStays ==
  ASSUME EngineInv, EngineInv', ApartInv, UNCHANGED <<log, restarts>>,
         sched'.playing => /\ sched.playing /\ sched'.next = sched.next /\ UNCHANGED clock,
         clock'.len \in StepLens, published <= published',
         \A c : Sounds(c)' => Sounds(c),
         \A p \in Nat \X Nat : SoundsAt(p)' => SoundsAt(p),
         \A a, b \in Nat \X Nat : Ahead(a, b)' => Spaced(a, b)
  PROVE  ApartInv'
<1>1. Apart'
  BY DEF Apart, Spaced
<1>2. EpochsPast' /\ (NoneOfThis => NoneOfThis')
  BY DEF EpochsPast, NoneOfThis, ApartInv
<1>3. sched'.playing /\ HalfStepClear => HalfStepClear'
  BY DEF HalfStepClear
<1>4. NextClear'
  BY <1>2, <1>3 DEF NextClear, ApartInv
<1>5. ASSUME NEW s, Forgotten(s)
      PROVE  Forgotten(s)'
  <2>1. log \in Seq(Entries) /\ published \in Nat /\ published' \in Nat /\ Block \in Nat
    BY EngineAssumption DEF EngineInv, EngineTypeOK, ControlTypes, RenderTypes
  <2>2. log # <<>> => 1 \in DOMAIN log
    BY <2>1
  <2>3. log # <<>> => log[1].sample \in Nat
    BY <2>1, <2>2, EntryIs
  <2>4. \A x, y, z \in Nat : x < y + Block /\ y <= z => x < z + Block
    BY <2>1
  <2>5. log # <<>> /\ log[1].sample < published' + Block
    BY <1>5, <2>1, <2>3, <2>4 DEF Forgotten
  <2>6. QED
    BY <1>5, <2>5 DEF Forgotten
<1>6. SoundsRemembered'
  BY <1>5 DEF SoundsRemembered, ApartInv, LoggedAt, At
<1>7. QED
  BY <1>1, <1>2, <1>4, <1>6 DEF ApartInv

\* No call and no step leaves the lengths a tempo may have.
LEMMA LengthKnown ==
  ASSUME EngineInv, clock.len \in StepLens,
         StartInternal \/ StartFollow \/ Resync \/ Jump \/ QuietCall
  PROVE  clock'.len \in StepLens
<1>1. clock \in Clock /\ call \in Calls
  BY DEF EngineInv, EngineTypeOK, ControlTypes
<1>2. \A d : Moved(clock, d).len = clock.len /\ RestartAt(clock, d).len = clock.len
  BY <1>1 DEF Moved, RestartAt, Clock
<1>3. CASE StartInternal \/ StartFollow \/ Resync
  BY <1>2, <1>3 DEF StartInternal, StartFollow, Resync
<1>4. CASE Jump
  <2>1. call \in [op : {"jump"}, shift : Shifts, len : StepLens]
    BY <1>1, <1>4 DEF Jump, Calls, NoCall
  <2>2. PICK new : new = SetTempo(clock, call.len, now)
    OBVIOUS
  <2>3. new.len \in StepLens /\ DOMAIN new = {"anchor", "len"}
    BY <2>1, <2>2 DEF SetTempo
  <2>4. Moved(new, call.shift).len = new.len
    BY <2>2 DEF Moved, SetTempo
  <2>5. QED
    BY <1>4, <2>2, <2>3, <2>4 DEF Jump
<1>5. CASE QuietCall
  <2>1. CASE ChangeTempo
    BY <2>1 DEF ChangeTempo, SetTempo
  <2>2. CASE Replan
    BY <1>2, <2>2 DEF Replan
  <2>3. CASE LimitRun \/ StopCall \/ SetClockMode
    BY <2>3 DEF LimitRun, StopCall, SetClockMode
  <2>4. QED
    BY <1>5, <2>1, <2>2, <2>3 DEF QuietCall
<1>6. QED
  BY <1>3, <1>4, <1>5

\* A realign or a restart.
LEMMA ApartRealigned ==
  ASSUME EngineInv, EngineInv', CommitsAhead, OldInv, FollowInv, Unhindered, ApartInv,
         StartInternal \/ StartFollow \/ Resync \/ Jump
  PROVE  ApartInv'
<1>1. todo = <<>> /\ UNCHANGED <<queue, pending, heard, published>> /\ flushLeft = None
  <2>1. callPc = "commit" /\ UNCHANGED <<queue, pending, heard, published>>
    BY DEF StartInternal, StartFollow, Resync, Jump, renderVars
  <2>2. todo = <<>>
    BY <2>1, PushesFit DEF EngineInv
  <2>3. QED
    BY <2>1, <2>2 DEF Unhindered
<1>2. \E f : todo' = <<>> \/ todo' = <<FlushEvent(f)>>
  BY <1>1 DEF StartInternal, StartFollow, Resync, Jump, DropQueued, RealignContinuous, SendFlush,
              NoFlush
<1>3. PICK f : todo' = <<>> \/ todo' = <<FlushEvent(f)>>
  BY <1>2
<1>4. \A c : Sounds(c)' => Sounds(c)
  BY <1>1, <1>3, FlushBehind
<1>5. \A a, b : Ahead(a, b)' => Ahead(a, b)
  BY <1>1, <1>3, FlushBehind
<1>6. restarts \in Seq(Nat) /\ Len(restarts) \in Nat
  BY DEF EngineInv, EngineTypeOK, ControlTypes
<1>7. UNCHANGED restarts \/ Len(restarts') = Len(restarts) + 1
  BY <1>6 DEF StartInternal, StartFollow, Resync, Jump
<1>8. Apart'
  BY <1>5 DEF Apart, Spaced, ApartInv
<1>9. EpochsPast'
  <2>1. \A n \in Nat : n <= Len(restarts) => n <= Len(restarts')
    BY <1>6, <1>7
  <2>2. \A c \in Nat \X Nat : c[2] \in Nat
    OBVIOUS
  <2>3. QED
    BY <1>4, <2>1, <2>2 DEF EpochsPast, ApartInv
<1>10. NextClear'
  <2>1. CASE restarts' = Append(restarts, CommitPoint)
    <3>1. Len(restarts') = Len(restarts) + 1
      BY <1>6, <2>1
    <3>2. \A n \in Nat : n <= Len(restarts) => n < Len(restarts')
      BY <1>6, <3>1
    <3>3. \A c \in Nat \X Nat : c[2] \in Nat
      OBVIOUS
    <3>4. NoneOfThis'
      BY <1>4, <3>2, <3>3 DEF NoneOfThis, EpochsPast, ApartInv
    <3>5. QED
      BY <3>4 DEF NextClear
  <2>2. CASE sched'.playing => HalfStepClear'
    BY <2>2 DEF NextClear
  <2>3. QED
    BY <2>1, <2>2, CallsFollow
<1>11. SoundsRemembered'
  <2> SUFFICES ASSUME NEW p \in Nat \X Nat, SoundsAt(p)'
               PROVE  LoggedAt(p)' \/ Forgotten(p[2])'
    BY DEF SoundsRemembered
  <2>1. \/ \E g \in Nat : /\ SoundsAt(p)' <=> SoundsAt(p) /\ p[2] < g
                          /\ LoggedAt(p)' <=> LoggedAt(p) /\ p[2] < g
        \/ /\ SoundsAt(p)' <=> SoundsAt(p)
           /\ LoggedAt(p)' <=> LoggedAt(p)
    BY RealignSounds
  <2>2. SoundsAt(p) /\ (LoggedAt(p) => LoggedAt(p)')
    BY <2>1
  <2>3. LoggedAt(p) \/ Forgotten(p[2])
    BY <2>2 DEF SoundsRemembered, ApartInv
  <2>4. PICK s : s = p[2]
    OBVIOUS
  <2>5. Forgotten(s) => Forgotten(s)'
    BY OldestStays
  <2>6. QED
    BY <2>2, <2>3, <2>4, <2>5 DEF Forgotten
<1>12. clock'.len \in StepLens
  BY LengthKnown DEF ApartInv
<1>13. QED
  BY <1>8, <1>9, <1>10, <1>11, <1>12 DEF ApartInv

\* A step that is scheduled comes half a step behind all that sounds of its continuation.
LEMMA ApartScheduled ==
  ASSUME EngineInv, EngineInv', OldInv, FollowInv, ApartInv, TickStep, LogReaches,
         StepSample(clock, sched.next) > 0
  PROVE  ApartInv'
<1>1. /\ sched.playing /\ UNCHANGED <<clock, restarts>> /\ log' = PushEntry(log, Entry(sched.next))
  BY DEF TickStep, StepDue, historyVars
<1>2. PICK s, n : s = StepSample(clock, sched.next) /\ n = Len(restarts)
  OBVIOUS
<1>3. s \in Nat /\ n \in Nat /\ log \in Seq(Entries) /\ restarts \in Seq(Nat)
  <2>1. clock \in Clock /\ sched.next \in Nat
    BY DEF EngineInv, EngineTypeOK, ControlTypes, Scheds
  <2>2. restarts \in Seq(Nat) /\ log \in Seq(Entries)
    BY DEF EngineInv, EngineTypeOK, ControlTypes
  <2>3. s \in Nat
    BY <1>2, <2>1, PlaceOfStep
  <2>4. n \in Nat
    BY <1>2, <2>2
  <2>5. QED
    BY <2>2, <2>3, <2>4
<1>4. ASSUME NEW a \in Nat \X Nat, Sounds(a), a[2] = n
      PROVE  a[1] + HalfStep <= s
  <2>1. HalfStepClear
    <3>1. ~(n < n)
      BY <1>3
    <3>2. QED
      BY <1>1, <1>2, <1>4, <3>1 DEF NextClear, NoneOfThis, ApartInv
  <2>2. PICK p \in Nat \X Nat : SoundsAt(p) /\ p[2] = a[1]
    BY <1>4, SoundsSomewhere
  <2>3. LoggedAt(p) \/ Forgotten(p[2])
    BY <2>2 DEF SoundsRemembered, ApartInv
  <2>4. PICK i \in DOMAIN log : a[1] <= log[i].sample
    <3>1. CASE LoggedAt(p)
      <4>1. PICK i \in DOMAIN log : At(log[i]) = p
        BY <3>1 DEF LoggedAt
      <4>2. log[i].sample = a[1] /\ a[1] \in Nat
        BY <2>2, <4>1 DEF At
      <4>3. a[1] <= log[i].sample
        BY <4>2
      <4>4. QED
        BY <4>3
    <3>2. CASE Forgotten(p[2])
      <4>1. 1 \in DOMAIN log
        BY <1>3, <3>2 DEF Forgotten
      <4>2. QED
        BY <2>2, <3>2, <4>1 DEF Forgotten
    <3>3. QED
      BY <2>3, <3>1, <3>2
  <2>5. log[i].sample \in Nat /\ log[i].sample + clock.len \div 4 <= s
    BY <1>2, <1>3, <2>1, <2>4, EntryIs DEF HalfStepClear
  <2>6. HalfStep <= clock.len \div 4 /\ clock.len \div 4 \in Nat /\ HalfStep \in Nat
    BY HalfStepLeast, HalfStepIs DEF ApartInv
  <2>7. \A u, v, x, y \in Nat : u <= v /\ x <= y /\ v + y <= s => u + x <= s
    BY <1>3
  <2>8. a[1] \in Nat
    BY <1>4
  <2>9. QED
    BY <2>4, <2>5, <2>6, <2>7, <2>8
<1>5. Apart'
  <2>1. ASSUME NEW a \in Nat \X Nat, NEW b \in Nat \X Nat, Ahead(a, b)'
        PROVE  Spaced(a, b)
    <3>1. Ahead(a, b) \/ (Sounds(a) /\ b = <<s, n>>)
      BY <1>2, <2>1, StepAhead
    <3>2. CASE Ahead(a, b)
      BY <3>2 DEF Apart, ApartInv
    <3>3. CASE Sounds(a) /\ b = <<s, n>>
      BY <1>4, <3>3 DEF Spaced
    <3>4. QED
      BY <3>1, <3>2, <3>3
  <2>2. QED
    BY <2>1 DEF Apart, Spaced
<1>6. EpochsPast'
  <2>1. \A c : Sounds(c)' => Sounds(c) \/ c = <<s, n>>
    BY <1>2, StepAhead
  <2>2. <<s, n>>[2] = n /\ n <= n
    BY <1>3
  <2>3. QED
    BY <1>1, <1>2, <2>1, <2>2 DEF EpochsPast, ApartInv
<1>7. NextClear'
  BY StepFollowed DEF NextClear
<1>8. SoundsRemembered'
  <2> SUFFICES ASSUME NEW p \in Nat \X Nat, SoundsAt(p)'
               PROVE  LoggedAt(p)' \/ Forgotten(p[2])'
    BY DEF SoundsRemembered
  <2>1. PICK step, q : step = sched.next /\ q = Entry(sched.next)
    OBVIOUS
  <2>2. SoundsAt(p) \/ p = <<step, s>>
    BY <1>2, <2>1, StepSounds
  <2>3. CASE SoundsAt(p)
    BY <2>3, StepRemembered DEF SoundsRemembered, ApartInv
  <2>4. CASE p = <<step, s>>
    <3>1. step \in Nat
      BY <2>1 DEF EngineInv, EngineTypeOK, ControlTypes, Scheds
    <3>2. q \in Entries
      BY <2>1, <3>1, EventsOfStep DEF EngineInv
    <3>3. At(q) = p
      BY <1>2, <2>1, <2>4 DEF Entry, At
    <3>4. QED
      BY <1>1, <1>3, <2>1, <3>2, <3>3, EntryLogged
  <2>5. QED
    BY <2>2, <2>3, <2>4
<1>9. QED
  BY <1>1, <1>5, <1>6, <1>7, <1>8 DEF ApartInv

\* Calls that push nothing, reads of the position, parameters, and ends of a call.
LEMMA ApartQuiet ==
  ASSUME EngineInv, EngineInv', ApartInv, Unhindered,
         \/ \E c \in RealignCalls : BeginCall(c)
         \/ QuietCall /\ Unmoved
         \/ TickBegin \/ TickNote \/ TickEnd \/ SetParam
  PROVE  ApartInv'
<1>1. UNCHANGED <<pending, heard, log, restarts, published>>
  BY DEF BeginCall, QuietCall, TickBegin, TickNote, TickEnd, SetParam, controlVars, callVars,
         renderVars, historyVars
<1>2. sched'.playing => /\ sched.playing /\ sched'.next = sched.next /\ UNCHANGED clock
  <2>0. sched \in Scheds
    BY DEF EngineInv, EngineTypeOK, ControlTypes
  <2>1. CASE QuietCall /\ Unmoved
    <3>1. CASE StopCall
      BY <2>0, <3>1 DEF StopCall, Stop, Scheds
    <3>2. CASE LimitRun
      BY <2>0, <2>1, <3>2 DEF LimitRun, SetStopAfter, Scheds, Unmoved
    <3>3. CASE ChangeTempo \/ Replan \/ SetClockMode
      BY <2>1, <3>3 DEF ChangeTempo, Replan, SetClockMode, Unmoved
    <3>4. QED
      BY <2>1, <3>1, <3>2, <3>3 DEF QuietCall
  <2>2. CASE TickEnd
    <3>1. UNCHANGED clock /\ (UNCHANGED sched \/ sched' = Stop(sched))
      BY <2>2 DEF TickEnd
    <3>2. sched' = Stop(sched) => ~sched'.playing
      BY <2>0 DEF Stop, Scheds
    <3>3. QED
      BY <3>1, <3>2
  <2>3. CASE (\E c \in RealignCalls : BeginCall(c)) \/ SetParam \/ TickBegin \/ TickNote
    BY <2>3 DEF BeginCall, SetParam, TickBegin, TickNote, controlVars
  <2>4. QED
    BY <2>1, <2>2, <2>3
<1>3. clock'.len \in StepLens
  <2>1. CASE QuietCall
    BY <2>1, LengthKnown DEF ApartInv
  <2>2. CASE ~QuietCall
    BY <2>2 DEF BeginCall, SetParam, TickBegin, TickNote, TickEnd, controlVars, ApartInv
  <2>3. QED
    BY <2>1, <2>2
<1>4. published \in Nat
  BY DEF EngineInv, EngineTypeOK, RenderTypes
<1>5. /\ \A c : Sounds(c)' => Sounds(c)
      /\ \A p \in Nat \X Nat : SoundsAt(p)' => SoundsAt(p)
      /\ \A a, b \in Nat \X Nat : Ahead(a, b)' => Ahead(a, b)
  <2>1. CASE UNCHANGED <<queue, todo>>
    <3>1. \A c, i : HeardHit(c, i)' => HeardHit(c, i)
      BY <1>1, EndsStay
    <3>2. \A c, i : ToPushHit(c, i)' => ToPushHit(c, i)
      BY <2>1, EndsStay
    <3>3. \A x, i : Passes(x, i)' => Passes(x, i)
      BY <2>1 DEF Passes, LeftAlone, TakesBack
    <3>4. \A c, i : HeldHit(c, i)' => HeldHit(c, i)
      BY <1>1, <3>3, MiddleStays
    <3>5. \A c, i : QueuedHit(c, i)' => QueuedHit(c, i)
      BY <2>1, <3>3, MiddleStays
    <3>6. QED
      BY <1>1, <2>1, <3>1, <3>2, <3>4, <3>5, StillAhead, StillSounds
  <2>2. CASE SetParam
    <3>1. UNCHANGED todo
      BY <2>2 DEF SetParam, callVars
    <3>2. CASE UNCHANGED queue
      BY <2>1, <3>1, <3>2
    <3>3. CASE \E v \in Values : queue' = Append(queue, ParamEvent(Position, v))
      <4>1. PICK v \in Values : queue' = Append(queue, ParamEvent(Position, v))
        BY <3>3
      <4>2. PICK e : e = ParamEvent(Position, v)
        OBVIOUS
      <4>3. ~IsHit(e) /\ e.kind # "flush" /\ queue' = Append(queue, e)
        BY <4>1, <4>2 DEF ParamEvent, IsHit
      <4>4. \A p : SoundsAt(p)' <=> SoundsAt(p)
        BY <1>1, <3>1, <4>3, ParamSounds
      <4>5. \A a, b : (Ahead(a, b)' => Ahead(a, b)) /\ \A c : Sounds(c)' => Sounds(c)
        BY <1>1, <3>1, <4>3, ParamAhead
      <4>6. QED
        BY <4>4, <4>5
    <3>4. QED
      BY <2>2, <3>2, <3>3 DEF SetParam
  <2>3. CASE \/ \E c \in RealignCalls : BeginCall(c)
             \/ QuietCall \/ TickBegin \/ TickNote \/ TickEnd
    <3>1. UNCHANGED queue
      BY <2>3 DEF BeginCall, QuietCall, TickBegin, TickNote, TickEnd
    <3>2. callPc \in {"idle", "note"} \/ todo = <<>>
      BY <2>3 DEF BeginCall, QuietCall, MayCall, TickBegin, TickNote, TickEnd
    <3>3. todo = <<>>
      BY <3>2, PushesFit DEF EngineInv
    <3>4. todo' = todo \/ todo' = <<>>
      BY <2>3 DEF BeginCall, QuietCall, TickBegin, TickNote, TickEnd, callVars, Unhindered
    <3>5. QED
      BY <2>1, <3>1, <3>3, <3>4
  <2>4. QED
    BY <2>2, <2>3
<1>6. \A a, b \in Nat \X Nat : Ahead(a, b)' => Spaced(a, b)
  BY <1>5 DEF Apart, ApartInv
<1>7. published <= published'
  BY <1>1, <1>4
<1>8. QED
  BY <1>1, <1>2, <1>3, <1>5, <1>6, <1>7, ApartStays

\* What moves the events, from the call to the voices.
LEMMA ApartMoved ==
  ASSUME EngineInv, EngineInv', CommitsAhead, OldInv, HeldNoFlush, Unhindered, ApartInv,
         \/ PushEvent /\ UNCHANGED <<split, capacity>>
         \/ Render /\ UNCHANGED <<split, capacity>>
  PROVE  ApartInv'
<1>1. UNCHANGED <<log, restarts, sched, clock>>
  BY DEF PushEvent, Render, RenderStart, RenderBlock, controlVars, historyVars
<1>2. published \in Nat /\ published' \in Nat /\ pos \in Nat
  BY DEF EngineInv, EngineTypeOK, RenderTypes
<1>3. /\ published <= published'
      /\ \A c : Sounds(c)' => Sounds(c)
      /\ \A p \in Nat \X Nat : SoundsAt(p)' => SoundsAt(p)
      /\ \A a, b \in Nat \X Nat : Ahead(a, b)' => Spaced(a, b)
  <2>1. CASE PushEvent
    <3>1. \A p : SoundsAt(p)' <=> SoundsAt(p)
      BY <2>1, PushSounds
    <3>2. \A a, b : (Ahead(a, b)' => Ahead(a, b)) /\ \A c : Sounds(c)' => Sounds(c)
      BY <2>1, PushAhead
    <3>3. UNCHANGED published
      BY <2>1 DEF PushEvent
    <3>4. QED
      BY <1>2, <3>1, <3>2, <3>3 DEF Apart, ApartInv
  <2>2. CASE RenderStart
    <3>1. UNCHANGED <<queue, pending, heard, todo>> /\ published' = pos
      BY <2>2 DEF RenderStart, RenderPublish, callVars
    <3>2. published <= pos
      BY DEF EngineInv, EngineTypeOK, RenderTypes
    <3>3. \A c, i : HeardHit(c, i)' => HeardHit(c, i)
      BY <3>1, EndsStay
    <3>4. \A c, i : ToPushHit(c, i)' => ToPushHit(c, i)
      BY <3>1, EndsStay
    <3>5. \A x, i : Passes(x, i)' => Passes(x, i)
      BY <3>1 DEF Passes, LeftAlone, TakesBack
    <3>6. \A c, i : HeldHit(c, i)' => HeldHit(c, i)
      BY <3>1, <3>5, MiddleStays
    <3>7. \A c, i : QueuedHit(c, i)' => QueuedHit(c, i)
      BY <3>1, <3>5, MiddleStays
    <3>8. \A a, b : (Ahead(a, b)' => Ahead(a, b)) /\ \A c : Sounds(c)' => Sounds(c)
      BY <3>3, <3>4, <3>6, <3>7, StillAhead
    <3>9. \A p : SoundsAt(p)' <=> SoundsAt(p)
      BY <3>1, StillSounds
    <3>10. QED
      BY <1>2, <3>1, <3>2, <3>8, <3>9 DEF Apart, ApartInv
  <2>3. CASE /\ RenderPull /\ UNCHANGED <<controlVars, callVars, lag, historyVars>>
             /\ UNCHANGED <<split, capacity>>
    <3>1. UNCHANGED <<todo, published>>
      BY <2>3 DEF callVars, RenderPull
    <3>2. \A p : SoundsAt(p)' <=> SoundsAt(p)
      BY <2>3, <3>1, PullSounds
    <3>3. HeldInOrder'
      BY DEF EngineInv
    <3>4. ASSUME NEW a \in Nat \X Nat, NEW b \in Nat \X Nat
          PROVE  (Ahead(a, b)' => Spaced(a, b)) /\ \A c : Sounds(c)' => Sounds(c)
      <4>1. (Ahead(a, b) => Spaced(a, b)) /\ (Ahead(b, a) => Spaced(b, a))
        BY DEF Apart, ApartInv
      <4>2. QED
        BY <2>3, <3>1, <3>3, <4>1, PullAhead
    <3>5. <<0, 0>> \in Nat \X Nat
      OBVIOUS
    <3>6. \A c : Sounds(c)' => Sounds(c)
      BY <3>4, <3>5
    <3>7. QED
      BY <1>2, <3>1, <3>2, <3>4, <3>6
  <2>4. CASE /\ RenderPlay /\ UNCHANGED <<controlVars, callVars, lag, historyVars>>
             /\ UNCHANGED <<split, capacity>>
    <3>1. UNCHANGED <<todo, published>>
      BY <2>4 DEF callVars, RenderPlay
    <3>2. \A p : SoundsAt(p)' <=> SoundsAt(p)
      BY <2>4, PlaySounds
    <3>3. \A a, b : (Ahead(a, b)' => Ahead(a, b)) /\ \A c : Sounds(c)' => Sounds(c)
      BY <2>4, <3>1, PlayAhead
    <3>4. QED
      BY <1>2, <3>1, <3>2, <3>3 DEF Apart, ApartInv
  <2>5. QED
    BY <2>1, <2>2, <2>3, <2>4 DEF Render, RenderBlock
<1>4. clock'.len \in StepLens
  BY <1>1 DEF ApartInv
<1>5. QED
  BY <1>1, <1>3, <1>4, ApartStays

\* A step goes into the log behind sample 0, where places in front of the origin
\* are clamped, and the log still reaches back to what was heard.
InReach == LogReaches /\ StepSample(clock, sched.next) > 0

LEMMA ApartKeeps ==
  ASSUME EngineInv, EngineInv', CommitsAhead, OldInv, FollowInv, HeldNoFlush, Unhindered,
         Unhindered', ApartInv, [Next]_vars, [QuietCall => Unmoved]_vars,
         [TickStep => InReach]_vars
  PROVE  ApartInv'
<1>1. CASE UNCHANGED vars
  <2>1. UNCHANGED <<queue, pending, heard, todo, log, restarts, sched, clock, published>>
    BY <1>1 DEF vars, renderVars, controlVars, callVars, historyVars
  <2>2. \A c, i : HeardHit(c, i)' => HeardHit(c, i)
    BY <2>1, EndsStay
  <2>3. \A c, i : ToPushHit(c, i)' => ToPushHit(c, i)
    BY <2>1, EndsStay
  <2>4. \A x, i : Passes(x, i)' => Passes(x, i)
    BY <2>1 DEF Passes, LeftAlone, TakesBack
  <2>5. \A c, i : HeldHit(c, i)' => HeldHit(c, i)
    BY <2>1, <2>4, MiddleStays
  <2>6. \A c, i : QueuedHit(c, i)' => QueuedHit(c, i)
    BY <2>1, <2>4, MiddleStays
  <2>7. \A a, b : (Ahead(a, b)' => Ahead(a, b)) /\ \A c : Sounds(c)' => Sounds(c)
    BY <2>2, <2>3, <2>5, <2>6, StillAhead
  <2>8. \A p : SoundsAt(p)' <=> SoundsAt(p)
    BY <2>1, StillSounds
  <2>9. clock'.len \in StepLens /\ published <= published'
    BY <2>1 DEF ApartInv, EngineInv, EngineTypeOK, RenderTypes
  <2>10. \A a, b \in Nat \X Nat : Ahead(a, b)' => Spaced(a, b)
    BY <2>7 DEF Apart, ApartInv
  <2>11. QED
    BY <2>1, <2>7, <2>8, <2>9, <2>10, ApartStays
<1>2. CASE Control /\ UNCHANGED <<split, capacity>>
  <2>1. CASE TickStep
    <3>1. todo # todo'
      <4>1. todo = <<>> /\ todo' = StepEvents(sched.next) /\ sched.next \in Nat
        BY <2>1 DEF TickStep, EngineInv, EngineTypeOK, ControlTypes, Scheds
      <4>2. Len(StepEvents(sched.next)) \in 1 .. 2
        BY <4>1, EventsOfStep DEF EngineInv
      <4>3. StepEvents(sched.next) # <<>>
        <5>1. Len(<<>>) \notin 1 .. 2
          OBVIOUS
        <5>2. QED
          BY <4>2, <5>1
      <4>4. QED
        BY <4>1, <4>3
    <3>2. InReach
      BY <2>1, <3>1 DEF vars, callVars
    <3>3. QED
      BY <2>1, <3>2, ApartScheduled DEF InReach
  <2>2. CASE PushFails
    <3>1. Head(todo).kind = "flush" /\ flushLeft' = Head(todo).sample /\ todo # <<>>
      BY <1>2, <2>2, PushTypes DEF PushFails, EngineInv
    <3>2. Head(todo) \in Events
      BY <3>1 DEF EngineInv, EngineTypeOK, ControlTypes
    <3>3. flushLeft' # None
      BY <3>1, <3>2, EventIs DEF None
    <3>4. QED
      BY <3>3 DEF Unhindered
  <2>3. CASE StartInternal \/ StartFollow \/ Resync \/ Jump
    BY <2>3, ApartRealigned
  <2>4. CASE QuietCall
    <3>1. CASE UNCHANGED vars
      BY <1>1, <3>1
    <3>2. CASE Unmoved
      BY <2>4, <3>2, ApartQuiet
    <3>3. QED
      BY <2>4, <3>1, <3>2
  <2>5. CASE \/ \E c \in RealignCalls : BeginCall(c)
             \/ TickBegin \/ TickNote \/ TickEnd \/ SetParam
    BY <2>5, ApartQuiet
  <2>6. CASE PushEvent
    BY <1>2, <2>6, ApartMoved
  <2>7. QED
    BY <1>2, <2>1, <2>2, <2>3, <2>4, <2>5, <2>6 DEF Control
<1>3. CASE Render /\ UNCHANGED <<split, capacity>>
  BY <1>3, ApartMoved
<1>4. QED
  BY <1>1, <1>2, <1>3 DEF Next, Finished

\* Two hits of one continuation are half a step apart.
NoHitTwice ==
    \A i, j \in DOMAIN heard :
        i < j /\ IsHit(heard[i]) /\ IsHit(heard[j]) /\ heard[i].epoch = heard[j].epoch =>
            heard[j].sample - heard[i].sample >= HalfStep

(* No hit is heard twice: within one continuation any two hits that were     *)
(* heard are at least half of the shortest step apart, through every resync, *)
(* jump of the timeline and start while following, whatever is queued, held  *)
(* or half pushed when the call comes (control.rs, realign_continuous;       *)
(* ADR-0011, "no sooner than half a step after the last step heard").  It    *)
(* holds once the renderer has run, while neither buffer runs full, no tempo *)
(* change and no nudge moves the timeline under a pattern, and the log of    *)
(* queued steps (QUEUED_MEMORY of them) reaches back to what was heard.      *)
THEOREM HitsApart ==
  ASSUME CommitsAhead
  PROVE  Spec /\ []Unhindered /\ [][QuietCall => Unmoved]_vars /\ [][TickStep => InReach]_vars
         => []NoHitTwice
<1> DEFINE Spread == EngineInv /\ OldInv /\ FollowInv /\ HeldNoFlush /\ ApartInv
<1>1. Init => Spread
  BY InitEngine, OldStarts, FollowStarts, FaithStarts, ApartStarts
<1>2. Spread /\ Unhindered /\ Unhindered' /\ [Next]_vars /\ [QuietCall => Unmoved]_vars
      /\ [TickStep => InReach]_vars => Spread'
  <2> SUFFICES ASSUME EngineInv, OldInv, FollowInv, HeldNoFlush, ApartInv, Unhindered,
                      Unhindered', [Next]_vars, [QuietCall => Unmoved]_vars,
                      [TickStep => InReach]_vars
               PROVE  Spread'
    OBVIOUS
  <2>1. EngineInv' /\ FollowInv'
    BY EngineKeeps, FollowKeeps
  <2>2. [TickStep => StepFollows]_vars
    BY DEF FollowInv, NextFollows, StepFollows, TickStep, StepDue
  <2>3. OldInv'
    BY <2>2, OldKeeps
  <2>4. HeldNoFlush'
    <3>1. <<0, 0>> \in Nat \X Nat
      OBVIOUS
    <3>2. QED
      BY <3>1, FaithKeeps
  <2>5. ApartInv'
    BY <2>1, ApartKeeps
  <2>6. QED
    BY <2>1, <2>3, <2>4, <2>5
<1>3. Spread => NoHitTwice
  <2> SUFFICES ASSUME EngineInv, ApartInv, NEW i \in DOMAIN heard, NEW j \in DOMAIN heard,
                      i < j, IsHit(heard[i]), IsHit(heard[j]), heard[i].epoch = heard[j].epoch
               PROVE  heard[j].sample - heard[i].sample >= HalfStep
    BY DEF NoHitTwice
  <2>1. heard \in Seq(Triggers)
    BY DEF EngineInv, EngineTypeOK, RenderTypes
  <2>2. i \in Nat /\ j \in Nat /\ heard[i] \in Triggers /\ heard[j] \in Triggers
    BY <2>1
  <2>3. /\ heard[i].sample \in Nat /\ heard[j].sample \in Nat
        /\ heard[i].epoch \in Nat /\ heard[j].epoch \in Nat
    BY <2>2 DEF Triggers
  <2>4. PICK a \in Nat \X Nat, b \in Nat \X Nat : a = Beat(heard[i]) /\ b = Beat(heard[j])
    BY <2>3 DEF Beat
  <2>5. Ahead(a, b)
    BY <2>2, <2>4 DEF Ahead, HeardHit
  <2>6. Spaced(a, b)
    BY <2>5 DEF Apart, ApartInv
  <2>7. heard[i].sample + HalfStep <= heard[j].sample
    BY <2>4, <2>6 DEF Spaced, Beat
  <2>8. QED
    BY <2>3, <2>7, HalfStepIs
<1>4. QED
  BY <1>1, <1>2, <1>3, PTL DEF Spec
=============================================================================
