--------------------------- MODULE Metrics_proofs ---------------------------
(***************************************************************************)
(* Proofs about the running statistics of Metrics: for any number of       *)
(* samples of any size.  Each sum is compared with the products by which   *)
(* one sample changes it, so the lemmas come before the machine.           *)
(***************************************************************************)
EXTENDS Metrics, TLAPS, FiniteSetTheorems, WellFoundedInduction

\* The square of a difference is not negative.
LEMMA SquareOfDifference ==
    ASSUME NEW a \in Int, NEW b \in Int
    PROVE  2 * (a * b) <= a * a + b * b
<1>1. (a - b) * (a - b) >= 0
  <2>1. CASE a - b >= 0
    BY <2>1, SMT
  <2>2. CASE a - b < 0
    BY <2>2, SMT
  <2> QED BY <2>1, <2>2
<1>2. (a - b) * (a - b) = a * a - 2 * (a * b) + b * b
  BY SMT
<1>3. a * a \in Int /\ b * b \in Int /\ a * b \in Int
  OBVIOUS
<1> QED BY <1>1, <1>2, <1>3

LEMMA MulMonotone ==
    ASSUME NEW c \in Nat, NEW a \in Nat, NEW b \in Nat, a <= b
    PROVE  c * a <= c * b
  BY SMT

LEMMA MulNext ==
    ASSUME NEW a \in Nat, NEW b \in Nat
    PROVE  (a + 1) * b = a * b + b
  BY SMT

\* One step of the inequality of Cauchy and Schwarz.
LEMMA SquareOfSum ==
    ASSUME NEW n \in Nat, NEW t \in Nat, NEW q \in Nat, NEW v \in Nat,
           n > 0, t * t <= n * q
    PROVE  (t + v) * (t + v) <= (n + 1) * (q + v * v)
<1> DEFINE nv == n * v
           vv == v * v
           rest == q + n * vv - 2 * (t * v)
<1>1. 2 * (t * nv) <= t * t + nv * nv
  BY SquareOfDifference DEF nv
<1>2. n * rest = n * q + nv * nv - 2 * (t * nv)
  BY SMT DEF rest, nv, vv
<1>3. n * rest >= 0
  <2>1. t * nv \in Int /\ nv * nv \in Int /\ n * q \in Int /\ t * t \in Int
    BY DEF nv
  <2> QED BY <1>1, <1>2, <2>1
<1>4. rest >= 0
  <2>1. rest \in Int
    BY DEF rest, vv
  <2>2. ASSUME rest < 0 PROVE FALSE
    <3>1. n * rest < 0
      BY <2>1, <2>2, SMT
    <3> QED BY <3>1, <1>3
  <2> QED BY <2>1, <2>2
<1>5. (t + v) * (t + v) = t * t + 2 * (t * v) + vv
  BY SMT DEF vv
<1>6. (n + 1) * (q + vv) = n * q + q + n * vv + vv
  BY SMT DEF vv
<1>7. t * t \in Int /\ t * v \in Int /\ vv \in Int /\ n * q \in Int /\ n * vv \in Int
  BY DEF vv
<1>8. 2 * (t * v) <= q + n * vv
  BY <1>4, <1>7 DEF rest
<1>9. (t + v) * (t + v) <= (n + 1) * (q + vv)
  BY <1>5, <1>6, <1>7, <1>8
<1> QED BY <1>9 DEF vv

-----------------------------------------------------------------------------
(* The operators of Metrics.                                               *)

LEMMA NewStatsFacts ==
    NewStats \in RunningStats /\ Sound(NewStats) /\ NewStats.max = 0
  BY MetricsAssumption DEF NewStats, RunningStats, Sound

LEMMA RecordFacts ==
    ASSUME NEW s \in RunningStats, NEW v \in Nat
    PROVE  /\ Record(s, v) \in RunningStats
           /\ Record(s, v).count = s.count + 1
           /\ Record(s, v).sum = s.sum + v
           /\ Record(s, v).sum_sq = s.sum_sq + v * v
           /\ Record(s, v).min \in Nat /\ Record(s, v).min <= v
           /\ Record(s, v).min <= s.min
           /\ s.max <= Record(s, v).max /\ v <= Record(s, v).max
           /\ Record(s, v).max \in {s.max, v}
<1>1. v * v \in Nat
  OBVIOUS
<1> QED BY <1>1 DEF Record, RunningStats

\* Before the first sample the sums are zero; every later one keeps the least and
\* the greatest sample on either side of the mean, and the variance above zero.
Started(s) == s.count = 0 => s.sum = 0 /\ s.sum_sq = 0

LEMMA RecordSound ==
    ASSUME NEW s \in RunningStats, NEW v \in Nat, Sound(s), Started(s)
    PROVE  Sound(Record(s, v)) /\ Started(Record(s, v))
<1> DEFINE r == Record(s, v)
<1>1. /\ r \in RunningStats
      /\ r.count = s.count + 1 /\ r.sum = s.sum + v
      /\ r.sum_sq = s.sum_sq + v * v
      /\ r.min <= v /\ r.min <= s.min
      /\ s.max <= r.max /\ v <= r.max
  BY RecordFacts
<1>2. /\ s.count \in Nat /\ s.sum \in Nat /\ s.sum_sq \in Nat /\ s.min \in Nat
      /\ s.max \in Nat /\ r.min \in Nat /\ r.max \in Nat /\ v * v \in Nat
  BY <1>1 DEF RunningStats
<1> HIDE DEF r
<1>3. CASE s.count = 0
  <2>1. r.count = 1 /\ r.sum = v /\ r.sum_sq = v * v
    BY <1>1, <1>2, <1>3 DEF Started
  <2>2. /\ r.count * r.min <= r.sum
        /\ r.sum <= r.count * r.max
        /\ r.sum * r.sum <= r.count * r.sum_sq
    BY <2>1, <1>1, <1>2
  <2> QED BY <2>1, <2>2 DEF Sound, Started, r
<1>4. CASE s.count > 0
  <2>1. /\ s.count * s.min <= s.sum /\ s.sum <= s.count * s.max
        /\ s.sum * s.sum <= s.count * s.sum_sq
    BY <1>4 DEF Sound
  <2>2. s.count * r.min <= s.count * s.min
    BY <1>1, <1>2, MulMonotone
  <2>3. s.count * s.max <= s.count * r.max
    BY <1>1, <1>2, MulMonotone
  <2>4. /\ (s.count + 1) * r.min = s.count * r.min + r.min
        /\ (s.count + 1) * r.max = s.count * r.max + r.max
    BY <1>2, MulNext
  <2>5. /\ s.count * r.min \in Nat /\ s.count * s.min \in Nat
        /\ s.count * r.max \in Nat /\ s.count * s.max \in Nat
    BY <1>2
  <2>6. r.count * r.min <= r.sum
    BY <1>1, <1>2, <2>1, <2>2, <2>4, <2>5
  <2>7. r.sum <= r.count * r.max
    BY <1>1, <1>2, <2>1, <2>3, <2>4, <2>5
  <2>8. r.sum * r.sum <= r.count * r.sum_sq
    BY <1>1, <1>2, <1>4, <2>1, SquareOfSum
  <2>9. r.count > 0
    BY <1>1, <1>2
  <2> QED BY <2>6, <2>7, <2>8, <2>9 DEF Sound, Started, r
<1> QED BY <1>2, <1>3, <1>4

LEMMA IntervalFacts ==
    ASSUME NEW a \in Nat, NEW b \in Nat, a >= b, NEW p \in Nat
    PROVE  /\ SaturatingSub(a, b) = a - b
           /\ Abs(SaturatingSub(a, b) - p) \in Nat
  BY DEF SaturatingSub, Abs

-----------------------------------------------------------------------------
(* The machine.                                                            *)

StatsStarted == Started(drift) /\ Started(latency) /\ Started(jitter)

\* What the jitter of the next cycle is measured from: the last read came one
\* period before the next is due, later by the last drift and the time of the
\* read itself.
LastRead ==
    /\ drifts = <<>> <=> total_cycles = 0
    /\ last_read_us = -1 <=> total_cycles = 0
    /\ LastDrift <= drift.max
    /\ total_cycles = 0 => jitter.count = 0 /\ jitter.sum = 0 /\ jitter.max = 0
    /\ total_cycles > 0 =>
         last_read_us + IdealPeriod - next_scheduled - LastDrift - ReadTime
           \in 0 .. ReadSpread

IInv == TypeOK /\ StatsSound /\ StatsStarted /\ LastRead /\ JitterFromDrift

\* A jitter is no greater than the two drifts it lies between, and the spread of
\* the reads.
LEMMA JitterOfInterval ==
    ASSUME NEW d \in Nat, NEW e \in Nat, NEW i \in 0 .. ReadSpread,
           NEW k \in 0 .. ReadSpread,
           NEW j \in Nat, j = Abs((e + k) - (d + i))
    PROVE  /\ j + e <= d + 2 * e + ReadSpread
           /\ j <= (IF d > e THEN d ELSE e) + ReadSpread
  BY MetricsAssumption DEF Abs

LEMMA InitIInv == Init => IInv
<1> SUFFICES ASSUME Init PROVE IInv
  OBVIOUS
<1>1. /\ drift = NewStats /\ latency = NewStats /\ jitter = NewStats
      /\ total_cycles = 0 /\ last_read_us = -1 /\ next_scheduled = 0
      /\ drifts = <<>>
  BY DEF Init
<1>2. TypeOK
  BY <1>1, NewStatsFacts DEF TypeOK
<1>3. StatsSound /\ StatsStarted
  BY <1>1, NewStatsFacts DEF StatsSound, StatsStarted, Started, NewStats
<1>4. NewStats.sum = 0 /\ NewStats.max = 0 /\ NewStats.count = 0
  BY DEF NewStats
<1>5. LastDrift = 0
  BY <1>1 DEF LastDrift
<1>6. LastRead
  BY <1>1, <1>4, <1>5 DEF LastRead
<1>7. 0 * ReadSpread = 0
  BY MetricsAssumption
<1>8. JitterFromDrift
  BY <1>1, <1>4, <1>5, <1>7, MetricsAssumption DEF JitterFromDrift
<1> QED BY <1>2, <1>3, <1>6, <1>8 DEF IInv

LEMMA CycleIInv == IInv /\ Cycle => IInv'
<1> SUFFICES ASSUME IInv, Cycle PROVE IInv'
  OBVIOUS
<1>1. PICK d \in 0 .. MaxSample, l \in 0 .. MaxSample, k \in 0 .. ReadSpread :
        /\ next_scheduled + d >= last_read_us
        /\ RecordCycle(d, l, next_scheduled + d + ReadTime + k)
        /\ drifts' = Append(drifts, d)
        /\ next_scheduled' = next_scheduled + IdealPeriod
  BY DEF Cycle
<1> DEFINE read == next_scheduled + d + ReadTime + k
           j == Abs(SaturatingSub(read, last_read_us) - IdealPeriod)
<1>2. /\ TypeOK /\ StatsSound /\ StatsStarted /\ LastRead /\ JitterFromDrift
  BY DEF IInv
<1>3. d \in Nat /\ l \in Nat /\ k \in Nat /\ read \in Nat
  BY <1>2, MetricsAssumption DEF TypeOK
<1>4. /\ drift' = Record(drift, d) /\ latency' = Record(latency, l)
      /\ jitter' = IF last_read_us = -1 THEN jitter ELSE Record(jitter, j)
      /\ total_cycles' = total_cycles + 1 /\ last_read_us' = read
  BY <1>1 DEF RecordCycle
<1>5. last_read_us # -1 => last_read_us \in Nat /\ read >= last_read_us
  BY <1>1, <1>2, <1>3, MetricsAssumption DEF TypeOK
<1>6. last_read_us # -1 => j \in Nat /\ j = Abs(read - last_read_us - IdealPeriod)
  BY <1>3, <1>5, IntervalFacts, MetricsAssumption DEF SaturatingSub
<1>7. Len(drifts') = Len(drifts) + 1 /\ drifts' # <<>> /\ drifts'[Len(drifts')] = d
      /\ drifts' \in Seq(0 .. MaxSample)
  BY <1>1, <1>2 DEF TypeOK
<1>8. LastDrift' = d
  BY <1>7 DEF LastDrift
<1>9. LastDrift \in Nat
  BY <1>2, MetricsAssumption DEF LastDrift, TypeOK
<1>10. drift \in RunningStats /\ latency \in RunningStats /\ jitter \in RunningStats
  BY <1>2 DEF TypeOK
<1> HIDE DEF read, j
<1>11. TypeOK'
  <2>1. drift' \in RunningStats /\ latency' \in RunningStats
    BY <1>3, <1>4, <1>10, RecordFacts
  <2>2. jitter' \in RunningStats
    BY <1>4, <1>6, <1>10, RecordFacts
  <2>3. total_cycles' \in Nat /\ last_read_us' \in Nat /\ next_scheduled' \in Nat
    BY <1>1, <1>2, <1>3, <1>4, MetricsAssumption DEF TypeOK
  <2> QED BY <2>1, <2>2, <2>3, <1>7 DEF TypeOK
<1>12. StatsSound' /\ StatsStarted'
  <2>1. Sound(drift') /\ Started(drift') /\ Sound(latency') /\ Started(latency')
    BY <1>2, <1>3, <1>4, <1>10, RecordSound DEF StatsSound, StatsStarted
  <2>2. Sound(jitter') /\ Started(jitter')
    <3>1. CASE last_read_us = -1
      BY <3>1, <1>2, <1>4 DEF StatsSound, StatsStarted
    <3>2. CASE last_read_us # -1
      BY <3>2, <1>2, <1>4, <1>6, <1>10, RecordSound DEF StatsSound, StatsStarted
    <3> QED BY <3>1, <3>2
  <2>3. StatsSound'
    BY <2>1, <2>2 DEF StatsSound
  <2>4. StatsStarted'
    BY <2>1, <2>2 DEF StatsStarted
  <2> QED BY <2>3, <2>4
<1>13. /\ drift'.sum = drift.sum + d /\ drift.sum \in Nat
       /\ d <= drift'.max /\ drift.max <= drift'.max
       /\ drift.max \in Nat /\ drift'.max \in Nat
  <2>1. drift'.max \in Nat
    BY <1>11 DEF TypeOK, RunningStats
  <2> QED BY <2>1, <1>3, <1>4, <1>10, RecordFacts DEF RunningStats
<1>14. LastRead'
  <2>1. read + IdealPeriod - (next_scheduled + IdealPeriod) - d - ReadTime = k
    BY <1>2, <1>3, MetricsAssumption DEF read, TypeOK
  <2>2. total_cycles' > 0 /\ last_read_us' # -1
    BY <1>2, <1>3, <1>4 DEF TypeOK
  <2> QED BY <2>1, <2>2, <1>1, <1>3, <1>4, <1>7, <1>8, <1>13 DEF LastRead
<1>15. JitterFromDrift'
  <2>1. CASE total_cycles = 0
    <3>1. last_read_us = -1 /\ LastDrift = 0
      BY <2>1, <1>2 DEF LastRead, LastDrift
    <3>2. jitter' = jitter /\ total_cycles' = 1
      BY <3>1, <2>1, <1>4
    <3>3. jitter.count = 0 /\ jitter.sum = 0 /\ jitter.max = 0
      BY <2>1, <1>2 DEF LastRead
    <3>4. 0 * ReadSpread = 0 /\ ReadSpread \in Nat
      BY MetricsAssumption
    <3> QED BY <3>2, <3>3, <3>4, <1>3, <1>8, <1>13 DEF JitterFromDrift
  <2>2. CASE total_cycles > 0
    <3> DEFINE i == last_read_us + IdealPeriod - next_scheduled - LastDrift - ReadTime
    <3>1. last_read_us # -1 /\ last_read_us \in Nat /\ next_scheduled \in Nat
      BY <2>2, <1>2 DEF LastRead, TypeOK
    <3>2. i \in 0 .. ReadSpread
      BY <2>2, <1>2 DEF LastRead
    <3>3. read - last_read_us - IdealPeriod = (d + k) - (LastDrift + i)
      BY <3>1, <1>3, <1>9, MetricsAssumption DEF read
    <3>4. j \in Nat /\ j = Abs((d + k) - (LastDrift + i))
      BY <3>1, <3>3, <1>6
    <3> HIDE DEF i
    <3>5. /\ j + d <= LastDrift + 2 * d + ReadSpread
          /\ j <= (IF LastDrift > d THEN LastDrift ELSE d) + ReadSpread
      BY <3>2, <3>4, <1>3, <1>9, JitterOfInterval
    <3>6. jitter' = Record(jitter, j)
      BY <3>1, <1>4
    <3>7. /\ jitter'.count = jitter.count + 1 /\ jitter'.sum = jitter.sum + j
          /\ jitter'.max \in {jitter.max, j}
      BY <3>4, <3>6, <1>10, RecordFacts
    <3>8. jitter.count \in Nat /\ jitter.sum \in Nat /\ jitter.max \in Nat
      BY <1>10 DEF RunningStats
    <3>9. /\ ReadSpread \in Nat
          /\ jitter.count * ReadSpread \in Nat
          /\ (jitter.count + 1) * ReadSpread = jitter.count * ReadSpread + ReadSpread
      BY <3>8, MetricsAssumption
    <3>10. /\ jitter.count = total_cycles - 1
           /\ jitter.max <= drift.max + ReadSpread
           /\ jitter.sum + LastDrift <= 2 * drift.sum + jitter.count * ReadSpread
           /\ LastDrift <= drift.max
      BY <2>2, <1>2 DEF JitterFromDrift, LastRead
    <3>11. jitter'.sum + d <= 2 * drift'.sum + jitter'.count * ReadSpread
      BY <3>4, <3>5, <3>7, <3>8, <3>9, <3>10, <1>3, <1>9, <1>13
    <3>12. jitter'.max <= drift'.max + ReadSpread
      BY <3>4, <3>5, <3>7, <3>8, <3>9, <3>10, <1>3, <1>9, <1>13
    <3>13. jitter'.count = total_cycles' - 1
      BY <3>7, <3>10, <1>2, <1>4 DEF TypeOK
    <3> QED BY <3>11, <3>12, <3>13, <1>8 DEF JitterFromDrift
  <2> QED BY <2>1, <2>2, <1>2 DEF TypeOK
<1> QED BY <1>11, <1>12, <1>14, <1>15 DEF IInv

\* The invariant IInv holds of every behaviour.
THEOREM Invariant == Spec => []IInv
<1>1. IInv /\ UNCHANGED vars => IInv'
  BY DEF IInv, TypeOK, StatsSound, StatsStarted, LastRead, LastDrift,
         JitterFromDrift, Sound, Started, vars
<1> QED BY InitIInv, CycleIInv, <1>1, PTL DEF Spec

\* Type correctness.
THEOREM TypeCorrect == Spec => []TypeOK
<1>1. IInv => TypeOK
  BY DEF IInv
<1> QED BY Invariant, <1>1, PTL

\* The mean lies between the least and the greatest sample and the variance is
\* never negative, after any number of samples of any size.
THEOREM StatisticsSound == Spec => []StatsSound
<1>1. IInv => StatsSound
  BY DEF IInv
<1> QED BY Invariant, <1>1, PTL

\* The jitter recorded is bounded by the drift recorded, for every period and
\* every read time.
THEOREM JitterBounded == Spec => []JitterFromDrift
<1>1. IInv => JitterFromDrift
  BY DEF IInv
<1> QED BY Invariant, <1>1, PTL

-----------------------------------------------------------------------------
(* The samples.  A sum over a list is turned into the size of a set, whose *)
(* finite subsets are well founded.                                       *)

\* What the sum of f over S counts: f[i] points over each i in S.
Points(f, S, M) == {p \in S \X (1 .. M) : p[2] <= f[p[1]]}

\* One unfolding of the recursive function by which MapThenSumSet adds.
Adding(f, g, S) ==
    [s \in SUBSET S |-> IF s = {} THEN 0
                        ELSE f[CHOOSE x \in s : TRUE] + g[s \ {CHOOSE x \in s : TRUE}]]

\* MapThenSumSet of FiniteSetsExt, with a function for the operator.
SumOver(f, S) == (CHOOSE g : g = Adding(f, g, S))[S]

\* Each element adds its own points.
LEMMA PointsOfOne ==
    ASSUME NEW S, IsFiniteSet(S), NEW M \in Nat, NEW f, NEW x \in S,
           \A y \in S : f[y] \in 0 .. M
    PROVE  /\ IsFiniteSet(Points(f, S, M)) /\ IsFiniteSet(Points(f, S \ {x}, M))
           /\ Cardinality(Points(f, S, M)) = f[x] + Cardinality(Points(f, S \ {x}, M))
<1> DEFINE rest == Points(f, S \ {x}, M)
           own == {x} \X (1 .. f[x])
<1>1. IsFiniteSet(rest)
    <2>1. IsFiniteSet(1 .. M)
        BY FS_Interval
    <2>2. IsFiniteSet(S \ {x})
        BY FS_RemoveElement
    <2>3. IsFiniteSet((S \ {x}) \X (1 .. M))
        BY <2>1, <2>2, FS_Product
    <2>4. rest \in SUBSET ((S \ {x}) \X (1 .. M))
        BY DEF Points
    <2> QED BY <2>3, <2>4, FS_Subset
<1>2. IsFiniteSet(own) /\ Cardinality(own) = f[x]
    <2>1. f[x] \in Nat
        OBVIOUS
    <2>2. IsFiniteSet(1 .. f[x]) /\ Cardinality(1 .. f[x]) = f[x]
        <3> DEFINE n == f[x]
        <3>1. n \in Nat
            BY <2>1
        <3> HIDE DEF n
        <3>2. IsFiniteSet(1 .. n)
              /\ Cardinality(1 .. n) = IF 1 > n THEN 0 ELSE n - 1 + 1
            BY <3>1, FS_Interval
        <3>3. Cardinality(1 .. n) = n
            BY <3>1, <3>2
        <3> QED BY <3>2, <3>3 DEF n
    <2>3. IsFiniteSet({x}) /\ Cardinality({x}) = 1
        BY FS_Singleton
    <2>4. IsFiniteSet(own) /\ Cardinality(own) = Cardinality({x}) * Cardinality(1 .. f[x])
        BY <2>2, <2>3, FS_Product
    <2> HIDE DEF own
    <2>5. Cardinality(own) = 1 * f[x]
        BY <2>2, <2>3, <2>4
    <2> QED BY <2>1, <2>4, <2>5
<1>3. Points(f, S, M) = rest \union own
    BY DEF Points
<1>4. rest \intersect own = {}
    BY DEF Points
<1>5. IsFiniteSet(rest \union own)
      /\ Cardinality(rest \union own)
         = Cardinality(rest) + Cardinality(own) - Cardinality(rest \intersect own)
    BY <1>1, <1>2, FS_Union
<1>6. Cardinality(rest \intersect own) = 0
    BY <1>4, FS_EmptySet
<1>7. Cardinality(rest) \in Nat
    BY <1>1, FS_CardinalityType
<1> HIDE DEF rest, own
<1>8. IsFiniteSet(Points(f, S, M)) /\ Cardinality(Points(f, S, M)) = f[x] + Cardinality(rest)
    BY <1>2, <1>3, <1>5, <1>6, <1>7
<1> QED BY <1>1, <1>8 DEF rest

\* SumOver adds up f over a finite set, in whatever order it takes the elements.
LEMMA SumCountsPoints ==
    ASSUME NEW S, IsFiniteSet(S), NEW M \in Nat, NEW f, \A y \in S : f[y] \in 0 .. M
    PROVE  SumOver(f, S) = Cardinality(Points(f, S, M))
<1> DEFINE count == [s \in SUBSET S |-> Cardinality(Points(f, s, M))]
           sum == CHOOSE g : g = Adding(f, g, S)
           first(s) == CHOOSE x \in s : TRUE
<1>1. count[{}] = 0
    <2>1. Points(f, {}, M) = {}
        BY DEF Points
    <2> QED BY <2>1, FS_EmptySet
<1>2. ASSUME NEW s \in SUBSET S, s # {}
      PROVE  count[s] = f[first(s)] + count[s \ {first(s)}]
    <2>1. first(s) \in s
        BY <1>2
    <2>2. IsFiniteSet(s)
        BY FS_Subset
    <2> HIDE DEF first
    <2>3. Cardinality(Points(f, s, M))
          = f[first(s)] + Cardinality(Points(f, s \ {first(s)}, M))
        BY <2>1, <2>2, PointsOfOne
    <2>4. s \ {first(s)} \in SUBSET S
        OBVIOUS
    <2> QED BY <2>3, <2>4
<1>3. count = Adding(f, count, S)
    <2> HIDE DEF first
    <2>1. \A s \in SUBSET S :
             count[s] = IF s = {} THEN 0 ELSE f[first(s)] + count[s \ {first(s)}]
        <3> HIDE DEF count
        <3> QED BY <1>1, <1>2
    <2>2. count = [s \in SUBSET S |-> count[s]]
        OBVIOUS
    <2> HIDE DEF count
    <2>3. Adding(f, count, S)
          = [s \in SUBSET S |-> IF s = {} THEN 0 ELSE f[first(s)] + count[s \ {first(s)}]]
        BY Zenon DEF Adding, first
    <2> QED BY <2>1, <2>2, <2>3
<1>4. sum = Adding(f, sum, S)
    <2> HIDE DEF count
    <2> QED BY <1>3, Zenon
<1> HIDE DEF count, sum
<1>5. \A s \in SUBSET S :
         sum[s] = IF s = {} THEN 0 ELSE f[first(s)] + sum[s \ {first(s)}]
    <2>1. Adding(f, sum, S)
          = [s \in SUBSET S |-> IF s = {} THEN 0 ELSE f[first(s)] + sum[s \ {first(s)}]]
        BY Zenon DEF Adding, first
    <2> QED BY <1>4, <2>1
<1>6. sum[S] = count[S]
    <2> DEFINE bad == {s \in SUBSET S : sum[s] # count[s]}
    <2> SUFFICES ASSUME bad # {}
                 PROVE  FALSE
        BY Zenon
    <2>1. bad \subseteq FiniteSubsetsOf(S)
        BY FS_FiniteSubsetsOfFinite
    <2>2. IsWellFoundedOn(StrictSubsetOrdering(S), FiniteSubsetsOf(S))
        BY FS_StrictSubsetOrderingWellFounded
    <2>3. PICK s \in bad : \A t \in bad : ~ (<<t, s>> \in StrictSubsetOrdering(S))
        <3> HIDE DEF bad
        <3> QED BY <2>1, <2>2, WFMin
    <2>4. s # {}
        BY <1>1, <1>5
    <2>5. first(s) \in s
        BY <2>4
    <2> HIDE DEF first
    <2>6. <<s \ {first(s)}, s>> \in StrictSubsetOrdering(S)
        BY <2>5 DEF StrictSubsetOrdering
    <2>7. sum[s \ {first(s)}] = count[s \ {first(s)}]
        BY <2>3, <2>6
    <2> QED BY <1>2, <1>5, <2>4, <2>7
<1> QED BY <1>6 DEF count, sum, SumOver

\* DriftMatchesSamples with the sum as SumOver.
LEMMA DriftRestated ==
    DriftMatchesSamples <=>
      LET all == {drifts[i] : i \in 1 .. Len(drifts)}
      IN  /\ drift.count = Len(drifts)
          /\ drift.sum = SumOver(drifts, 1 .. Len(drifts))
          /\ drifts # <<>> => drift.min = Min(all) /\ drift.max = Max(all)
BY Zenon DEF DriftMatchesSamples, MapThenSumSet, MapThenFoldSet, SumOver, Adding

\* A sample at the end adds its own value to the count.
LEMMA PointsOfAppend ==
    ASSUME NEW M \in Nat, NEW q \in Seq(0 .. M), NEW v \in 0 .. M
    PROVE  Cardinality(Points(Append(q, v), 1 .. Len(Append(q, v)), M))
           = Cardinality(Points(q, 1 .. Len(q), M)) + v
<1> DEFINE n == Len(q)
           r == Append(q, v)
<1>1. /\ n \in Nat /\ Len(r) = n + 1 /\ r[n + 1] = v
      /\ \A i \in 1 .. n : r[i] = q[i] /\ q[i] \in 0 .. M
    OBVIOUS
<1> HIDE DEF n, r
<1>2. \A i \in 1 .. n + 1 : r[i] \in 0 .. M
    BY <1>1
<1>3. IsFiniteSet(1 .. n + 1) /\ n + 1 \in 1 .. n + 1
    <2>1. IsFiniteSet(1 .. n + 1)
        BY <1>1, FS_Interval
    <2> QED BY <1>1, <2>1
<1>4. Cardinality(Points(r, 1 .. n + 1, M))
      = r[n + 1] + Cardinality(Points(r, (1 .. n + 1) \ {n + 1}, M))
    BY <1>2, <1>3, PointsOfOne
<1>5. (1 .. n + 1) \ {n + 1} = 1 .. n
    BY <1>1
<1>6. Points(r, 1 .. n, M) = Points(q, 1 .. n, M)
    BY <1>1 DEF Points
<1>7. Cardinality(Points(q, 1 .. n, M)) \in Nat
    <2>1. IsFiniteSet(Points(r, (1 .. n + 1) \ {n + 1}, M))
        BY <1>2, <1>3, PointsOfOne
    <2> QED BY <2>1, <1>5, <1>6, FS_CardinalityType
<1>8. v \in Nat
    OBVIOUS
<1>9. Cardinality(Points(r, 1 .. n + 1, M)) = v + Cardinality(Points(q, 1 .. n, M))
    BY <1>1, <1>4, <1>5, <1>6
<1>10. Cardinality(Points(r, 1 .. Len(r), M)) = Cardinality(Points(q, 1 .. n, M)) + v
    BY <1>1, <1>7, <1>8, <1>9
<1> QED BY <1>10 DEF n, r

\* The running values, with the sum as a count of points, and the least and the
\* greatest as samples that no other is beyond.
SamplesInv ==
    /\ drift.count = Len(drifts)
    /\ drift.sum = Cardinality(Points(drifts, 1 .. Len(drifts), MaxSample))
    /\ drifts = <<>> => drift.min = MaxFloat /\ drift.max = 0
    /\ drifts # <<>> => \E i, j \in 1 .. Len(drifts) :
                            drifts[i] = drift.min /\ drifts[j] = drift.max
    /\ \A i \in 1 .. Len(drifts) : drift.min <= drifts[i] /\ drifts[i] <= drift.max

\* No samples, no points.
LEMMA InitSamples == Init => SamplesInv
<1> SUFFICES ASSUME Init PROVE SamplesInv
    OBVIOUS
<1>1. drift = NewStats /\ drifts = <<>>
    BY DEF Init
<1>2. Len(drifts) = 0 /\ 1 .. Len(drifts) = {}
    BY <1>1
<1>3. drift.count = 0 /\ drift.sum = 0 /\ drift.min = MaxFloat /\ drift.max = 0
    BY <1>1 DEF NewStats
<1>4. Points(drifts, {}, MaxSample) = {}
    BY DEF Points
<1>5. Cardinality(Points(drifts, 1 .. Len(drifts), MaxSample)) = 0
    BY <1>2, <1>4, FS_EmptySet
<1> QED BY <1>1, <1>2, <1>3, <1>5 DEF SamplesInv

\* A sample recorded in drift is one more at the end of drifts.
LEMMA CycleSamples == TypeOK /\ SamplesInv /\ Cycle => SamplesInv'
<1> SUFFICES ASSUME TypeOK, SamplesInv, Cycle PROVE SamplesInv'
    OBVIOUS
<1>1. PICK d \in 0 .. MaxSample : drift' = Record(drift, d) /\ drifts' = Append(drifts, d)
    BY DEF Cycle, RecordCycle
<1> DEFINE n == Len(drifts)
<1>2. drift \in RunningStats /\ drifts \in Seq(0 .. MaxSample) /\ n \in Nat /\ d \in Nat
      /\ MaxSample \in Nat /\ MaxFloat \in Nat /\ MaxSample < MaxFloat
    BY MetricsAssumption DEF TypeOK
<1>3. /\ Len(drifts') = n + 1 /\ drifts'[n + 1] = d /\ drifts' # <<>>
      /\ \A i \in 1 .. n : drifts'[i] = drifts[i] /\ drifts[i] \in 0 .. MaxSample
    BY <1>1, <1>2
<1>4. /\ drift'.count = drift.count + 1 /\ drift'.sum = drift.sum + d
      /\ drift'.min = IF d < drift.min THEN d ELSE drift.min
      /\ drift'.max = IF d > drift.max THEN d ELSE drift.max
    BY <1>1 DEF Record
<1>5. drift.min \in Nat /\ drift.max \in Nat /\ drift.count \in Nat /\ drift.sum \in Nat
    BY <1>2 DEF RunningStats
<1>6. drift'.count = Len(drifts')
    BY <1>3, <1>4 DEF SamplesInv
<1>7. drift'.sum = Cardinality(Points(drifts', 1 .. Len(drifts'), MaxSample))
    <2>1. drift.sum = Cardinality(Points(drifts, 1 .. Len(drifts), MaxSample))
        BY DEF SamplesInv
    <2>2. Cardinality(Points(drifts', 1 .. Len(drifts'), MaxSample))
          = Cardinality(Points(drifts, 1 .. Len(drifts), MaxSample)) + d
        BY <1>1, <1>2, PointsOfAppend
    <2> QED BY <1>4, <2>1, <2>2
<1>8. \A i \in 1 .. n + 1 : drift'.min <= drifts'[i] /\ drifts'[i] <= drift'.max
    <2>1. drift'.min \in Nat /\ drift'.max \in Nat
          /\ drift'.min <= drift.min /\ drift'.min <= d
          /\ drift.max <= drift'.max /\ d <= drift'.max
        BY <1>2, <1>4, <1>5
    <2>2. ASSUME NEW i \in 1 .. n
          PROVE  drift'.min <= drifts'[i] /\ drifts'[i] <= drift'.max
        <3>1. drift.min <= drifts[i] /\ drifts[i] <= drift.max
            BY DEF SamplesInv
        <3>2. drifts'[i] = drifts[i] /\ drifts[i] \in Nat
            BY <1>3
        <3> QED BY <1>5, <2>1, <3>1, <3>2
    <2>3. \A i \in 1 .. n + 1 : i \in 1 .. n \/ i = n + 1
        BY <1>2
    <2> QED BY <1>3, <2>1, <2>2, <2>3
<1>9. \E i, j \in 1 .. n + 1 : drifts'[i] = drift'.min /\ drifts'[j] = drift'.max
    <2>1. CASE n = 0
        <3>1. drift.min = MaxFloat /\ drift.max = 0
            BY <1>2, <2>1 DEF SamplesInv
        <3>2. drift'.min = d /\ drift'.max = d
            BY <1>2, <1>4, <3>1
        <3> QED BY <1>2, <1>3, <3>2
    <2>2. CASE n > 0
        <3>1. PICK i \in 1 .. n, j \in 1 .. n : drifts[i] = drift.min /\ drifts[j] = drift.max
            BY <1>2, <2>2 DEF SamplesInv
        <3>2. \E k \in 1 .. n + 1 : drifts'[k] = drift'.min
            BY <1>2, <1>3, <1>4, <3>1
        <3>3. \E k \in 1 .. n + 1 : drifts'[k] = drift'.max
            BY <1>2, <1>3, <1>4, <3>1
        <3> QED BY <3>2, <3>3
    <2> QED BY <1>2, <2>1, <2>2
<1> QED BY <1>3, <1>6, <1>7, <1>8, <1>9 DEF SamplesInv

\* The running count, sum, minimum and maximum kept by record are those of all the
\* drifts recorded, however many there are.
THEOREM DriftIsThatOfSamples == Spec => []DriftMatchesSamples
<1>1. TypeOK /\ SamplesInv => DriftMatchesSamples
    <2> SUFFICES ASSUME TypeOK, SamplesInv PROVE DriftMatchesSamples
        OBVIOUS
    <2> DEFINE n == Len(drifts)
               all == {drifts[i] : i \in 1 .. n}
    <2>1. /\ drifts \in Seq(0 .. MaxSample) /\ n \in Nat /\ MaxSample \in Nat
          /\ drift.min \in Nat /\ drift.max \in Nat
          /\ \A i \in 1 .. n : drifts[i] \in 0 .. MaxSample
        <3>1. drifts \in Seq(0 .. MaxSample) /\ drift \in RunningStats
            BY DEF TypeOK
        <3>2. n \in Nat /\ \A i \in 1 .. n : drifts[i] \in 0 .. MaxSample
            BY <3>1, MetricsAssumption
        <3> HIDE DEF n
        <3> QED BY <3>1, <3>2, MetricsAssumption DEF RunningStats
    <2>2. SumOver(drifts, 1 .. n) = Cardinality(Points(drifts, 1 .. n, MaxSample))
        <3>1. IsFiniteSet(1 .. n)
            BY <2>1, FS_Interval
        <3> HIDE DEF n
        <3> QED BY <2>1, <3>1, SumCountsPoints
    <2>3. ASSUME drifts # <<>>
          PROVE  drift.min = Min(all) /\ drift.max = Max(all)
        <3>1. drift.min \in all /\ drift.max \in all
            BY <2>3 DEF SamplesInv
        <3>2. \A x \in all : x \in Nat /\ drift.min <= x /\ x <= drift.max
            BY <2>1 DEF SamplesInv
        <3> HIDE DEF all
        <3>3. drift.min = Min(all)
            <4>1. Min(all) \in all /\ \A y \in all : Min(all) =< y
                BY <2>1, <3>1, <3>2 DEF Min
            <4> QED BY <2>1, <3>1, <3>2, <4>1
        <3>4. drift.max = Max(all)
            <4>1. Max(all) \in all /\ \A y \in all : Max(all) >= y
                BY <2>1, <3>1, <3>2 DEF Max
            <4> QED BY <2>1, <3>1, <3>2, <4>1
        <3> QED BY <3>3, <3>4
    <2> HIDE DEF n, all
    <2>4. drift.count = n /\ drift.sum = Cardinality(Points(drifts, 1 .. n, MaxSample))
        BY DEF SamplesInv, n
    <2> QED BY <2>2, <2>3, <2>4, DriftRestated DEF n, all
<1>2. SamplesInv /\ UNCHANGED vars => SamplesInv'
    BY DEF SamplesInv, vars
<1>3. TypeOK /\ SamplesInv /\ [Cycle]_vars => SamplesInv'
    BY <1>2, CycleSamples
<1> QED BY <1>1, <1>3, InitSamples, TypeCorrect, PTL DEF Spec
=============================================================================
