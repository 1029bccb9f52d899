------------------------ MODULE SensorBuffer_proofs ------------------------
(***************************************************************************)
(* What the operations of the sensor buffer do, for every capacity: facts  *)
(* about insertion, push and pop that the proofs about every user of the   *)
(* buffer cite.                                                            *)
(***************************************************************************)
EXTENDS SensorBuffer, TLAPS, SequenceTheorems, FiniteSetTheorems,
        WellFoundedInduction

-----------------------------------------------------------------------------
(* The operators the buffer is built from.                                 *)

\* Priorities are small numbers, and different for different sensors.
LEMMA PriorityFacts ==
    /\ \A s \in SensorType : Priority[s] \in 0 .. 2
    /\ \A s, t \in SensorType : Priority[s] = Priority[t] => s = t
BY DEF Priority, SensorType

LEMMA PriorityOfNat ==
    ASSUME NEW r \in SensorReading
    PROVE  PriorityOf(r) \in Nat
<1>1. r.sensor \in SensorType
    BY DEF SensorReading
<1>2. Priority[r.sensor] \in 0 .. 2
    BY <1>1, PriorityFacts
<1> QED BY <1>2 DEF PriorityOf

\* A non-empty set of numbers has a least element.
LEMMA LeastElement ==
    ASSUME NEW T, T \subseteq Nat, T # {}
    PROVE  \E m \in T : \A n \in T : m <= n
<1> DEFINE R == OpToRel(<, Nat)
<1>1. IsWellFoundedOn(R, Nat)
    BY NatLessThanWellFounded
<1>2. PICK m \in T : \A n \in T : ~ (<<n, m>> \in R)
    <2> HIDE DEF R
    <2> QED BY <1>1, WFMin
<1>3. ASSUME NEW n \in T PROVE m <= n
    <2>1. n \in Nat /\ m \in Nat
        OBVIOUS
    <2>2. ~ (n < m)
        BY <1>2, <2>1 DEF OpToRel
    <2> QED BY <2>1, <2>2
<1> QED BY <1>3

\* The position insert_sorted finds exists: everything before it is at least
\* as important as the new reading, the item at it is not.
LEMMA InsertPositionFacts ==
    ASSUME NEW q \in Seq(SensorReading), NEW r \in SensorReading
    PROVE  /\ InsertPosition(q, r) \in 1 .. Len(q) + 1
           /\ \A i \in 1 .. InsertPosition(q, r) - 1 :
                PriorityOf(q[i]) <= PriorityOf(r)
           /\ InsertPosition(q, r) <= Len(q)
                => PriorityOf(q[InsertPosition(q, r)]) > PriorityOf(r)
<1> DEFINE Beyond == {k \in 1 .. Len(q) + 1 :
                        k <= Len(q) => PriorityOf(q[k]) > PriorityOf(r)}
<1>1. Len(q) \in Nat
    OBVIOUS
<1>2. Len(q) + 1 \in Beyond /\ Beyond \subseteq Nat
    BY <1>1
<1>3. PICK m \in Beyond : \A n \in Beyond : m <= n
    BY <1>2, LeastElement
<1>4. ASSUME NEW i \in 1 .. m - 1
      PROVE  PriorityOf(q[i]) <= PriorityOf(r)
    <2>1. i \in 1 .. Len(q) /\ i \notin Beyond
        BY <1>1, <1>3
    <2>2. PriorityOf(q[i]) \in Nat /\ PriorityOf(r) \in Nat
        BY <2>1, PriorityOfNat, ElementOfSeq
    <2> QED BY <2>1, <2>2
<1>5. \E k \in 1 .. Len(q) + 1 :
        /\ \A i \in 1 .. k - 1 : PriorityOf(q[i]) <= PriorityOf(r)
        /\ k <= Len(q) => PriorityOf(q[k]) > PriorityOf(r)
    BY <1>3, <1>4
<1> QED BY <1>5 DEF InsertPosition

\* What inserting an element does to a sequence.
LEMMA InsertAtFacts ==
    ASSUME NEW S, NEW q \in Seq(S), NEW r \in S, NEW k \in 1 .. Len(q) + 1
    PROVE  /\ InsertAt(q, k, r) \in Seq(S)
           /\ Len(InsertAt(q, k, r)) = Len(q) + 1
           /\ \A i \in 1 .. Len(q) + 1 :
                InsertAt(q, k, r)[i] = IF i < k THEN q[i]
                                       ELSE IF i = k THEN r ELSE q[i - 1]
<1> DEFINE before == SubSeq(q, 1, k - 1)
           after  == SubSeq(q, k, Len(q))
<1>1. /\ before \in Seq(S) /\ Len(before) = k - 1
      /\ \A i \in 1 .. k - 1 : before[i] = q[i]
    BY SubSeqProperties, ElementOfSeq
<1>2. /\ after \in Seq(S) /\ Len(after) = Len(q) - k + 1
      /\ \A i \in 1 .. Len(q) - k + 1 : after[i] = q[k + i - 1]
    BY SubSeqProperties, ElementOfSeq
<1>3. <<r>> \in Seq(S) /\ Len(<<r>>) = 1 /\ <<r>>[1] = r
    OBVIOUS
<1> HIDE DEF before, after
<1> DEFINE left == before \o <<r>>
<1>4. /\ left \in Seq(S) /\ Len(left) = k
      /\ \A i \in 1 .. k : left[i] = IF i < k THEN q[i] ELSE r
    BY <1>1, <1>3, ConcatProperties
<1>5. InsertAt(q, k, r) = left \o after
    BY DEF InsertAt, before, after
<1> HIDE DEF left
<1>6. /\ left \o after \in Seq(S)
      /\ Len(left \o after) = Len(q) + 1
      /\ \A i \in 1 .. Len(q) + 1 :
           (left \o after)[i] = IF i <= k THEN left[i] ELSE after[i - k]
    <2>1. left \in Seq(S) /\ after \in Seq(S) /\ Len(left) = k
        BY <1>2, <1>4
    <2>2. k + Len(after) = Len(q) + 1
        BY <1>2
    <2>3. /\ left \o after \in Seq(S)
          /\ Len(left \o after) = Len(left) + Len(after)
          /\ \A i \in 1 .. Len(left) + Len(after) :
               (left \o after)[i] = IF i <= Len(left) THEN left[i]
                                     ELSE after[i - Len(left)]
        BY <2>1, ConcatProperties
    <2> QED BY <2>1, <2>2, <2>3
<1>7. \A i \in 1 .. Len(q) + 1 : i > k => after[i - k] = q[i - 1]
    BY <1>2
<1> QED BY <1>4, <1>5, <1>6, <1>7

\* All but the last element of a sequence.
LEMMA FrontFacts ==
    ASSUME NEW S, NEW q \in Seq(S), q # <<>>
    PROVE  /\ Front(q) \in Seq(S) /\ Len(Front(q)) = Len(q) - 1
           /\ \A i \in 1 .. Len(q) - 1 : Front(q)[i] = q[i]
           /\ Last(q) \in S /\ Len(q) \in Nat \ {0}
<1>1. Len(q) \in Nat \ {0}
    BY EmptySeq
<1>2. Front(q) = SubSeq(q, 1, Len(q) - 1)
    BY DEF Front
<1>3. \A i \in 1 .. Len(q) : q[i] \in S
    BY ElementOfSeq
<1>4. /\ Front(q) \in Seq(S) /\ Len(Front(q)) = Len(q) - 1
      /\ \A i \in 1 .. Len(q) - 1 : Front(q)[i] = q[i]
    <2> DEFINE n == Len(q) - 1
    <2>1. n \in Nat /\ \A i \in 1 .. n : q[i] \in S /\ 1 + i - 1 = i
        BY <1>1, <1>3
    <2> HIDE DEF n
    <2>2. /\ SubSeq(q, 1, n) \in Seq(S)
          /\ Len(SubSeq(q, 1, n)) = n
          /\ \A i \in 1 .. n : SubSeq(q, 1, n)[i] = q[i]
        BY <2>1, SubSeqProperties
    <2> QED BY <1>2, <2>2 DEF n
<1>5. Last(q) \in S
    BY <1>1, <1>3 DEF Last
<1> QED BY <1>1, <1>4, <1>5

LEMMA ToSetFacts ==
    ASSUME NEW S, NEW q \in Seq(S)
    PROVE  /\ \A i \in 1 .. Len(q) : q[i] \in ToSet(q)
           /\ \A x \in ToSet(q) : x \in S /\ \E i \in 1 .. Len(q) : x = q[i]
<1>1. DOMAIN q = 1 .. Len(q)
    OBVIOUS
<1>2. \A i \in 1 .. Len(q) : q[i] \in S
    BY ElementOfSeq
<1> QED BY <1>1, <1>2 DEF ToSet

-----------------------------------------------------------------------------
(* The order of the queue.                                                 *)

Ordered(q) == \A i, j \in 1 .. Len(q) : i < j => Before(q[i], q[j])

\* r is newer than what q holds of its sensor.
Newest(q, r) ==
    \A i \in 1 .. Len(q) : q[i].sensor = r.sensor => q[i].cycle < r.cycle

LEMMA BeforeFacts ==
    ASSUME NEW a \in SensorReading, NEW b \in SensorReading
    PROVE  /\ PriorityOf(a) = PriorityOf(b) => a.sensor = b.sensor
           /\ Before(a, b) => PriorityOf(a) <= PriorityOf(b)
<1>1. a.sensor \in SensorType /\ b.sensor \in SensorType
    BY DEF SensorReading
<1>2. PriorityOf(a) = PriorityOf(b) => a.sensor = b.sensor
    BY <1>1, PriorityFacts DEF PriorityOf
<1>3. a.sensor = b.sensor => PriorityOf(a) = PriorityOf(b)
    BY DEF PriorityOf
<1>4. PriorityOf(a) \in Nat /\ PriorityOf(b) \in Nat
    BY PriorityOfNat
<1> QED BY <1>2, <1>3, <1>4 DEF Before

\* insert_sorted keeps the queue in order, when the new reading is the newest
\* of its sensor; it adds that reading and nothing else.
LEMMA InsertKeepsOrder ==
    ASSUME NEW q \in Seq(SensorReading), NEW r \in SensorReading,
           Ordered(q), Newest(q, r)
    PROVE  LET new == InsertAt(q, InsertPosition(q, r), r) IN
           /\ new \in Seq(SensorReading)
           /\ Len(new) = Len(q) + 1
           /\ ToSet(new) = ToSet(q) \union {r}
           /\ Ordered(new)
<1> DEFINE p == InsertPosition(q, r)
           new == InsertAt(q, p, r)
<1>1. /\ p \in 1 .. Len(q) + 1
      /\ \A i \in 1 .. p - 1 : PriorityOf(q[i]) <= PriorityOf(r)
      /\ p <= Len(q) => PriorityOf(q[p]) > PriorityOf(r)
    BY InsertPositionFacts
<1> HIDE DEF p
<1>2. /\ new \in Seq(SensorReading) /\ Len(new) = Len(q) + 1
      /\ \A i \in 1 .. Len(q) + 1 :
           new[i] = IF i < p THEN q[i] ELSE IF i = p THEN r ELSE q[i - 1]
    BY <1>1, InsertAtFacts
<1> HIDE DEF new
<1>3. Len(q) \in Nat /\ \A i \in 1 .. Len(q) : q[i] \in SensorReading
    BY ElementOfSeq
<1>4. ToSet(new) = ToSet(q) \union {r}
    <2>1. ASSUME NEW i \in 1 .. Len(new)
          PROVE  new[i] = r \/ \E k \in 1 .. Len(q) : new[i] = q[k]
        <3>1. CASE i < p
            BY <1>1, <1>2, <1>3, <3>1
        <3>2. CASE i = p
            BY <1>1, <1>2, <3>2
        <3>3. CASE i > p
            <4>1. i - 1 \in 1 .. Len(q) /\ new[i] = q[i - 1]
                BY <1>1, <1>2, <1>3, <3>3
            <4> QED BY <4>1
        <3> QED BY <1>1, <1>2, <1>3, <3>1, <3>2, <3>3
    <2>2. p \in 1 .. Len(new) /\ new[p] = r
        BY <1>1, <1>2
    <2>3. ASSUME NEW k \in 1 .. Len(q)
          PROVE  \E i \in 1 .. Len(new) : new[i] = q[k]
        <3>1. CASE k < p
            BY <1>1, <1>2, <1>3, <3>1
        <3>2. CASE k >= p
            <4>1. k + 1 \in 1 .. Len(new) /\ new[k + 1] = q[k]
                BY <1>1, <1>2, <1>3, <3>2
            <4> QED BY <4>1
        <3> QED BY <1>1, <1>3, <3>1, <3>2
    <2>4. ASSUME NEW x \in ToSet(new) PROVE x \in ToSet(q) \union {r}
        <3>1. PICK i \in 1 .. Len(new) : x = new[i]
            BY <1>2, ToSetFacts
        <3>2. \A k \in 1 .. Len(q) : q[k] \in ToSet(q)
            BY ToSetFacts
        <3> QED BY <2>1, <3>1, <3>2
    <2>5. ASSUME NEW x \in ToSet(q) \union {r} PROVE x \in ToSet(new)
        <3>1. x = r \/ \E k \in 1 .. Len(q) : x = q[k]
            BY ToSetFacts
        <3>2. \A i \in 1 .. Len(new) : new[i] \in ToSet(new)
            BY <1>2, ToSetFacts
        <3> QED BY <2>2, <2>3, <3>1, <3>2
    <2> QED BY <2>4, <2>5
<1>5. ASSUME NEW i \in 1 .. Len(q), i < p PROVE Before(q[i], r)
    <2>1. PriorityOf(q[i]) <= PriorityOf(r) /\ q[i] \in SensorReading
        BY <1>1, <1>3, <1>5
    <2>2. PriorityOf(q[i]) \in Nat /\ PriorityOf(r) \in Nat
        BY <2>1, PriorityOfNat
    <2>3. CASE PriorityOf(q[i]) = PriorityOf(r)
        BY <2>1, <2>3, BeforeFacts DEF Newest, Before
    <2> QED BY <2>1, <2>2, <2>3 DEF Before
<1>6. ASSUME NEW i \in 1 .. Len(q), p <= i PROVE Before(r, q[i])
    <2>1. p \in 1 .. Len(q) /\ p <= Len(q)
        BY <1>1, <1>3, <1>6
    <2>2. PriorityOf(q[p]) > PriorityOf(r)
        BY <1>1, <2>1
    <2>3. p = i \/ Before(q[p], q[i])
        BY <1>6, <2>1 DEF Ordered
    <2>4. q[p] \in SensorReading /\ q[i] \in SensorReading
        BY <1>3, <2>1
    <2>5. /\ PriorityOf(q[p]) \in Nat /\ PriorityOf(q[i]) \in Nat
          /\ PriorityOf(r) \in Nat
        BY <2>4, PriorityOfNat
    <2>6. PriorityOf(q[p]) <= PriorityOf(q[i])
        BY <2>3, <2>4, <2>5, BeforeFacts
    <2> QED BY <2>2, <2>5, <2>6 DEF Before
<1>7. Ordered(new)
    <2> SUFFICES ASSUME NEW i \in 1 .. Len(new), NEW j \in 1 .. Len(new), i < j
                 PROVE  Before(new[i], new[j])
        BY DEF Ordered
    <2>1. CASE j < p
        <3>1. /\ i \in 1 .. Len(q) /\ j \in 1 .. Len(q)
              /\ new[i] = q[i] /\ new[j] = q[j]
            BY <1>1, <1>2, <1>3, <2>1
        <3> QED BY <3>1 DEF Ordered
    <2>2. CASE i < p /\ j = p
        <3>1. i \in 1 .. Len(q) /\ new[i] = q[i] /\ new[j] = r
            BY <1>1, <1>2, <1>3, <2>2
        <3> QED BY <3>1, <1>5, <2>2
    <2>3. CASE i < p /\ j > p
        <3>1. /\ i \in 1 .. Len(q) /\ j - 1 \in 1 .. Len(q) /\ i < j - 1
              /\ new[i] = q[i] /\ new[j] = q[j - 1]
            BY <1>1, <1>2, <1>3, <2>3
        <3> QED BY <3>1 DEF Ordered
    <2>4. CASE i = p
        <3>1. /\ j - 1 \in 1 .. Len(q) /\ p <= j - 1
              /\ new[i] = r /\ new[j] = q[j - 1]
            BY <1>1, <1>2, <1>3, <2>4
        <3> QED BY <3>1, <1>6
    <2>5. CASE i > p
        <3>1. /\ i - 1 \in 1 .. Len(q) /\ j - 1 \in 1 .. Len(q) /\ i - 1 < j - 1
              /\ new[i] = q[i - 1] /\ new[j] = q[j - 1]
            BY <1>1, <1>2, <1>3, <2>5
        <3> QED BY <3>1 DEF Ordered
    <2> QED BY <1>1, <1>2, <1>3, <2>1, <2>2, <2>3, <2>4, <2>5
<1>8. /\ new \in Seq(SensorReading) /\ Len(new) = Len(q) + 1
      /\ ToSet(new) = ToSet(q) \union {r}
      /\ Ordered(new)
    BY <1>2, <1>4, <1>7
<1> QED BY <1>8 DEF new, p

\* In an ordered queue a reading is there once, and its sensor and cycle
\* tell it from the others.
LEMMA OrderedDistinct ==
    ASSUME NEW q \in Seq(SensorReading), Ordered(q)
    PROVE  /\ \A i, j \in 1 .. Len(q) :
                q[i].sensor = q[j].sensor /\ q[i].cycle = q[j].cycle => i = j
           /\ \A x, y \in ToSet(q) :
                x.sensor = y.sensor /\ x.cycle = y.cycle => x = y
<1>1. ASSUME NEW i \in 1 .. Len(q), NEW j \in 1 .. Len(q), i < j,
             q[i].sensor = q[j].sensor, q[i].cycle = q[j].cycle
      PROVE  FALSE
    <2>1. Before(q[i], q[j]) /\ q[i] \in SensorReading /\ q[j] \in SensorReading
        BY <1>1, ElementOfSeq DEF Ordered
    <2>2. PriorityOf(q[i]) \in Nat /\ PriorityOf(q[i]) = PriorityOf(q[j])
        BY <1>1, <2>1, PriorityOfNat DEF PriorityOf
    <2>3. q[i].cycle \in Nat
        BY <2>1 DEF SensorReading
    <2> QED BY <1>1, <2>1, <2>2, <2>3 DEF Before
<1>2. \A i, j \in 1 .. Len(q) :
        q[i].sensor = q[j].sensor /\ q[i].cycle = q[j].cycle => i = j
    BY <1>1
<1>3. \A x \in ToSet(q) : \E i \in 1 .. Len(q) : x = q[i]
    BY ToSetFacts
<1> QED BY <1>2, <1>3

-----------------------------------------------------------------------------
(* What one push does, in each of its three cases.                         *)

Sample(r) == [sensor |-> r.sensor, cycle |-> r.cycle, buffer_len |-> Capacity]
Latency(r) == [sensor |-> r.sensor, cycle |-> r.cycle]

Stored(r) == /\ ToSet(items') = ToSet(items) \union {r}
             /\ dropped_log' = dropped_log
             /\ latency_log' = latency_log \union {Latency(r)}

\* r takes the place of w.
Exchanged(w, r) == /\ PriorityOf(r) < PriorityOf(w)
                   /\ \A x \in ToSet(items') : Before(x, w)
                   /\ ToSet(items') = (ToSet(items) \ {w}) \union {r}
                   /\ dropped_log' = dropped_log \union {Sample(w)}
                   /\ latency_log' = latency_log \union {Latency(r)}

Refused(r) == /\ \A x \in ToSet(items) : Before(x, r)
              /\ items' = items
              /\ dropped_log' = dropped_log \union {Sample(r)}
              /\ latency_log' = latency_log

LEMMA PushFacts ==
    ASSUME NEW r \in SensorReading,
           BufferTypeOK, Ordered(items), Newest(items, r), Push(r)
    PROVE  /\ BufferTypeOK'
           /\ Ordered(items')
           /\ \/ Len(items') = Len(items) + 1 /\ Stored(r)
              \/ /\ Len(items) = Capacity /\ Len(items') = Capacity
                 /\ \/ \E w \in ToSet(items) : Exchanged(w, r)
                    \/ Refused(r)
<1>1. /\ items \in Seq(SensorReading) /\ Len(items) \in Nat
      /\ Len(items) <= Capacity /\ Capacity \in Nat \ {0}
      /\ \A i \in 1 .. Len(items) : items[i] \in SensorReading
    BY CapacityAssumption, ElementOfSeq DEF BufferTypeOK
<1>2. Latency(r) \in InsertionLatency /\ Sample(r) \in DroppedSample
    BY <1>1 DEF SensorReading, InsertionLatency, DroppedSample, Latency, Sample
<1>3. CASE PushRoom(r)
    <2>1. /\ items' \in Seq(SensorReading) /\ Len(items') = Len(items) + 1
          /\ ToSet(items') = ToSet(items) \union {r}
          /\ Ordered(items')
        BY <1>1, <1>3, InsertKeepsOrder DEF PushRoom, InsertSorted
    <2>2. Len(items') <= Capacity
        BY <1>1, <1>3, <2>1 DEF PushRoom, Full
    <2>3. /\ dropped_log' = dropped_log
          /\ latency_log' = latency_log \union {Latency(r)}
        BY <1>3 DEF PushRoom, InsertSorted, Latency
    <2>4. BufferTypeOK'
        BY <1>2, <2>1, <2>2, <2>3 DEF BufferTypeOK
    <2> QED BY <2>1, <2>3, <2>4 DEF Stored
<1>4. CASE PushEvict(r)
    <2> DEFINE q == Front(items)
               w == Last(items)
    <2>1. Len(items) = Capacity /\ items # <<>>
        BY <1>1, <1>4, EmptySeq DEF PushEvict, Full
    <2>2. /\ q \in Seq(SensorReading) /\ Len(q) = Len(items) - 1
          /\ \A i \in 1 .. Len(items) - 1 : q[i] = items[i]
          /\ w \in SensorReading /\ w = items[Len(items)]
        BY <1>1, <2>1, FrontFacts DEF Last
    <2>3. /\ items' = InsertAt(q, InsertPosition(q, r), r)
          /\ dropped_log' = dropped_log \union
                {[sensor |-> w.sensor, cycle |-> w.cycle,
                  buffer_len |-> Len(q) + 1]}
          /\ latency_log' = latency_log \union {Latency(r)}
          /\ PriorityOf(r) < PriorityOf(w)
        BY <1>4 DEF PushEvict, InsertSorted, LogDrop, Outranks, Latency
    <2> HIDE DEF q, w
    <2>4. dropped_log' = dropped_log \union {Sample(w)}
        BY <1>1, <2>1, <2>2, <2>3 DEF Sample
    <2>5. /\ 1 .. Len(q) \subseteq 1 .. Len(items)
          /\ Len(items) \in 1 .. Len(items)
          /\ \A i \in 1 .. Len(q) : i < Len(items) /\ q[i] = items[i]
        BY <1>1, <2>1, <2>2
    <2>6. Ordered(q) /\ Newest(q, r)
        BY <2>5 DEF Ordered, Newest
    <2>7. /\ items' \in Seq(SensorReading) /\ Len(items') = Len(q) + 1
          /\ ToSet(items') = ToSet(q) \union {r}
          /\ Ordered(items')
        BY <2>2, <2>3, <2>6, InsertKeepsOrder
    <2>8. Len(items') = Capacity
        BY <1>1, <2>1, <2>2, <2>7
    <2>9. \A x \in ToSet(q) : Before(x, w)
        <3>1. \A i \in 1 .. Len(q) : Before(q[i], w)
            BY <2>2, <2>5 DEF Ordered
        <3> QED BY <2>2, <3>1, ToSetFacts
    <2>10. ToSet(q) = ToSet(items) \ {w} /\ w \in ToSet(items)
        <3>1. /\ \A i \in 1 .. Len(items) : items[i] \in ToSet(items)
              /\ \A x \in ToSet(items) : \E i \in 1 .. Len(items) : x = items[i]
              /\ \A i \in 1 .. Len(q) : q[i] \in ToSet(q)
              /\ \A x \in ToSet(q) : \E i \in 1 .. Len(q) : x = q[i]
            BY <1>1, <2>2, ToSetFacts
        <3>2. \A i \in 1 .. Len(items) : i = Len(items) \/ i \in 1 .. Len(q)
            BY <1>1, <2>2
        <3>3. ASSUME NEW i \in 1 .. Len(q) PROVE q[i] # w
            <4>1. \A j, k \in 1 .. Len(items) : items[j] = items[k] => j = k
                BY <1>1, OrderedDistinct
            <4> QED BY <2>2, <2>5, <4>1
        <3>4. ToSet(q) \subseteq ToSet(items) \ {w}
            BY <2>5, <3>1, <3>3
        <3>5. ToSet(items) \ {w} \subseteq ToSet(q)
            BY <2>2, <2>5, <3>1, <3>2
        <3> QED BY <2>2, <2>5, <3>1, <3>4, <3>5
    <2>11. Before(r, w)
        BY <2>3 DEF Before
    <2>12. Exchanged(w, r)
        BY <2>3, <2>4, <2>7, <2>9, <2>10, <2>11 DEF Exchanged
    <2>13. Sample(w) \in DroppedSample
        BY <1>1, <2>2 DEF Sample, SensorReading, DroppedSample
    <2>14. BufferTypeOK'
        BY <1>1, <1>2, <2>3, <2>4, <2>7, <2>8, <2>13 DEF BufferTypeOK
    <2> QED BY <2>1, <2>7, <2>8, <2>10, <2>12, <2>14
<1>5. CASE PushDrop(r)
    <2>1. Len(items) = Capacity /\ items # <<>>
        BY <1>1, <1>5, EmptySeq DEF PushDrop, Full
    <2>2. /\ items' = items /\ latency_log' = latency_log
          /\ dropped_log' = dropped_log \union {Sample(r)}
          /\ ~ (PriorityOf(r) < PriorityOf(Last(items)))
        BY <1>5, <2>1 DEF PushDrop, LogDrop, Outranks, Sample
    <2>3. ASSUME NEW i \in 1 .. Len(items) PROVE Before(items[i], r)
        <3>1. items[i] \in SensorReading /\ Last(items) \in SensorReading
            BY <1>1, <2>1 DEF Last
        <3>2. /\ PriorityOf(items[i]) \in Nat /\ PriorityOf(r) \in Nat
              /\ PriorityOf(Last(items)) \in Nat
            BY <3>1, PriorityOfNat
        <3>3. i = Len(items) \/ Before(items[i], Last(items))
            BY <1>1 DEF Ordered, Last
        <3>4. PriorityOf(items[i]) <= PriorityOf(Last(items))
            BY <3>1, <3>2, <3>3, BeforeFacts DEF Last
        <3>5. PriorityOf(items[i]) <= PriorityOf(r)
            BY <2>2, <3>2, <3>4
        <3>6. CASE PriorityOf(items[i]) = PriorityOf(r)
            BY <3>1, <3>6, BeforeFacts DEF Newest, Before
        <3> QED BY <3>2, <3>5, <3>6 DEF Before
    <2>4. \A x \in ToSet(items) : Before(x, r)
        BY <1>1, <2>3, ToSetFacts
    <2>5. BufferTypeOK'
        BY <1>2, <2>2 DEF BufferTypeOK
    <2> QED BY <2>1, <2>2, <2>4, <2>5 DEF Refused
<1> QED BY <1>3, <1>4, <1>5 DEF Push

\* What a pop does: the head, which comes before all the rest, is gone.
LEMMA PopFacts ==
    ASSUME BufferTypeOK, Ordered(items), Pop
    PROVE  /\ BufferTypeOK' /\ Ordered(items')
           /\ Len(items) \in Nat \ {0} /\ Len(items') = Len(items) - 1
           /\ Head(items) = items[1] /\ Head(items) \in SensorReading
           /\ Head(items) \in ToSet(items)
           /\ \A y \in ToSet(items') : Before(Head(items), y)
           /\ ToSet(items') = ToSet(items) \ {Head(items)}
<1> DEFINE h == Head(items)
<1>1. /\ items \in Seq(SensorReading) /\ items # <<>> /\ items' = Tail(items)
      /\ UNCHANGED <<dropped_log, latency_log>> /\ Len(items) <= Capacity
    BY DEF Pop, BufferTypeOK
<1>2. /\ h \in SensorReading /\ h = items[1]
      /\ items' \in Seq(SensorReading)
      /\ Len(items) \in Nat \ {0} /\ Len(items') = Len(items) - 1
      /\ \A i \in 1 .. Len(items') : items'[i] = items[i + 1]
    BY <1>1, HeadTailProperties, EmptySeq
<1> HIDE DEF h
<1>3. \A i \in 1 .. Len(items') :
        /\ i + 1 \in 1 .. Len(items) /\ 1 \in 1 .. Len(items)
        /\ 1 < i + 1 /\ i + 1 # 1
    BY <1>2
<1>4. BufferTypeOK'
    BY <1>1, <1>2, CapacityAssumption DEF BufferTypeOK
<1>5. Ordered(items')
    <2> SUFFICES ASSUME NEW i \in 1 .. Len(items'), NEW j \in 1 .. Len(items'),
                        i < j
                 PROVE  Before(items'[i], items'[j])
        BY DEF Ordered
    <2>1. i + 1 < j + 1
        BY <1>2
    <2>2. Before(items[i + 1], items[j + 1])
        BY <1>3, <2>1 DEF Ordered
    <2> QED BY <1>2, <2>2
<1>6. /\ \A i \in 1 .. Len(items) : items[i] \in ToSet(items)
      /\ \A x \in ToSet(items) : \E i \in 1 .. Len(items) : x = items[i]
      /\ \A i \in 1 .. Len(items') : items'[i] \in ToSet(items')
      /\ \A x \in ToSet(items') : \E i \in 1 .. Len(items') : x = items'[i]
    <2>1. items' \in Seq(SensorReading) /\ items \in Seq(SensorReading)
        BY <1>1, <1>2
    <2> QED BY <2>1, ToSetFacts
<1>7. \A y \in ToSet(items') : Before(h, y)
    <2>1. \A i \in 1 .. Len(items') : Before(items[1], items[i + 1])
        BY <1>3 DEF Ordered
    <2> QED BY <1>2, <1>6, <2>1
<1>8. h \in ToSet(items)
    BY <1>2, <1>6
<1>9. ToSet(items') = ToSet(items) \ {h}
    <2>1. \A i, k \in 1 .. Len(items) : items[i] = items[k] => i = k
        BY <1>1, OrderedDistinct
    <2>2. ASSUME NEW x \in ToSet(items') PROVE x \in ToSet(items) \ {h}
        <3>1. PICK i \in 1 .. Len(items') : x = items'[i]
            BY <1>6
        <3>2. x = items[i + 1] /\ items[i + 1] # items[1]
            BY <1>2, <1>3, <2>1, <3>1
        <3> QED BY <1>2, <1>3, <1>6, <3>2
    <2>3. ASSUME NEW x \in ToSet(items) \ {h} PROVE x \in ToSet(items')
        <3>1. PICK i \in 1 .. Len(items) : x = items[i]
            BY <1>6
        <3>2. i - 1 \in 1 .. Len(items') /\ (i - 1) + 1 = i
            BY <1>2, <2>3, <3>1
        <3> QED BY <1>2, <1>6, <3>1, <3>2
    <2> QED BY <2>2, <2>3
<1> QED BY <1>2, <1>4, <1>5, <1>7, <1>8, <1>9 DEF h

\* An ordered queue holds as many readings as it is long.
LEMMA CardinalityOfQueue ==
    ASSUME NEW q \in Seq(SensorReading), Ordered(q)
    PROVE  IsFiniteSet(ToSet(q)) /\ Cardinality(ToSet(q)) = Len(q)
<1>1. /\ Len(q) \in Nat /\ q \in [1 .. Len(q) -> ToSet(q)]
      /\ \A x \in ToSet(q) : \E i \in 1 .. Len(q) : q[i] = x
    BY ToSetFacts
<1>2. \A i, j \in 1 .. Len(q) : q[i] = q[j] => i = j
    BY OrderedDistinct
<1>3. ExistsBijection(1 .. Len(q), ToSet(q))
    BY <1>1, <1>2 DEF ExistsBijection, Bijection, Injection, Surjection,
                      IsInjective
<1>4. Cardinality(ToSet(q)) = Len(q)
    BY <1>1, <1>3, FS_CountingElements
<1>5. IsFiniteSet(ToSet(q))
    BY <1>1, <1>3, FS_NatBijection
<1> QED BY <1>4, <1>5

-----------------------------------------------------------------------------
(* The cycles of one sensor, and what a push and a pop do to them.          *)

LEMMA CyclesOfFacts ==
    ASSUME NEW s, NEW R
    PROVE  \A n : n \in CyclesOf(s, R) <=>
                    \E x \in R : x.sensor = s /\ x.cycle = n
BY DEF CyclesOf

Just(u, x) == IF x.sensor = u THEN {x.cycle} ELSE {}

LEMMA CyclesOfMore ==
    ASSUME NEW u, NEW R, NEW x
    PROVE  CyclesOf(u, R \union {x}) = CyclesOf(u, R) \union Just(u, x)
<1>1. \A n : n \in CyclesOf(u, R \union {x}) <=>
               n \in CyclesOf(u, R) \/ n \in Just(u, x)
    BY CyclesOfFacts DEF Just
<1> QED BY <1>1

LEMMA CyclesOfLess ==
    ASSUME NEW u, NEW R, NEW x \in R,
           \A y \in R : x.sensor = y.sensor /\ x.cycle = y.cycle => x = y
    PROVE  CyclesOf(u, R \ {x}) = CyclesOf(u, R) \ Just(u, x)
<1>1. \A n : n \in CyclesOf(u, R \ {x}) <=>
               n \in CyclesOf(u, R) /\ n \notin Just(u, x)
    BY CyclesOfFacts DEF Just
<1> QED BY <1>1

\* A push moves cycle numbers between the queue, the drop log and the latency
\* log, and nowhere else.
LEMMA PushMoves ==
    ASSUME BufferTypeOK, Ordered(items), NEW r \in SensorReading,
           NEW u \in SensorType,
           \/ Stored(r)
           \/ \E w \in ToSet(items) : Exchanged(w, r)
           \/ Refused(r)
    PROVE  \E out :
             /\ Queued(u)' = (Queued(u) \union Just(u, r)) \ out
             /\ Dropped(u)' = Dropped(u) \union out
             /\ \/ /\ out \subseteq Queued(u) /\ (u = "Thermal" => out = {})
                   /\ Logged(u)' = Logged(u) \union Just(u, r)
                \/ out = Just(u, r) /\ Queued(u)' = Queued(u)
                   /\ Logged(u)' = Logged(u)
<1> DEFINE Moved(out) ==
             /\ Queued(u)' = (Queued(u) \union Just(u, r)) \ out
             /\ Dropped(u)' = Dropped(u) \union out
             /\ \/ /\ out \subseteq Queued(u) /\ (u = "Thermal" => out = {})
                   /\ Logged(u)' = Logged(u) \union Just(u, r)
                \/ out = Just(u, r) /\ Queued(u)' = Queued(u)
                   /\ Logged(u)' = Logged(u)
<1>1. Just(u, Latency(r)) = Just(u, r) /\ Just(u, Sample(r)) = Just(u, r)
    BY DEF Just, Latency, Sample
<1>2. CASE Stored(r)
    <2>1. /\ Queued(u)' = Queued(u) \union Just(u, r)
          /\ Dropped(u)' = Dropped(u)
          /\ Logged(u)' = Logged(u) \union Just(u, Latency(r))
        BY <1>2, CyclesOfMore DEF Stored, Queued, Dropped, Logged
    <2>2. Moved({})
        BY <1>1, <2>1
    <2> QED BY <2>2
<1>3. ASSUME NEW w \in ToSet(items), Exchanged(w, r)
      PROVE  \E out : Moved(out)
    <2>1. items \in Seq(SensorReading) /\ w \in SensorReading
        BY ToSetFacts DEF BufferTypeOK
    <2>2. \A y \in ToSet(items) :
            w.sensor = y.sensor /\ w.cycle = y.cycle => w = y
        BY <2>1, OrderedDistinct
    <2>3. CyclesOf(u, ToSet(items) \ {w}) = Queued(u) \ Just(u, w)
        BY <2>2, CyclesOfLess DEF Queued
    <2>4. /\ Queued(u)' = (Queued(u) \ Just(u, w)) \union Just(u, r)
          /\ Dropped(u)' = Dropped(u) \union Just(u, Sample(w))
          /\ Logged(u)' = Logged(u) \union Just(u, Latency(r))
        <3>1. Queued(u)' = CyclesOf(u, (ToSet(items) \ {w}) \union {r})
            BY <1>3 DEF Exchanged, Queued
        <3>2. Dropped(u)' = CyclesOf(u, dropped_log \union {Sample(w)})
            BY <1>3 DEF Exchanged, Dropped
        <3>3. Logged(u)' = CyclesOf(u, latency_log \union {Latency(r)})
            BY <1>3 DEF Exchanged, Logged
        <3>4. CyclesOf(u, (ToSet(items) \ {w}) \union {r})
                = CyclesOf(u, ToSet(items) \ {w}) \union Just(u, r)
            BY CyclesOfMore
        <3>5. /\ CyclesOf(u, dropped_log \union {Sample(w)})
                   = CyclesOf(u, dropped_log) \union Just(u, Sample(w))
              /\ CyclesOf(u, latency_log \union {Latency(r)})
                   = CyclesOf(u, latency_log) \union Just(u, Latency(r))
            BY CyclesOfMore
        <3> QED BY <2>3, <3>1, <3>2, <3>3, <3>4, <3>5 DEF Dropped, Logged
    <2>5. Just(u, Sample(w)) = Just(u, w)
        BY DEF Just, Sample
    <2>6. /\ PriorityOf(r) \in Nat /\ PriorityOf(w) \in Nat
          /\ PriorityOf(r) < PriorityOf(w)
        BY <1>3, <2>1, PriorityOfNat DEF Exchanged
    <2>7. w.sensor # r.sensor /\ w.sensor # "Thermal"
        BY <2>6 DEF PriorityOf, Priority, SensorType
    <2>8. /\ Just(u, w) \subseteq Queued(u)
          /\ u = "Thermal" => Just(u, w) = {}
          /\ Just(u, r) \intersect Just(u, w) = {}
        BY <2>7, CyclesOfFacts DEF Just, Queued
    <2>9. Moved(Just(u, w))
        BY <1>1, <2>4, <2>5, <2>8
    <2> QED BY <2>9
<1>4. CASE Refused(r)
    <2>1. /\ Queued(u)' = Queued(u)
          /\ Dropped(u)' = Dropped(u) \union Just(u, Sample(r))
          /\ Logged(u)' = Logged(u)
        BY <1>4, CyclesOfMore DEF Refused, Queued, Dropped, Logged
    <2>2. CASE Just(u, r) \intersect Queued(u) = {}
        <3>1. Moved(Just(u, r))
            BY <1>1, <2>1, <2>2
        <3> QED BY <3>1
    <2>3. CASE Just(u, r) \intersect Queued(u) # {}
        <3>1. PICK x \in ToSet(items) : x.sensor = r.sensor /\ x.cycle = r.cycle
            BY <2>3, CyclesOfFacts DEF Just, Queued
        <3>2. Before(x, r) /\ r.cycle \in Nat
            BY <1>4 DEF Refused, SensorReading
        <3>3. PriorityOf(x) = PriorityOf(r) /\ PriorityOf(r) \in Nat
            BY <3>1, PriorityOfNat DEF PriorityOf
        <3> QED BY <3>1, <3>2, <3>3 DEF Before
    <2> QED BY <2>2, <2>3
<1> QED BY <1>2, <1>3, <1>4

\* A pop takes the cycle number of the head out of the queue.
LEMMA PopMoves ==
    ASSUME BufferTypeOK, Ordered(items), Pop, NEW u \in SensorType
    PROVE  /\ Queued(u)' = Queued(u) \ Just(u, Head(items))
           /\ Dropped(u)' = Dropped(u) /\ Logged(u)' = Logged(u)
           /\ Just(u, Head(items)) \subseteq Queued(u)
<1> DEFINE h == Head(items)
<1>1. /\ items \in Seq(SensorReading) /\ h \in ToSet(items)
      /\ ToSet(items') = ToSet(items) \ {h}
    BY PopFacts DEF BufferTypeOK
<1> HIDE DEF h
<1>2. \A y \in ToSet(items) : h.sensor = y.sensor /\ h.cycle = y.cycle => h = y
    BY <1>1, OrderedDistinct
<1>3. CyclesOf(u, ToSet(items) \ {h}) = CyclesOf(u, ToSet(items)) \ Just(u, h)
    BY <1>1, <1>2, CyclesOfLess
<1>4. Queued(u)' = Queued(u) \ Just(u, h)
    BY <1>1, <1>3 DEF Queued
<1>5. Dropped(u)' = Dropped(u) /\ Logged(u)' = Logged(u)
    BY DEF Pop, Dropped, Logged
<1>6. Just(u, h) \subseteq Queued(u)
    BY <1>1, CyclesOfFacts DEF Just, Queued
<1> QED BY <1>4, <1>5, <1>6 DEF h

=============================================================================
