------------------------ MODULE SharedBuffer_proofs ------------------------
(***************************************************************************)
(* Proofs about the sensor buffer between its users, for every capacity    *)
(* and every number of readings.                                           *)
(***************************************************************************)
EXTENDS SharedBuffer, SensorBuffer_proofs

-----------------------------------------------------------------------------
(* The inductive invariant.                                                *)

\* The reading a sensor is about to push is a new one, and newer than all that
\* is known of the sensor.
LEMMA ReadingFacts ==
    ASSUME TypeOK, EveryReadingAccounted, LatencyOfAcceptedOnly,
           NEW s \in SensorType, cycle[s] < MaxCycle
    PROVE  LET r == Reading(s, cycle[s] + 1) IN
           /\ r \in SensorReading /\ r.sensor = s /\ r.cycle = cycle[s] + 1
           /\ cycle[s] \in Nat /\ Newest(items, r)
           /\ \A n \in Queued(s) \union Taken(s) \union Dropped(s)
                         \union Logged(s) : n \in 1 .. cycle[s]
<1> DEFINE r == Reading(s, cycle[s] + 1)
<1>1. cycle[s] \in Nat
    BY MaxCycleAssumption DEF TypeOK
<1>2. r \in SensorReading /\ r.sensor = s /\ r.cycle = cycle[s] + 1
    BY <1>1 DEF Reading, SensorReading
<1>3. \A n \in Queued(s) \union Taken(s) \union Dropped(s) \union Logged(s) :
        n \in 1 .. cycle[s]
    BY DEF EveryReadingAccounted, LatencyOfAcceptedOnly
<1>4. Newest(items, r)
    <2> SUFFICES ASSUME NEW i \in 1 .. Len(items), items[i].sensor = s
                 PROVE  items[i].cycle < cycle[s] + 1
        BY <1>2 DEF Newest
    <2>1. items[i] \in ToSet(items)
        BY ToSetFacts DEF TypeOK, BufferTypeOK
    <2>2. items[i].cycle \in Queued(s)
        BY <2>1, CyclesOfFacts DEF Queued
    <2> QED BY <1>1, <1>3, <2>2
<1> QED BY <1>1, <1>2, <1>3, <1>4

\* A step of a sensor thread.
LEMMA ProduceKeepsInv ==
    ASSUME Inv, NEW s \in SensorType, Produce(s)
    PROVE  Inv'
<1> DEFINE N == cycle[s] + 1
           r == Reading(s, N)
<1>1. /\ r \in SensorReading /\ r.sensor = s /\ r.cycle = N
      /\ cycle[s] \in Nat /\ Newest(items, r)
      /\ \A n \in Queued(s) \union Taken(s) \union Dropped(s)
                    \union Logged(s) : n \in 1 .. cycle[s]
    BY ReadingFacts DEF Inv, Produce
<1>2. /\ Push(r) /\ cycle[s] < MaxCycle /\ taken' = taken
      /\ cycle' = [cycle EXCEPT ![s] = N]
    BY DEF Produce
<1> HIDE DEF r
<1>3. /\ BufferTypeOK /\ Ordered(items) /\ items \in Seq(SensorReading)
      /\ cycle \in [SensorType -> 0 .. MaxCycle]
    BY DEF Inv, TypeOK, BufferTypeOK, BestFirst, Ordered
<1>4. /\ BufferTypeOK' /\ Ordered(items') /\ items' \in Seq(SensorReading)
      /\ \/ Stored(r)
         \/ \E w \in ToSet(items) : Exchanged(w, r)
         \/ Refused(r)
    BY <1>1, <1>2, <1>3, PushFacts DEF BufferTypeOK
<1>5. /\ cycle'[s] = N
      /\ \A u \in SensorType : u # s => cycle'[u] = cycle[u]
      /\ \A u \in SensorType : cycle[u] \in Nat
    BY <1>2, <1>3, MaxCycleAssumption
<1>6. TypeOK'
    BY <1>1, <1>2, <1>3, <1>4, <1>5, MaxCycleAssumption DEF Inv, TypeOK
<1>7. BestFirst'
    BY <1>4 DEF BestFirst, Ordered
<1>8. DeliveredInOrder'
    BY <1>2 DEF Inv, DeliveredInOrder
<1>9. OldestFirst'
    <2> SUFFICES ASSUME NEW x \in ToSet(taken), NEW y \in ToSet(items'),
                        x.sensor = y.sensor
                 PROVE  x.cycle < y.cycle
        BY <1>2 DEF OldestFirst
    <2>1. y = r \/ y \in ToSet(items)
        BY <1>4 DEF Stored, Exchanged, Refused
    <2>2. CASE y = r
        <3>1. x.cycle \in Taken(s)
            BY <1>1, <2>2, CyclesOfFacts DEF Taken
        <3> QED BY <1>1, <2>2, <3>1
    <2> QED BY <2>1, <2>2 DEF Inv, OldestFirst
<1>10. ASSUME NEW u \in SensorType
       PROVE  /\ Queued(u)' \union Taken(u)' \union Dropped(u)' = 1 .. cycle'[u]
              /\ Queued(u)' \intersect Taken(u)' = {}
              /\ (Queued(u)' \union Taken(u)') \intersect Dropped(u)' = {}
              /\ Queued(u)' \union Taken(u)' = Logged(u)' \ Dropped(u)'
              /\ u = "Thermal" => Dropped(u)' \intersect Logged(u)' = {}
    <2>1. PICK out :
             /\ Queued(u)' = (Queued(u) \union Just(u, r)) \ out
             /\ Dropped(u)' = Dropped(u) \union out
             /\ \/ /\ out \subseteq Queued(u) /\ (u = "Thermal" => out = {})
                   /\ Logged(u)' = Logged(u) \union Just(u, r)
                \/ out = Just(u, r) /\ Queued(u)' = Queued(u)
                   /\ Logged(u)' = Logged(u)
        BY <1>1, <1>3, <1>4, PushMoves
    <2>2. Taken(u)' = Taken(u)
        BY <1>2 DEF Taken
    <2>3. /\ Queued(u) \union Taken(u) \union Dropped(u) = 1 .. cycle[u]
          /\ Queued(u) \intersect Taken(u) = {}
          /\ (Queued(u) \union Taken(u)) \intersect Dropped(u) = {}
          /\ Queued(u) \union Taken(u) = Logged(u) \ Dropped(u)
          /\ u = "Thermal" => Dropped(u) \intersect Logged(u) = {}
        BY DEF Inv, EveryReadingAccounted, LatencyOfAcceptedOnly
    <2>4. /\ 1 .. cycle'[u] = (1 .. cycle[u]) \union Just(u, r)
          /\ Just(u, r) \intersect (1 .. cycle[u]) = {}
        <3>1. CASE u = s
            <4>1. Just(u, r) = {N} /\ cycle'[u] = N /\ cycle[u] + 1 = N
                BY <1>1, <1>5, <3>1 DEF Just
            <4> QED BY <1>5, <4>1
        <3>2. CASE u # s
            BY <1>1, <1>5, <3>2 DEF Just
        <3> QED BY <3>1, <3>2
    <2>5. Logged(u) \subseteq 1 .. cycle[u]
        BY <2>3
    <2> HIDE DEF N
    <2> QED BY <2>1, <2>2, <2>3, <2>4, <2>5
<1>11. EveryReadingAccounted' /\ LatencyOfAcceptedOnly'
    BY <1>10 DEF EveryReadingAccounted, LatencyOfAcceptedOnly, SensorType
<1> QED BY <1>6, <1>7, <1>8, <1>9, <1>11 DEF Inv

\* A step of the downlink thread.
LEMMA ConsumeKeepsInv ==
    ASSUME Inv, Consume
    PROVE  Inv'
<1> DEFINE h == Head(items)
<1>1. /\ BufferTypeOK /\ Ordered(items) /\ Pop
      /\ taken \in Seq(SensorReading) /\ taken' = Append(taken, h)
      /\ UNCHANGED <<dropped_log, latency_log, cycle>>
    BY DEF Consume, Pop, Inv, TypeOK, BestFirst, Ordered
<1>2. /\ BufferTypeOK' /\ Ordered(items')
      /\ h \in SensorReading /\ h \in ToSet(items)
      /\ \A y \in ToSet(items') : Before(h, y)
      /\ ToSet(items') = ToSet(items) \ {h}
    BY <1>1, PopFacts
<1> HIDE DEF h
<1>3. /\ taken' \in Seq(SensorReading)
      /\ Len(taken) \in Nat /\ Len(taken') = Len(taken) + 1
      /\ \A i \in 1 .. Len(taken) : taken'[i] = taken[i]
      /\ taken'[Len(taken) + 1] = h
    BY <1>1, <1>2, AppendProperties
<1>4. items \in Seq(SensorReading) /\ items' \in Seq(SensorReading)
    BY <1>1, <1>2 DEF BufferTypeOK
<1>5. TypeOK'
    BY <1>1, <1>2, <1>3 DEF Inv, TypeOK
<1>6. BestFirst'
    BY <1>2 DEF BestFirst, Ordered
<1>7. h \in ToSet(items)
    BY <1>2
<1>8. ToSet(taken') = ToSet(taken) \union {h}
    <2>1. ASSUME NEW x \in ToSet(taken') PROVE x \in ToSet(taken) \union {h}
        <3>1. PICK i \in 1 .. Len(taken') : x = taken'[i]
            BY <1>3, ToSetFacts
        <3>2. i \in 1 .. Len(taken) \/ i = Len(taken) + 1
            BY <1>3
        <3>3. \A k \in 1 .. Len(taken) : taken[k] \in ToSet(taken)
            BY <1>1, ToSetFacts
        <3> QED BY <1>3, <3>1, <3>2, <3>3
    <2>2. ASSUME NEW x \in ToSet(taken) \union {h} PROVE x \in ToSet(taken')
        <3>1. x = h \/ \E k \in 1 .. Len(taken) : x = taken[k]
            BY <1>1, ToSetFacts
        <3>2. \A i \in 1 .. Len(taken') : taken'[i] \in ToSet(taken')
            BY <1>3, ToSetFacts
        <3>3. \A k \in 1 .. Len(taken) : k \in 1 .. Len(taken')
            BY <1>3
        <3>4. Len(taken) + 1 \in 1 .. Len(taken')
            BY <1>3
        <3> QED BY <1>3, <3>1, <3>2, <3>3, <3>4
    <2> QED BY <2>1, <2>2
<1>9. ToSet(items') = ToSet(items) \ {h}
    BY <1>2
<1>10. ASSUME NEW y \in ToSet(items'), y.sensor = h.sensor
       PROVE  h.cycle < y.cycle
    <2>1. Before(h, y)
        BY <1>2
    <2>2. PriorityOf(h) \in Nat /\ PriorityOf(y) = PriorityOf(h)
        BY <1>2, <1>10, PriorityOfNat DEF PriorityOf
    <2> QED BY <2>1, <2>2 DEF Before
<1>11. OldestFirst'
    BY <1>8, <1>9, <1>10 DEF Inv, OldestFirst
<1>12. DeliveredInOrder'
    <2> SUFFICES ASSUME NEW i \in 1 .. Len(taken'), NEW j \in 1 .. Len(taken'),
                        i < j, taken'[i].sensor = taken'[j].sensor
                 PROVE  taken'[i].cycle < taken'[j].cycle
        BY DEF DeliveredInOrder
    <2>1. i \in 1 .. Len(taken) /\ taken'[i] = taken[i]
        BY <1>3
    <2>2. CASE j = Len(taken) + 1
        <3>1. taken'[j] = h /\ taken[i] \in ToSet(taken)
            BY <1>1, <1>3, <2>1, <2>2, ToSetFacts
        <3> QED BY <1>7, <2>1, <3>1 DEF Inv, OldestFirst
    <2>3. CASE j \in 1 .. Len(taken)
        <3>1. taken'[j] = taken[j]
            BY <1>3, <2>3
        <3> QED BY <2>1, <2>3, <3>1 DEF Inv, DeliveredInOrder
    <2> QED BY <1>3, <2>2, <2>3
<1>13. ASSUME NEW u \in SensorType
       PROVE  /\ Queued(u)' = Queued(u) \ Just(u, h)
              /\ Taken(u)' = Taken(u) \union Just(u, h)
              /\ Dropped(u)' = Dropped(u) /\ Logged(u)' = Logged(u)
              /\ Just(u, h) \subseteq Queued(u)
    <2>1. Taken(u)' = Taken(u) \union Just(u, h)
        BY <1>8, CyclesOfMore DEF Taken
    <2> QED BY <1>1, <2>1, PopMoves DEF h
<1>14. EveryReadingAccounted' /\ LatencyOfAcceptedOnly'
    <2>1. ASSUME NEW u \in SensorType
          PROVE  /\ Queued(u)' \union Taken(u)' \union Dropped(u)'
                      = 1 .. cycle'[u]
                 /\ Queued(u)' \intersect Taken(u)' = {}
                 /\ (Queued(u)' \union Taken(u)') \intersect Dropped(u)' = {}
                 /\ Queued(u)' \union Taken(u)' = Logged(u)' \ Dropped(u)'
                 /\ u = "Thermal" => Dropped(u)' \intersect Logged(u)' = {}
        <3>1. /\ Queued(u) \union Taken(u) \union Dropped(u) = 1 .. cycle[u]
              /\ Queued(u) \intersect Taken(u) = {}
              /\ (Queued(u) \union Taken(u)) \intersect Dropped(u) = {}
              /\ Queued(u) \union Taken(u) = Logged(u) \ Dropped(u)
              /\ u = "Thermal" => Dropped(u) \intersect Logged(u) = {}
            BY DEF Inv, EveryReadingAccounted, LatencyOfAcceptedOnly
        <3> QED BY <1>1, <1>13, <3>1
    <2> QED BY <2>1 DEF EveryReadingAccounted, LatencyOfAcceptedOnly, SensorType
<1> QED BY <1>5, <1>6, <1>11, <1>12, <1>14 DEF Inv

LEMMA InitInv == Init => Inv
<1> SUFFICES ASSUME Init PROVE Inv
    OBVIOUS
<1>1. /\ items = <<>> /\ taken = <<>> /\ dropped_log = {} /\ latency_log = {}
      /\ cycle = [s \in SensorType |-> 0]
    BY DEF Init, BufferInit
<1>2. TypeOK
    BY <1>1, CapacityAssumption, MaxCycleAssumption DEF TypeOK, BufferTypeOK
<1>3. BestFirst /\ DeliveredInOrder /\ OldestFirst
    BY <1>1 DEF BestFirst, DeliveredInOrder, OldestFirst, ToSet
<1>4. \A s \in SensorType : /\ Queued(s) = {} /\ Taken(s) = {}
                            /\ Dropped(s) = {} /\ Logged(s) = {}
                            /\ 1 .. cycle[s] = {}
    <2>1. ToSet(items) = {} /\ ToSet(taken) = {}
        BY <1>1 DEF ToSet
    <2>2. \A s : CyclesOf(s, {}) = {}
        BY DEF CyclesOf
    <2>3. \A s \in SensorType : 1 .. cycle[s] = {}
        <3>1. 1 .. 0 = {}
            OBVIOUS
        <3> QED BY <1>1, <3>1
    <2> QED BY <1>1, <2>1, <2>2, <2>3 DEF Queued, Taken, Dropped, Logged
<1>5. EveryReadingAccounted /\ LatencyOfAcceptedOnly
    BY <1>4 DEF EveryReadingAccounted, LatencyOfAcceptedOnly, SensorType
<1> QED BY <1>2, <1>3, <1>5 DEF Inv

LEMMA StutterKeepsInv ==
    ASSUME Inv, UNCHANGED vars
    PROVE  Inv'
<1> USE DEF vars
<1>1. TypeOK' /\ BestFirst' /\ DeliveredInOrder' /\ OldestFirst'
    BY DEF Inv, TypeOK, BufferTypeOK, BestFirst, Before, PriorityOf,
           DeliveredInOrder, OldestFirst
<1>2. EveryReadingAccounted' /\ LatencyOfAcceptedOnly'
    BY DEF Inv, EveryReadingAccounted, LatencyOfAcceptedOnly,
           Queued, Taken, Dropped, Logged
<1> QED BY <1>1, <1>2 DEF Inv

LEMMA NextKeepsInv == Inv /\ [Next]_vars => Inv'
<1> SUFFICES ASSUME Inv, [Next]_vars PROVE Inv'
    OBVIOUS
<1>1. CASE Consume
    BY <1>1, ConsumeKeepsInv
<1>2. ASSUME NEW s \in SensorType, Produce(s) PROVE Inv'
    BY <1>2, ProduceKeepsInv
<1>3. CASE UNCHANGED vars
    BY <1>3, StutterKeepsInv
<1> QED BY <1>1, <1>2, <1>3 DEF Next

\* The conjunction of the invariants holds in every state, for every capacity
\* and every number of readings.
THEOREM InvHolds == Spec => []Inv
BY InitInv, NextKeepsInv, PTL DEF Spec

-----------------------------------------------------------------------------
(* What the buffer guarantees its users.                                   *)

\* The logs are well formed and the queue never outgrows its capacity
\* (buffer.rs:7-8): push and pop keep VecDeque, logs and counters typed.
THEOREM TypeCorrect == Spec => []TypeOK
<1>1. Inv => TypeOK
    BY DEF Inv
<1> QED BY <1>1, InvHolds, PTL

\* The queue is always in order of importance and age, so the front, which pop
\* takes, is the best of it.
THEOREM QueueInOrder == Spec => []BestFirst
<1>1. Inv => BestFirst
    BY DEF Inv
<1> QED BY <1>1, InvHolds, PTL

\* The downlink gets the readings of each sensor in the order they were taken.
THEOREM InOrderDelivery == Spec => []DeliveredInOrder
<1>1. Inv => DeliveredInOrder
    BY DEF Inv
<1> QED BY <1>1, InvHolds, PTL

\* Every reading a sensor produced is queued, delivered or in the drop log, and
\* in one of them only.
THEOREM NothingLostUntraced == Spec => []EveryReadingAccounted
<1>1. Inv => EveryReadingAccounted
    BY DEF Inv
<1> QED BY <1>1, InvHolds, PTL

\* Insertion latencies are recorded for accepted readings only, and an accepted
\* Thermal reading is never evicted.
THEOREM LatenciesOfAccepted == Spec => []LatencyOfAcceptedOnly
<1>1. Inv => LatencyOfAcceptedOnly
    BY DEF Inv
<1> QED BY <1>1, InvHolds, PTL

\* The step of a sensor thread, seen through what the buffer holds: one of the
\* three outcomes of a push.
LEMMA ProduceOutcomes ==
    ASSUME Inv, NEW s \in SensorType, Produce(s)
    PROVE  LET r == Reading(s, cycle[s] + 1) IN
           /\ r \in SensorReading /\ Newest(items, r)
           /\ items' \in Seq(SensorReading) /\ Ordered(items')
           /\ \/ Len(items') = Len(items) + 1 /\ Stored(r)
              \/ /\ Len(items) = Capacity /\ Len(items') = Capacity
                 /\ \/ \E w \in ToSet(items) : Exchanged(w, r)
                    \/ Refused(r)
<1>1. /\ Reading(s, cycle[s] + 1) \in SensorReading
      /\ Newest(items, Reading(s, cycle[s] + 1))
    BY ReadingFacts DEF Inv, Produce
<1>2. BufferTypeOK /\ Ordered(items) /\ Push(Reading(s, cycle[s] + 1))
    BY DEF Inv, TypeOK, BestFirst, Ordered, Produce
<1> QED BY <1>1, <1>2, PushFacts DEF BufferTypeOK

\* A reading is only ever given up with the buffer full, and comes after all
\* that is kept.
THEOREM NeverTheBetterLost == Spec => NoPriorityInversion
<1> DEFINE OnlyTheWorst ==
             \A d \in dropped_log' \ dropped_log :
                /\ Len(items) = Capacity /\ Len(items') = Capacity
                /\ d.buffer_len = Capacity
                /\ \A i \in 1 .. Len(items') : Before(items'[i], d)
<1>1. ASSUME Inv, Next PROVE OnlyTheWorst
    <2>1. CASE Consume
        BY <2>1 DEF Consume, Pop
    <2>2. ASSUME NEW s \in SensorType, Produce(s) PROVE OnlyTheWorst
        <3> DEFINE r == Reading(s, cycle[s] + 1)
        <3>1. /\ items' \in Seq(SensorReading)
              /\ \/ Stored(r)
                 \/ /\ Len(items) = Capacity /\ Len(items') = Capacity
                    /\ \/ \E w \in ToSet(items) : Exchanged(w, r)
                       \/ Refused(r)
            BY <1>1, <2>2, ProduceOutcomes
        <3> HIDE DEF r
        <3>2. CASE Stored(r)
            BY <3>2 DEF Stored
        <3>3. ASSUME NEW w, Len(items) = Capacity, Len(items') = Capacity,
                     dropped_log' = dropped_log \union {Sample(w)},
                     \A x \in ToSet(items') : Before(x, w)
              PROVE  OnlyTheWorst
            <4>1. \A i \in 1 .. Len(items') : Before(items'[i], w)
                BY <3>1, <3>3, ToSetFacts
            <4>2. /\ Sample(w).sensor = w.sensor /\ Sample(w).cycle = w.cycle
                  /\ Sample(w).buffer_len = Capacity
                BY DEF Sample
            <4>3. \A i \in 1 .. Len(items') : Before(items'[i], Sample(w))
                BY <4>1, <4>2 DEF Before, PriorityOf
            <4> QED BY <3>3, <4>2, <4>3
        <3>4. ASSUME NEW w \in ToSet(items), Exchanged(w, r),
                     Len(items) = Capacity, Len(items') = Capacity
              PROVE  OnlyTheWorst
            BY <3>3, <3>4 DEF Exchanged
        <3>5. CASE Refused(r) /\ Len(items) = Capacity /\ Len(items') = Capacity
            BY <3>3, <3>5 DEF Refused
        <3> QED BY <3>1, <3>2, <3>4, <3>5
    <2> QED BY <1>1, <2>1, <2>2 DEF Next
<1>2. Inv /\ [Next]_vars => [OnlyTheWorst]_vars
    BY <1>1
<1> QED BY <1>2, InvHolds, PTL DEF Spec, NoPriorityInversion

-----------------------------------------------------------------------------
(* The sensor buffer implements KeepBest: its sorted queue holds the most  *)
(* valuable of the readings it could have kept, and its drop log names     *)
(* the others.                                                             *)

\* Nothing is put in the queue but what the sensors produced.
Plain == \A x \in ToSet(items) : x = Reading(x.sensor, x.cycle)

-----------------------------------------------------------------------------
(* The order of the abstract specification.                                *)

LEMMA SamePriority == Abstract!Priority = Priority
BY DEF Abstract!Priority, Priority, Abstract!SensorType, SensorType

LEMMA SameOrder == \A a, b : Abstract!MoreValuable(a, b) <=> Before(a, b)
BY SamePriority DEF Abstract!MoreValuable, Before, PriorityOf

LEMMA SameCardinality == \A S : Abstract!Cardinality(S) = Cardinality(S)
BY DEF Abstract!Cardinality, Cardinality

LEMMA Asymmetric ==
    ASSUME NEW a \in SensorReading, NEW b \in SensorReading,
           Before(a, b), Before(b, a)
    PROVE  FALSE
<1>1. PriorityOf(a) \in Nat /\ PriorityOf(b) \in Nat
    BY PriorityOfNat
<1>2. a.sensor = b.sensor => PriorityOf(a) = PriorityOf(b)
    BY DEF PriorityOf
<1>3. a.cycle \in Nat /\ b.cycle \in Nat
    BY DEF SensorReading
<1> QED BY <1>1, <1>2, <1>3 DEF Before

\* The least and the most valuable element of a set are unique.
LEMMA WorstIs ==
    ASSUME NEW C \in SUBSET SensorReading, NEW w \in C,
           \A x \in C \ {w} : Before(x, w)
    PROVE  Abstract!Worst(C) = w
<1>1. \A a \in C : (\A b \in C \ {a} : Before(b, a)) => a = w
    BY Asymmetric
<1>2. Abstract!Worst(C) = CHOOSE a \in C : \A b \in C \ {a} : Before(b, a)
    BY SameOrder DEF Abstract!Worst
<1> QED BY <1>1, <1>2

LEMMA BestIs ==
    ASSUME NEW C \in SUBSET SensorReading, NEW w \in C,
           \A x \in C \ {w} : Before(w, x)
    PROVE  Abstract!Best(C) = w
<1>1. \A a \in C : (\A b \in C \ {a} : Before(a, b)) => a = w
    BY Asymmetric
<1>2. Abstract!Best(C) = CHOOSE a \in C : \A b \in C \ {a} : Before(a, b)
    BY SameOrder DEF Abstract!Best
<1> QED BY <1>1, <1>2

-----------------------------------------------------------------------------
(* The steps.                                                              *)

Held == ToSet(items)
Lost == {Reading(d.sensor, d.cycle) : d \in dropped_log}

LEMMA HeldFacts ==
    ASSUME Inv
    PROVE  /\ items \in Seq(SensorReading) /\ Ordered(items)
           /\ Held \subseteq SensorReading
           /\ IsFiniteSet(Held) /\ Cardinality(Held) = Len(items)
           /\ Len(items) \in Nat /\ Len(items) <= Capacity /\ Capacity \in Nat
<1>1. items \in Seq(SensorReading) /\ Ordered(items) /\ Len(items) <= Capacity
    BY DEF Inv, TypeOK, BufferTypeOK, BestFirst, Ordered
<1>2. Held \subseteq SensorReading
    BY <1>1, ToSetFacts DEF Held
<1>3. IsFiniteSet(Held) /\ Cardinality(Held) = Len(items)
    BY <1>1, CardinalityOfQueue DEF Held
<1> QED BY <1>1, <1>2, <1>3, CapacityAssumption

\* What goes into the drop log is what was lost.
LEMMA LostMore ==
    ASSUME NEW w, w = Reading(w.sensor, w.cycle),
           dropped_log' = dropped_log \union {Sample(w)}
    PROVE  Lost' = Lost \union {w}
<1>1. Sample(w).sensor = w.sensor /\ Sample(w).cycle = w.cycle
    BY DEF Sample
<1>2. Lost' = Lost \union {Reading(Sample(w).sensor, Sample(w).cycle)}
    BY DEF Lost
<1> QED BY <1>1, <1>2

\* A push offers a reading.
LEMMA ProduceOffers ==
    ASSUME Inv, Plain, NEW s \in SensorType, Produce(s)
    PROVE  /\ Plain'
           /\ \E r \in {Reading(u, n) : u \in SensorType, n \in 1 .. MaxCycle} :
                Abstract!Offer(r)
<1> DEFINE r == Reading(s, cycle[s] + 1)
           C == Held \union {r}
<1>1. /\ r \in SensorReading /\ Newest(items, r)
      /\ items' \in Seq(SensorReading) /\ Ordered(items')
      /\ \/ Len(items') = Len(items) + 1 /\ Stored(r)
         \/ /\ Len(items) = Capacity /\ Len(items') = Capacity
            /\ \/ \E w \in ToSet(items) : Exchanged(w, r)
               \/ Refused(r)
    BY ProduceOutcomes
<1>2. r \in {Reading(u, n) : u \in SensorType, n \in 1 .. MaxCycle}
    <2>1. cycle[s] + 1 \in 1 .. MaxCycle
        BY MaxCycleAssumption DEF Inv, TypeOK, Produce
    <2> QED BY <2>1
<1>3. r.sensor = s /\ r.cycle = cycle[s] + 1 /\ r = Reading(r.sensor, r.cycle)
    BY DEF Reading
<1>4. taken' = taken /\ Inv'
    BY ProduceKeepsInv DEF Produce
<1> HIDE DEF r
<1>5. /\ Held \subseteq SensorReading /\ IsFiniteSet(Held)
      /\ Cardinality(Held) = Len(items) /\ Len(items) \in Nat
      /\ items \in Seq(SensorReading) /\ Capacity \in Nat
    BY HeldFacts
<1>6. Cardinality(Held') = Len(items') /\ Len(items') <= Capacity
    BY <1>4, <1>1, CardinalityOfQueue DEF Held, Inv, TypeOK, BufferTypeOK
<1>7. r \notin Held
    <2> SUFFICES ASSUME r \in Held PROVE FALSE
        OBVIOUS
    <2>1. PICK i \in 1 .. Len(items) : r = items[i]
        BY <1>5, ToSetFacts DEF Held
    <2>2. r.cycle < r.cycle /\ r.cycle \in Nat
        BY <1>1, <2>1 DEF Newest, SensorReading
    <2> QED BY <2>2
<1>8. C \subseteq SensorReading /\ Cardinality(C) = Len(items) + 1
    BY <1>1, <1>5, <1>7, FS_AddElement
<1>9. CASE Stored(r) /\ Len(items') = Len(items) + 1
    <2>1. Held' = C /\ Lost' = Lost
        BY <1>9 DEF Stored, Held, Lost
    <2>2. Cardinality(C) <= Capacity
        BY <1>6, <2>1
    <2>3. Abstract!Offer(r)
        BY <1>4, <2>1, <2>2, SameCardinality DEF Abstract!Offer, Held, Lost
    <2>4. Plain'
        BY <1>3, <2>1 DEF Plain, Held
    <2> QED BY <1>2, <2>3, <2>4
<1>10. ASSUME NEW w \in C, Len(items) = Capacity, w = Reading(w.sensor, w.cycle),
              Held' = C \ {w}, \A x \in C \ {w} : Before(x, w),
              dropped_log' = dropped_log \union {Sample(w)}
       PROVE  Abstract!Offer(r)
    <2>1. Abstract!Worst(C) = w
        BY <1>8, <1>10, WorstIs
    <2>2. ~ (Cardinality(C) <= Capacity)
        BY <1>5, <1>8, <1>10
    <2>3. Lost' = Lost \union {w}
        BY <1>10, LostMore
    <2> QED BY <1>4, <1>10, <2>1, <2>2, <2>3, SameCardinality DEF Abstract!Offer, Held, Lost
<1>11. ASSUME NEW w \in ToSet(items), Exchanged(w, r), Len(items) = Capacity
       PROVE  Plain' /\ Abstract!Offer(r)
    <2>1. w # r /\ w \in C /\ w = Reading(w.sensor, w.cycle)
        BY <1>7, <1>11 DEF Held, Plain
    <2>2. Held' = C \ {w} /\ \A x \in C \ {w} : Before(x, w)
        BY <1>11, <2>1 DEF Exchanged, Held
    <2>3. dropped_log' = dropped_log \union {Sample(w)}
        BY <1>11 DEF Exchanged
    <2>4. Plain'
        BY <1>3, <2>2 DEF Plain, Held
    <2>5. Abstract!Offer(r)
        BY <1>10, <1>11, <2>1, <2>2, <2>3
    <2> QED BY <2>4, <2>5
<1>12. CASE Refused(r) /\ Len(items) = Capacity
    <2>1. Held' = C \ {r} /\ \A x \in C \ {r} : Before(x, r)
        BY <1>7, <1>12 DEF Refused, Held
    <2>2. dropped_log' = dropped_log \union {Sample(r)}
        BY <1>12 DEF Refused
    <2>3. Abstract!Offer(r)
        BY <1>3, <1>10, <1>12, <2>1, <2>2
    <2>4. Plain'
        BY <1>12 DEF Refused, Plain
    <2> QED BY <1>2, <2>3, <2>4
<1> QED BY <1>1, <1>2, <1>9, <1>11, <1>12

\* A pop takes the best reading.
LEMMA ConsumeTakes ==
    ASSUME Inv, Plain, Consume
    PROVE  Plain' /\ Abstract!Take
<1> DEFINE h == Head(items)
<1>1. /\ items \in Seq(SensorReading) /\ items # <<>> /\ Ordered(items)
      /\ Held \subseteq SensorReading
    BY HeldFacts DEF Consume, Pop
<1>2. /\ items' = Tail(items) /\ taken' = Append(taken, h)
      /\ dropped_log' = dropped_log
    BY DEF Consume, Pop
<1>3. h = items[1] /\ 1 \in 1 .. Len(items) /\ h \in Held
    BY <1>1, EmptySeq, ToSetFacts DEF Held
<1>4. Held' = Held \ {h}
    <2>1. BufferTypeOK /\ Pop
        BY DEF Consume, Inv, TypeOK
    <2> QED BY <1>1, <2>1, PopFacts DEF Held
<1>5. \A x \in Held \ {h} : Before(h, x)
    <2>1. BufferTypeOK /\ Pop
        BY DEF Consume, Inv, TypeOK
    <2> QED BY <1>1, <2>1, PopFacts DEF Held
<1> HIDE DEF h
<1>6. Abstract!Best(Held) = h
    BY <1>1, <1>3, <1>5, BestIs
<1>7. Lost' = Lost
    BY <1>2 DEF Lost
<1>8. Plain'
    BY <1>4 DEF Plain, Held
<1>9. Abstract!Take
    BY <1>2, <1>3, <1>4, <1>6, <1>7 DEF Abstract!Take, Held, Lost
<1> QED BY <1>8, <1>9

\* Every behaviour of the buffer and its users is one of KeepBest.
THEOREM BufferKeepsTheBest == Spec => KeepsTheBest
<1>1. Init => Plain /\ Abstract!Init
    BY DEF Init, BufferInit, Plain, ToSet, Abstract!Init
<1>2. Inv /\ Plain /\ [Next]_vars => Plain' /\ [Abstract!Next]_(Abstract!vars)
    <2> SUFFICES ASSUME Inv, Plain, [Next]_vars
                 PROVE  Plain' /\ [Abstract!Next]_(Abstract!vars)
        OBVIOUS
    <2>1. CASE Consume
        BY <2>1, ConsumeTakes DEF Abstract!Next
    <2>2. ASSUME NEW s \in SensorType, Produce(s)
          PROVE  Plain' /\ Abstract!Next
        BY <2>2, ProduceOffers DEF Abstract!Next
    <2>3. CASE UNCHANGED vars
        BY <2>3 DEF vars, Plain, Abstract!vars
    <2> QED BY <2>1, <2>2, <2>3 DEF Next
<1> QED BY <1>1, <1>2, InvHolds, PTL DEF Spec, KeepsTheBest, Abstract!Spec
=============================================================================
