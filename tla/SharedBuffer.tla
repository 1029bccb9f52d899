---------------------------- MODULE SharedBuffer ----------------------------
(***************************************************************************)
(* The sensor buffer between its users: the three sensor threads, which    *)
(* push readings with growing cycle numbers in any interleaving, and the   *)
(* downlink thread, which pops.                                            *)
(***************************************************************************)
EXTENDS SensorBuffer

CONSTANT MaxCycle     \* bound: readings produced by each sensor

ASSUME MaxCycleAssumption == MaxCycle \in Nat

VARIABLES cycle,   \* run_sensor's cycle, per sensor thread
          taken    \* history: the readings popped, in order

vars == <<items, dropped_log, latency_log, cycle, taken>>

Reading(s, n) == [sensor |-> s, cycle |-> n, value |-> "number", drift |-> 0]

Init == /\ BufferInit
        /\ cycle = [s \in SensorType |-> 0]
        /\ taken = <<>>

\* A sensor thread: the next cycle's reading, pushed whether or not there
\* is room.
Produce(s) == /\ cycle[s] < MaxCycle
              /\ cycle' = [cycle EXCEPT ![s] = @ + 1]
              /\ Push(Reading(s, cycle[s] + 1))
              /\ UNCHANGED taken

\* The downlink thread.
Consume == /\ Pop
           /\ taken' = Append(taken, Head(items))
           /\ UNCHANGED cycle

Next == Consume \/ \E s \in SensorType : Produce(s)

Spec == Init /\ [][Next]_vars
-----------------------------------------------------------------------------
(* What is true of the buffer however its users interleave.                *)

\* Type correctness, and the queue never outgrows its capacity.
TypeOK == /\ BufferTypeOK
          /\ cycle \in [SensorType -> 0 .. MaxCycle]
          /\ taken \in Seq(SensorReading)

\* The queue is in that order, whatever the interleaving of pushes, evictions
\* and pops was: the consumer "always dequeues the highest-priority sample
\* first" (buffer.rs:9-10), and the readings of a sensor stay in order.
BestFirst == \A i, j \in 1 .. Len(items) : i < j => Before(items[i], items[j])

Taken(s) == CyclesOf(s, ToSet(taken))

\* No reading is lost without trace and none is in two places: the readings a
\* sensor produced are exactly those queued, delivered or in the drop log, and
\* what is dropped is neither queued nor delivered, nor is what is queued
\* delivered already.
EveryReadingAccounted ==
    \A s \in SensorType :
        /\ Queued(s) \union Taken(s) \union Dropped(s) = 1 .. cycle[s]
        /\ Queued(s) \intersect Taken(s) = {}
        /\ (Queued(s) \union Taken(s)) \intersect Dropped(s) = {}

\* The consumer sees the readings of each sensor in the order they were taken,
\* with gaps where readings were dropped.
DeliveredInOrder ==
    \A i, j \in 1 .. Len(taken) :
        i < j /\ taken[i].sensor = taken[j].sensor
          => taken[i].cycle < taken[j].cycle

\* What is delivered of a sensor is older than what is still queued of it.
OldestFirst ==
    \A x \in ToSet(taken), y \in ToSet(items) :
        x.sensor = y.sensor => x.cycle < y.cycle

\* The latency log holds every reading that was ever accepted and no other: the
\* ones queued or delivered, and of the dropped ones those that were evicted,
\* which a Thermal reading never is.
LatencyOfAcceptedOnly ==
    /\ \A s \in SensorType :
          Queued(s) \union Taken(s) = Logged(s) \ Dropped(s)
    /\ Dropped("Thermal") \intersect Logged("Thermal") = {}

\* Together these are inductive.
Inv == /\ TypeOK /\ BestFirst /\ DeliveredInOrder /\ OldestFirst
       /\ EveryReadingAccounted /\ LatencyOfAcceptedOnly

\* A step gives up a reading only when the buffer is full before and after it,
\* and then everything kept comes before what is given up: a reading is never
\* sacrificed for a less important one, nor a sensor's older reading for its
\* newer one.
NoPriorityInversion ==
    [][\A d \in dropped_log' \ dropped_log :
         /\ Len(items) = Capacity /\ Len(items') = Capacity
         /\ d.buffer_len = Capacity
         /\ \A i \in 1 .. Len(items') : Before(items'[i], d)]_vars

\* The buffer does what KeepBest says, the drop log standing for the set of
\* the readings given up.
Abstract == INSTANCE KeepBest WITH
              Readings <- {Reading(s, n) : s \in SensorType, n \in 1 .. MaxCycle},
              held <- ToSet(items),
              lost <- {Reading(d.sensor, d.cycle) : d \in dropped_log}

KeepsTheBest == Abstract!Spec
=============================================================================
