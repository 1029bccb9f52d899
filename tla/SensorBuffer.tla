---------------------------- MODULE SensorBuffer ----------------------------
(***************************************************************************)
(* buffer.rs: the bounded, priority-ordered buffer between the sensor      *)
(* threads and the downlink.  Every operation runs under one mutex, so     *)
(* each is one action here.  The users of the buffer (SharedBuffer,        *)
(* SensorAcquisition) extend this module and call Push and Pop.            *)
(***************************************************************************)
EXTENDS OcsTypes, SequencesExt, FiniteSets

CONSTANT Capacity     \* Inner::capacity; main.rs passes 32

\* With capacity 0 the first push would unwrap the tail of an empty queue.
ASSUME CapacityAssumption == Capacity \in Nat \ {0}

VARIABLES items,         \* VecDeque<SensorReading>, the front first
          dropped_log,   \* Vec<DroppedSample>; a set, reports only count it
          latency_log    \* Vec<InsertionLatency>; a set for the same reason

bufferVars == <<items, dropped_log, latency_log>>

DroppedSample == [sensor : SensorType, cycle : Nat \ {0}, buffer_len : Nat]
InsertionLatency == [sensor : SensorType, cycle : Nat \ {0}]

BufferInit == /\ items = <<>>
              /\ dropped_log = {}
              /\ latency_log = {}

PriorityOf(r) == Priority[r.sensor]

\* Mutant: a reading goes before the older ones of its sensor.
InsertPositionNewestFirst(q, r) ==
    CHOOSE k \in 1 .. Len(q) + 1 :
        /\ \A i \in 1 .. k - 1 : PriorityOf(q[i]) < PriorityOf(r)
        /\ k <= Len(q) => PriorityOf(q[k]) >= PriorityOf(r)

\* The index of the first item of q less important than r, or the index
\* after the last one when there is none.
InsertPosition(q, r) ==
    CHOOSE k \in 1 .. Len(q) + 1 :
        /\ \A i \in 1 .. k - 1 : PriorityOf(q[i]) <= PriorityOf(r)
        /\ k <= Len(q) => PriorityOf(q[k]) > PriorityOf(r)

\* Mutant: one more than fits.
FullTooLate == Len(items) > Capacity

Full == Len(items) >= Capacity

\* Mutant: a reading also outranks its equals.
OutranksEquals(r) == PriorityOf(r) <= PriorityOf(Last(items))

Outranks(r) == PriorityOf(r) < PriorityOf(Last(items))

\* Mutant: a push that evicts reports a drop.
AcceptsIntoRoom(r) == ~ Full

\* What push returns for r in the present state.
Accepts(r) == ~ Full \/ Outranks(r)

\* insert_sorted: store r in q and record its insertion latency.
InsertSorted(q, r) ==
    /\ items' = InsertAt(q, InsertPosition(q, r), r)
    /\ latency_log' = latency_log
                        \union {[sensor |-> r.sensor, cycle |-> r.cycle]}

LogDrop(r, len) ==
    dropped_log' = dropped_log \union {[sensor |-> r.sensor, cycle |-> r.cycle,
                                         buffer_len |-> len]}

\* There is room.
PushRoom(r) == /\ ~ Full
               /\ InsertSorted(items, r)
               /\ UNCHANGED dropped_log

\* Mutant: the eviction leaves no trace.
PushEvictUnlogged(r) == /\ Full
                        /\ Outranks(r)
                        /\ InsertSorted(Front(items), r)
                        /\ UNCHANGED dropped_log

\* Full, and r is more important than the tail: the tail is evicted.
PushEvict(r) == /\ Full
                /\ Outranks(r)
                /\ LogDrop(Last(items), Len(Front(items)) + 1)
                /\ InsertSorted(Front(items), r)

\* Full, and r is no more important than the tail: r is dropped.
PushDrop(r) == /\ Full
               /\ ~ Outranks(r)
               /\ LogDrop(r, Len(items))
               /\ UNCHANGED <<items, latency_log>>

\* try_insert.
Push(r) == PushRoom(r) \/ PushEvict(r) \/ PushDrop(r)

\* Mutant: the reading is taken from the wrong end.
PopBack == /\ items # <<>>
           /\ items' = Front(items)
           /\ UNCHANGED <<dropped_log, latency_log>>

\* pop on a buffer that holds something; on an empty one it changes nothing.
Pop == /\ items # <<>>
       /\ items' = Tail(items)
       /\ UNCHANGED <<dropped_log, latency_log>>

\* The order the buffer keeps: by importance of the sensor, and among the
\* readings of one sensor by age.
Before(a, b) == \/ PriorityOf(a) < PriorityOf(b)
                \/ a.sensor = b.sensor /\ a.cycle < b.cycle

\* What the buffer holds and what its two logs hold of one sensor.
CyclesOf(s, R) == {r.cycle : r \in {x \in R : x.sensor = s}}

Queued(s) == CyclesOf(s, ToSet(items))
Dropped(s) == CyclesOf(s, dropped_log)
Logged(s) == CyclesOf(s, latency_log)

TotalDropped == Cardinality(dropped_log)

BufferTypeOK == /\ items \in Seq(SensorReading)
                /\ Len(items) <= Capacity
                /\ dropped_log \subseteq DroppedSample
                /\ latency_log \subseteq InsertionLatency
=============================================================================
