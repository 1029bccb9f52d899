------------------------------- MODULE Metrics -------------------------------
(***************************************************************************)
(* metrics.rs: the running statistics of one sensor, as run_sensor of      *)
(* a1_sensor.rs feeds them.  A sensor's cycles are due one period after    *)
(* the other; each begins with some drift, and its reading is complete     *)
(* some time after that.  Times are in microseconds in the program.        *)
(***************************************************************************)
EXTENDS Integers, Sequences, FiniteSetsExt

CONSTANTS
    IdealPeriod,   \* ideal_period_us
    ReadTime,      \* the least time a read takes, 50
    ReadSpread,    \* how much longer it may take
    MaxFloat,      \* f64::MAX, the first value of min
    MaxSample,     \* bound: drifts and latencies considered
    MaxCycles      \* bound: cycles recorded

ASSUME MetricsAssumption ==
    /\ IdealPeriod \in Nat /\ ReadTime \in Nat /\ ReadSpread \in Nat
    /\ MaxSample \in Nat /\ MaxFloat \in Nat /\ MaxSample < MaxFloat
    /\ IdealPeriod + MaxSample + ReadSpread < MaxFloat
    /\ MaxCycles \in Nat

VARIABLES drift, latency, jitter,   \* the RunningStats of SensorMetrics
          total_cycles,
          last_read_us,             \* -1 for None
          next_scheduled,           \* a local of run_sensor
          drifts                    \* history: the drifts recorded

vars == <<drift, latency, jitter, total_cycles, last_read_us, next_scheduled, drifts>>

RunningStats == [count : Nat, sum : Nat, sum_sq : Nat, min : Nat, max : Nat]

NewStats == [count |-> 0, sum |-> 0, sum_sq |-> 0, min |-> MaxFloat, max |-> 0]

\* Mutant: a sample is a new least one or a new greatest one, never both.
RecordElse(s, v) ==
    [count |-> s.count + 1, sum |-> s.sum + v, sum_sq |-> s.sum_sq + v * v,
     min |-> IF v < s.min THEN v ELSE s.min,
     max |-> IF v >= s.min /\ v > s.max THEN v ELSE s.max]

\* Mutant: the sample is not squared.
RecordUnsquared(s, v) ==
    [count |-> s.count + 1, sum |-> s.sum + v, sum_sq |-> s.sum_sq + v,
     min |-> IF v < s.min THEN v ELSE s.min,
     max |-> IF v > s.max THEN v ELSE s.max]

Record(s, v) ==
    [count |-> s.count + 1, sum |-> s.sum + v, sum_sq |-> s.sum_sq + v * v,
     min |-> IF v < s.min THEN v ELSE s.min,
     max |-> IF v > s.max THEN v ELSE s.max]

Abs(n) == IF n < 0 THEN -n ELSE n

SaturatingSub(a, b) == IF a > b THEN a - b ELSE 0

Init == /\ drift = NewStats
        /\ latency = NewStats
        /\ jitter = NewStats
        /\ total_cycles = 0
        /\ last_read_us = -1
        /\ next_scheduled = 0
        /\ drifts = <<>>

\* Mutant: the time of the last read is set once.
RecordCycleFirstRead(d, l, read) ==
    /\ total_cycles' = total_cycles + 1
    /\ drift' = Record(drift, d)
    /\ latency' = Record(latency, l)
    /\ jitter' = IF last_read_us = -1 THEN jitter
                 ELSE Record(jitter, Abs(SaturatingSub(read, last_read_us) - IdealPeriod))
    /\ last_read_us' = IF last_read_us = -1 THEN read ELSE last_read_us

\* record_cycle: the jitter of the first cycle is not defined.
RecordCycle(d, l, read) ==
    /\ total_cycles' = total_cycles + 1
    /\ drift' = Record(drift, d)
    /\ latency' = Record(latency, l)
    /\ jitter' = IF last_read_us = -1 THEN jitter
                 ELSE Record(jitter, Abs(SaturatingSub(read, last_read_us) - IdealPeriod))
    /\ last_read_us' = read

\* One turn of run_sensor: due at next_scheduled, begun d late and not before
\* the last reading was complete, complete r after the least read time.
Cycle == /\ total_cycles < MaxCycles
         /\ \E d, l \in 0 .. MaxSample, r \in 0 .. ReadSpread :
              /\ next_scheduled + d >= last_read_us
              /\ RecordCycle(d, l, next_scheduled + d + ReadTime + r)
              /\ drifts' = Append(drifts, d)
         /\ next_scheduled' = next_scheduled + IdealPeriod

Spec == Init /\ [][Cycle]_vars
-----------------------------------------------------------------------------
\* Type correctness.
TypeOK == /\ drift \in RunningStats /\ latency \in RunningStats
          /\ jitter \in RunningStats
          /\ total_cycles \in Nat
          /\ last_read_us \in Nat \union {-1} /\ next_scheduled \in Nat
          /\ drifts \in Seq(0 .. MaxSample)

\* The mean, which is sum / count, lies between the least and the greatest
\* sample; and the variance, which is sum_sq / count less the square of the mean,
\* is never negative: the max(0.0) of stddev_us is needed for rounding only.
Sound(s) == s.count > 0 => /\ s.count * s.min <= s.sum
                           /\ s.sum <= s.count * s.max
                           /\ s.sum * s.sum <= s.count * s.sum_sq

StatsSound == Sound(drift) /\ Sound(latency) /\ Sound(jitter)

\* The running values are those of the list of all samples.
DriftMatchesSamples ==
    LET all == {drifts[i] : i \in 1 .. Len(drifts)}
    IN  /\ drift.count = Len(drifts)
        /\ drift.sum = MapThenSumSet(LAMBDA i : drifts[i], 1 .. Len(drifts))
        /\ drifts # <<>> => drift.min = Min(all) /\ drift.max = Max(all)

LastDrift == IF drifts = <<>> THEN 0 ELSE drifts[Len(drifts)]

\* The jitter reported of a sensor cannot be worse than its drift allows: no
\* interval is off by more than the greatest drift, and all intervals together by
\* no more than twice the drifts, whatever the stalls, apart from what the reads
\* themselves vary.  A sensor on time is within its jitter budget.
JitterFromDrift ==
    /\ total_cycles > 0 => jitter.count = total_cycles - 1
    /\ jitter.max <= drift.max + ReadSpread
    /\ jitter.sum + LastDrift <= 2 * drift.sum + jitter.count * ReadSpread
=============================================================================
