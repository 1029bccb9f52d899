------------------------- MODULE SensorAcquisition -------------------------
(***************************************************************************)
(* a1_sensor.rs: the three sensor threads, with the buffer they fill, the  *)
(* faults they suffer (a4_benchmark.rs) and the counters of metrics.rs.    *)
(*                                                                         *)
(* Time advances by Tick, one unit of 50 ms.  Between any two steps of a   *)
(* thread the others may run, and time may pass, except that the threads   *)
(* in Prompt are given the processor as soon as they are ready: then time  *)
(* stands still until they all wait.                                       *)
(***************************************************************************)
EXTENDS SensorBuffer, FaultInjector

CONSTANTS Sensors,  \* the sensor threads spawned; all three in the program
          Prompt,   \* threads that are never kept from the processor
          Overrun   \* bound: time units modelled after the deadline

Threads == SensorType \union {"injector", "downlink"}

ASSUME AcquisitionAssumption == /\ Sensors \subseteq SensorType
                                /\ Prompt \subseteq Threads
                                /\ Overrun \in Nat

VARIABLES sensor,      \* the locals of run_sensor, per sensor thread
          metrics,     \* SensorMetrics, per sensor
          delivered    \* history: the readings the downlink popped

vars == <<bufferVars, faultVars, injector, now, sensor, metrics, delivered>>

NoReading(s) == [sensor |-> s, cycle |-> 1, value |-> "number", drift |-> 0]

Init ==
    /\ BufferInit
    /\ FaultInit
    /\ now = 0
    /\ sensor = [s \in SensorType |->
                   [pc |-> IF s \in Sensors THEN "start" ELSE "done",
                    cycle |-> 0, scheduled |-> 0, wake |-> 0, miss |-> 0,
                    reading |-> NoReading(s)]]
    /\ metrics = [s \in SensorType |->
                    [cycles |-> 0, dropped |-> 0, alerts |-> 0, drift_sum |-> 0]]
    /\ delivered = {}

At(s, label) == sensor[s].pc = label

\* The deadline was fixed when the thread was spawned, at time 0.
SensorDeadline == RunDuration

-----------------------------------------------------------------------------
StartSensor(s) ==
    /\ At(s, "start")
    /\ sensor' = [sensor EXCEPT ![s].pc = "top", ![s].scheduled = now]
    /\ UNCHANGED <<faultVars, bufferVars, metrics>>

\* Mutant: a cycle begins at the deadline.
BeginCycleAtDeadline(s) ==
    /\ At(s, "top")
    /\ sensor' = IF now > SensorDeadline
                 THEN [sensor EXCEPT ![s].pc = "done"]
                 ELSE [sensor EXCEPT ![s].pc = "delay", ![s].cycle = @ + 1]
    /\ UNCHANGED <<faultVars, bufferVars, metrics>>

\* The head of the loop.
BeginCycle(s) ==
    /\ At(s, "top")
    /\ sensor' = IF now >= SensorDeadline
                 THEN [sensor EXCEPT ![s].pc = "done"]
                 ELSE [sensor EXCEPT ![s].pc = "delay", ![s].cycle = @ + 1]
    /\ UNCHANGED <<faultVars, bufferVars, metrics>>

\* Mutant: the stall begins at the time the reading is due.
SufferDelayWhenDue(s) ==
    /\ At(s, "delay")
    /\ s \in delay_flags
    /\ TakeDelay(s)
    /\ sensor' = [sensor EXCEPT ![s].pc = "stalled",
                                ![s].wake = sensor[s].scheduled + Stall]
    /\ UNCHANGED <<bufferVars, metrics>>

\* apply_delay_fault: take the flag, if it is up, and stall ...
SufferDelay(s) ==
    /\ At(s, "delay")
    /\ s \in delay_flags
    /\ TakeDelay(s)
    /\ sensor' = [sensor EXCEPT ![s].pc = "stalled", ![s].wake = now + Stall]
    /\ UNCHANGED <<bufferVars, metrics>>

NoDelay(s) ==
    /\ At(s, "delay")
    /\ s \notin delay_flags
    /\ sensor' = [sensor EXCEPT ![s].pc = "sleep"]
    /\ UNCHANGED <<faultVars, bufferVars, metrics>>

\* ... then record the recovery.
EndStall(s) ==
    /\ At(s, "stalled")
    /\ now >= sensor[s].wake
    /\ Recover(s, "DelayedSensor")
    /\ sensor' = [sensor EXCEPT ![s].pc = "sleep", ![s].wake = 0]
    /\ UNCHANGED <<bufferVars, metrics>>

\* precise_sleep_until(scheduled_at) is over, or had nothing to wait for; the
\* 50 microseconds of the read are below the clock's resolution.
Read(s) ==
    /\ At(s, "sleep")
    /\ now >= sensor[s].scheduled
    /\ sensor' = [sensor EXCEPT
         ![s].pc = "corrupt",
         ![s].reading = [sensor |-> s, cycle |-> sensor[s].cycle,
                         value |-> "number",
                         drift |-> now - sensor[s].scheduled]]
    /\ UNCHANGED <<faultVars, bufferVars, metrics>>

\* apply_corrupt_fault: take the flag, if it is up, ...
SufferCorruption(s) ==
    /\ At(s, "corrupt")
    /\ s \in corrupt_flags
    /\ TakeCorrupt(s)
    /\ sensor' = [sensor EXCEPT ![s].pc = "corrupted"]
    /\ UNCHANGED <<bufferVars, metrics>>

NoCorruption(s) ==
    /\ At(s, "corrupt")
    /\ s \notin corrupt_flags
    /\ sensor' = [sensor EXCEPT ![s].pc = "push"]
    /\ UNCHANGED <<faultVars, bufferVars, metrics>>

\* ... record the recovery and make the reading a NaN.
EndCorruption(s) ==
    /\ At(s, "corrupted")
    /\ Recover(s, "CorruptedData")
    /\ sensor' = [sensor EXCEPT ![s].pc = "push", ![s].reading.value = "nan"]
    /\ UNCHANGED <<bufferVars, metrics>>

\* Mutant: the third miss raises the alert.
RaisesAlertEarly(s) == IsCritical(s) /\ sensor[s].miss + 1 >= MissThreshold

RaisesAlert(s) == IsCritical(s) /\ sensor[s].miss + 1 > MissThreshold

\* Push the reading, count the cycle, and the miss if it was refused; after
\* four misses in a row of a critical sensor raise a safety alert.  Nobody
\* reads the counters before this thread has ended.
PushReading(s) ==
    /\ At(s, "push")
    /\ LET r == sensor[s].reading
           refused == IF Accepts(r) THEN 0 ELSE 1
           alert == IF ~ Accepts(r) /\ RaisesAlert(s) THEN 1 ELSE 0
       IN  /\ Push(r)
           /\ metrics' = [metrics EXCEPT ![s].cycles = @ + 1,
                                         ![s].drift_sum = @ + r.drift,
                                         ![s].dropped = @ + refused,
                                         ![s].alerts = @ + alert]
           /\ sensor' = [sensor EXCEPT
                ![s].pc = "top",
                ![s].miss = IF refused = 0 \/ alert = 1 THEN 0 ELSE @ + 1,
                ![s].scheduled = @ + Period[s],
                ![s].reading = NoReading(s)]
    /\ UNCHANGED faultVars

SensorStep(s) ==
    \/ StartSensor(s)
    \/ BeginCycle(s)
    \/ SufferDelay(s)
    \/ NoDelay(s)
    \/ EndStall(s)
    \/ Read(s)
    \/ SufferCorruption(s)
    \/ NoCorruption(s)
    \/ EndCorruption(s)
    \/ PushReading(s)

SensorReady(s) == /\ ~ At(s, "done")
                  /\ At(s, "stalled") => now >= sensor[s].wake
                  /\ At(s, "sleep") => now >= sensor[s].scheduled

-----------------------------------------------------------------------------
\* The downlink thread takes a reading out of the buffer.
Drain == /\ Pop
         /\ delivered' = delivered \union {Head(items)}
         /\ UNCHANGED <<faultVars, injector, now, sensor, metrics>>

Busy(t) == CASE t \in SensorType  -> SensorReady(t)
             [] t = "injector"    -> InjectorReady
             [] t = "downlink"    -> items # <<>>

Running == ~ InjectorAt("done") \/ \E s \in SensorType : ~ At(s, "done")

\* Time passes, as long as some thread has not ended.
Tick == /\ Running
        /\ now < RunDuration + Overrun
        /\ \A t \in Prompt : ~ Busy(t)
        /\ now' = now + 1
        /\ UNCHANGED <<bufferVars, faultVars, injector, sensor, metrics,
                       delivered>>

Sensor(s) == SensorStep(s) /\ UNCHANGED <<injector, now, delivered>>

Injector == InjectorStep /\ UNCHANGED <<bufferVars, now, sensor, metrics, delivered>>

Next == Tick \/ Drain \/ Injector \/ \E s \in SensorType : Sensor(s)

Spec == Init /\ [][Next]_vars

-----------------------------------------------------------------------------
\* Type correctness.
TypeOK ==
    /\ BufferTypeOK
    /\ FaultTypeOK
    /\ \A s \in SensorType :
         /\ sensor[s].pc \in {"start", "top", "delay", "stalled", "sleep",
                              "corrupt", "corrupted", "push", "done"}
         /\ sensor[s].cycle \in Nat /\ sensor[s].scheduled \in Nat
         /\ sensor[s].wake \in Nat /\ sensor[s].miss \in Nat
         /\ IsCritical(s) => sensor[s].miss <= MissThreshold
         /\ sensor[s].reading \in SensorReading
    /\ metrics \in [SensorType -> [cycles : Nat, dropped : Nat, alerts : Nat,
                                    drift_sum : Nat]]
    /\ delivered \subseteq SensorReading

\* How many cycles in a row, up to n, lost their reading.
MissesUpTo(s, n) == Cardinality({m \in 1 .. n : m .. n \subseteq Dropped(s)})

\* A safety alert is raised for every fourth reading in a row that Thermal
\* loses, wherever the row starts, and for nothing else ("fires if critical
\* sensor misses >3 consecutive cycles"): the thread's running count of misses
\* agrees with the buffer's own record of what it dropped.
AlertsMatchLosses ==
    \A s \in SensorType :
        metrics[s].alerts =
          IF IsCritical(s)
          THEN Cardinality({n \in Dropped(s) :
                              MissesUpTo(s, n) % (MissThreshold + 1) = 0})
          ELSE 0

\* The counters of metrics.rs and the logs of buffer.rs, kept by different
\* parties, tell one story: a cycle counted is a reading delivered, queued or
\* dropped, and the buffer's drops are those the sensors counted as misses plus
\* the evictions, which no sensor hears of.
CountersMatchLogs ==
    \A s \in SensorType :
        /\ metrics[s].cycles =
             Cardinality(Dropped(s))
               + Cardinality({i \in 1 .. Len(items) : items[i].sensor = s})
               + Cardinality({r \in delivered : r.sensor = s})
        /\ metrics[s].dropped = Cardinality(Dropped(s) \ Logged(s))

Recovered == {i \in 1 .. Len(fault_log) : fault_log[i].recovered}

\* The mission counts as aborted exactly when some fault took longer than the
\* recovery deadline, and a stalled sensor is never reported recovered before
\* the stall can have ended.
AbortIffSlow ==
    /\ mission_aborted =
         \E i \in Recovered : fault_log[i].recovery_ms > RecoveryDeadline
    /\ \A i \in 1 .. Len(fault_log) :
         fault_log[i].aborted => i \in Recovered
    /\ \A i \in Recovered :
         fault_log[i].fault_type = "DelayedSensor"
           => fault_log[i].recovery_ms >= Stall

\* A fault, once recovered, keeps the recovery time it was given; the log only
\* grows at its end.
RecoveryIsFinal ==
    [][\A i \in 1 .. Len(fault_log) :
         IF fault_log[i].recovered
         THEN fault_log'[i] = fault_log[i]
         ELSE fault_log'[i].id = fault_log[i].id]_vars

\* With every thread prompt, a fault is recovered within one period of its
\* sensor and, for a delay fault, the stall itself.
RecoveryBound ==
    \A i \in Recovered :
        fault_log[i].recovery_ms <=
          Period[fault_log[i].target]
            + IF fault_log[i].fault_type = "DelayedSensor" THEN Stall ELSE 0

AllReadings == {items[i] : i \in 1 .. Len(items)} \union delivered

\* Corruption lasts one cycle (a4_benchmark.rs:416): a sensor has emitted, or is
\* about to, exactly one NaN for every corruption fault it has taken.  (Of a NaN the
\* buffer dropped, nothing is left to count.)
OneNanPerFault ==
    \A s \in SensorType :
        LET raised == {i \in 1 .. Len(fault_log) :
                         /\ fault_log[i].target = s
                         /\ fault_log[i].fault_type = "CorruptedData"}
            inHand == IF At(s, "corrupted") \/ (At(s, "push")
                           /\ sensor[s].reading.value = "nan") THEN 1 ELSE 0
            up == IF s \in corrupt_flags THEN 1 ELSE 0
            unlogged == IF /\ InjectorAt("log")
                           /\ injector.event.target = s
                           /\ injector.event.fault_type = "CorruptedData"
                        THEN 1 ELSE 0
            nans == Cardinality({r \in AllReadings : r.sensor = s /\ r.value = "nan"})
                      + inHand + up
        IN  /\ nans <= Cardinality(raised) + unlogged
            /\ Dropped(s) = {} => nans = Cardinality(raised) + unlogged

\* With every thread prompt only a Thermal reading is ever late, by one unit, and
\* each delay fault costs Thermal one late reading: the lateness does not
\* accumulate from cycle to cycle.
StallDelaysOneReading ==
    \A s \in SensorType :
        metrics[s].drift_sum <=
          IF Stall <= Period[s] THEN 0
          ELSE (Stall - Period[s])
                 * Cardinality({i \in 1 .. Len(fault_log) :
                                  /\ fault_log[i].target = s
                                  /\ fault_log[i].fault_type = "DelayedSensor"})

\* With every thread prompt no sampling period goes by without a reading: the
\* sensor thread ends after one reading per period and the one begun just
\* before the deadline.
SampledEveryPeriod ==
    \A s \in Sensors :
        At(s, "done") => sensor[s].cycle = RunDuration \div Period[s] + 1

-----------------------------------------------------------------------------
(* What comments of the code say and the code does not do.                 *)

\* A fault whose flag the sensor has taken, and whose hook has run, is recorded as
\* recovered: "corruption lasts exactly one cycle" and recovery is scheduled
\* immediately (a4_benchmark.rs:416).
TakenFaultIsRecovered ==
    \A i \in (1 .. Len(fault_log)) \ Recovered :
        LET s == fault_log[i].target IN
        \/ s \in delay_flags \union corrupt_flags
        \/ At(s, "stalled") \/ At(s, "corrupted")

\* A 150 ms delay is "inside the 200ms recovery window" (a4_benchmark.rs:340).
StallWithinRecoveryWindow ==
    \A i \in 1 .. Len(fault_log) :
        fault_log[i].fault_type = "DelayedSensor" => ~ fault_log[i].aborted
=============================================================================
